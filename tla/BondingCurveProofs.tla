------------------------- MODULE BondingCurveProofs -------------------------
(***************************************************************************)
(* The curve for every seed, fee, supply and amount: its quotes, its type, *)
(* that its books are backed, and that what it sold can be sold back.      *)
(***************************************************************************)
EXTENDS BondingCurve, TLAPS

(* What rounding up means: the quotient is the least that covers a.        *)
LEMMA CeilDivBounds ==
    ASSUME NEW a \in Nat, NEW b \in Nat \ {0}
    PROVE  /\ CeilDiv(a, b) \in Nat
           /\ CeilDiv(a, b) * b >= a
           /\ (CeilDiv(a, b) - 1) * b < a
<1> DEFINE n == a + b - 1
<1>1. n \in Nat
  OBVIOUS
<1>2. n = b * (n \div b) + (n % b) /\ n % b \in 0 .. (b - 1) /\ n \div b \in Int
  BY <1>1, SMT
<1>3. QED
  BY <1>2, SMT DEF CeilDiv

(* A swap of d on a side of x leaves between 1 and all of the y on the     *)
(* other side, and never a smaller product.                                *)
LEMMA SwapKeepsProduct ==
    ASSUME NEW x \in Nat \ {0}, NEW y \in Nat \ {0}, NEW d \in Nat
    PROVE  /\ CeilDiv(x * y, x + d) \in 1 .. y
           /\ CeilDiv(x * y, x + d) * (x + d) >= x * y
<1> DEFINE q == CeilDiv(x * y, x + d)
<1>1. x * y \in Nat \ {0} /\ x + d \in Nat \ {0} /\ y * x = x * y
  BY SMT
<1>2. q \in Nat /\ q * (x + d) >= x * y /\ (q - 1) * (x + d) < x * y
  BY <1>1, CeilDivBounds
<1> HIDE DEF q
<1>3. q # 0
  BY <1>1, <1>2, SMT
<1>4. q <= y
  <2>1. SUFFICES ASSUME q - 1 >= y PROVE FALSE
    BY <1>2, SMT
  <2>2. (q - 1) * (x + d) >= y * (x + d)
    BY <2>1, <1>1, <1>2, SMT
  <2>3. y * (x + d) >= x * y
    BY SMT
  <2>4. (q - 1) * (x + d) \in Int /\ y * (x + d) \in Int /\ x * y \in Int
    BY <1>2, SMT
  <2> QED
    BY <1>2, <2>2, <2>3, <2>4, SMT
<1>5. QED
  BY <1>2, <1>3, <1>4, SMT DEF q

(* A quotient that covers a product covers the factor.                     *)
LEMMA CancelFactor ==
    ASSUME NEW r \in Int, NEW v \in Int, NEW p \in Nat \ {0}, r * p >= v * p
    PROVE  r >= v
BY SMT

(* Buying with d and selling at once what it bought returns at most d, for *)
(* every state of the books, even at no fee.                               *)
THEOREM RoundTripNeverProfits ==
    ASSUME NEW x \in Nat \ {0}, NEW y \in Nat \ {0}, NEW d \in Nat
    PROVE  LET out == buy_output(x, y, d) IN sell_output(x + d, y - out, out) <= d
<1> DEFINE q == CeilDiv(x * y, x + d)
           r == CeilDiv((x + d) * q, y)
<1>1. q \in 1 .. y /\ q * (x + d) >= x * y
  BY SwapKeepsProduct
<1>2. r \in Nat /\ r * y >= (x + d) * q
  <2> HIDE DEF q
  <2>1. (x + d) * q \in Nat
    BY <1>1, SMT
  <2> QED
    BY <2>1, CeilDivBounds
<1>3. r >= x
  <2> HIDE DEF q, r
  <2>1. (x + d) * q \in Int /\ q * (x + d) = (x + d) * q /\ x * y \in Int /\ r * y \in Int
    BY <1>1, <1>2, SMT
  <2>2. r * y >= x * y
    BY <1>1, <1>2, <2>1, SMT
  <2> QED
    BY <1>2, <2>2, CancelFactor
<1>4. buy_output(x, y, d) = y - q
  BY DEF buy_output
<1>5. sell_output(x + d, y - (y - q), y - q) = (x + d) - r
  <2> HIDE DEF q
  <2>1. ASSUME NEW p, NEW o, p = q, p + o = y
        PROVE  sell_output(x + d, p, o) = (x + d) - r
    <3>1. sell_output(x + d, p, o) = (x + d) - CeilDiv((x + d) * p, p + o)
      BY DEF sell_output
    <3>2. (x + d) * p = (x + d) * q
      BY <2>1
    <3>3. CeilDiv((x + d) * p, p + o) = CeilDiv((x + d) * q, y)
      BY <2>1, <3>2
    <3> QED
      BY <3>1, <3>3 DEF r
  <2>2. y - (y - q) = q /\ q + (y - q) = y /\ y - q \in Nat /\ q \in Nat
    BY <1>1, SMT
  <2> QED
    BY <2>1, <2>2
<1> HIDE DEF q, r
<1>6. (x + d) - r <= d
  BY <1>2, <1>3, SMT
<1>7. QED
  BY <1>4, <1>5, <1>6

(* A fee is a part of its amount, and so is each half of it.               *)
LEMMA FeeBounds ==
    ASSUME NEW amount \in Nat
    PROVE  /\ fee_amount(amount) \in 0 .. amount
           /\ FeeParts(fee_amount(amount)) \subseteq Nat
<1>1. amount * FeeBps \in Nat /\ amount * FeeBps <= amount * 10000
  BY CurveAssumption, SMT
<1>2. (amount * FeeBps) \div 10000 \in 0 .. amount
  BY <1>1, SMT
<1>3. fee_amount(amount) \in 0 .. amount
  BY <1>2 DEF fee_amount
<1>4. \A fee \in Nat : fee \div 2 \in Nat /\ fee - fee \div 2 \in Nat
  BY SMT
<1>5. QED
  BY <1>3, <1>4, SMT DEF FeeParts

----------------------------------------------------------------------------
(* What an open curve's books always satisfy: both sides are positive, and *)
(* the product has not fallen below the one the curve was created with.    *)
OpenBooks ==
    /\ curve.virtual_sol > 0 /\ curve.firma_reserve > 0 /\ planned > 0
    /\ Product >= curve.virtual_sol * planned
CurveInv ==
    /\ CurveTypeOK
    /\ CurveIsSolvent
    /\ NotGraduated => OpenBooks
    /\ ~ curve.exists \/ ~ launch.distributed => launch.to_curve = 0

(* The invariant implies that what the curve sold can be sold back.        *)
LEMMA InvImpliesExit ==
    CurveInv => HoldersCanExit
<1> SUFFICES ASSUME CurveInv, NotGraduated, curve.firma_reserve <= planned
             PROVE  sell_output(effective_sol, curve.firma_reserve,
                                planned - curve.firma_reserve) <= curve.real_sol
  BY DEF HoldersCanExit
<1> DEFINE x == effective_sol
           y == curve.firma_reserve
           r == CeilDiv(x * y, planned)
<1>1. /\ x \in Nat /\ y \in Nat \ {0} /\ planned \in Nat \ {0}
      /\ curve.virtual_sol \in Nat /\ curve.real_sol \in Nat
      /\ x * y >= curve.virtual_sol * planned
  BY SMT DEF CurveInv, CurveTypeOK, CurveType, OpenBooks, Product, effective_sol
<1>2. y + (planned - y) = planned
  BY <1>1, SMT
<1>3. sell_output(x, y, planned - y) = x - r
  BY <1>2 DEF sell_output
<1>4. r \in Nat /\ r * planned >= x * y
  <2>1. x * y \in Nat
    BY <1>1, SMT
  <2> QED
    BY <1>1, <2>1, CeilDivBounds
<1>5. r >= curve.virtual_sol
  <2> HIDE DEF x, y, r
  <2>1. r * planned >= curve.virtual_sol * planned
    <3>1. r * planned \in Int /\ x * y \in Int /\ curve.virtual_sol * planned \in Int
      BY <1>1, <1>4, SMT
    <3> QED
      BY <3>1, <1>1, <1>4, SMT
  <2> QED
    BY <1>1, <1>4, <2>1, CancelFactor
<1>6. x - r <= curve.real_sol
  BY <1>1, <1>4, <1>5, SMT DEF effective_sol
<1> QED
  BY <1>3, <1>6

(* What a purchase does to the books, in plain values.                     *)
LEMMA BuyEffect ==
    ASSUME CurveInv, NEW sol_in \in Nat, NEW least \in Nat, Buy(sol_in, least)
    PROVE  /\ NotGraduated /\ NotGraduated'
           /\ curve' \in CurveType /\ solVault' \in Nat /\ firmaVault' \in Nat /\ outside' \in Nat
           /\ curve'.virtual_sol = curve.virtual_sol /\ curve'.firma_reserve > 0
           /\ UNCHANGED <<launch, planned>>
           /\ solVault' - solVault >= curve'.real_sol - curve.real_sol
           /\ firmaVault' - firmaVault >= curve'.firma_reserve - curve.firma_reserve
           /\ Product' >= Product
<1> DEFINE net == NetOf(sol_in)
           x == effective_sol
           y == curve.firma_reserve
           q == CeilDiv(x * y, x + net)
<1>1. /\ x \in Nat \ {0} /\ y \in Nat \ {0} /\ curve \in CurveType /\ NotGraduated
      /\ solVault \in Nat /\ firmaVault \in Nat /\ outside \in Nat
      /\ curve.real_sol \in Nat /\ curve.virtual_sol \in Nat
  BY SMT DEF Buy, CurveInv, CurveTypeOK, CurveType, OpenBooks, effective_sol
<1>2. fee_amount(sol_in) \in 0 .. sol_in
  BY FeeBounds
<1>3. net \in Nat /\ sol_in - net = fee_amount(sol_in)
  BY <1>2, SMT DEF NetOf
<1>4. q \in 1 .. y /\ q * (x + net) >= x * y
  <2> HIDE DEF x, y, net
  <2> QED
    BY <1>1, <1>3, SwapKeepsProduct DEF q
<1>5. PICK back \in Returned(FeeParts(sol_in - net)), kept \in Returned({y - q}) :
        /\ solVault' = solVault + net + back
        /\ firmaVault' = firmaVault - (y - q) + kept
        /\ outside' = outside + (y - q) - kept
        /\ y - q <= firmaVault
        /\ curve' = [curve EXCEPT !.real_sol = curve.real_sol + net,
                                  !.firma_reserve = y - (y - q)]
        /\ UNCHANGED <<launch, planned>>
  <2>1. /\ \E back \in Returned(FeeParts(sol_in - net)) : solVault' = solVault + net + back
        /\ \E kept \in Returned({y - q}) : /\ firmaVault' = firmaVault - (y - q) + kept
                                          /\ outside' = outside + (y - q) - kept
        /\ y - q <= firmaVault
        /\ UNCHANGED <<launch, planned>>
    BY DEF Buy, buy_output
  <2>2. curve' = [curve EXCEPT !.real_sol = curve.real_sol + net, !.firma_reserve = y - (y - q)]
    BY DEF Buy, buy_output, Credited
  <2> QED
    BY <2>1, <2>2
<1>6. back \in Nat /\ kept \in {0, y - q}
  BY <1>3, <1>5, FeeBounds DEF Returned
<1> HIDE DEF net, x, y, q
<1>7. y - (y - q) = q /\ q \in Nat /\ y - q \in Nat /\ q <= y
  BY <1>1, <1>4, SMT
<1>8. curve' = [curve EXCEPT !.real_sol = curve.real_sol + net, !.firma_reserve = q]
  BY <1>5, <1>7
<1>9. curve.real_sol + net \in Nat
  BY <1>1, <1>3, SMT
<1>10. /\ curve' \in CurveType /\ curve'.virtual_sol = curve.virtual_sol
       /\ curve'.real_sol = curve.real_sol + net /\ curve'.firma_reserve = q
       /\ curve'.exists = curve.exists /\ curve'.graduated = curve.graduated
  BY <1>1, <1>7, <1>8, <1>9 DEF CurveType
<1>11. Product' >= Product
  <2>1. effective_sol' = x + net
    BY <1>1, <1>3, <1>10, SMT DEF effective_sol, x
  <2>2. Product' = (x + net) * q /\ Product = x * y
    BY <2>1, <1>10 DEF Product, x, y
  <2>3. (x + net) * q = q * (x + net)
    BY <1>1, <1>3, <1>7, SMT
  <2> QED
    BY <2>2, <2>3, <1>4
<1>12. /\ solVault' \in Nat /\ solVault' - solVault >= net
       /\ firmaVault' \in Nat /\ firmaVault' - firmaVault >= q - y
       /\ outside' \in Nat
  BY <1>1, <1>3, <1>5, <1>6, <1>7, SMT
<1>13. curve'.real_sol - curve.real_sol = net
  BY <1>1, <1>3, <1>10, SMT
<1> QED
  BY <1>1, <1>4, <1>5, <1>10, <1>11, <1>12, <1>13, SMT DEF NotGraduated, y

(* What a sale does to the books, in plain values.                         *)
LEMMA SellEffect ==
    ASSUME CurveInv, NEW firma_in \in Nat, NEW least \in Nat, Sell(firma_in, least)
    PROVE  /\ NotGraduated /\ NotGraduated'
           /\ curve' \in CurveType /\ solVault' \in Nat /\ firmaVault' \in Nat /\ outside' \in Nat
           /\ curve'.virtual_sol = curve.virtual_sol /\ curve'.firma_reserve > 0
           /\ UNCHANGED <<launch, planned>>
           /\ solVault' - solVault >= curve'.real_sol - curve.real_sol
           /\ firmaVault' - firmaVault >= curve'.firma_reserve - curve.firma_reserve
           /\ Product' >= Product
<1> DEFINE x == effective_sol
           y == curve.firma_reserve
           r == CeilDiv(x * y, y + firma_in)
           gross == x - r
<1>1. /\ x \in Nat \ {0} /\ y \in Nat \ {0} /\ curve \in CurveType /\ NotGraduated
      /\ solVault \in Nat /\ firmaVault \in Nat /\ outside \in Nat
      /\ curve.real_sol \in Nat /\ curve.virtual_sol \in Nat
  BY SMT DEF Sell, CurveInv, CurveTypeOK, CurveType, OpenBooks, effective_sol
<1>2. r \in 1 .. x /\ r * (y + firma_in) >= x * y
  <2>1. CeilDiv(y * x, y + firma_in) \in 1 .. x
        /\ CeilDiv(y * x, y + firma_in) * (y + firma_in) >= y * x
    BY <1>1, SwapKeepsProduct
  <2>2. y * x = x * y
    BY <1>1, SMT
  <2> QED
    BY <2>1, <2>2
<1>3. gross \in Nat /\ x - gross = r
  BY <1>1, <1>2, SMT
<1>4. PICK back \in Returned(FeeParts(fee_amount(gross))),
           paid \in Returned({gross - fee_amount(gross)}) :
        /\ solVault' = solVault - gross + back + paid
        /\ firmaVault' = firmaVault + firma_in
        /\ outside' = outside - firma_in
        /\ firma_in <= outside /\ gross <= solVault /\ gross <= curve.real_sol
        /\ curve' = [curve EXCEPT !.real_sol = curve.real_sol - gross,
                                  !.firma_reserve = y + firma_in]
        /\ UNCHANGED <<launch, planned>>
  BY DEF Sell, sell_output, Drawable
<1>5. back \in Nat /\ paid \in Nat
  <2>1. fee_amount(gross) \in 0 .. gross /\ FeeParts(fee_amount(gross)) \subseteq Nat
    BY <1>3, FeeBounds
  <2>2. gross - fee_amount(gross) \in Nat
    BY <1>3, <2>1, SMT
  <2> QED
    BY <1>4, <2>1, <2>2 DEF Returned
<1> HIDE DEF x, y, r, gross
<1>6. curve.real_sol - gross \in Nat /\ y + firma_in \in Nat \ {0}
  BY <1>1, <1>3, <1>4, SMT
<1>7. /\ curve' \in CurveType /\ curve'.virtual_sol = curve.virtual_sol
      /\ curve'.real_sol = curve.real_sol - gross /\ curve'.firma_reserve = y + firma_in
      /\ curve'.exists = curve.exists /\ curve'.graduated = curve.graduated
  BY <1>1, <1>4, <1>6 DEF CurveType
<1>8. Product' >= Product
  <2>1. effective_sol' = r
    BY <1>1, <1>2, <1>3, <1>7, SMT DEF effective_sol, x
  <2>2. Product' = r * (y + firma_in) /\ Product = x * y
    BY <2>1, <1>7 DEF Product, x, y
  <2> QED
    BY <2>2, <1>2
<1>9. /\ solVault' \in Nat /\ solVault' - solVault >= 0 - gross
      /\ firmaVault' \in Nat /\ firmaVault' - firmaVault = firma_in
      /\ outside' \in Nat
  BY <1>1, <1>3, <1>4, <1>5, SMT
<1>10. /\ curve'.real_sol - curve.real_sol = 0 - gross
       /\ curve'.firma_reserve - curve.firma_reserve = firma_in
  BY <1>1, <1>3, <1>4, <1>7, SMT DEF y
<1> QED
  BY <1>1, <1>4, <1>6, <1>7, <1>8, <1>9, <1>10, SMT DEF NotGraduated, y

(* Every trade keeps the invariant.                                        *)
LEMMA TradeKeepsInv ==
    ASSUME CurveInv, NEW amount \in Nat, NEW least \in Nat,
           Buy(amount, least) \/ Sell(amount, least)
    PROVE  CurveInv' /\ Product' >= Product /\ ~ curve'.graduated
<1>1. /\ NotGraduated /\ NotGraduated'
      /\ curve' \in CurveType /\ solVault' \in Nat /\ firmaVault' \in Nat /\ outside' \in Nat
      /\ curve'.virtual_sol = curve.virtual_sol /\ curve'.firma_reserve > 0
      /\ UNCHANGED <<launch, planned>>
      /\ solVault' - solVault >= curve'.real_sol - curve.real_sol
      /\ firmaVault' - firmaVault >= curve'.firma_reserve - curve.firma_reserve
      /\ Product' >= Product
  <2>1. CASE Buy(amount, least)
    BY <2>1, BuyEffect
  <2>2. CASE Sell(amount, least)
    BY <2>2, SellEffect
  <2> QED
    BY <2>1, <2>2
<1>2. /\ curve \in CurveType /\ solVault \in Nat /\ firmaVault \in Nat
      /\ launch \in [distributed : BOOLEAN, to_curve : Nat] /\ planned \in Nat
      /\ solVault >= curve.real_sol
      /\ firmaVault + planned >= curve.firma_reserve + launch.to_curve
  BY <1>1 DEF CurveInv, CurveTypeOK, CurveIsSolvent
<1>3. CurveTypeOK'
  BY <1>1, <1>2 DEF CurveTypeOK
<1>4. CurveIsSolvent'
  <2>1. /\ curve.real_sol \in Nat /\ curve'.real_sol \in Nat /\ curve.firma_reserve \in Nat
        /\ curve'.firma_reserve \in Nat /\ launch.to_curve \in Nat
    BY <1>1, <1>2 DEF CurveType
  <2>2. solVault' >= curve'.real_sol
    BY <1>1, <1>2, <2>1, SMT
  <2>3. firmaVault' + planned >= curve'.firma_reserve + launch.to_curve
    BY <1>1, <1>2, <2>1, SMT
  <2> QED
    BY <1>1, <2>2, <2>3 DEF CurveIsSolvent
<1>5. OpenBooks'
  <2>1. OpenBooks
    BY <1>1 DEF CurveInv
  <2>2. Product \in Int /\ Product' \in Int /\ curve.virtual_sol * planned \in Int
    BY <1>1, <1>2, SMT DEF CurveType, Product, effective_sol
  <2>3. Product' >= curve.virtual_sol * planned
    BY <1>1, <2>1, <2>2, SMT DEF OpenBooks
  <2> QED
    BY <1>1, <2>1, <2>3 DEF OpenBooks
<1>6. ~ curve'.exists \/ ~ launch'.distributed => launch'.to_curve = 0
  BY <1>1 DEF CurveInv, NotGraduated
<1> QED
  BY <1>1, <1>3, <1>4, <1>5, <1>6 DEF CurveInv, NotGraduated

(* Reserve added from outside only raises what the books hold.             *)
LEMMA AddKeepsInv ==
    ASSUME CurveInv, NEW amount \in Nat, AddCurveReserve(amount)
    PROVE  CurveInv' /\ Product' >= Product
<1>1. /\ NotGraduated /\ OpenBooks /\ CurveTypeOK
      /\ curve' = [curve EXCEPT !.real_sol = curve.real_sol + amount]
      /\ solVault' = solVault + amount
      /\ UNCHANGED <<firmaVault, outside, launch, planned>>
  BY DEF AddCurveReserve, CurveInv
<1>2. /\ curve \in CurveType /\ solVault \in Nat /\ curve.real_sol \in Nat
      /\ curve.virtual_sol \in Nat /\ curve.firma_reserve \in Nat /\ planned \in Nat
  BY <1>1 DEF CurveTypeOK, CurveType
<1>3. curve.real_sol + amount \in Nat
  BY <1>2, SMT
<1>4. /\ curve' \in CurveType /\ curve'.real_sol = curve.real_sol + amount
      /\ curve'.virtual_sol = curve.virtual_sol /\ curve'.firma_reserve = curve.firma_reserve
      /\ curve'.exists = curve.exists /\ curve'.graduated = curve.graduated
  BY <1>1, <1>2, <1>3 DEF CurveType
<1>5. CurveTypeOK'
  <2>1. solVault' \in Nat
    BY <1>1, <1>2, SMT
  <2> QED
    BY <1>1, <1>4, <2>1 DEF CurveTypeOK
<1>6. CurveIsSolvent'
  <2>1. solVault' >= curve'.real_sol
    BY <1>1, <1>2, <1>4, SMT DEF CurveInv, CurveIsSolvent
  <2> QED
    BY <1>1, <1>4, <2>1 DEF CurveInv, CurveIsSolvent, NotGraduated
<1>7. Product' >= Product
  <2>1. effective_sol \in Nat /\ effective_sol' = effective_sol + amount
    BY <1>2, <1>4, SMT DEF effective_sol
  <2>2. (effective_sol + amount) * curve.firma_reserve
          >= effective_sol * curve.firma_reserve
    BY <1>2, <2>1, SMT
  <2> QED
    BY <1>4, <2>1, <2>2 DEF Product
<1>8. OpenBooks'
  <2>1. Product \in Int /\ Product' \in Int /\ curve.virtual_sol * planned \in Int
    BY <1>2, <1>3, <1>4, SMT DEF Product, effective_sol
  <2>2. Product' >= curve.virtual_sol * planned
    BY <1>1, <1>7, <2>1, SMT DEF OpenBooks
  <2> QED
    BY <1>1, <1>4, <2>2 DEF OpenBooks
<1> QED
  BY <1>1, <1>4, <1>5, <1>6, <1>7, <1>8 DEF CurveInv, NotGraduated

(* Creating the curve opens books that satisfy the invariant.              *)
LEMMA CreateKeepsInv ==
    ASSUME CurveInv, NEW seed \in Seeds, NEW threshold \in Thresholds,
           InitializeCurve(seed, threshold)
    PROVE  CurveInv'
<1>1. /\ seed.virtual_sol \in Nat /\ seed.firma_reserve \in Nat /\ threshold \in Nat
      /\ seed.virtual_sol > 0 /\ seed.firma_reserve > 0
  BY CurveAssumption DEF InitializeCurve
<1>2. /\ curve' = [exists |-> TRUE, virtual_sol |-> seed.virtual_sol, real_sol |-> 0,
                   firma_reserve |-> seed.firma_reserve, graduation_threshold |-> threshold,
                   graduated |-> FALSE, trading_live |-> FALSE]
      /\ planned' = seed.firma_reserve /\ ~ curve.exists
      /\ UNCHANGED <<solVault, firmaVault, outside, launch>>
  BY DEF InitializeCurve
<1>3. launch.to_curve = 0 /\ CurveTypeOK
  BY <1>2 DEF CurveInv
<1>4. CurveTypeOK'
  BY <1>1, <1>2, <1>3 DEF CurveTypeOK, CurveType
<1>5. CurveIsSolvent'
  <2>1. solVault \in Nat /\ firmaVault \in Nat
    BY <1>3 DEF CurveTypeOK
  <2>2. solVault >= 0 /\ firmaVault + seed.firma_reserve >= seed.firma_reserve + 0
    BY <1>1, <2>1, SMT
  <2> QED
    BY <1>2, <1>3, <2>2 DEF CurveIsSolvent
<1>6. OpenBooks'
  <2>1. (0 + seed.virtual_sol) * seed.firma_reserve >= seed.virtual_sol * seed.firma_reserve
    BY <1>1, SMT
  <2> QED
    BY <1>1, <1>2, <2>1 DEF OpenBooks, Product, effective_sol
<1> QED
  BY <1>2, <1>3, <1>4, <1>5, <1>6 DEF CurveInv

(* The actions that leave open books alone keep the invariant, and so does *)
(* the one that closes them.                                               *)
LEMMA OtherStepsKeepInv ==
    ASSUME CurveInv,
           \/ \E supply \in Supplies : DistributeSupply(supply[1], supply[2])
           \/ OpenTrading
           \/ \E amount \in Trades : SendToVault(amount, 0) \/ SendToVault(0, amount)
           \/ Graduate
           \/ UNCHANGED curveVars
    PROVE  CurveInv' /\ (~ curve'.graduated => Product' = Product)
<1>1. /\ CurveTypeOK /\ curve \in CurveType /\ solVault \in Nat /\ firmaVault \in Nat
      /\ outside \in Nat /\ planned \in Nat
      /\ launch \in [distributed : BOOLEAN, to_curve : Nat]
      /\ curve.real_sol \in Nat /\ curve.firma_reserve \in Nat /\ launch.to_curve \in Nat
  BY DEF CurveInv, CurveTypeOK, CurveType
<1>2. ASSUME NEW supply \in Supplies, DistributeSupply(supply[1], supply[2])
      PROVE  CurveInv' /\ Product' = Product
  <2>1. supply[1] \in Nat /\ supply[2] \in Nat
    BY CurveAssumption
  <2>2. /\ ~ launch.distributed /\ (supply[1] > 0 => curve.exists)
        /\ launch' = [distributed |-> TRUE, to_curve |-> supply[1]]
        /\ firmaVault' = firmaVault + supply[1] /\ outside' = outside + supply[2]
        /\ UNCHANGED <<curve, solVault, planned>>
    BY <1>2 DEF DistributeSupply
  <2>3. launch.to_curve = 0
    BY <2>2 DEF CurveInv
  <2>4. CurveTypeOK'
    <3>1. firmaVault' \in Nat /\ outside' \in Nat
      BY <1>1, <2>1, <2>2, SMT
    <3> QED
      BY <1>1, <2>1, <2>2, <3>1 DEF CurveTypeOK
  <2>5. CurveIsSolvent'
    <3>1. firmaVault + planned >= curve.firma_reserve + 0 =>
            firmaVault + supply[1] + planned >= curve.firma_reserve + supply[1]
      BY <1>1, <2>1, SMT
    <3> QED
      BY <2>2, <2>3, <3>1 DEF CurveInv, CurveIsSolvent, NotGraduated
  <2>6. supply[1] = 0 \/ curve.exists
    BY <2>1, <2>2, SMT
  <2> QED
    BY <2>2, <2>4, <2>5, <2>6 DEF CurveInv, OpenBooks, NotGraduated, Product, effective_sol
<1>3. ASSUME OpenTrading
      PROVE  CurveInv' /\ Product' = Product
  <2>1. /\ curve' = [curve EXCEPT !.trading_live = TRUE]
        /\ UNCHANGED <<solVault, firmaVault, outside, launch, planned>>
    BY <1>3 DEF OpenTrading
  <2>2. /\ curve' \in CurveType /\ curve'.exists = curve.exists
        /\ curve'.graduated = curve.graduated /\ curve'.real_sol = curve.real_sol
        /\ curve'.virtual_sol = curve.virtual_sol /\ curve'.firma_reserve = curve.firma_reserve
    BY <1>1, <2>1 DEF CurveType
  <2> QED
    BY <2>1, <2>2 DEF CurveInv, CurveTypeOK, CurveIsSolvent, OpenBooks, NotGraduated,
                      Product, effective_sol
<1>4. ASSUME NEW sol \in Nat, NEW firma \in Nat, SendToVault(sol, firma)
      PROVE  CurveInv' /\ Product' = Product
  <2>1. /\ solVault' = solVault + sol /\ firmaVault' = firmaVault + firma
        /\ outside' = outside - firma /\ firma <= outside
        /\ UNCHANGED <<curve, launch, planned>>
    BY <1>4 DEF SendToVault
  <2>2. /\ solVault' \in Nat /\ firmaVault' \in Nat /\ outside' \in Nat
        /\ (solVault >= curve.real_sol => solVault' >= curve.real_sol)
        /\ (firmaVault + planned >= curve.firma_reserve + launch.to_curve =>
              firmaVault' + planned >= curve.firma_reserve + launch.to_curve)
    BY <1>1, <2>1, SMT
  <2> QED
    BY <2>1, <2>2 DEF CurveInv, CurveTypeOK, CurveIsSolvent, OpenBooks, NotGraduated,
                      Product, effective_sol
<1>5. ASSUME Graduate
      PROVE  CurveInv' /\ curve'.graduated
  <2>1. /\ curve' = [curve EXCEPT !.graduated = TRUE, !.real_sol = 0, !.firma_reserve = 0]
        /\ solVault' = 0 /\ firmaVault' = 0 /\ outside' = outside + firmaVault
        /\ UNCHANGED <<launch, planned>>
    BY <1>5 DEF Graduate
  <2>2. curve' \in CurveType /\ curve'.graduated /\ curve'.exists = curve.exists
    BY <1>1, <2>1 DEF CurveType
  <2>3. outside' \in Nat
    BY <1>1, <2>1, SMT
  <2> QED
    BY <1>1, <2>1, <2>2, <2>3 DEF CurveInv, CurveTypeOK, CurveIsSolvent, NotGraduated
<1>6. ASSUME UNCHANGED curveVars
      PROVE  CurveInv' /\ Product' = Product
  BY <1>6 DEF curveVars, CurveInv, CurveTypeOK, CurveIsSolvent, OpenBooks, NotGraduated,
              Product, effective_sol
<1>7. Trades \subseteq Nat /\ 0 \in Nat
  BY CurveAssumption
<1> QED
  BY <1>2, <1>3, <1>4, <1>5, <1>6, <1>7

(* The inductive step, and what it says of the product.                    *)
LEMMA CurveStep ==
    ASSUME CurveInv, [CurveNext]_curveVars
    PROVE  /\ CurveInv'
           /\ NotGraduated /\ ~ curve'.graduated => Product' >= Product
<1>1. ASSUME NEW seed \in Seeds, NEW threshold \in Thresholds, InitializeCurve(seed, threshold)
      PROVE  CurveInv' /\ ~ NotGraduated
  BY <1>1, CreateKeepsInv DEF InitializeCurve, NotGraduated
<1>2. ASSUME NEW amount \in Trades, NEW least \in MinOuts,
             Buy(amount, least) \/ Sell(amount, least)
      PROVE  CurveInv' /\ Product' >= Product
  BY <1>2, TradeKeepsInv, CurveAssumption
<1>3. ASSUME NEW amount \in Trades, AddCurveReserve(amount)
      PROVE  CurveInv' /\ Product' >= Product
  BY <1>3, AddKeepsInv, CurveAssumption
<1>4. ASSUME \/ \E supply \in Supplies : DistributeSupply(supply[1], supply[2])
             \/ OpenTrading
             \/ \E amount \in Trades : SendToVault(amount, 0) \/ SendToVault(0, amount)
             \/ Graduate
             \/ UNCHANGED curveVars
      PROVE  CurveInv' /\ (NotGraduated /\ ~ curve'.graduated => Product' >= Product)
  <2>1. CurveInv' /\ (~ curve'.graduated => Product' = Product)
    BY <1>4, OtherStepsKeepInv
  <2>2. Product \in Int
    BY SMT DEF CurveInv, CurveTypeOK, CurveType, Product, effective_sol
  <2>3. Product >= Product
    BY <2>2, SMT
  <2> QED
    BY <2>1, <2>3
<1> QED
  BY <1>1, <1>2, <1>3, <1>4 DEF CurveNext

(* The curve starts in the invariant.                                      *)
LEMMA CurveInitInv ==
    CurveInit => CurveInv
BY SMT DEF CurveInit, CurveInv, CurveTypeOK, CurveType, CurveIsSolvent, NotGraduated

(* The invariant holds throughout.                                         *)
THEOREM CurveInvHolds ==
    CurveSpec => []CurveInv
<1>1. CurveInv /\ [CurveNext]_curveVars => CurveInv'
  BY CurveStep
<1> QED
  BY <1>1, CurveInitInv, PTL DEF CurveSpec

(* No trade, deposit, mint or graduation leaves a book, a vault or the     *)
(* launch flag below zero or outside the type its account gives it.        *)
THEOREM CurveIsTyped ==
    CurveSpec => []CurveTypeOK
<1>1. CurveInv => CurveTypeOK
  BY DEF CurveInv
<1> QED
  BY <1>1, CurveInvHolds, PTL

(* Whatever the traders name as fee and payment accounts, and whatever the *)
(* owner minted, the books never promise more than the vaults hold.        *)
THEOREM CurveStaysSolvent ==
    CurveSpec => []CurveIsSolvent
<1>1. CurveInv => CurveIsSolvent
  BY DEF CurveInv
<1> QED
  BY <1>1, CurveInvHolds, PTL

(* After any sequence of trades, all the curve has sold can be sold back   *)
(* out of real_sol.                                                        *)
THEOREM ExitIsAlwaysCovered ==
    CurveSpec => []HoldersCanExit
BY InvImpliesExit, CurveInvHolds, PTL

(* Until the curve graduates, no step lowers the product.                  *)
THEOREM ProductIsMonotonic ==
    CurveSpec => ProductNeverFalls
<1>1. CurveInv /\ [CurveNext]_curveVars
        => [NotGraduated /\ ~ curve'.graduated => Product' >= Product]_curveVars
  BY CurveStep
<1> QED
  BY <1>1, CurveInvHolds, PTL DEF CurveSpec, ProductNeverFalls
=============================================================================
