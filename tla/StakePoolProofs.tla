--------------------------- MODULE StakePoolProofs ---------------------------
(***************************************************************************)
(* What the pools' arithmetic guarantees for all amounts: nothing becomes  *)
(* negative, and no slice of a position exceeds what it is cut from.       *)
(***************************************************************************)
EXTENDS StakePool, TLAPS

LEMMA SatSubFacts ==
    ASSUME NEW a \in Nat, NEW b \in Nat
    PROVE  /\ SatSub(a, b) \in Nat /\ SatSub(a, b) <= a
           /\ b <= a => SatSub(a, b) = a - b
           /\ a <= b => SatSub(a, b) = 0
BY SMT DEF SatSub

LEMMA MinOfTwo ==
    ASSUME NEW a \in Nat, NEW b \in Nat
    PROVE  /\ Min({a, b}) \in Nat /\ Min({a, b}) \in {a, b}
           /\ Min({a, b}) <= a /\ Min({a, b}) <= b
<1>1. \E x \in {a, b} : \A y \in {a, b} : x <= y
  <2>1. CASE a <= b
    BY <2>1, SMT
  <2>2. CASE b <= a
    BY <2>2, SMT
  <2> QED
    BY <2>1, <2>2, SMT
<1>2. Min({a, b}) \in {a, b} /\ \A y \in {a, b} : Min({a, b}) <= y
  BY <1>1 DEF Min
<1> QED
  BY <1>2

LEMMA MinOfThree ==
    ASSUME NEW a \in Nat, NEW b \in Nat, NEW c \in Nat
    PROVE  /\ Min({a, b, c}) \in Nat
           /\ Min({a, b, c}) <= a /\ Min({a, b, c}) <= b /\ Min({a, b, c}) <= c
<1>1. \E x \in {a, b, c} : \A y \in {a, b, c} : x <= y
  <2>1. CASE a <= b /\ a <= c
    BY <2>1, SMT
  <2>2. CASE b <= a /\ b <= c
    BY <2>2, SMT
  <2>3. CASE c <= a /\ c <= b
    BY <2>3, SMT
  <2> QED
    BY <2>1, <2>2, <2>3, SMT
<1>2. Min({a, b, c}) \in {a, b, c} /\ \A y \in {a, b, c} : Min({a, b, c}) <= y
  BY <1>1 DEF Min
<1> QED
  BY <1>2

(* Quotients of naturals are naturals, and never more than they should be. *)
LEMMA Quotient ==
    ASSUME NEW a \in Nat, NEW b \in Nat \ {0}
    PROVE  /\ a \div b \in Nat
           /\ (a \div b) * b <= a
           /\ a < (a \div b) * b + b
<1>1. a = b * (a \div b) + (a % b) /\ a % b \in 0..b - 1 /\ a \div b \in Int
  BY SMT
<1> QED
  BY <1>1, SMT

LEMMA QuotientAtMost ==
    ASSUME NEW a \in Nat, NEW b \in Nat \ {0}, NEW c \in Nat, a <= c * b
    PROVE  a \div b <= c
<1> DEFINE q == a \div b
<1>1. q \in Nat /\ q * b <= a
  BY Quotient
<1>2. ~ (q >= c + 1)
  <2> HIDE DEF q
  <2> SUFFICES ASSUME q >= c + 1 PROVE FALSE
    OBVIOUS
  <2>1. PICK d \in Nat : q = c + 1 + d
    <3>1. q - (c + 1) \in Nat /\ q = c + 1 + (q - (c + 1))
      BY <1>1, SMT
    <3> QED
      BY <3>1
  <2>2. q * b = c * b + b + d * b
    BY <2>1, SMT
  <2>3. d * b \in Nat
    BY SMT
  <2> QED
    BY <1>1, <2>2, <2>3, SMT
<1> QED
  <2> HIDE DEF q
  <2>1. q <= c
    BY <1>1, <1>2, SMT
  <2> QED
    BY <2>1 DEF q

LEMMA DebtType ==
    ASSUME NEW staked \in Nat, NEW acc \in Nat
    PROVE  Debt(staked, acc) \in Nat
<1>1. staked * acc \in Nat
  BY SMT
<1> QED
  BY <1>1, Quotient, StakePoolAssumption DEF Debt

LEMMA PendingType ==
    ASSUME NEW staked \in Nat, NEW acc \in Nat, NEW debt \in Nat
    PROVE  Pending(staked, acc, debt) \in Nat
BY DebtType, SatSubFacts DEF Pending

(* A slice is no more than what it is cut from.                            *)
LEMMA SliceWithin ==
    ASSUME NEW staked \in Nat, NEW amount \in Nat, 0 < amount, amount <= staked,
           NEW entitled \in Nat
    PROVE  Slice(amount, entitled, staked) \in Nat /\ Slice(amount, entitled, staked) <= entitled
<1>1. amount * entitled \in Nat /\ staked \in Nat \ {0}
  BY SMT
<1>2. amount * entitled <= entitled * staked
  <2>1. PICK d \in Nat : staked = amount + d
    <3>1. staked - amount \in Nat /\ staked = amount + (staked - amount)
      BY SMT
    <3> QED
      BY <3>1
  <2>2. entitled * staked = amount * entitled + entitled * d
    BY <2>1, SMT
  <2>3. entitled * d \in Nat
    BY SMT
  <2> QED
    BY <1>1, <2>2, <2>3, SMT
<1> QED
  BY <1>1, <1>2, Quotient, QuotientAtMost DEF Slice

(* All of a position is entitled to all of it.                             *)
LEMMA SliceOfStake ==
    ASSUME NEW staked \in Nat, NEW amount \in Nat, 0 < amount, amount <= staked
    PROVE  Slice(amount, staked, staked) = amount
<1>1. amount * staked \in Nat /\ staked \in Nat \ {0}
  BY SMT
<1> DEFINE q == (amount * staked) \div staked
<1>2. q \in Nat /\ q * staked <= amount * staked /\ amount * staked < q * staked + staked
  BY <1>1, Quotient
<1>3. q <= amount
  BY <1>1, QuotientAtMost, SMT
<1>4. q >= amount
  <2> HIDE DEF q
  <2> SUFFICES ASSUME q + 1 <= amount PROVE FALSE
    BY <1>2, SMT
  <2>1. PICK d \in Nat : amount = q + 1 + d
    <3>1. amount - (q + 1) \in Nat /\ amount = q + 1 + (amount - (q + 1))
      BY <1>2, SMT
    <3> QED
      BY <3>1
  <2>2. amount * staked = q * staked + staked + d * staked /\ d * staked \in Nat
    BY <1>2, <2>1, SMT
  <2> QED
    BY <1>2, <2>2, SMT
<1> QED
  BY <1>2, <1>3, <1>4, SMT DEF Slice

LEMMA ScaledDebtType ==
    ASSUME NEW debt \in Nat, NEW rest \in Nat, NEW staked \in Nat \ {0}
    PROVE  ScaledDebt(debt, rest, staked) \in Nat
<1>1. debt * rest \in Nat
  BY SMT
<1> QED
  BY <1>1, Quotient DEF ScaledDebt

LEMMA FoldedTypes ==
    ASSUME NEW acc \in Nat, NEW rest \in Nat, NEW amount \in Nat, NEW weight \in Nat
    PROVE  /\ FoldedAcc(acc, rest, amount, weight) \in Nat
           /\ FoldedRest(rest, amount, weight) \in Nat
<1>1. (amount + rest) * Precision \in Nat
  BY StakePoolAssumption, SMT
<1>2. CASE weight = 0
  BY <1>2, SMT DEF FoldedAcc, FoldedRest
<1>3. CASE weight # 0
  <2>1. ((amount + rest) * Precision) \div weight \in Nat
    BY <1>1, <1>3, Quotient
  <2> QED
    BY <1>3, <2>1, SMT DEF FoldedAcc, FoldedRest
<1> QED
  BY <1>2, <1>3

LEMMA CooldownType ==
    ASSUME NEW tier \in 0..3, NEW staked \in Nat, NEW total \in Nat
    PROVE  RequiredCooldown(tier, staked, total) \in Nat
<1> DEFINE tenths == WhaleTenths(ShareBps(staked, total))
<1>1. ShareBps(staked, total) \in Nat
  <2>1. CASE total = 0
    BY <2>1 DEF ShareBps
  <2>2. CASE total # 0
    <3>1. (staked * 10000) \div total \in Nat
      BY <2>2, Quotient
    <3> QED
      BY <2>2, <3>1, MinOfTwo DEF ShareBps
  <2> QED
    BY <2>1, <2>2
<1>2. tenths \in Nat
  <2> DEFINE share == ShareBps(staked, total)
  <2> HIDE DEF share
  <2>1. WhaleTenths(share) \in {10, 15, 20, 30}
    BY <1>1, SMT DEF WhaleTenths, share
  <2> QED
    BY <2>1 DEF share
<1>3. Cooldown[tier] \in Nat /\ Cooldown[tier] * tenths \in Nat
  <2>1. Cooldown[tier] \in Nat
    BY StakePoolAssumption
  <2> HIDE DEF tenths
  <2> QED
    BY <1>2, <2>1, SMT
<1> QED
  BY <1>3, Quotient DEF RequiredCooldown

----------------------------------------------------------------------------
(* What the accumulator holds for a position beyond its debt, in units of  *)
(* one part in Precision: the amount before it is rounded.                 *)
Entitled(staked, acc, debt) == staked * acc - debt * Precision

LEMMA EntitledType ==
    ASSUME NEW staked \in Nat, NEW acc \in Nat, NEW debt \in Nat
    PROVE  /\ Entitled(staked, acc, debt) \in Int
           /\ staked * acc \in Nat /\ debt * Precision \in Nat /\ Precision \in Nat \ {0}
BY StakePoolAssumption, SMT DEF Entitled

(* What is pending is what it is entitled to, rounded down.                *)
LEMMA PendingOfEntitled ==
    ASSUME NEW staked \in Nat, NEW acc \in Nat, NEW debt \in Nat,
           Entitled(staked, acc, debt) >= 0
    PROVE  /\ Pending(staked, acc, debt) = Debt(staked, acc) - debt
           /\ Debt(staked, acc) \in Nat /\ Pending(staked, acc, debt) \in Nat
           /\ Pending(staked, acc, debt) * Precision <= Entitled(staked, acc, debt)
<1> DEFINE q == (staked * acc) \div Precision
<1>1. /\ staked * acc \in Nat /\ debt * Precision \in Nat /\ Precision \in Nat \ {0}
      /\ debt * Precision <= staked * acc
  BY EntitledType, SMT DEF Entitled
<1>2. q \in Nat /\ q * Precision <= staked * acc /\ staked * acc < q * Precision + Precision
  BY <1>1, Quotient
<1> HIDE DEF q
<1>3. debt <= q
  <2> SUFFICES ASSUME q + 1 <= debt PROVE FALSE
    BY <1>2
  <2>1. PICK d \in Nat : debt = q + 1 + d
    <3>1. debt - (q + 1) \in Nat /\ debt = q + 1 + (debt - (q + 1))
      BY <1>2
    <3> QED
      BY <3>1
  <2>2. debt * Precision = q * Precision + Precision + d * Precision /\ d * Precision \in Nat
    BY <1>1, <1>2, <2>1, SMT
  <2>3. q * Precision \in Nat
    BY <1>1, <1>2, SMT
  <2> QED
    BY <1>1, <1>2, <2>2, <2>3
<1>4. (q - debt) * Precision = q * Precision - debt * Precision
  BY <1>1, <1>2, SMT
<1>5. Debt(staked, acc) = q /\ Pending(staked, acc, debt) = q - debt
  BY <1>2, <1>3, SatSubFacts DEF Debt, Pending, q
<1>6. q * Precision \in Nat
  BY <1>1, <1>2, SMT
<1> QED
  BY <1>1, <1>2, <1>3, <1>4, <1>5, <1>6 DEF Entitled

(* A stake that comes later is entitled to what its debt was rounded by.   *)
LEMMA StakeEntitled ==
    ASSUME NEW staked \in Nat, NEW acc \in Nat, NEW debt \in Nat, NEW amount \in Nat
    PROVE  /\ Entitled(staked + amount, acc, debt + Debt(amount, acc))
                 = Entitled(staked, acc, debt) + ((amount * acc) % Precision)
           /\ (amount * acc) % Precision \in 0..Precision - 1
<1> DEFINE n == amount * acc
           q == n \div Precision
           z == n % Precision
<1>1. n \in Nat /\ Precision \in Nat \ {0}
  BY StakePoolAssumption, SMT
<1>2. q \in Nat /\ z \in 0..Precision - 1 /\ n = Precision * q + z
  <2> HIDE DEF n
  <2> QED
    BY <1>1, Quotient, SMT
<1>3. (staked + amount) * acc = staked * acc + n /\ staked * acc \in Nat
  BY SMT
<1> HIDE DEF q
<1>4. (debt + q) * Precision = debt * Precision + Precision * q /\ debt * Precision \in Nat
      /\ Precision * q \in Nat
  BY <1>1, <1>2, SMT
<1>5. Debt(amount, acc) = q
  BY DEF Debt, q
<1>6. Entitled(staked + amount, acc, debt + q) = Entitled(staked, acc, debt) + z
  <2> HIDE DEF n, z
  <2> QED
    BY <1>1, <1>2, <1>3, <1>4 DEF Entitled
<1> QED
  BY <1>2, <1>5, <1>6

(* A claim takes from the entitlement exactly what it pays.                *)
LEMMA ClaimEntitled ==
    ASSUME NEW staked \in Nat, NEW acc \in Nat, NEW debt \in Nat,
           Entitled(staked, acc, debt) >= 0
    PROVE  /\ Entitled(staked, acc, Debt(staked, acc)) >= 0
           /\ Entitled(staked, acc, Debt(staked, acc))
                 = Entitled(staked, acc, debt) - Pending(staked, acc, debt) * Precision
<1> DEFINE q == Debt(staked, acc)
           p == Pending(staked, acc, debt)
<1>1. p = q - debt /\ q \in Nat /\ p \in Nat /\ p * Precision <= Entitled(staked, acc, debt)
  BY PendingOfEntitled
<1>2. staked * acc \in Nat /\ debt * Precision \in Nat /\ Precision \in Nat \ {0}
  BY EntitledType
<1> HIDE DEF q, p
<1>3. p * Precision = q * Precision - debt * Precision /\ q * Precision \in Nat
  BY <1>1, <1>2, SMT
<1> QED
  BY <1>1, <1>2, <1>3 DEF Entitled, q, p

LEMMA Division ==
    ASSUME NEW a \in Nat, NEW b \in Nat \ {0}
    PROVE  /\ a \div b \in Nat /\ a % b \in 0..b - 1
           /\ a = b * (a \div b) + (a % b)
<1>1. a % b \in 0..b - 1 /\ a = b * (a \div b) + (a % b)
  BY SMT
<1> QED
  BY <1>1, Quotient

LEMMA SignOfFactor ==
    ASSUME NEW a \in Nat \ {0}, NEW x \in Int
    PROVE  /\ a * x \in Int
           /\ a * x >= 0 => x >= 0
           /\ a * x > 0 => x > 0
BY SMT

(* What a withdrawal leaves and pays exceeds the entitlement before it     *)
(* only when the debt that stays was rounded, and by less than one unit.   *)
LEMMA WithdrawEntitled ==
    ASSUME NEW staked \in Nat, NEW amount \in Nat, 0 < amount, amount <= staked,
           NEW acc \in Nat, NEW debt \in Nat, Entitled(staked, acc, debt) >= 0
    PROVE  LET rest == staked - amount
               kept == Entitled(rest, acc, ScaledDebt(debt, rest, staked))
               paid == Slice(amount, Pending(staked, acc, debt), staked)
           IN  /\ kept >= 0
               /\ kept + paid * Precision
                    <= Entitled(staked, acc, debt)
                        + (IF (debt * rest) % staked = 0 THEN 0 ELSE Precision - 1)
<1> DEFINE rest == staked - amount
           pending == Pending(staked, acc, debt)
           q == (debt * rest) \div staked
           r == (debt * rest) % staked
           p == (amount * pending) \div staked
           old == Entitled(staked, acc, debt)
           new == Entitled(rest, acc, q)
<1>1. /\ staked \in Nat \ {0} /\ rest \in Nat /\ staked = rest + amount
      /\ Precision \in Nat \ {0}
  BY StakePoolAssumption
<1>2. pending \in Nat /\ pending * Precision <= old /\ old \in Nat
  BY PendingOfEntitled, EntitledType
<1>3. debt * rest \in Nat /\ amount * pending \in Nat
  <2> HIDE DEF rest, pending
  <2> QED
    BY <1>1, <1>2, SMT
<1>4. q \in Nat /\ r \in 0..staked - 1 /\ debt * rest = staked * q + r
  <2> DEFINE n == debt * rest
  <2>1. n \in Nat
    BY <1>3
  <2> HIDE DEF n, rest
  <2>2. n \div staked \in Nat /\ n % staked \in 0..staked - 1
        /\ n = staked * (n \div staked) + (n % staked)
    BY <1>1, <2>1, Division
  <2> QED
    BY <2>2 DEF n
<1>5. p \in Nat /\ p * staked <= amount * pending
  <2> HIDE DEF pending
  <2> QED
    BY <1>1, <1>3, Quotient
<1>6. old = staked * acc - debt * Precision /\ new = rest * acc - q * Precision
  BY DEF Entitled
<1>7. new \in Int
  BY <1>1, <1>4, EntitledType
<1>8. /\ ScaledDebt(debt, rest, staked) = q
      /\ Slice(amount, Pending(staked, acc, debt), staked) = p
  BY DEF ScaledDebt, Slice
<1> HIDE DEF rest, pending, q, r, p, old, new
<1>9. staked * new = rest * old + r * Precision
  <2>1. staked * new = staked * rest * acc - staked * q * Precision
    BY <1>1, <1>4, <1>6, SMT
  <2>2. staked * q * Precision = debt * rest * Precision - r * Precision
    <3>1. staked * q = debt * rest - r
      BY <1>1, <1>3, <1>4, SMT
    <3>2. (debt * rest - r) * Precision = debt * rest * Precision - r * Precision
      BY <1>1, <1>3, <1>4, SMT
    <3> QED
      BY <3>1, <3>2
  <2>3. rest * old = staked * rest * acc - debt * rest * Precision
    BY <1>1, <1>6, SMT
  <2>4. /\ staked * rest * acc \in Int /\ debt * rest * Precision \in Int
        /\ r * Precision \in Int
    BY <1>1, <1>4, SMT
  <2> QED
    BY <2>1, <2>2, <2>3, <2>4
<1>10. new >= 0
  <2>1. rest * old \in Nat /\ r * Precision \in Nat
    BY <1>1, <1>2, <1>4, SMT
  <2> QED
    BY <1>1, <1>7, <1>9, <2>1, SignOfFactor
<1> DEFINE x == old - new - p * Precision
<1>11. x \in Int /\ staked * x >= 0 - r * Precision
  <2>1. staked * (p * Precision) <= amount * old
    <3>1. staked * (p * Precision) = (p * staked) * Precision
      BY <1>1, <1>5, SMT
    <3>2. (p * staked) * Precision <= (amount * pending) * Precision
      BY <1>1, <1>2, <1>3, <1>5, SMT
    <3>3. (amount * pending) * Precision = amount * (pending * Precision)
      BY <1>1, <1>2, SMT
    <3>4. amount * (pending * Precision) <= amount * old
      <4>1. pending * Precision \in Nat
        BY <1>1, <1>2, SMT
      <4> HIDE DEF pending
      <4> QED
        BY <1>2, <4>1, SMT
    <3>5. /\ (p * staked) * Precision \in Int /\ (amount * pending) * Precision \in Int
          /\ amount * old \in Int
      BY <1>1, <1>2, <1>5, SMT
    <3> QED
      BY <3>1, <3>2, <3>3, <3>4, <3>5
  <2>2. staked * x = staked * old - staked * new - staked * (p * Precision)
    BY <1>1, <1>2, <1>5, <1>7, SMT
  <2>3. staked * old = rest * old + amount * old
    BY <1>1, <1>2, SMT
  <2>4. /\ staked * old \in Int /\ rest * old \in Int /\ amount * old \in Int
        /\ staked * (p * Precision) \in Int /\ r * Precision \in Int /\ p * Precision \in Int
    BY <1>1, <1>2, <1>4, <1>5, SMT
  <2> QED
    BY <1>2, <1>7, <1>9, <2>1, <2>2, <2>3, <2>4
<1>12. x >= (IF r = 0 THEN 0 ELSE 1 - Precision)
  <2>1. CASE r = 0
    <3>1. staked * x >= 0
      BY <1>1, <1>11, <2>1
    <3> HIDE DEF x
    <3> QED
      BY <1>1, <1>11, <2>1, <3>1, SignOfFactor
  <2>2. CASE r # 0
    <3> HIDE DEF x
    <3>1. staked * (x + Precision) = staked * x + staked * Precision
      BY <1>1, <1>11, SMT
    <3>2. staked * Precision - r * Precision > 0
      <4>1. staked * Precision - r * Precision = (staked - r) * Precision
        BY <1>1, <1>4, SMT
      <4>2. staked - r \in Nat \ {0}
        BY <1>1, <1>4
      <4>3. (staked - r) * Precision > 0
        BY <1>1, <4>2, SMT
      <4> QED
        BY <4>1, <4>3
    <3>3. staked * x \in Int /\ staked * Precision \in Int /\ r * Precision \in Int
      BY <1>1, <1>4, <1>11, SMT
    <3>4. staked * (x + Precision) > 0 /\ x + Precision \in Int
      BY <1>1, <1>11, <3>1, <3>2, <3>3
    <3>5. x + Precision > 0
      BY <1>1, <3>4, SignOfFactor
    <3> QED
      BY <1>1, <1>11, <2>2, <3>5
  <2> QED
    BY <2>1, <2>2
<1>13. p * Precision \in Int /\ old \in Int
  BY <1>1, <1>2, <1>5, SMT
<1>14. new + p * Precision <= old + (IF r = 0 THEN 0 ELSE Precision - 1)
  BY <1>1, <1>7, <1>12, <1>13
<1> QED
  BY <1>8, <1>10, <1>14 DEF rest, old, new, r

(* What a fold adds for the whole weight is no more than what it spreads.  *)
LEMMA FoldEntitles ==
    ASSUME NEW acc \in Nat, NEW rest \in Nat, NEW amount \in Nat, NEW weight \in Nat
    PROVE  LET d == FoldedAcc(acc, rest, amount, weight) - acc
           IN  /\ d \in Nat
               /\ d * weight + FoldedRest(rest, amount, weight) * Precision
                    <= (amount + rest) * Precision
<1>1. Precision \in Nat \ {0} /\ (amount + rest) * Precision \in Nat
  BY StakePoolAssumption, SMT
<1>2. CASE weight = 0
  BY <1>1, <1>2 DEF FoldedAcc, FoldedRest
<1>3. CASE weight # 0
  <2> DEFINE n == (amount + rest) * Precision
             q == n \div weight
  <2>1. q \in Nat /\ q * weight <= n
    BY <1>1, <1>3, Quotient
  <2>2. FoldedAcc(acc, rest, amount, weight) = acc + q /\ FoldedRest(rest, amount, weight) = 0
    BY <1>3 DEF FoldedAcc, FoldedRest
  <2> HIDE DEF n, q
  <2>3. (acc + q) - acc = q /\ 0 * Precision = 0 /\ q * weight \in Int
    BY <1>1, <2>1, SMT
  <2> QED
    BY <2>1, <2>2, <2>3 DEF n
<1> QED
  BY <1>2, <1>3

(* An accumulator that grows adds to every entitlement in proportion.      *)
LEMMA EntitledGrows ==
    ASSUME NEW staked \in Nat, NEW acc \in Nat, NEW debt \in Nat, NEW d \in Int
    PROVE  Entitled(staked, acc + d, debt) = Entitled(staked, acc, debt) + d * staked
<1>1. staked * (acc + d) = staked * acc + d * staked /\ d * staked \in Int
  BY SMT
<1> QED
  BY <1>1, EntitledType DEF Entitled

----------------------------------------------------------------------------
(* Losses are borne through the same kind of accumulator: what they spare  *)
(* of a position, again in units of one part in Precision.                 *)
Spared(staked, acc, debt) == SatSub((staked + debt) * Precision, staked * acc)

LEMMA SparedFacts ==
    ASSUME NEW staked \in Nat, NEW acc \in Nat, NEW debt \in Nat
    PROVE  /\ Spared(staked, acc, debt) \in Nat
           /\ Spared(staked, acc, debt) >= staked * Precision - Entitled(staked, acc, debt)
           /\ \/ Spared(staked, acc, debt) = 0
              \/ Spared(staked, acc, debt) = staked * Precision - Entitled(staked, acc, debt)
           /\ Entitled(staked, acc, debt) >= 0 => Spared(staked, acc, debt) <= staked * Precision
           /\ staked * Precision \in Nat /\ Entitled(staked, acc, debt) \in Int
<1>1. /\ (staked + debt) * Precision = staked * Precision + debt * Precision
      /\ staked * Precision \in Nat /\ debt * Precision \in Nat /\ staked * acc \in Nat
  BY StakePoolAssumption, SMT
<1> QED
  BY <1>1 DEF Spared, Entitled, SatSub

(* A new stake adds no more than itself to what is spared.                 *)
LEMMA StakeSpared ==
    ASSUME NEW staked \in Nat, NEW acc \in Nat, NEW debt \in Nat, NEW amount \in Nat
    PROVE  /\ Spared(staked + amount, acc, debt + Debt(amount, acc))
                 <= Spared(staked, acc, debt) + amount * Precision
           /\ Entitled(staked + amount, acc, debt + Debt(amount, acc))
                 >= Entitled(staked, acc, debt)
<1> DEFINE taken == Debt(amount, acc)
           later == debt + taken
           total == staked + amount
<1>0. /\ taken \in Nat /\ later \in Nat /\ total \in Nat /\ Precision \in Nat \ {0}
      /\ taken * Precision <= amount * acc /\ amount * acc \in Nat
  <2>1. amount * acc \in Nat
    BY SMT
  <2> QED
    BY <2>1, Quotient, StakePoolAssumption DEF Debt
<1> HIDE DEF taken
<1>1. Entitled(total, acc, later) >= Entitled(staked, acc, debt)
  <2>1. total * acc = staked * acc + amount * acc /\ staked * acc \in Nat
    BY SMT
  <2>2. /\ later * Precision = debt * Precision + taken * Precision
        /\ debt * Precision \in Nat /\ taken * Precision \in Nat
    BY <1>0, SMT
  <2> QED
    BY <1>0, <2>1, <2>2 DEF Entitled
<1>2. total * Precision = staked * Precision + amount * Precision
      /\ staked * Precision \in Nat /\ amount * Precision \in Nat
  BY <1>0, SMT
<1> HIDE DEF later, total
<1>3. /\ Spared(staked, acc, debt) \in Nat /\ Entitled(staked, acc, debt) \in Int
      /\ Spared(staked, acc, debt) >= staked * Precision - Entitled(staked, acc, debt)
  BY SparedFacts
<1>4. /\ \/ Spared(total, acc, later) = 0
         \/ Spared(total, acc, later) = total * Precision - Entitled(total, acc, later)
      /\ Entitled(total, acc, later) \in Int
  BY <1>0, SparedFacts
<1>5. Spared(total, acc, later) <= Spared(staked, acc, debt) + amount * Precision
  BY <1>1, <1>2, <1>3, <1>4
<1> QED
  BY <1>1, <1>5 DEF later, total, taken

(* A draw takes its share of what earlier draws have spared, at least.     *)
LEMMA DrawSpared ==
    ASSUME NEW staked \in Nat, NEW acc \in Nat, NEW debt \in Nat, NEW d \in 0..Precision,
           Entitled(staked, acc, debt) >= 0
    PROVE  /\ Entitled(staked, acc + d, debt) >= 0
           /\ Precision * Spared(staked, acc + d, debt) <= (Precision - d) * Spared(staked, acc, debt)
<1> DEFINE old == Spared(staked, acc, debt)
           new == Spared(staked, acc + d, debt)
           e == Entitled(staked, acc, debt)
<1>1. Precision \in Nat \ {0} /\ d \in Nat /\ d <= Precision /\ acc + d \in Nat
  BY StakePoolAssumption
<1>2. Entitled(staked, acc + d, debt) = e + d * staked /\ d * staked \in Nat
  <2>1. d * staked \in Nat
    BY <1>1, SMT
  <2>2. d \in Int
    BY <1>1
  <2>3. Entitled(staked, acc + d, debt) = Entitled(staked, acc, debt) + d * staked
    BY <2>2, EntitledGrows
  <2> QED
    BY <2>1, <2>3
<1>3. /\ old \in Nat /\ old >= staked * Precision - e /\ old <= staked * Precision
      /\ staked * Precision \in Nat /\ e \in Nat
  BY SparedFacts
<1>4. new \in Nat /\ (new = 0 \/ new = staked * Precision - (e + d * staked))
  BY <1>1, <1>2, SparedFacts
<1> HIDE DEF old, new, e
<1>5. Precision * new <= (Precision - d) * old
  <2>1. (Precision - d) * old \in Nat
    <3>1. Precision - d \in Nat
      BY <1>1
    <3> QED
      BY <1>3, <3>1, SMT
  <2>2. CASE new = 0
    BY <1>1, <2>1, <2>2
  <2>3. CASE new # 0
    <3>1. new <= old - d * staked
      BY <1>2, <1>3, <1>4, <2>3
    <3>2. Precision * new <= Precision * (old - d * staked)
      <4>1. PICK x \in Nat : old - d * staked = new + x
        <5>1. old - d * staked - new \in Nat
          BY <1>2, <1>3, <1>4, <3>1
        <5> QED
          BY <1>2, <1>3, <1>4, <5>1
      <4>2. Precision * (new + x) = Precision * new + Precision * x
            /\ Precision * x \in Nat /\ Precision * new \in Nat
        BY <1>1, <1>4, SMT
      <4> QED
        BY <4>1, <4>2
    <3>3. /\ Precision * (old - d * staked) = Precision * old - d * (staked * Precision)
          /\ Precision * old \in Nat /\ d * (staked * Precision) \in Nat
      BY <1>1, <1>3, SMT
    <3>4. d * old <= d * (staked * Precision) /\ d * old \in Nat
      <4> DEFINE top == staked * Precision
      <4>1. top \in Nat /\ old <= top
        BY <1>3
      <4> HIDE DEF top
      <4>2. d * old <= d * top /\ d * old \in Nat
        BY <1>1, <1>3, <4>1, SMT
      <4> QED
        BY <4>2 DEF top
    <3>5. (Precision - d) * old = Precision * old - d * old
      BY <1>1, <1>3, SMT
    <3>6. Precision * new \in Nat
      BY <1>1, <1>4, SMT
    <3> QED
      BY <3>2, <3>3, <3>4, <3>5, <3>6
  <2> QED
    BY <2>2, <2>3
<1> QED
  BY <1>2, <1>3, <1>5 DEF old, new, e

(* What a withdrawal pays out and leaves exceeds what was spared by less   *)
(* than the one unit by which the surviving principal was rounded.         *)
LEMMA WithdrawSpared ==
    ASSUME NEW staked \in Nat, NEW amount \in Nat, 0 < amount, amount <= staked,
           NEW acc \in Nat, NEW debt \in Nat, Entitled(staked, acc, debt) >= 0
    PROVE  LET rest == staked - amount
               surviving == SatSub(staked, Pending(staked, acc, debt))
               paid == Slice(amount, surviving, staked)
           IN  /\ paid \in Nat /\ surviving \in Nat
               /\ paid * Precision + Spared(rest, acc, ScaledDebt(debt, rest, staked))
                    <= Spared(staked, acc, debt) + (Precision - 1)
<1> DEFINE rest == staked - amount
           pending == Pending(staked, acc, debt)
           surv == SatSub(staked, pending)
           later == (debt * rest) \div staked
           paid == (amount * surv) \div staked
           old == Spared(staked, acc, debt)
           new == Spared(rest, acc, later)
           top == old + (Precision - 1)
           e == Entitled(staked, acc, debt)
<1>1. /\ staked \in Nat \ {0} /\ rest \in Nat /\ staked = rest + amount
      /\ Precision \in Nat \ {0}
  BY StakePoolAssumption
<1>2. /\ old \in Nat /\ old >= staked * Precision - e /\ staked * Precision \in Nat /\ e \in Nat
  BY SparedFacts
<1>3. pending \in Nat /\ e <= pending * Precision + (Precision - 1)
  <2> DEFINE q == Debt(staked, acc)
             n == staked * acc
  <2>1. pending = q - debt /\ q \in Nat /\ pending \in Nat
    BY PendingOfEntitled
  <2>2. n \in Nat /\ e = n - debt * Precision
    BY EntitledType, SMT DEF Entitled
  <2>3. n < q * Precision + Precision
    <3> HIDE DEF n
    <3> QED
      BY <1>1, <2>2, Quotient DEF Debt, n
  <2> HIDE DEF q, n, e, pending
  <2>4. pending * Precision = q * Precision - debt * Precision
        /\ q * Precision \in Nat /\ debt * Precision \in Nat
    BY <1>1, <2>1, SMT
  <2> QED
    BY <1>1, <2>1, <2>2, <2>3, <2>4
<1>4. surv \in Nat /\ (surv = 0 \/ surv = staked - pending)
  BY <1>1, <1>3, SatSubFacts DEF SatSub
<1>5. debt * rest \in Nat /\ amount * surv \in Nat
  <2> HIDE DEF rest, surv
  <2> QED
    BY <1>1, <1>4, SMT
<1>6. later \in Nat /\ later * staked <= debt * rest
  <2> HIDE DEF rest
  <2> QED
    BY <1>1, <1>5, Quotient
<1>7. paid \in Nat /\ paid * staked <= amount * surv
  <2> HIDE DEF surv
  <2> QED
    BY <1>1, <1>5, Quotient
<1>8. /\ ScaledDebt(debt, rest, staked) = later
      /\ Slice(amount, SatSub(staked, Pending(staked, acc, debt)), staked) = paid
  BY DEF ScaledDebt, Slice
<1>9. new \in Nat /\ (new = 0 \/ new = rest * Precision - Entitled(rest, acc, later))
  <2> HIDE DEF later, rest
  <2> QED
    BY <1>1, <1>6, SparedFacts
<1>10. e = staked * acc - debt * Precision /\ staked * acc \in Nat /\ debt * Precision \in Nat
  BY EntitledType, SMT DEF Entitled
<1> HIDE DEF rest, pending, surv, later, paid, old, new, e
<1>11. surv * Precision <= top /\ top \in Nat
  <2>1. CASE surv = 0
    BY <1>1, <1>2, <2>1
  <2>2. CASE surv = staked - pending
    <3>1. surv * Precision = staked * Precision - pending * Precision
          /\ pending * Precision \in Nat
      BY <1>1, <1>3, <1>4, <2>2, SMT
    <3> QED
      BY <1>1, <1>2, <1>3, <3>1
  <2> QED
    BY <1>4, <2>1, <2>2
<1>12. staked * new <= rest * old
  <2>1. rest * old \in Nat
    BY <1>1, <1>2, SMT
  <2>2. CASE new = 0
    BY <1>1, <2>1, <2>2
  <2>3. CASE new = rest * Precision - Entitled(rest, acc, later)
    <3>1. Entitled(rest, acc, later) = rest * acc - later * Precision
          /\ rest * acc \in Nat /\ later * Precision \in Nat
      BY <1>1, <1>6, EntitledType, SMT DEF Entitled
    <3>2. staked * new = staked * (rest * Precision) - staked * (rest * acc)
                          + staked * (later * Precision)
      <4>1. new = rest * Precision - rest * acc + later * Precision
        BY <1>1, <1>6, <2>3, <3>1
      <4>2. rest * Precision \in Int
        BY <1>1, SMT
      <4> DEFINE x == rest * Precision
                 y == rest * acc
                 z == later * Precision
      <4> HIDE DEF x, y, z
      <4>3. staked * (x - y + z) = staked * x - staked * y + staked * z
        BY <1>1, <3>1, <4>2, SMT DEF x, y, z
      <4> QED
        BY <4>1, <4>3 DEF x, y, z
    <3>3. staked * (later * Precision) <= rest * (debt * Precision)
      <4>1. staked * (later * Precision) = (later * staked) * Precision
            /\ rest * (debt * Precision) = (debt * rest) * Precision
        BY <1>1, <1>6, SMT
      <4> DEFINE x == later * staked
                 y == debt * rest
      <4>2. x \in Nat /\ y \in Nat /\ x <= y
        BY <1>1, <1>5, <1>6, SMT
      <4> HIDE DEF x, y
      <4>3. x * Precision <= y * Precision
        BY <1>1, <4>2, SMT
      <4> QED
        BY <4>1, <4>3 DEF x, y
    <3>4. staked * (rest * Precision) = rest * (staked * Precision)
          /\ staked * (rest * acc) = rest * (staked * acc)
      BY <1>1, SMT
    <3> DEFINE x == staked * Precision
               y == staked * acc
               z == debt * Precision
    <3>5. x \in Nat /\ y \in Nat /\ z \in Nat /\ old >= x - y + z
      BY <1>2, <1>10
    <3> HIDE DEF x, y, z
    <3>6. rest * old >= rest * x - rest * y + rest * z
      <4>1. old - (x - y + z) \in Nat /\ x - y + z \in Int
        BY <1>2, <3>5
      <4> DEFINE w == x - y + z
                 u == old - w
      <4>2. u \in Nat /\ w \in Int /\ old = w + u
        BY <1>2, <4>1
      <4>3. rest * w = rest * x - rest * y + rest * z
        BY <1>1, <3>5, SMT
      <4> HIDE DEF w, u
      <4>4. rest * old = rest * w + rest * u /\ rest * u \in Nat /\ rest * w \in Int
        BY <1>1, <4>2, SMT
      <4> QED
        BY <4>3, <4>4
    <3>7. /\ staked * (rest * Precision) = rest * x
          /\ staked * (rest * acc) = rest * y
          /\ rest * (debt * Precision) = rest * z
      BY <3>4 DEF x, y, z
    <3>8. rest * x \in Int /\ rest * y \in Int /\ rest * z \in Int
          /\ staked * (later * Precision) \in Int /\ staked * new \in Int
      BY <1>1, <1>9, <3>1, <3>5, SMT
    <3> QED
      BY <2>1, <3>2, <3>3, <3>6, <3>7, <3>8
  <2> QED
    BY <1>9, <2>2, <2>3
<1>13. staked * (paid * Precision) <= amount * top
  <2>1. staked * (paid * Precision) = (paid * staked) * Precision
    BY <1>1, <1>7, SMT
  <2>2. (paid * staked) * Precision <= (amount * surv) * Precision
    <3> DEFINE x == paid * staked
               y == amount * surv
    <3>1. x \in Nat /\ y \in Nat /\ x <= y
      BY <1>1, <1>5, <1>7, SMT
    <3> HIDE DEF x, y
    <3>2. x * Precision <= y * Precision
      BY <1>1, <3>1, SMT
    <3> QED
      BY <3>2 DEF x, y
  <2>3. (amount * surv) * Precision = amount * (surv * Precision)
    BY <1>1, <1>4, SMT
  <2>4. amount * (surv * Precision) <= amount * top
    <3> DEFINE x == surv * Precision
    <3>1. x \in Nat /\ x <= top
      BY <1>1, <1>4, <1>11, SMT
    <3> HIDE DEF x, top
    <3>2. amount * x <= amount * top
      BY <1>11, <3>1, SMT
    <3> QED
      BY <3>2 DEF x
  <2>5. (paid * staked) * Precision \in Int /\ (amount * surv) * Precision \in Int
        /\ amount * top \in Int
    <3> HIDE DEF top
    <3> QED
      BY <1>1, <1>4, <1>7, <1>11, SMT
  <2> QED
    BY <2>1, <2>2, <2>3, <2>4, <2>5
<1>14. rest * old <= rest * top
  <2>1. old <= top
    BY <1>1, <1>2
  <2> HIDE DEF top
  <2> QED
    BY <1>1, <1>2, <1>11, <2>1, SMT
<1> DEFINE x == top - paid * Precision - new
<1>15. paid * Precision \in Nat /\ x \in Int
  <2>1. paid * Precision \in Nat
    BY <1>1, <1>7, SMT
  <2> QED
    BY <1>9, <1>11, <2>1
<1>16. staked * x >= 0
  <2>1. staked * x = staked * top - staked * (paid * Precision) - staked * new
    <3> DEFINE y == paid * Precision
    <3> HIDE DEF y, top
    <3> QED
      BY <1>1, <1>9, <1>11, <1>15, SMT DEF y
  <2>2. staked * top = rest * top + amount * top
    <3> HIDE DEF top
    <3> QED
      BY <1>1, <1>11, SMT
  <2>3. /\ staked * top \in Int /\ rest * top \in Int /\ amount * top \in Int
        /\ staked * (paid * Precision) \in Int /\ staked * new \in Int /\ rest * old \in Int
    <3> HIDE DEF top
    <3> QED
      BY <1>1, <1>2, <1>7, <1>9, <1>11, SMT
  <2> HIDE DEF top, x
  <2> QED
    BY <1>12, <1>13, <1>14, <2>1, <2>2, <2>3
<1>17. x >= 0
  <2> HIDE DEF x
  <2> QED
    BY <1>1, <1>15, <1>16, SignOfFactor
<1>18. paid * Precision + new <= old + (Precision - 1)
  BY <1>1, <1>2, <1>9, <1>11, <1>15, <1>17
<1> QED
  BY <1>4, <1>7, <1>8, <1>18 DEF rest, old, new, surv, pending
=============================================================================
