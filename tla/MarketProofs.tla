---------------------------- MODULE MarketProofs ----------------------------
(***************************************************************************)
(* Theorems about the market and the pool that funds it, for any number of *)
(* holders, any amounts, seeds and fee rates and all moments: the types    *)
(* first, then the solvency of the market, then the pool's books, which    *)
(* what a void market pays for the inventory enters.                       *)
(***************************************************************************)
EXTENDS MarketCurve, SumsProofs, StakePoolProofs

RatesAddUp == curve.rates.firm + curve.rates.platform + curve.rates.pool = curve.rates.fee
OutcomeKnown == curve.status = "Settled" => curve.outcome \in Sides

(* The inductive form of MarketTypeOK.                                     *)
MarketTypes == MarketTypeOK /\ now \in Times /\ RatesAddUp /\ OutcomeKnown

----------------------------------------------------------------------------
LEMMA PairFacts ==
    ASSUME NEW n \in Nat, NEW pair \in [Sides -> Nat]
    PROVE  /\ Pair(n) \in [Sides -> Nat] /\ Plus(pair, n) \in [Sides -> Nat]
           /\ Less(pair, n) \in [Sides -> Nat]
           /\ \A side \in Sides : /\ Pair(n)[side] = n /\ Plus(pair, n)[side] = pair[side] + n
                                  /\ Less(pair, n)[side] = SatSub(pair[side], n)
BY SatSubFacts, SMT DEF Pair, Plus, Less

LEMMA SidesAre ==
    ASSUME NEW side \in Sides
    PROVE  /\ Other(side) \in Sides /\ Other(side) # side
           /\ Sides = {side, Other(side)} /\ Sides = {"Pass", "Fail"}
BY DEF Sides, Other

LEMMA RedeemedType ==
    ASSUME curve \in CurveType, NEW pair \in [Sides -> Nat]
    PROVE  /\ Redeemed(pair) \in [Sides -> Nat]
           /\ \A side \in Sides : Redeemed(pair)[side] = SatSub(curve.total[side], pair[side])
<1>1. curve.total \in [Sides -> Nat]
  BY DEF CurveType
<1> QED
  BY <1>1, SatSubFacts DEF Redeemed

(* What is multiplied alike keeps its order.                               *)
LEMMA Cancel ==
    ASSUME NEW a \in Nat, NEW b \in Nat, NEW r \in Nat \ {0}, a * r <= b * r
    PROVE  a <= b
<1> SUFFICES ASSUME b + 1 <= a PROVE FALSE
  BY SMT
<1>1. PICK d \in Nat : a = b + 1 + d
  <2>1. a - (b + 1) \in Nat /\ a = b + 1 + (a - (b + 1))
    BY SMT
  <2> QED
    BY <2>1
<1>2. a * r = b * r + r + d * r /\ d * r \in Nat /\ b * r \in Nat
  BY <1>1, SMT
<1> QED
  BY <1>2, SMT

(* The three cuts of a fee are the fee.                                    *)
LEMMA CutsAddUp ==
    ASSUME curve \in CurveType, RatesAddUp, NEW fee \in Nat
    PROVE  /\ FirmCut(fee) \in Nat /\ PlatformCut(fee) \in Nat /\ PoolCut(fee) \in Nat
           /\ FirmCut(fee) + PlatformCut(fee) + PoolCut(fee) = fee
<1> DEFINE r == curve.rates.fee
           f == curve.rates.firm
           p == curve.rates.platform
<1>1. r \in Nat /\ f \in Nat /\ p \in Nat /\ f + p <= r
  BY SMT DEF CurveType, RatesAddUp
<1>2. FirmCut(fee) \in Nat /\ PlatformCut(fee) \in Nat /\ FirmCut(fee) + PlatformCut(fee) <= fee
  <2>1. CASE r = 0
    BY <2>1, SMT DEF FirmCut, PlatformCut
  <2>2. CASE r # 0
    <3> DEFINE a == (fee * f) \div r
               b == (fee * p) \div r
    <3>1. fee * f \in Nat /\ fee * p \in Nat
      BY <1>1, SMT
    <3>2. a \in Nat /\ a * r <= fee * f /\ b \in Nat /\ b * r <= fee * p
      BY <1>1, <2>2, <3>1, Quotient
    <3>3. FirmCut(fee) = a /\ PlatformCut(fee) = b
      BY <2>2 DEF FirmCut, PlatformCut
    <3> HIDE DEF a, b, r, f, p
    <3>4. (a + b) * r <= fee * r
      <4>1. PICK d \in Nat : r = f + p + d
        <5>1. r - (f + p) \in Nat /\ r = f + p + (r - (f + p))
          BY <1>1, SMT
        <5> QED
          BY <5>1
      <4>2. fee * r = fee * f + fee * p + fee * d /\ fee * d \in Nat
        BY <1>1, <4>1, SMT
      <4>3. (a + b) * r = a * r + b * r /\ a * r \in Nat /\ b * r \in Nat
        BY <1>1, <3>2, SMT
      <4> QED
        BY <3>1, <3>2, <4>2, <4>3, SMT
    <3>5. a + b <= fee
      BY <1>1, <2>2, <3>2, <3>4, Cancel
    <3> QED
      BY <3>2, <3>3, <3>5
  <2> QED
    BY <2>1, <2>2
<1> QED
  BY <1>2, SMT DEF PoolCut

(* What a swap computes before it moves anything.                          *)
LEMMA SwapQuotes ==
    ASSUME NEW x \in Nat, NEW y \in Nat, NEW amount \in Nat, amount > 0, NEW bps \in Nat,
           buy_output(x, y, amount) > 0
    PROVE  /\ buy_output(x, y, amount) \in Nat
           /\ fee_amount(buy_output(x, y, amount), bps) \in Nat
           /\ SatSub(buy_output(x, y, amount), fee_amount(buy_output(x, y, amount), bps)) \in Nat
<1> DEFINE gross == buy_output(x, y, amount)
<1>1. gross \in Nat
  <2>1. x * y + x + amount - 1 \in Nat /\ x + amount \in Nat \ {0}
    <3>1. x * y \in Nat
      BY SMT
    <3> QED
      BY <3>1, SMT
  <2>2. (x * y + x + amount - 1) \div (x + amount) \in Nat
    BY <2>1, Quotient
  <2> QED
    BY <2>2, SMT DEF buy_output
<1> HIDE DEF gross
<1>2. gross * bps \in Nat
  BY <1>1, SMT
<1>3. fee_amount(gross, bps) \in Nat
  BY <1>2, Quotient DEF fee_amount
<1> QED
  BY <1>1, <1>3, SatSubFacts DEF gross

----------------------------------------------------------------------------
(* Types. A step of the pool keeps them when it leaves the curve alone.    *)
PoolTypeOK ==
    /\ lpPool \in LpPoolType /\ lp \in [Holders -> LpPositionType]
    /\ escrow \in Nat /\ yieldVault \in Nat /\ wallet \in [Holders -> Nat]
    /\ now \in Times

CurveTypeOK ==
    /\ curve \in CurveType /\ inventory \in [Sides -> Nat]
    /\ shares \in [Holders -> [Sides -> Nat]]
    /\ collateral \in Nat /\ spare \in [collateral : Nat, escrow : Nat]
    /\ RatesAddUp /\ OutcomeKnown

LEMMA TypesSplit == MarketTypes <=> PoolTypeOK /\ CurveTypeOK
BY DEF MarketTypes, MarketTypeOK, PoolTypeOK, CurveTypeOK

LEMMA TypesJoin == PoolTypeOK' /\ CurveTypeOK' => MarketTypes'
BY DEF MarketTypes, MarketTypeOK, PoolTypeOK, CurveTypeOK

LEMMA CurveKept == CurveTypeOK /\ UNCHANGED curveVars => CurveTypeOK'
BY DEF CurveTypeOK, curveVars, RatesAddUp, OutcomeKnown

LEMMA PoolKept == PoolTypeOK /\ UNCHANGED poolVars => PoolTypeOK'
BY DEF PoolTypeOK, poolVars

LEMMA InitTypes == MarketInit => MarketTypes
<1> SUFFICES ASSUME MarketInit PROVE MarketTypes
  OBVIOUS
<1> USE DEF MarketInit, PoolInit, CurveInit
<1>1. PoolTypeOK
  BY MarketPoolAssumption, SMT DEF PoolTypeOK, LpPoolType, LpPositionType, NoPosition
<1>2. CurveTypeOK
  <2>1. Pair(0) \in [Sides -> Nat]
    BY DEF Pair
  <2>2. NoCurve \in CurveType /\ NoCurve.status = "None"
        /\ NoCurve.rates = [fee |-> 0, firm |-> 0, platform |-> 0, pool |-> 0]
    BY <2>1, SMT DEF NoCurve, CurveType, Statuses
  <2>3. curve \in CurveType /\ curve.status # "Settled" /\ curve.rates = NoCurve.rates
    <3> HIDE DEF NoCurve
    <3> QED
      BY <2>2 DEF CurveType, Statuses
  <2> QED
    BY <2>1, <2>2, <2>3, SMT DEF CurveTypeOK, RatesAddUp, OutcomeKnown
<1> QED
  BY <1>1, <1>2, TypesSplit

LEMMA LpStepTypes == PoolTypeOK /\ LpStep => PoolTypeOK'
<1> SUFFICES ASSUME PoolTypeOK, LpStep PROVE PoolTypeOK'
  OBVIOUS
<1>1. CASE Tick
  BY <1>1 DEF Tick, PoolTypeOK
<1>2. CASE InitPmLpPool
  <2>1. lpPool' \in LpPoolType
    BY <1>2 DEF InitPmLpPool, PoolTypeOK, LpPoolType
  <2> QED
    BY <1>2, <2>1 DEF InitPmLpPool, PoolTypeOK
<1>3. ASSUME NEW h \in Stakers, NEW amount \in Stakes, StakePmLp(h, amount) PROVE PoolTypeOK'
  <2>1. h \in Holders /\ amount \in Nat /\ lpPool.yield_acc \in Nat /\ lpPool.loss_acc \in Nat
    BY MarketPoolAssumption DEF PoolTypeOK, LpPoolType
  <2>2. Debt(amount, lpPool.yield_acc) \in Nat /\ Debt(amount, lpPool.loss_acc) \in Nat
    BY <2>1, DebtType
  <2>3. Staked(lp[h], amount) \in LpPositionType
    <3>1. /\ lp[h].staked \in Nat /\ lp[h].yield_debt \in Nat /\ lp[h].loss_debt \in Nat
          /\ lp[h] \in LpPositionType
      BY <2>1 DEF PoolTypeOK, LpPositionType
    <3>2. /\ lp[h].staked + amount \in Nat
          /\ lp[h].yield_debt + Debt(amount, lpPool.yield_acc) \in Nat
          /\ lp[h].loss_debt + Debt(amount, lpPool.loss_acc) \in Nat
      BY <2>1, <2>2, <3>1, SMT
    <3> QED
      BY <3>1, <3>2 DEF Staked, LpPositionType
  <2>4. lp' \in [Holders -> LpPositionType]
    BY <1>3, <2>1, <2>3 DEF StakePmLp, PoolTypeOK
  <2>5. lpPool' \in LpPoolType
    <3>1. lpPool.total_staked \in Nat /\ lpPool.total_yield_weight \in Nat
      BY DEF PoolTypeOK, LpPoolType
    <3>2. lpPool.total_staked + amount \in Nat /\ lpPool.total_yield_weight + amount \in Nat
      BY <2>1, <3>1, SMT
    <3> QED
      BY <1>3, <3>2 DEF StakePmLp, PoolTypeOK, LpPoolType
  <2>6. escrow' \in Nat /\ wallet' \in [Holders -> Nat]
    BY <1>3, <2>1 DEF StakePmLp, StakeEscrowed, PoolTypeOK
  <2> QED
    BY <1>3, <2>4, <2>5, <2>6 DEF StakePmLp, PoolTypeOK
<1>4. ASSUME NEW h \in Stakers, NEW tier \in Tiers, RequestUnstakePmLp(h, tier) PROVE PoolTypeOK'
  <2>1. h \in Holders /\ now \in Nat /\ lp[h].staked \in Nat /\ lpPool.total_staked \in Nat
    BY MarketPoolAssumption DEF PoolTypeOK, LpPoolType, LpPositionType
  <2>2. RequiredCooldown(tier, lp[h].staked, lpPool.total_staked) \in Nat
    <3>1. tier \in 0..3
      BY MarketPoolAssumption
    <3> QED
      BY <2>1, <3>1, CooldownType
  <2> DEFINE wait == RequiredCooldown(tier, lp[h].staked, lpPool.total_staked)
             pos == [lp[h] EXCEPT !.requested_at = now, !.ends_at = now + wait]
  <2>3. pos \in LpPositionType
    <3>1. wait \in Nat /\ now + wait \in Nat
      BY <2>1, <2>2, SMT
    <3> HIDE DEF wait
    <3> QED
      BY <2>1, <3>1 DEF PoolTypeOK, LpPositionType
  <2>4. lp' = [lp EXCEPT ![h] = pos]
    BY <1>4 DEF RequestUnstakePmLp, PoolTypeOK
  <2> QED
    BY <1>4, <2>1, <2>3, <2>4 DEF RequestUnstakePmLp, PoolTypeOK
<1>5. ASSUME NEW h \in Stakers, NEW amount \in Stakes, NEW tier \in Tiers,
             NEW broken \in BOOLEAN, WithdrawPmLp(h, amount, tier, broken)
      PROVE  PoolTypeOK'
  <2> DEFINE pos == lp[h]
             surviving == SatSub(pos.staked, Pending(pos.staked, lpPool.loss_acc, pos.loss_debt))
             principal == Slice(amount, surviving, pos.staked)
             due == Pending(pos.staked, lpPool.yield_acc, pos.yield_debt)
             yield == Slice(amount, due, pos.staked)
  <2>1. /\ h \in Holders /\ amount \in Nat /\ pos.staked \in Nat /\ pos.yield_debt \in Nat
        /\ pos.loss_debt \in Nat /\ lpPool.yield_acc \in Nat /\ lpPool.loss_acc \in Nat
        /\ lpPool.total_staked \in Nat /\ lpPool.total_yield_weight \in Nat
        /\ lpPool.withdraw_day \in Nat /\ lpPool.daily_withdrawn \in Nat /\ now \in Nat
    BY MarketPoolAssumption DEF PoolTypeOK, LpPoolType, LpPositionType
  <2>2. /\ 0 < amount /\ amount <= pos.staked /\ WithdrawalPaid(h, principal, yield)
        /\ lpPool' = [lpPool EXCEPT !.daily_withdrawn = WithdrawnToday + principal,
                                    !.withdraw_day = now \div Day,
                                    !.total_staked = SatSub(@, principal),
                                    !.total_yield_weight = SatSub(@, amount)]
        /\ lp' = [lp EXCEPT ![h] = Remainder(@, amount)]
        /\ UNCHANGED now
    BY <1>5, <2>1 DEF WithdrawPmLp
  <2>3. surviving \in Nat /\ due \in Nat
    BY <2>1, PendingType, SatSubFacts
  <2>4. principal \in Nat /\ yield \in Nat
    <3> HIDE DEF surviving, due
    <3> QED
      BY <2>1, <2>2, <2>3, SliceWithin
  <2> HIDE DEF principal, yield
  <2>5. escrow' \in Nat /\ yieldVault' \in Nat /\ wallet' \in [Holders -> Nat]
    BY <2>1, <2>2, <2>4 DEF WithdrawalPaid, PoolTypeOK
  <2>6. lpPool' \in LpPoolType
    <3>1. now \div Day \in Nat /\ WithdrawnToday \in Nat
      BY <2>1, StakePoolAssumption, Quotient DEF WithdrawnToday
    <3>2. SatSub(lpPool.total_staked, principal) \in Nat /\ SatSub(lpPool.total_yield_weight, amount) \in Nat
      BY <2>1, <2>4, SatSubFacts
    <3>3. WithdrawnToday + principal \in Nat
      BY <2>4, <3>1, SMT
    <3> QED
      BY <2>2, <3>1, <3>2, <3>3 DEF PoolTypeOK, LpPoolType
  <2>7. lp' \in [Holders -> LpPositionType]
    <3>1. Remainder(pos, amount) \in LpPositionType
      <4> DEFINE rest == pos.staked - amount
      <4>1. rest \in Nat /\ pos.staked \in Nat \ {0}
        BY <2>1, <2>2, SMT
      <4>2. /\ ScaledDebt(pos.yield_debt, rest, pos.staked) \in Nat
            /\ ScaledDebt(pos.loss_debt, rest, pos.staked) \in Nat
        BY <2>1, <4>1, ScaledDebtType
      <4>3. NoPosition \in LpPositionType
        BY DEF NoPosition, LpPositionType
      <4> QED
        BY <2>1, <4>1, <4>2, <4>3 DEF Remainder, PoolTypeOK, LpPositionType
    <3> QED
      BY <2>1, <2>2, <3>1 DEF PoolTypeOK
  <2> QED
    BY <2>2, <2>5, <2>6, <2>7 DEF PoolTypeOK
<1>6. ASSUME NEW h \in Stakers, ClaimPmLpYield(h) PROVE PoolTypeOK'
  <2> DEFINE yield == Pending(lp[h].staked, lpPool.yield_acc, lp[h].yield_debt)
             debt == Debt(lp[h].staked, lpPool.yield_acc)
  <2>1. h \in Holders /\ yield \in Nat /\ debt \in Nat
    <3>1. h \in Holders /\ lp[h].staked \in Nat /\ lp[h].yield_debt \in Nat /\ lpPool.yield_acc \in Nat
      BY MarketPoolAssumption DEF PoolTypeOK, LpPoolType, LpPositionType
    <3> QED
      BY <3>1, DebtType, PendingType
  <2>2. /\ ClaimPaid(h, yield) /\ lp' = [lp EXCEPT ![h].yield_debt = debt]
        /\ UNCHANGED <<lpPool, escrow, now>>
    BY <1>6 DEF ClaimPmLpYield
  <2> HIDE DEF yield, debt
  <2>3. lp' \in [Holders -> LpPositionType]
    BY <2>1, <2>2 DEF PoolTypeOK, LpPositionType
  <2> QED
    BY <2>1, <2>2, <2>3 DEF ClaimPaid, PoolTypeOK
<1> QED
  BY <1>1, <1>2, <1>3, <1>4, <1>5, <1>6 DEF LpStep

(* What the types say of the parts the curve's instructions read.          *)
LEMMA CurveFacts ==
    ASSUME MarketTypes
    PROVE  /\ curve \in CurveType /\ RatesAddUp
           /\ curve.total \in [Sides -> Nat] /\ curve.virtual \in [Sides -> Nat]
           /\ curve.rates.fee \in Nat
           /\ curve.firm_fees \in Nat /\ curve.platform_fees \in Nat /\ curve.pool_fees \in Nat
           /\ curve.pool_allocated \in Nat /\ curve.topup_deposited \in Nat
           /\ inventory \in [Sides -> Nat] /\ shares \in [Holders -> [Sides -> Nat]]
           /\ collateral \in Nat /\ escrow \in Nat /\ yieldVault \in Nat
           /\ wallet \in [Holders -> Nat] /\ lpPool \in LpPoolType
           /\ lpPool.total_drawn \in Nat /\ lpPool.total_returned \in Nat
           /\ spare \in [collateral : Nat, escrow : Nat]
           /\ spare.collateral \in Nat /\ spare.escrow \in Nat
BY DEF MarketTypes, MarketTypeOK, CurveType, LpPoolType

LEMMA KeeperStepTypes == MarketTypes /\ KeeperStep => MarketTypes'
<1> SUFFICES ASSUME MarketTypes, KeeperStep PROVE MarketTypes'
  OBVIOUS
<1>0. PoolTypeOK /\ CurveTypeOK
  BY TypesSplit
<1>1. NoCurve \in CurveType /\ NoCurve.status = "None"
      /\ NoCurve.rates.firm = 0 /\ NoCurve.rates.platform = 0 /\ NoCurve.rates.pool = 0
      /\ NoCurve.rates.fee = 0
  <2>1. Pair(0) \in [Sides -> Nat]
    BY DEF Pair
  <2> QED
    BY <2>1 DEF NoCurve, CurveType, Statuses
<1>2. CASE CloseStaleMarketCurve
  <2>1. PoolTypeOK'
    BY <1>0, <1>2, PoolKept DEF CloseStaleMarketCurve
  <2>2. CurveTypeOK'
    <3> HIDE DEF NoCurve
    <3> QED
      BY <1>0, <1>1, <1>2, SMT DEF CloseStaleMarketCurve, CurveTypeOK, RatesAddUp, OutcomeKnown
  <2> QED
    BY <2>1, <2>2, TypesJoin
<1>3. ASSUME NEW seed \in Seeds, NEW rates \in FeeRates, InitMarketCurve(seed, rates)
      PROVE  MarketTypes'
  <2>1. seed \in [Sides -> Nat] /\ rates \in [fee : Nat, firm : Nat, platform : Nat, pool : Nat]
    BY MarketCurveAssumption
  <2>2. /\ curve' \in CurveType /\ curve'.rates = rates /\ curve'.status = "Open"
    BY <1>1, <1>3, <2>1 DEF InitMarketCurve, CurveType, Statuses
  <2>3. inventory' \in [Sides -> Nat]
    BY <1>3 DEF InitMarketCurve, Pair
  <2>4. CurveTypeOK'
    BY <1>0, <1>3, <2>2, <2>3 DEF InitMarketCurve, CurveTypeOK, RatesAddUp, OutcomeKnown
  <2>5. PoolTypeOK'
    BY <1>0, <1>3, PoolKept DEF InitMarketCurve
  <2> QED
    BY <2>4, <2>5, TypesJoin
<1>4. ASSUME NEW status \in Statuses, NEW outcome \in Sides \cup {"None"},
             curve' = [curve EXCEPT !.status = status, !.outcome = outcome],
             status = "Settled" => outcome \in Sides,
             UNCHANGED <<poolVars, inventory, shares, collateral, spare>>
      PROVE  MarketTypes'
  <2>1. /\ curve' \in CurveType /\ curve'.rates = curve.rates /\ curve'.status = status
        /\ curve'.outcome = outcome
    BY <1>0, <1>4 DEF CurveTypeOK, CurveType
  <2>2. CurveTypeOK'
    BY <1>0, <1>4, <2>1 DEF CurveTypeOK, RatesAddUp, OutcomeKnown
  <2>3. PoolTypeOK'
    BY <1>0, <1>4, PoolKept
  <2> QED
    BY <2>2, <2>3, TypesJoin
<1>5. curve.outcome \in Sides \cup {"None"} /\ curve \in CurveType
  BY <1>0 DEF CurveTypeOK, CurveType
<1>6. CASE LockMarket
  <2>1. curve' = [curve EXCEPT !.status = "Locked", !.outcome = curve.outcome]
    BY <1>5, <1>6 DEF LockMarket, CurveType
  <2> QED
    BY <1>4, <1>5, <1>6, <2>1 DEF LockMarket, Statuses
<1>7. ASSUME NEW outcome \in Sides, SettleMarket(outcome) PROVE MarketTypes'
  BY <1>4, <1>7 DEF SettleMarket, Statuses
<1>8. CASE VoidMarket
  <2>1. curve' = [curve EXCEPT !.status = "Void", !.outcome = curve.outcome]
    BY <1>5, <1>8 DEF VoidMarket, CurveType
  <2> QED
    BY <1>4, <1>5, <1>8, <2>1 DEF VoidMarket, Statuses
<1>9. ASSUME NEW amount \in Trades, AllocatePoolToCurve(amount) PROVE MarketTypes'
  <2>1. amount \in Nat
    BY MarketCurveAssumption
  <2>2. /\ Plus(curve.total, amount) \in [Sides -> Nat] /\ Plus(inventory, amount) \in [Sides -> Nat]
        /\ curve.pool_allocated + amount \in Nat /\ lpPool.total_drawn + amount \in Nat
        /\ escrow >= amount => escrow - amount \in Nat
        /\ collateral + amount \in Nat
    <3>1. /\ curve.pool_allocated + amount \in Nat /\ lpPool.total_drawn + amount \in Nat
          /\ escrow >= amount => escrow - amount \in Nat
          /\ collateral + amount \in Nat
      BY <2>1, CurveFacts, SMT
    <3> QED
      BY <2>1, <3>1, CurveFacts, PairFacts
  <2>3. curve' \in CurveType /\ curve'.rates = curve.rates /\ curve'.status = curve.status
        /\ curve'.outcome = curve.outcome
    BY <1>9, <2>2, CurveFacts DEF AllocatePoolToCurve, CurveType
  <2>4. CurveTypeOK'
    BY <1>0, <1>9, <2>2, <2>3 DEF AllocatePoolToCurve, Disbursed, CurveTypeOK, RatesAddUp, OutcomeKnown
  <2>5. lpPool' \in LpPoolType
    BY <1>9, <2>2, CurveFacts DEF AllocatePoolToCurve, Disbursed, LpPoolType
  <2>6. PoolTypeOK'
    BY <1>0, <1>9, <2>2, <2>5 DEF AllocatePoolToCurve, Disbursed, PoolTypeOK
  <2> QED
    BY <2>4, <2>6, TypesJoin
<1>10. ASSUME NEW amount \in Trades, DeallocatePoolFromCurve(amount) PROVE MarketTypes'
  <2>1. amount \in Nat
    BY MarketCurveAssumption
  <2>2. /\ Less(curve.total, amount) \in [Sides -> Nat] /\ Less(inventory, amount) \in [Sides -> Nat]
        /\ SatSub(curve.pool_allocated, amount) \in Nat
        /\ collateral >= amount => collateral - amount \in Nat
        /\ escrow + amount \in Nat /\ lpPool.total_returned + amount \in Nat
    <3>1. /\ collateral >= amount => collateral - amount \in Nat
          /\ escrow + amount \in Nat /\ lpPool.total_returned + amount \in Nat
      BY <2>1, CurveFacts, SMT
    <3> QED
      BY <2>1, <3>1, CurveFacts, PairFacts, SatSubFacts
  <2>3. curve' \in CurveType /\ curve'.rates = curve.rates /\ curve'.status = curve.status
        /\ curve'.outcome = curve.outcome
    BY <1>10, <2>2, CurveFacts DEF DeallocatePoolFromCurve, CurveType
  <2>4. CurveTypeOK'
    BY <1>0, <1>10, <2>2, <2>3 DEF DeallocatePoolFromCurve, Returned, CurveTypeOK, RatesAddUp, OutcomeKnown
  <2>5. lpPool' \in LpPoolType
    BY <1>10, <2>2, CurveFacts DEF DeallocatePoolFromCurve, Returned, LpPoolType
  <2>6. PoolTypeOK'
    BY <1>0, <1>10, <2>2, <2>5 DEF DeallocatePoolFromCurve, Returned, PoolTypeOK
  <2> QED
    BY <2>4, <2>6, TypesJoin
<1> QED
  BY <1>2, <1>3, <1>6, <1>7, <1>8, <1>9, <1>10 DEF KeeperStep

LEMMA DepositedTypes ==
    ASSUME MarketTypes, NEW h \in Holders, NEW amount \in Nat, Deposited(h, amount)
    PROVE  PoolTypeOK' /\ collateral' \in Nat
<1>1. PoolTypeOK /\ collateral + amount \in Nat /\ (wallet[h] >= amount => wallet[h] - amount \in Nat)
  <2>1. wallet[h] \in Nat
    BY CurveFacts
  <2> QED
    BY <2>1, CurveFacts, TypesSplit, SMT
<1>2. wallet' \in [Holders -> Nat]
  BY <1>1, CurveFacts DEF Deposited
<1> QED
  BY <1>1, <1>2 DEF Deposited, PoolTypeOK

LEMMA MergePaidTypes ==
    ASSUME MarketTypes, NEW h \in Holders, NEW amount \in Nat, MergePaid(h, amount)
    PROVE  PoolTypeOK' /\ collateral' \in Nat
<1>1. PoolTypeOK /\ (collateral >= amount => collateral - amount \in Nat) /\ wallet[h] + amount \in Nat
  <2>1. wallet[h] \in Nat
    BY CurveFacts
  <2> QED
    BY <2>1, CurveFacts, TypesSplit, SMT
<1>2. wallet' \in [Holders -> Nat]
  BY <1>1, CurveFacts DEF MergePaid
<1> QED
  BY <1>1, <1>2 DEF MergePaid, PoolTypeOK

LEMMA RedemptionPaidTypes ==
    ASSUME MarketTypes, NEW h \in Holders, NEW amount \in Nat, RedemptionPaid(h, amount)
    PROVE  PoolTypeOK' /\ collateral' \in Nat
<1> DEFINE paid == Min({amount, collateral})
<1>1. paid \in Nat /\ paid <= collateral
  BY CurveFacts, MinOfTwo
<1>2. collateral' = collateral - paid /\ wallet' = [wallet EXCEPT ![h] = @ + paid]
      /\ UNCHANGED <<lpPool, lp, escrow, yieldVault, now, roundings>>
  BY DEF RedemptionPaid
<1> HIDE DEF paid
<1>3. PoolTypeOK /\ collateral - paid \in Nat /\ wallet[h] + paid \in Nat
  <2>1. wallet[h] \in Nat
    BY CurveFacts
  <2> QED
    BY <1>1, <2>1, CurveFacts, TypesSplit, SMT
<1>4. wallet' \in [Holders -> Nat]
  BY <1>2, <1>3, CurveFacts
<1> QED
  BY <1>2, <1>3, <1>4 DEF PoolTypeOK

LEMMA HolderStepTypes ==
    ASSUME MarketTypes, NEW h \in Users, HolderStep(h)
    PROVE  MarketTypes'
<1>0. PoolTypeOK /\ CurveTypeOK /\ h \in Holders
  BY TypesSplit, MarketCurveAssumption
<1>1. ASSUME NEW amount \in Trades, SplitCollateral(h, amount) PROVE MarketTypes'
  <2>1. amount \in Nat
    BY MarketCurveAssumption
  <2>2. PoolTypeOK' /\ collateral' \in Nat
    BY <1>0, <1>1, <2>1, DepositedTypes DEF SplitCollateral
  <2>3. /\ Plus(curve.total, amount) \in [Sides -> Nat] /\ Plus(shares[h], amount) \in [Sides -> Nat]
    <3>1. shares[h] \in [Sides -> Nat]
      BY <1>0, CurveFacts
    <3> QED
      BY <2>1, <3>1, CurveFacts, PairFacts
  <2>4. shares' \in [Holders -> [Sides -> Nat]]
    BY <1>1, <2>3, CurveFacts DEF SplitCollateral
  <2>5. curve' \in CurveType /\ curve'.rates = curve.rates /\ curve'.status = curve.status
        /\ curve'.outcome = curve.outcome
    BY <1>1, <2>3, CurveFacts DEF SplitCollateral, CurveType
  <2>6. CurveTypeOK'
    BY <1>0, <1>1, <2>2, <2>4, <2>5 DEF SplitCollateral, CurveTypeOK, RatesAddUp, OutcomeKnown
  <2> QED
    BY <2>2, <2>6, TypesJoin
<1>2. ASSUME NEW amount \in Trades, MergeShares(h, amount) PROVE MarketTypes'
  <2>1. amount \in Nat
    BY MarketCurveAssumption
  <2>2. PoolTypeOK' /\ collateral' \in Nat
    BY <1>0, <1>2, <2>1, MergePaidTypes DEF MergeShares
  <2>3. /\ Less(curve.total, amount) \in [Sides -> Nat] /\ Less(shares[h], amount) \in [Sides -> Nat]
    <3>1. shares[h] \in [Sides -> Nat]
      BY <1>0, CurveFacts
    <3> QED
      BY <2>1, <3>1, CurveFacts, PairFacts
  <2>4. shares' \in [Holders -> [Sides -> Nat]]
    BY <1>2, <2>3, CurveFacts DEF MergeShares
  <2>5. curve' \in CurveType /\ curve'.rates = curve.rates /\ curve'.status = curve.status
        /\ curve'.outcome = curve.outcome
    BY <1>2, <2>3, CurveFacts DEF MergeShares, CurveType
  <2>6. CurveTypeOK'
    BY <1>0, <1>2, <2>2, <2>4, <2>5 DEF MergeShares, CurveTypeOK, RatesAddUp, OutcomeKnown
  <2> QED
    BY <2>2, <2>6, TypesJoin
<1>3. ASSUME NEW amount \in Trades, AddCurveTopup(h, amount) PROVE MarketTypes'
  <2>1. amount \in Nat
    BY MarketCurveAssumption
  <2>2. PoolTypeOK' /\ collateral' \in Nat
    BY <1>0, <1>3, <2>1, DepositedTypes DEF AddCurveTopup, TopUpDeposited
  <2>3. /\ Plus(curve.total, amount) \in [Sides -> Nat] /\ Plus(inventory, amount) \in [Sides -> Nat]
        /\ curve.topup_deposited + amount \in Nat
    <3>1. curve.topup_deposited + amount \in Nat
      BY <2>1, CurveFacts, SMT
    <3> QED
      BY <2>1, <3>1, CurveFacts, PairFacts
  <2>4. curve' \in CurveType /\ curve'.rates = curve.rates /\ curve'.status = curve.status
        /\ curve'.outcome = curve.outcome
    BY <1>3, <2>3, CurveFacts DEF AddCurveTopup, CurveType
  <2>5. CurveTypeOK'
    BY <1>0, <1>3, <2>2, <2>3, <2>4 DEF AddCurveTopup, CurveTypeOK, RatesAddUp, OutcomeKnown
  <2> QED
    BY <2>2, <2>5, TypesJoin
<1>4. ASSUME NEW from \in Sides, NEW amount \in Trades, NEW minOut \in MinOuts,
             SwapCurveShares(h, from, amount, minOut)
      PROVE  MarketTypes'
  <2> DEFINE to == Other(from)
             gross == buy_output(curve.virtual[from] + inventory[from],
                                 curve.virtual[to] + inventory[to], amount)
             fee == fee_amount(gross, curve.rates.fee)
             net == SatSub(gross, fee)
  <2>1. amount \in Nat /\ to \in Sides /\ to # from
    BY MarketCurveAssumption, SidesAre
  <2>2. /\ amount > 0 /\ gross > 0 /\ shares[h][from] >= amount
        /\ InventoryCovers(from, to, amount, net, fee)
        /\ inventory' = [inventory EXCEPT ![from] = @ + amount - fee, ![to] = @ - net - fee]
        /\ curve' = [curve EXCEPT !.firm_fees = @ + FirmCut(fee),
                                  !.platform_fees = @ + PlatformCut(fee),
                                  !.pool_fees = @ + PoolCut(fee),
                                  !.total = Less(@, fee)]
        /\ shares' = [shares EXCEPT ![h][from] = @ - amount, ![h][to] = @ + net]
        /\ UNCHANGED <<poolVars, collateral, spare>>
    BY <1>4 DEF SwapCurveShares
  <2>3. gross \in Nat /\ fee \in Nat /\ net \in Nat
    <3>1. /\ curve.virtual[from] + inventory[from] \in Nat /\ curve.virtual[to] + inventory[to] \in Nat
          /\ curve.rates.fee \in Nat
      <4>1. /\ curve.virtual[from] \in Nat /\ inventory[from] \in Nat /\ curve.virtual[to] \in Nat
            /\ inventory[to] \in Nat /\ curve.rates.fee \in Nat
        BY <2>1, CurveFacts
      <4> QED
        BY <4>1, SMT
    <3> QED
      BY <2>1, <2>2, <3>1, SwapQuotes
  <2>4. /\ FirmCut(fee) \in Nat /\ PlatformCut(fee) \in Nat /\ PoolCut(fee) \in Nat
        /\ Less(curve.total, fee) \in [Sides -> Nat]
    BY <2>3, CurveFacts, CutsAddUp, PairFacts
  <2> HIDE DEF to, gross, fee, net
  <2>5. /\ curve.firm_fees + FirmCut(fee) \in Nat /\ curve.platform_fees + PlatformCut(fee) \in Nat
        /\ curve.pool_fees + PoolCut(fee) \in Nat
    BY <2>4, CurveFacts, SMT
  <2>6. curve' \in CurveType /\ curve'.rates = curve.rates /\ curve'.status = curve.status
        /\ curve'.outcome = curve.outcome
    BY <2>2, <2>4, <2>5, CurveFacts DEF CurveType
  <2>7. inventory' \in [Sides -> Nat]
    <3>1. inventory[from] \in Nat /\ inventory[to] \in Nat
      BY <2>1, CurveFacts
    <3>2. inventory[from] + amount - fee \in Nat /\ inventory[to] - net - fee \in Nat
      BY <2>1, <2>2, <2>3, <3>1, SMT DEF InventoryCovers
    <3> QED
      BY <2>1, <2>2, <3>2, CurveFacts
  <2>8. shares' \in [Holders -> [Sides -> Nat]]
    <3>1. shares[h][from] \in Nat /\ shares[h][to] \in Nat /\ shares[h] \in [Sides -> Nat]
      BY <1>0, <2>1, CurveFacts
    <3>2. shares[h][from] - amount \in Nat /\ shares[h][to] + net \in Nat
      BY <2>1, <2>2, <2>3, <3>1, SMT
    <3>3. [shares[h] EXCEPT ![from] = @ - amount, ![to] = @ + net] \in [Sides -> Nat]
      BY <2>1, <3>1, <3>2
    <3>4. shares' = [shares EXCEPT ![h] = [shares[h] EXCEPT ![from] = @ - amount, ![to] = @ + net]]
      BY <1>0, <2>1, <2>2, CurveFacts
    <3> QED
      BY <3>3, <3>4, CurveFacts
  <2>9. CurveTypeOK'
    BY <1>0, <2>2, <2>6, <2>7, <2>8 DEF CurveTypeOK, RatesAddUp, OutcomeKnown
  <2>10. PoolTypeOK'
    BY <1>0, <2>2, PoolKept
  <2> QED
    BY <2>9, <2>10, TypesJoin
<1>5. ASSUME NEW amount \in Nat, RedemptionPaid(h, amount),
             curve' = [curve EXCEPT !.total = Redeemed(shares[h])],
             shares' = [shares EXCEPT ![h] = Pair(0)], UNCHANGED <<inventory, spare>>
      PROVE  MarketTypes'
  <2>1. PoolTypeOK' /\ collateral' \in Nat
    BY <1>0, <1>5, RedemptionPaidTypes
  <2>2. Redeemed(shares[h]) \in [Sides -> Nat] /\ Pair(0) \in [Sides -> Nat]
    <3>1. shares[h] \in [Sides -> Nat] /\ Pair(0) \in [Sides -> Nat]
      BY <1>0, CurveFacts DEF Pair
    <3> QED
      BY <3>1, CurveFacts, RedeemedType
  <2>3. curve' \in CurveType /\ curve'.rates = curve.rates /\ curve'.status = curve.status
        /\ curve'.outcome = curve.outcome
    BY <1>5, <2>2, CurveFacts DEF CurveType
  <2>4. shares' \in [Holders -> [Sides -> Nat]]
    BY <1>5, <2>2, CurveFacts
  <2>5. CurveTypeOK'
    BY <1>0, <1>5, <2>1, <2>3, <2>4 DEF CurveTypeOK, RatesAddUp, OutcomeKnown
  <2> QED
    BY <2>1, <2>5, TypesJoin
<1>6. CASE RedeemShares(h)
  <2>1. shares[h][curve.outcome] \in Nat
    BY <1>0, <1>6 DEF RedeemShares, CurveTypeOK, OutcomeKnown
  <2> QED
    BY <1>5, <1>6, <2>1 DEF RedeemShares
<1>7. CASE RedeemVoidShares(h)
  <2>1. pm_void_redeem_payout(shares[h]) \in Nat
    <3>1. shares[h]["Pass"] \in Nat /\ shares[h]["Fail"] \in Nat
      BY <1>0 DEF CurveTypeOK, Sides
    <3>2. shares[h]["Pass"] + shares[h]["Fail"] \in Nat
      BY <3>1, SMT
    <3> QED
      BY <3>2, Quotient DEF pm_void_redeem_payout
  <2> QED
    BY <1>5, <1>7, <2>1 DEF RedeemVoidShares, VoidPaid
<1>8. ASSUME NEW amount \in Gifts, NEW vault \in {"collateral", "escrow"}, Gift(h, amount, vault)
      PROVE  MarketTypes'
  <2>1. amount \in Nat /\ wallet[h] \in Nat
    BY <1>0, MarketCurveAssumption, CurveFacts
  <2>2. /\ wallet[h] >= amount => wallet[h] - amount \in Nat
        /\ collateral + amount \in Nat /\ escrow + amount \in Nat
        /\ spare[vault] + amount \in Nat
    <3>1. spare[vault] \in Nat
      BY CurveFacts
    <3> QED
      BY <2>1, <3>1, CurveFacts, SMT
  <2>3. wallet' \in [Holders -> Nat]
    BY <1>8, <2>2, CurveFacts DEF Gift
  <2>4. spare' \in [collateral : Nat, escrow : Nat]
    BY <1>8, <2>2, CurveFacts DEF Gift
  <2>5. collateral' \in Nat /\ escrow' \in Nat
    BY <1>8, <2>2, CurveFacts DEF Gift
  <2>6. PoolTypeOK'
    BY <1>0, <1>8, <2>3, <2>5 DEF Gift, PoolTypeOK
  <2>7. CurveTypeOK'
    BY <1>0, <1>8, <2>4, <2>5 DEF Gift, CurveTypeOK, RatesAddUp, OutcomeKnown
  <2> QED
    BY <2>6, <2>7, TypesJoin
<1> QED
  BY <1>1, <1>2, <1>3, <1>4, <1>6, <1>7, <1>8 DEF HolderStep

LEMMA CrankStepTypes == MarketTypes /\ CrankStep => MarketTypes'
<1> SUFFICES ASSUME MarketTypes, CrankStep PROVE MarketTypes'
  OBVIOUS
<1>0. PoolTypeOK /\ CurveTypeOK
  BY TypesSplit
<1>1. CASE SweepCurveFeesToPool
  <2> DEFINE amount == Min({curve.pool_fees, collateral})
  <2>1. amount \in Nat /\ amount <= collateral
    BY CurveFacts, MinOfTwo
  <2>2. SweptToYield(amount) /\ curve' = [curve EXCEPT !.pool_fees = SatSub(@, amount)]
        /\ UNCHANGED <<inventory, shares, spare>>
    BY <1>1 DEF SweepCurveFeesToPool
  <2> HIDE DEF amount
  <2>3. /\ SatSub(curve.pool_fees, amount) \in Nat /\ collateral - amount \in Nat
        /\ yieldVault + amount \in Nat
    <3>1. collateral - amount \in Nat /\ yieldVault + amount \in Nat
      BY <2>1, CurveFacts, SMT
    <3> QED
      BY <2>1, <3>1, CurveFacts, SatSubFacts
  <2>4. curve' \in CurveType /\ curve'.rates = curve.rates /\ curve'.status = curve.status
        /\ curve'.outcome = curve.outcome
    BY <2>2, <2>3, CurveFacts DEF CurveType
  <2>5. CurveTypeOK'
    BY <1>0, <2>2, <2>3, <2>4 DEF SweptToYield, CurveTypeOK, RatesAddUp, OutcomeKnown
  <2>6. lpPool' \in LpPoolType
    <3>1. /\ lpPool.yield_acc \in Nat /\ lpPool.unallocated_yield \in Nat
          /\ lpPool.total_yield_weight \in Nat
      BY CurveFacts DEF LpPoolType
    <3>2. /\ FoldedAcc(lpPool.yield_acc, lpPool.unallocated_yield, amount, lpPool.total_yield_weight) \in Nat
          /\ FoldedRest(lpPool.unallocated_yield, amount, lpPool.total_yield_weight) \in Nat
      BY <2>1, <3>1, FoldedTypes
    <3> QED
      BY <2>2, <3>2, CurveFacts DEF SweptToYield, LpPoolType
  <2>7. PoolTypeOK'
    BY <1>0, <2>2, <2>3, <2>6 DEF SweptToYield, PoolTypeOK
  <2> QED
    BY <2>5, <2>7, TypesJoin
<1>2. ASSUME NEW toVault \in BOOLEAN, RedeemInventory(toVault) PROVE MarketTypes'
  <2> DEFINE amount == Min({inventory[curve.outcome], collateral})
  <2>1. amount \in Nat /\ amount <= collateral
    <3>1. inventory[curve.outcome] \in Nat
      BY <1>0, <1>2 DEF RedeemInventory, CurveTypeOK, OutcomeKnown
    <3> QED
      BY <3>1, CurveFacts, MinOfTwo
  <2>2. /\ InventoryLeft(amount, toVault) /\ curve' = [curve EXCEPT !.total = Redeemed(inventory)]
        /\ inventory' = Pair(0) /\ UNCHANGED <<poolVars, shares>>
    BY <1>2 DEF RedeemInventory
  <2> HIDE DEF amount
  <2>3. Redeemed(inventory) \in [Sides -> Nat] /\ Pair(0) \in [Sides -> Nat]
    BY CurveFacts, RedeemedType DEF Pair
  <2>4. curve' \in CurveType /\ curve'.rates = curve.rates /\ curve'.status = curve.status
        /\ curve'.outcome = curve.outcome
    BY <2>2, <2>3, CurveFacts DEF CurveType
  <2>5. spare' \in [collateral : Nat, escrow : Nat] /\ collateral' \in Nat
    <3>1. spare.collateral + amount \in Nat /\ collateral - amount \in Nat
      BY <2>1, CurveFacts, SMT
    <3> QED
      BY <2>2, <3>1, CurveFacts DEF InventoryLeft
  <2>6. CurveTypeOK'
    BY <1>0, <2>2, <2>3, <2>4, <2>5 DEF CurveTypeOK, RatesAddUp, OutcomeKnown
  <2>7. PoolTypeOK'
    BY <1>0, <2>2, PoolKept
  <2> QED
    BY <2>6, <2>7, TypesJoin
<1>3. CASE RedeemVoidCurveInventory
  <2> DEFINE payout == pm_void_redeem_payout(inventory)
             amount == Min({payout, collateral})
  <2>1. payout \in Nat /\ amount \in Nat /\ amount <= collateral
    <3>1. inventory["Pass"] \in Nat /\ inventory["Fail"] \in Nat
      BY CurveFacts DEF Sides
    <3>2. inventory["Pass"] + inventory["Fail"] \in Nat
      BY <3>1, SMT
    <3>3. payout \in Nat
      BY <3>2, Quotient DEF pm_void_redeem_payout
    <3> QED
      BY <3>3, CurveFacts, MinOfTwo
  <2>2. /\ Returned(amount, payout)
        /\ curve' = [curve EXCEPT !.total = Redeemed(inventory), !.pool_allocated = 0]
        /\ inventory' = Pair(0) /\ UNCHANGED <<shares, spare>>
    BY <1>3 DEF RedeemVoidCurveInventory
  <2> HIDE DEF amount, payout
  <2>3. Redeemed(inventory) \in [Sides -> Nat] /\ Pair(0) \in [Sides -> Nat]
    BY CurveFacts, RedeemedType DEF Pair
  <2>4. curve' \in CurveType /\ curve'.rates = curve.rates /\ curve'.status = curve.status
        /\ curve'.outcome = curve.outcome
    BY <2>2, <2>3, CurveFacts DEF CurveType
  <2>5. collateral - amount \in Nat /\ escrow + amount \in Nat /\ lpPool.total_returned + payout \in Nat
    BY <2>1, CurveFacts, SMT
  <2>6. CurveTypeOK'
    BY <1>0, <2>2, <2>3, <2>4, <2>5 DEF Returned, CurveTypeOK, RatesAddUp, OutcomeKnown
  <2>7. lpPool' \in LpPoolType
    BY <2>2, <2>5, CurveFacts DEF Returned, LpPoolType
  <2>8. PoolTypeOK'
    BY <1>0, <2>2, <2>5, <2>7 DEF Returned, PoolTypeOK
  <2> QED
    BY <2>6, <2>8, TypesJoin
<1> QED
  BY <1>1, <1>2, <1>3 DEF CrankStep

LEMMA StepTypes == MarketTypes /\ [MarketNext]_marketVars => MarketTypes'
<1> SUFFICES ASSUME MarketTypes, [MarketNext]_marketVars PROVE MarketTypes'
  OBVIOUS
<1>0. PoolTypeOK /\ CurveTypeOK
  BY TypesSplit
<1>1. CASE LpStep /\ UNCHANGED curveVars
  BY <1>0, <1>1, LpStepTypes, CurveKept, TypesJoin
<1>2. CASE UNCHANGED marketVars
  <2>1. UNCHANGED poolVars /\ UNCHANGED curveVars
    BY <1>2 DEF marketVars
  <2> QED
    BY <1>0, <2>1, PoolKept, CurveKept, TypesJoin
<1> QED
  BY <1>1, <1>2, KeeperStepTypes, HolderStepTypes, CrankStepTypes DEF MarketNext

(* Every account of the pool and the curve keeps its type: no balance and  *)
(* no book of the market can be driven below zero, in any order of calls.  *)
THEOREM MarketIsTyped == MarketSpec => []MarketTypes
BY InitTypes, StepTypes, PTL DEF MarketSpec

THEOREM MarketTypesHold == MarketSpec => []MarketTypeOK
<1>1. MarketTypes => MarketTypeOK
  BY DEF MarketTypes
<1> QED
  BY <1>1, MarketIsTyped, PTL

----------------------------------------------------------------------------
(* The trader's position: he cannot swap, and pairs and redemptions move   *)
(* both of its sides alike.                                                *)
LEMMA NeutralStep ==
    MarketTypes /\ TraderStaysNeutral /\ [MarketNext]_marketVars => TraderStaysNeutral'
<1> SUFFICES ASSUME MarketTypes, TraderStaysNeutral, [MarketNext]_marketVars
             PROVE  TraderStaysNeutral'
  OBVIOUS
<1>0. /\ Trader \in Holders /\ Users \subseteq Holders
      /\ shares \in [Holders -> [Sides -> Nat]] /\ shares[Trader]["Pass"] = shares[Trader]["Fail"]
  BY MarketCurveAssumption, CurveFacts DEF TraderStaysNeutral
<1>1. CASE UNCHANGED shares
  BY <1>0, <1>1 DEF TraderStaysNeutral
<1>2. ASSUME NEW h \in Holders, NEW amount \in Nat,
             \/ shares' = [shares EXCEPT ![h] = Plus(@, amount)]
             \/ shares' = [shares EXCEPT ![h] = Less(@, amount)]
             \/ shares' = [shares EXCEPT ![h] = Pair(0)]
      PROVE  TraderStaysNeutral'
  BY <1>0, <1>2, SMT DEF TraderStaysNeutral, Plus, Less, Pair, SatSub, Sides
<1>3. ASSUME NEW h \in Users, HolderStep(h) PROVE TraderStaysNeutral'
  <2>0. h \in Holders /\ Trades \subseteq Nat /\ 0 \in Nat
    BY <1>0, MarketCurveAssumption
  <2>1. ASSUME NEW amount \in Trades,
               SplitCollateral(h, amount) \/ MergeShares(h, amount) \/ AddCurveTopup(h, amount)
        PROVE  TraderStaysNeutral'
    BY <1>1, <1>2, <2>0, <2>1 DEF SplitCollateral, MergeShares, AddCurveTopup
  <2>2. ASSUME NEW from \in Sides, NEW amount \in Trades, NEW minOut \in MinOuts,
               SwapCurveShares(h, from, amount, minOut)
        PROVE  TraderStaysNeutral'
    <3>1. h # Trader
      BY <2>2 DEF SwapCurveShares, MaySwap
    <3>2. shares'[Trader] = shares[Trader]
      <4>1. \E a, b : shares' = [shares EXCEPT ![h][from] = a, ![h][Other(from)] = b]
        BY <2>2 DEF SwapCurveShares
      <4> QED
        BY <1>0, <3>1, <4>1
    <3> QED
      BY <1>0, <3>2 DEF TraderStaysNeutral
  <2>3. CASE RedeemShares(h) \/ RedeemVoidShares(h)
    BY <1>2, <2>0, <2>3 DEF RedeemShares, RedeemVoidShares
  <2>4. ASSUME NEW amount \in Gifts, NEW vault \in {"collateral", "escrow"}, Gift(h, amount, vault)
        PROVE  TraderStaysNeutral'
    BY <1>1, <2>4 DEF Gift
  <2> QED
    BY <1>3, <2>1, <2>2, <2>3, <2>4 DEF HolderStep
<1>4. CASE (LpStep /\ UNCHANGED curveVars) \/ UNCHANGED marketVars
  BY <1>1, <1>4 DEF curveVars, marketVars
<1>5. CASE KeeperStep
  <2>1. UNCHANGED shares
    BY <1>5 DEF KeeperStep, CloseStaleMarketCurve, InitMarketCurve, LockMarket, SettleMarket,
                VoidMarket, AllocatePoolToCurve, DeallocatePoolFromCurve
  <2> QED
    BY <1>1, <2>1
<1>6. CASE CrankStep
  <2>1. UNCHANGED shares
    BY <1>6 DEF CrankStep, SweepCurveFeesToPool, RedeemInventory, RedeemVoidCurveInventory
  <2> QED
    BY <1>1, <2>1
<1> QED
  BY <1>3, <1>4, <1>5, <1>6 DEF MarketNext

(* A challenge's own trader never holds more of one outcome than of the    *)
(* other, whoever calls what in which order.                               *)
THEOREM TraderNeutral == MarketSpec => []TraderStaysNeutral
<1>1. MarketInit => TraderStaysNeutral
  <2>1. ASSUME MarketInit PROVE TraderStaysNeutral
    <3>1. Trader \in Holders /\ shares = [h \in Holders |-> Pair(0)]
      BY <2>1, MarketCurveAssumption DEF MarketInit, CurveInit
    <3> QED
      BY <3>1 DEF TraderStaysNeutral, Pair, Sides
  <2> QED
    BY <2>1
<1> QED
  BY <1>1, MarketIsTyped, NeutralStep, PTL DEF MarketSpec

----------------------------------------------------------------------------
(* The market's books. What MarketIsSolvent needs to be inductive: before  *)
(* a market is opened there is nothing in its books and in its vault.      *)
Idle == curve.status \in {"None", "Stale"}
Earmarked == Fees + spare.collateral

NothingYet ==
    Idle => /\ collateral = 0 /\ Earmarked = 0
            /\ \A side \in Sides : curve.total[side] = 0 /\ inventory[side] = 0

MarketBooks == NothingYet /\ MarketIsSolvent

LEMMA BookFacts ==
    ASSUME MarketTypes
    PROVE  /\ Fees \in Nat /\ Earmarked \in Nat /\ collateral \in Nat
           /\ \A side \in Sides : curve.total[side] \in Nat /\ inventory[side] \in Nat
           /\ curve.status \in Statuses
BY CurveFacts, SMT DEF Fees, Earmarked, CurveType

(* A holder's shares that change by d move the sum by d.                   *)
LEMMA SharesMove ==
    ASSUME NEW p \in [Holders -> [Sides -> Nat]], NEW q \in [Holders -> [Sides -> Nat]],
           NEW side \in Sides, NEW h \in Holders, \A i \in Holders : i # h => q[i] = p[i]
    PROVE  /\ SumTo([i \in Holders |-> p[i][side]], N) \in Nat
           /\ p[h][side] <= SumTo([i \in Holders |-> p[i][side]], N)
           /\ SumTo([i \in Holders |-> q[i][side]], N)
                = SumTo([i \in Holders |-> p[i][side]], N) + q[h][side] - p[h][side]
<1> DEFINE f == [i \in Holders |-> p[i][side]]
           g == [i \in Holders |-> q[i][side]]
<1>1. N \in Nat /\ Holders = 1..N
  BY MarketPoolAssumption DEF Holders
<1>2. /\ f \in [1..N -> Nat] /\ g \in [1..N -> Nat] /\ h \in 1..N
      /\ f[h] = p[h][side] /\ g[h] = q[h][side] /\ \A i \in 1..N : i # h => g[i] = f[i]
  BY <1>1
<1>3. f \in [1..N -> Int] /\ g \in [1..N -> Int]
  BY <1>2
<1> HIDE DEF f, g
<1>4. SumTo(f, N) \in Nat /\ f[h] <= SumTo(f, N)
  BY <1>1, <1>2, SumCovers
<1>5. SumTo(g, N) = SumTo(f, N) + g[h] - f[h]
  BY <1>1, <1>2, <1>3, SumChange
<1> QED
  BY <1>2, <1>4, <1>5 DEF f, g

(* What one holder and the inventory hold is part of the total.            *)
LEMMA HeldWithinTotal ==
    ASSUME MarketTypes, TotalsAreHeld, NEW h \in Holders, NEW side \in Sides
    PROVE  /\ shares[h][side] \in Nat
           /\ shares[h][side] + inventory[side] <= curve.total[side]
<1>1. shares \in [Holders -> [Sides -> Nat]]
  BY CurveFacts
<1>2. HeldOutside(side) \in Nat /\ shares[h][side] <= HeldOutside(side)
  BY <1>1, SharesMove DEF HeldOutside
<1>3. shares[h][side] \in Nat /\ inventory[side] \in Nat
      /\ curve.total[side] = HeldOutside(side) + inventory[side]
  BY <1>1, CurveFacts DEF TotalsAreHeld
<1> QED
  BY <1>2, <1>3, SMT

(* Totals stay exact when what leaves a holder and the inventory leaves    *)
(* the total.                                                              *)
LEMMA TotalsMove ==
    ASSUME MarketTypes, MarketTypes', TotalsAreHeld, NEW h \in Holders,
           \A i \in Holders : i # h => shares'[i] = shares[i],
           \A side \in Sides : curve'.total[side] + shares[h][side] + inventory[side]
                                 = curve.total[side] + shares'[h][side] + inventory'[side]
    PROVE  TotalsAreHeld'
<1>1. ASSUME NEW side \in Sides
      PROVE  curve'.total[side] = SumTo([i \in Holders |-> shares'[i][side]], N) + inventory'[side]
  <2>1. shares \in [Holders -> [Sides -> Nat]] /\ shares' \in [Holders -> [Sides -> Nat]]
    BY DEF MarketTypes, MarketTypeOK
  <2>2. /\ HeldOutside(side) \in Nat
        /\ SumTo([i \in Holders |-> shares'[i][side]], N)
             = HeldOutside(side) + shares'[h][side] - shares[h][side]
    BY <2>1, SharesMove DEF HeldOutside
  <2>3. /\ curve.total[side] \in Nat /\ curve'.total[side] \in Nat /\ inventory[side] \in Nat
        /\ inventory'[side] \in Nat /\ shares[h][side] \in Nat /\ shares'[h][side] \in Nat
    BY <2>1 DEF MarketTypes, MarketTypeOK, CurveType
  <2>4. /\ curve.total[side] = HeldOutside(side) + inventory[side]
        /\ curve'.total[side] + shares[h][side] + inventory[side]
             = curve.total[side] + shares'[h][side] + inventory'[side]
    BY DEF TotalsAreHeld
  <2>5. ASSUME NEW a \in Nat, NEW b \in Nat, NEW c \in Nat, NEW i \in Nat, NEW j \in Nat,
               NEW x \in Nat, NEW y \in Nat, NEW z, z = c + y - x, a = c + i, b + x + i = a + y + j
        PROVE  b = z + j
    BY <2>5, SMT
  <2> QED
    BY <2>2, <2>3, <2>4, <2>5
<1> QED
  BY <1>1 DEF TotalsAreHeld, HeldOutside

LEMMA TotalsKept ==
    ASSUME MarketTypes, MarketTypes', TotalsAreHeld, shares' = shares,
           \A side \in Sides : curve'.total[side] + inventory[side]
                                 = curve.total[side] + inventory'[side]
    PROVE  TotalsAreHeld'
<1>1. Trader \in Holders
  BY MarketCurveAssumption
<1>2. ASSUME NEW side \in Sides
      PROVE  curve'.total[side] + shares[Trader][side] + inventory[side]
                = curve.total[side] + shares'[Trader][side] + inventory'[side]
  <2>1. /\ curve.total[side] \in Nat /\ curve'.total[side] \in Nat /\ inventory[side] \in Nat
        /\ inventory'[side] \in Nat /\ shares[Trader][side] \in Nat
    BY <1>1 DEF MarketTypes, MarketTypeOK, CurveType
  <2>2. shares'[Trader][side] = shares[Trader][side]
    OBVIOUS
  <2> QED
    BY <2>1, <2>2, SMT
<1> QED
  BY <1>1, <1>2, TotalsMove

(* A step that takes d pairs out of the totals, and d and e out of the     *)
(* collateral, of which e was earmarked, leaves the market solvent.        *)
LEMMA BooksStep ==
    ASSUME MarketTypes, MarketTypes', MarketBooks, ~ Idle, TotalsAreHeld', NEW d \in Int, NEW e \in Int,
           curve'.status = curve.status, curve'.outcome = curve.outcome,
           \A side \in Sides : curve'.total[side] = curve.total[side] - d,
           collateral' = collateral - d - e, Earmarked' = Earmarked - e
    PROVE  MarketBooks'
<1>1. /\ Earmarked \in Nat /\ collateral \in Nat
      /\ \A side \in Sides : curve.total[side] \in Nat
  BY BookFacts
<1>2. Live' => \A side \in Sides : collateral' = curve'.total[side] + Earmarked'
  <2>1. ASSUME Live', NEW side \in Sides PROVE collateral' = curve'.total[side] + Earmarked'
    <3>1. collateral = curve.total[side] + Earmarked
      <4>1. collateral = curve.total[side] + Fees + spare.collateral
        BY <2>1 DEF MarketBooks, MarketIsSolvent, Live
      <4> QED
        BY <4>1, BookFacts, CurveFacts, SMT DEF Earmarked
    <3>2. curve'.total[side] = curve.total[side] - d /\ curve.total[side] \in Nat
      BY <1>1
    <3> HIDE DEF Earmarked
    <3> QED
      BY <1>1, <3>1, <3>2, SMT
  <2> QED
    BY <2>1
<1>3. curve'.status = "Settled" => collateral' = curve'.total[curve'.outcome] + Earmarked'
  <2>1. ASSUME curve'.status = "Settled" PROVE collateral' = curve'.total[curve'.outcome] + Earmarked'
    <3>1. curve.status = "Settled" /\ curve.outcome \in Sides
      BY <2>1 DEF MarketTypes, OutcomeKnown
    <3>2. collateral = curve.total[curve.outcome] + Earmarked
      <4>1. collateral = curve.total[curve.outcome] + Fees + spare.collateral
        BY <3>1 DEF MarketBooks, MarketIsSolvent
      <4>2. curve.total[curve.outcome] \in Nat
        BY <3>1, CurveFacts
      <4> QED
        BY <4>1, <4>2, BookFacts, CurveFacts, SMT DEF Earmarked
    <3>3. curve'.total[curve'.outcome] = curve.total[curve.outcome] - d /\ curve.total[curve.outcome] \in Nat
      BY <1>1, <3>1
    <3> QED
      BY <1>1, <3>2, <3>3, SMT
  <2> QED
    BY <2>1
<1>4. curve'.status = "Void" =>
        2 * collateral' >= curve'.total["Pass"] + curve'.total["Fail"] + 2 * Earmarked'
  <2>1. ASSUME curve'.status = "Void"
        PROVE  2 * collateral' >= curve'.total["Pass"] + curve'.total["Fail"] + 2 * Earmarked'
    <3>1. 2 * collateral >= curve.total["Pass"] + curve.total["Fail"] + 2 * Earmarked
      BY <2>1 DEF MarketBooks, MarketIsSolvent, Earmarked
    <3>2. /\ curve'.total["Pass"] = curve.total["Pass"] - d /\ curve.total["Pass"] \in Nat
          /\ curve'.total["Fail"] = curve.total["Fail"] - d /\ curve.total["Fail"] \in Nat
      BY <1>1 DEF Sides
    <3> QED
      BY <1>1, <3>1, <3>2, SMT
  <2> QED
    BY <2>1
<1>5. MarketIsSolvent'
  <2>1. ASSUME NEW t \in Nat, NEW f \in Nat, NEW g \in Nat PROVE t + (f + g) = t + f + g
    BY SMT
  <2>2. Fees' \in Nat /\ spare'.collateral \in Nat /\ curve'.total \in [Sides -> Nat]
    <3>1. curve' \in CurveType /\ spare'.collateral \in Nat
      BY DEF MarketTypes, MarketTypeOK
    <3> QED
      BY <3>1, SMT DEF CurveType, Fees
  <2>3. curve'.status = "Settled" => curve'.outcome \in Sides
    BY DEF MarketTypes, OutcomeKnown
  <2> QED
    BY <1>2, <1>3, <1>4, <2>1, <2>2, <2>3 DEF MarketIsSolvent, Earmarked
<1>6. ~ Idle'
  BY DEF Idle
<1> QED
  BY <1>5, <1>6 DEF MarketBooks, NothingYet

(* One token per pair and the earmarked ones are enough in every status.   *)
LEMMA FullyBacked ==
    ASSUME MarketTypes', TotalsAreHeld', ~ Idle',
           \A side \in Sides : collateral' = curve'.total[side] + Earmarked'
    PROVE  MarketBooks'
<1>1. /\ curve'.total["Pass"] \in Nat /\ curve'.total["Fail"] \in Nat
      /\ curve'.total \in [Sides -> Nat] /\ collateral' \in Nat
      /\ curve'.firm_fees \in Nat /\ curve'.platform_fees \in Nat /\ curve'.pool_fees \in Nat
      /\ spare'.collateral \in Nat
      /\ curve'.status = "Settled" => curve'.outcome \in Sides
  BY DEF MarketTypes, MarketTypeOK, CurveType, Sides, OutcomeKnown
<1>2. Fees' \in Nat /\ Earmarked' \in Nat
  BY <1>1, SMT DEF Fees, Earmarked
<1>3. ASSUME NEW side \in Sides PROVE collateral' = curve'.total[side] + Fees' + spare'.collateral
  <2>1. curve'.total[side] \in Nat
    BY <1>1
  <2> QED
    BY <1>1, <1>2, <2>1, SMT DEF Earmarked
<1>4. 2 * collateral' >= curve'.total["Pass"] + curve'.total["Fail"] + 2 * Earmarked'
  <2>1. collateral' = curve'.total["Pass"] + Earmarked' /\ collateral' = curve'.total["Fail"] + Earmarked'
    BY DEF Sides
  <2> QED
    BY <1>1, <1>2, <2>1, SMT
<1> QED
  BY <1>1, <1>3, <1>4 DEF MarketBooks, NothingYet, MarketIsSolvent, Earmarked

LEMMA LiveIsBacked ==
    ASSUME MarketTypes, MarketBooks, Live, NEW side \in Sides
    PROVE  collateral = curve.total[side] + Earmarked
<1>1. collateral = curve.total[side] + Fees + spare.collateral
  BY DEF MarketBooks, MarketIsSolvent
<1>2. Fees \in Nat /\ spare.collateral \in Nat /\ curve.total[side] \in Nat
  BY BookFacts, CurveFacts
<1> QED
  BY <1>1, <1>2, SMT DEF Earmarked

LEMMA KeeperStepBooks ==
    ASSUME MarketTypes, MarketTypes', MarketBooks, KeeperStep
    PROVE  MarketBooks'
<1>0. TotalsAreHeld /\ (curve.status = "Open" => Live)
  BY DEF MarketBooks, MarketIsSolvent, Live
<1>1. /\ NoCurve.status = "None" /\ NoCurve.outcome = "None"
      /\ NoCurve.firm_fees = 0 /\ NoCurve.platform_fees = 0 /\ NoCurve.pool_fees = 0
      /\ NoCurve.total = Pair(0)
      /\ \A side \in Sides : Pair(0)[side] = 0
  BY DEF NoCurve, Pair
<1>2. ASSUME Idle, curve'.firm_fees = 0, curve'.platform_fees = 0, curve'.pool_fees = 0,
             curve'.total = Pair(0), \A side \in Sides : inventory'[side] = 0,
             UNCHANGED <<shares, collateral, spare>>
      PROVE  /\ TotalsAreHeld' /\ Earmarked' = 0 /\ collateral' = 0
             /\ \A side \in Sides : curve'.total[side] = 0
  <2>1. /\ Earmarked = 0 /\ collateral = 0
        /\ \A side \in Sides : curve.total[side] = 0 /\ inventory[side] = 0
    BY <1>2 DEF MarketBooks, NothingYet
  <2>2. TotalsAreHeld'
    BY <1>0, <1>1, <1>2, <2>1, TotalsKept
  <2>3. spare.collateral = 0
    BY <2>1, BookFacts, CurveFacts, SMT DEF Earmarked
  <2>4. Earmarked' = 0
    BY <1>2, <2>3, SMT DEF Earmarked, Fees
  <2> QED
    BY <1>1, <1>2, <2>1, <2>2, <2>4
<1>3. CASE CloseStaleMarketCurve
  <2>1. Idle /\ curve' = NoCurve /\ UNCHANGED <<inventory, shares, collateral, spare>>
    BY <1>3 DEF CloseStaleMarketCurve, Idle
  <2>2. \A side \in Sides : inventory'[side] = 0
    BY <2>1 DEF MarketBooks, NothingYet
  <2>3. /\ TotalsAreHeld' /\ Earmarked' = 0 /\ collateral' = 0
        /\ \A side \in Sides : curve'.total[side] = 0
    <3> HIDE DEF NoCurve
    <3> QED
      BY <1>1, <1>2, <2>1, <2>2
  <2>4. curve'.status = "None"
    BY <1>1, <2>1
  <2> QED
    BY <2>2, <2>3, <2>4 DEF MarketBooks, NothingYet, MarketIsSolvent, Live
<1>4. ASSUME NEW seed \in Seeds, NEW rates \in FeeRates, InitMarketCurve(seed, rates)
      PROVE  MarketBooks'
  <2>1. /\ Idle /\ curve' = [NoCurve EXCEPT !.status = "Open", !.virtual = seed, !.rates = rates]
        /\ inventory' = Pair(0) /\ UNCHANGED <<shares, collateral, spare>>
    BY <1>4 DEF InitMarketCurve, Idle
  <2>2. /\ curve'.status = "Open" /\ curve'.firm_fees = 0 /\ curve'.platform_fees = 0
        /\ curve'.pool_fees = 0 /\ curve'.total = Pair(0)
    BY <2>1 DEF NoCurve
  <2>3. /\ TotalsAreHeld' /\ Earmarked' = 0 /\ collateral' = 0
        /\ \A side \in Sides : curve'.total[side] = 0
    BY <1>1, <1>2, <2>1, <2>2
  <2> QED
    BY <2>2, <2>3, FullyBacked DEF Idle
<1>5. ASSUME Live, ~ Idle',
             curve'.total = curve.total, curve'.firm_fees = curve.firm_fees,
             curve'.platform_fees = curve.platform_fees, curve'.pool_fees = curve.pool_fees,
             UNCHANGED <<inventory, shares, collateral, spare>>
      PROVE  MarketBooks'
  <2>1. TotalsAreHeld'
    BY <1>0, <1>5, TotalsKept
  <2>2. Earmarked' = Earmarked
    BY <1>5 DEF Earmarked, Fees
  <2>3. \A side \in Sides : collateral' = curve'.total[side] + Earmarked'
    BY <1>5, <2>2, LiveIsBacked
  <2> QED
    BY <1>5, <2>1, <2>3, FullyBacked
<1>6. curve \in CurveType
  BY CurveFacts
<1>7. CASE LockMarket
  <2>1. Live /\ curve' = [curve EXCEPT !.status = "Locked"]
        /\ UNCHANGED <<inventory, shares, collateral, spare>>
    BY <1>7 DEF LockMarket, Live
  <2> QED
    BY <1>5, <1>6, <2>1 DEF CurveType, Idle
<1>8. ASSUME NEW outcome \in Sides, SettleMarket(outcome) PROVE MarketBooks'
  BY <1>5, <1>6, <1>8 DEF SettleMarket, CurveType, Idle
<1>9. CASE VoidMarket
  BY <1>5, <1>6, <1>9 DEF VoidMarket, CurveType, Idle
<1>10. ASSUME NEW amount \in Trades, AllocatePoolToCurve(amount) PROVE MarketBooks'
  <2>1. amount \in Nat /\ ~ Idle
    BY <1>0, <1>10, MarketCurveAssumption DEF AllocatePoolToCurve, Idle
  <2>2. /\ curve'.status = curve.status /\ curve'.outcome = curve.outcome
        /\ curve'.total = Plus(curve.total, amount) /\ inventory' = Plus(inventory, amount)
        /\ collateral' = collateral + amount /\ shares' = shares
        /\ Earmarked' = Earmarked
    BY <1>6, <1>10 DEF AllocatePoolToCurve, Disbursed, CurveType, Earmarked, Fees
  <2>3. /\ \A side \in Sides : /\ curve'.total[side] = curve.total[side] + amount
                               /\ inventory'[side] = inventory[side] + amount
                               /\ curve.total[side] \in Nat /\ inventory[side] \in Nat
    BY <2>2, BookFacts DEF Plus
  <2>4. \A side \in Sides : curve'.total[side] + inventory[side] = curve.total[side] + inventory'[side]
    BY <2>1, <2>3, SMT
  <2>5. TotalsAreHeld'
    BY <1>0, <2>2, <2>4, TotalsKept
  <2>6. /\ 0 - amount \in Int /\ 0 \in Int
        /\ \A side \in Sides : curve'.total[side] = curve.total[side] - (0 - amount)
        /\ collateral' = collateral - (0 - amount) - 0 /\ Earmarked' = Earmarked - 0
    BY <2>1, <2>2, <2>3, BookFacts, SMT
  <2> QED
    BY <2>1, <2>2, <2>5, <2>6, BooksStep
<1>11. ASSUME NEW amount \in Trades, DeallocatePoolFromCurve(amount) PROVE MarketBooks'
  <2>1. amount \in Nat /\ ~ Idle
    BY <1>11, MarketCurveAssumption DEF DeallocatePoolFromCurve, Idle
  <2>2. /\ curve'.status = curve.status /\ curve'.outcome = curve.outcome
        /\ curve'.total = Less(curve.total, amount) /\ inventory' = Less(inventory, amount)
        /\ collateral' = collateral - amount /\ shares' = shares
        /\ Earmarked' = Earmarked /\ \A side \in Sides : amount <= inventory[side]
    BY <1>6, <1>11 DEF DeallocatePoolFromCurve, Returned, CurveType, Earmarked, Fees
  <2>3. Trader \in Holders
    BY MarketCurveAssumption
  <2>4. ASSUME NEW side \in Sides
        PROVE  /\ curve.total[side] \in Nat /\ inventory[side] \in Nat
               /\ curve'.total[side] = curve.total[side] - amount
               /\ inventory'[side] = inventory[side] - amount
    <3>1. /\ curve.total[side] \in Nat /\ inventory[side] \in Nat /\ amount <= inventory[side]
          /\ shares[Trader][side] \in Nat
          /\ shares[Trader][side] + inventory[side] <= curve.total[side]
      BY <1>0, <2>2, <2>3, BookFacts, HeldWithinTotal
    <3>2. amount <= curve.total[side]
      BY <2>1, <3>1, SMT
    <3> QED
      BY <2>1, <2>2, <3>1, <3>2, SatSubFacts DEF Less
  <2>5. \A side \in Sides : curve'.total[side] + inventory[side] = curve.total[side] + inventory'[side]
    BY <2>1, <2>4, SMT
  <2>6. TotalsAreHeld'
    BY <1>0, <2>2, <2>5, TotalsKept
  <2>7. collateral' = collateral - amount - 0 /\ Earmarked' = Earmarked - 0 /\ amount \in Int /\ 0 \in Int
    BY <2>1, <2>2, BookFacts, SMT
  <2> QED
    BY <2>1, <2>2, <2>4, <2>6, <2>7, BooksStep
<1> QED
  BY <1>3, <1>4, <1>7, <1>8, <1>9, <1>10, <1>11 DEF KeeperStep

LEMMA SettledBooks ==
    ASSUME MarketTypes', TotalsAreHeld', curve'.status = "Settled",
           collateral' = curve'.total[curve'.outcome] + Earmarked'
    PROVE  MarketBooks'
<1>1. /\ curve'.total[curve'.outcome] \in Nat /\ Fees' \in Nat /\ spare'.collateral \in Nat
  <2>1. /\ curve' \in CurveType /\ curve'.outcome \in Sides /\ spare'.collateral \in Nat
    BY DEF MarketTypes, MarketTypeOK, OutcomeKnown
  <2> QED
    BY <2>1, SMT DEF CurveType, Fees
<1>2. collateral' = curve'.total[curve'.outcome] + Fees' + spare'.collateral
  BY <1>1, SMT DEF Earmarked
<1> QED
  BY <1>2 DEF MarketBooks, MarketIsSolvent, NothingYet, Idle, Live

LEMMA VoidBooks ==
    ASSUME MarketTypes', TotalsAreHeld', curve'.status = "Void",
           2 * collateral' >= curve'.total["Pass"] + curve'.total["Fail"] + 2 * Earmarked'
    PROVE  MarketBooks'
BY DEF MarketBooks, MarketIsSolvent, NothingYet, Idle, Live, Earmarked

LEMMA SettledIsBacked ==
    ASSUME MarketTypes, MarketBooks, curve.status = "Settled"
    PROVE  curve.outcome \in Sides /\ collateral = curve.total[curve.outcome] + Earmarked
<1>1. curve.outcome \in Sides
  BY DEF MarketTypes, OutcomeKnown
<1>2. collateral = curve.total[curve.outcome] + Fees + spare.collateral
  BY DEF MarketBooks, MarketIsSolvent
<1>3. Fees \in Nat /\ spare.collateral \in Nat /\ curve.total[curve.outcome] \in Nat
  BY <1>1, BookFacts, CurveFacts
<1> QED
  BY <1>1, <1>2, <1>3, SMT DEF Earmarked

(* A void market can pay every pair of shares its half in full.            *)
LEMMA VoidPayout ==
    ASSUME MarketTypes, MarketBooks, curve.status = "Void", NEW pair \in [Sides -> Nat],
           \A side \in Sides : pair[side] <= curve.total[side]
    PROVE  /\ pm_void_redeem_payout(pair) \in Nat
           /\ Min({pm_void_redeem_payout(pair), collateral}) = pm_void_redeem_payout(pair)
           /\ Redeemed(pair) \in [Sides -> Nat]
           /\ \A side \in Sides : Redeemed(pair)[side] = curve.total[side] - pair[side]
           /\ 2 * (collateral - pm_void_redeem_payout(pair))
                >= Redeemed(pair)["Pass"] + Redeemed(pair)["Fail"] + 2 * Earmarked
<1> DEFINE payout == pm_void_redeem_payout(pair)
<1>1. /\ pair["Pass"] \in Nat /\ pair["Fail"] \in Nat
      /\ curve.total["Pass"] \in Nat /\ curve.total["Fail"] \in Nat
      /\ pair["Pass"] <= curve.total["Pass"] /\ pair["Fail"] <= curve.total["Fail"]
      /\ Earmarked \in Nat /\ collateral \in Nat /\ curve \in CurveType
  BY BookFacts, CurveFacts DEF Sides
<1>2. 2 * collateral >= curve.total["Pass"] + curve.total["Fail"] + 2 * Earmarked
  BY DEF MarketBooks, MarketIsSolvent, Earmarked
<1>3. payout \in Nat /\ payout * 2 <= pair["Pass"] + pair["Fail"]
  <2>1. pair["Pass"] + pair["Fail"] \in Nat
    BY <1>1, SMT
  <2> QED
    BY <2>1, Quotient DEF pm_void_redeem_payout
<1>4. /\ Redeemed(pair) \in [Sides -> Nat]
      /\ \A side \in Sides : Redeemed(pair)[side] = curve.total[side] - pair[side]
  BY <1>1, RedeemedType, SatSubFacts, BookFacts
<1>5. /\ Redeemed(pair)["Pass"] = curve.total["Pass"] - pair["Pass"]
      /\ Redeemed(pair)["Fail"] = curve.total["Fail"] - pair["Fail"]
  BY <1>4 DEF Sides
<1> HIDE DEF payout
<1>6. payout <= collateral
  BY <1>1, <1>2, <1>3, SMT
<1>7. Min({payout, collateral}) = payout
  <2>1. Min({payout, collateral}) \in {payout, collateral} /\ Min({payout, collateral}) <= payout
    BY <1>1, <1>3, MinOfTwo
  <2>2. CASE Min({payout, collateral}) = collateral
    BY <1>1, <1>3, <1>6, <2>1, <2>2, SMT
  <2> QED
    BY <2>1, <2>2
<1>8. 2 * (collateral - payout) >= Redeemed(pair)["Pass"] + Redeemed(pair)["Fail"] + 2 * Earmarked
  BY <1>1, <1>2, <1>3, <1>5, SMT
<1> QED
  BY <1>3, <1>4, <1>7, <1>8 DEF payout

LEMMA MinWithin ==
    ASSUME NEW a \in Nat, NEW b \in Nat, a <= b
    PROVE  Min({a, b}) = a
<1>1. Min({a, b}) \in {a, b} /\ Min({a, b}) <= a
  BY MinOfTwo
<1>2. CASE Min({a, b}) = b
  BY <1>1, <1>2, SMT
<1> QED
  BY <1>1, <1>2

LEMMA HolderStepBooks ==
    ASSUME MarketTypes, MarketTypes', MarketBooks, NEW h \in Users, HolderStep(h)
    PROVE  MarketBooks'
<1>0. /\ TotalsAreHeld /\ h \in Holders /\ Trades \subseteq Nat /\ Gifts \subseteq Nat
      /\ curve \in CurveType /\ shares \in [Holders -> [Sides -> Nat]]
      /\ collateral \in Nat /\ Earmarked \in Nat
  BY MarketCurveAssumption, CurveFacts, BookFacts DEF MarketBooks, MarketIsSolvent
<1>1. ASSUME NEW amount \in Trades, SplitCollateral(h, amount) PROVE MarketBooks'
  <2>1. amount \in Nat /\ ~ Idle
    BY <1>0, <1>1 DEF SplitCollateral, Idle
  <2>2. /\ curve'.status = curve.status /\ curve'.outcome = curve.outcome
        /\ curve'.total = Plus(curve.total, amount)
        /\ shares' = [shares EXCEPT ![h] = Plus(@, amount)]
        /\ collateral' = collateral + amount /\ inventory' = inventory
        /\ Earmarked' = Earmarked
    BY <1>0, <1>1 DEF SplitCollateral, Deposited, CurveType, Earmarked, Fees
  <2>3. \A side \in Sides : /\ curve'.total[side] = curve.total[side] + amount
                            /\ shares'[h][side] = shares[h][side] + amount
                            /\ curve.total[side] \in Nat /\ inventory[side] \in Nat
                            /\ shares[h][side] \in Nat
    BY <1>0, <2>2, BookFacts DEF Plus
  <2>4. \A side \in Sides : curve'.total[side] + shares[h][side] + inventory[side]
                              = curve.total[side] + shares'[h][side] + inventory'[side]
    BY <2>1, <2>2, <2>3, SMT
  <2>5. TotalsAreHeld'
    BY <1>0, <2>2, <2>4, TotalsMove
  <2>6. /\ 0 - amount \in Int /\ 0 \in Int
        /\ \A side \in Sides : curve'.total[side] = curve.total[side] - (0 - amount)
        /\ collateral' = collateral - (0 - amount) - 0 /\ Earmarked' = Earmarked - 0
    BY <1>0, <2>1, <2>2, <2>3, SMT
  <2> QED
    BY <2>1, <2>2, <2>5, <2>6, BooksStep
<1>2. ASSUME NEW amount \in Trades, MergeShares(h, amount) PROVE MarketBooks'
  <2>1. amount \in Nat /\ ~ Idle
    BY <1>0, <1>2 DEF MergeShares, Live, Idle
  <2>2. /\ curve'.status = curve.status /\ curve'.outcome = curve.outcome
        /\ curve'.total = Less(curve.total, amount)
        /\ shares' = [shares EXCEPT ![h] = Less(@, amount)]
        /\ collateral' = collateral - amount /\ inventory' = inventory
        /\ Earmarked' = Earmarked /\ \A side \in Sides : shares[h][side] >= amount
    BY <1>0, <1>2 DEF MergeShares, PairsHeld, MergePaid, CurveType, Earmarked, Fees
  <2>3. ASSUME NEW side \in Sides
        PROVE  /\ curve'.total[side] = curve.total[side] - amount
               /\ shares'[h][side] = shares[h][side] - amount
               /\ curve.total[side] \in Nat /\ inventory[side] \in Nat /\ shares[h][side] \in Nat
    <3>1. /\ curve.total[side] \in Nat /\ inventory[side] \in Nat /\ shares[h][side] \in Nat
          /\ shares[h][side] + inventory[side] <= curve.total[side] /\ shares[h][side] >= amount
      BY <1>0, <2>2, BookFacts, HeldWithinTotal
    <3>2. amount <= curve.total[side] /\ amount <= shares[h][side]
      BY <2>1, <3>1, SMT
    <3> QED
      BY <1>0, <2>1, <2>2, <3>1, <3>2, SatSubFacts DEF Less
  <2>4. \A side \in Sides : curve'.total[side] + shares[h][side] + inventory[side]
                              = curve.total[side] + shares'[h][side] + inventory'[side]
    BY <2>1, <2>2, <2>3, SMT
  <2>5. TotalsAreHeld'
    BY <1>0, <2>2, <2>4, TotalsMove
  <2>6. collateral' = collateral - amount - 0 /\ Earmarked' = Earmarked - 0 /\ amount \in Int /\ 0 \in Int
    BY <1>0, <2>1, <2>2, SMT
  <2> QED
    BY <2>1, <2>2, <2>3, <2>5, <2>6, BooksStep
<1>3. ASSUME NEW amount \in Trades, AddCurveTopup(h, amount) PROVE MarketBooks'
  <2>1. amount \in Nat /\ ~ Idle
    BY <1>0, <1>3 DEF AddCurveTopup, Idle
  <2>2. /\ curve'.status = curve.status /\ curve'.outcome = curve.outcome
        /\ curve'.total = Plus(curve.total, amount) /\ inventory' = Plus(inventory, amount)
        /\ collateral' = collateral + amount /\ shares' = shares
        /\ Earmarked' = Earmarked
    BY <1>0, <1>3 DEF AddCurveTopup, TopUpDeposited, Deposited, CurveType, Earmarked, Fees
  <2>3. \A side \in Sides : /\ curve'.total[side] = curve.total[side] + amount
                            /\ inventory'[side] = inventory[side] + amount
                            /\ curve.total[side] \in Nat /\ inventory[side] \in Nat
    BY <2>2, BookFacts DEF Plus
  <2>4. \A side \in Sides : curve'.total[side] + inventory[side] = curve.total[side] + inventory'[side]
    BY <2>1, <2>3, SMT
  <2>5. TotalsAreHeld'
    BY <1>0, <2>2, <2>4, TotalsKept
  <2>6. /\ 0 - amount \in Int /\ 0 \in Int
        /\ \A side \in Sides : curve'.total[side] = curve.total[side] - (0 - amount)
        /\ collateral' = collateral - (0 - amount) - 0 /\ Earmarked' = Earmarked - 0
    BY <1>0, <2>1, <2>2, <2>3, SMT
  <2> QED
    BY <2>1, <2>2, <2>5, <2>6, BooksStep
<1>4. ASSUME NEW amount \in Gifts, NEW vault \in {"collateral", "escrow"}, Gift(h, amount, vault)
      PROVE  MarketBooks'
  <2>1. amount \in Nat /\ ~ Idle
    BY <1>0, <1>4 DEF Gift, Idle
  <2>2. TotalsAreHeld'
    BY <1>0, <1>4, TotalsKept DEF Gift
  <2>3. ASSUME NEW e \in Int, collateral' = collateral - e, Earmarked' = Earmarked - e PROVE MarketBooks'
    <3>1. /\ 0 \in Int /\ \A side \in Sides : curve'.total[side] = curve.total[side] - 0
          /\ collateral' = collateral - 0 - e
      <4>1. curve' = curve /\ \A side \in Sides : curve.total[side] \in Nat
        BY <1>4, BookFacts DEF Gift
      <4> QED
        BY <1>0, <2>3, <4>1, SMT
    <3> QED
      BY <1>4, <2>1, <2>2, <2>3, <3>1, BooksStep DEF Gift
  <2>4. CASE vault = "collateral"
    <3>1. collateral' = collateral + amount /\ spare'.collateral = spare.collateral + amount /\ curve' = curve
      BY <1>4, <2>4, CurveFacts DEF Gift
    <3>2. 0 - amount \in Int /\ collateral' = collateral - (0 - amount) /\ Earmarked' = Earmarked - (0 - amount)
      <4>1. Fees' = Fees /\ Fees \in Nat /\ spare.collateral \in Nat
        BY <3>1, BookFacts, CurveFacts DEF Fees
      <4> QED
        BY <1>0, <2>1, <3>1, <4>1, SMT DEF Earmarked
    <3> QED
      BY <2>3, <3>2
  <2>5. CASE vault = "escrow"
    <3>1. collateral' = collateral /\ spare'.collateral = spare.collateral /\ curve' = curve
      BY <1>4, <2>5, CurveFacts DEF Gift
    <3>2. 0 \in Int /\ collateral' = collateral - 0 /\ Earmarked' = Earmarked - 0
      BY <1>0, <3>1, SMT DEF Earmarked, Fees
    <3> QED
      BY <2>3, <3>2
  <2> QED
    BY <2>4, <2>5
<1>5. CASE RedeemShares(h)
  <2>1. /\ curve.status = "Settled" /\ RedemptionPaid(h, shares[h][curve.outcome])
        /\ curve'.total = Redeemed(shares[h]) /\ curve'.status = "Settled"
        /\ curve'.outcome = curve.outcome /\ shares' = [shares EXCEPT ![h] = Pair(0)]
        /\ inventory' = inventory /\ Earmarked' = Earmarked
    BY <1>0, <1>5 DEF RedeemShares, CurveType, Earmarked, Fees
  <2>2. curve.outcome \in Sides /\ collateral = curve.total[curve.outcome] + Earmarked
    BY <2>1, SettledIsBacked
  <2>3. ASSUME NEW side \in Sides
        PROVE  /\ curve.total[side] \in Nat /\ inventory[side] \in Nat /\ shares[h][side] \in Nat
               /\ shares[h][side] <= curve.total[side]
               /\ curve'.total[side] = curve.total[side] - shares[h][side]
               /\ shares'[h][side] = 0
    <3>1. /\ curve.total[side] \in Nat /\ inventory[side] \in Nat /\ shares[h][side] \in Nat
          /\ shares[h][side] + inventory[side] <= curve.total[side] /\ shares[h] \in [Sides -> Nat]
      BY <1>0, BookFacts, HeldWithinTotal
    <3>2. shares[h][side] <= curve.total[side]
      BY <3>1, SMT
    <3>3. curve'.total[side] = SatSub(curve.total[side], shares[h][side])
      BY <1>0, <2>1, <3>1, RedeemedType
    <3> QED
      BY <1>0, <2>1, <3>1, <3>2, <3>3, SatSubFacts DEF Pair
  <2>4. \A side \in Sides : curve'.total[side] + shares[h][side] + inventory[side]
                              = curve.total[side] + shares'[h][side] + inventory'[side]
    BY <2>1, <2>3, SMT
  <2>5. TotalsAreHeld'
    BY <1>0, <2>1, <2>4, TotalsMove
  <2>6. collateral' = collateral - shares[h][curve.outcome]
    <3>1. shares[h][curve.outcome] \in Nat /\ shares[h][curve.outcome] <= collateral
      BY <1>0, <2>2, <2>3, SMT
    <3> QED
      BY <1>0, <2>1, <3>1, MinWithin DEF RedemptionPaid
  <2>7. collateral' = curve'.total[curve'.outcome] + Earmarked'
    BY <1>0, <2>1, <2>2, <2>3, <2>6, SMT
  <2> QED
    BY <2>1, <2>5, <2>7, SettledBooks
<1>6. CASE RedeemVoidShares(h)
  <2>1. /\ curve.status = "Void" /\ RedemptionPaid(h, pm_void_redeem_payout(shares[h]))
        /\ curve'.total = Redeemed(shares[h]) /\ curve'.status = "Void"
        /\ shares' = [shares EXCEPT ![h] = Pair(0)]
        /\ inventory' = inventory /\ Earmarked' = Earmarked
    BY <1>0, <1>6 DEF RedeemVoidShares, VoidPaid, CurveType, Earmarked, Fees
  <2>2. ASSUME NEW side \in Sides
        PROVE  /\ curve.total[side] \in Nat /\ inventory[side] \in Nat /\ shares[h][side] \in Nat
               /\ shares[h][side] <= curve.total[side] /\ shares'[h][side] = 0
    <3>1. /\ curve.total[side] \in Nat /\ inventory[side] \in Nat /\ shares[h][side] \in Nat
          /\ shares[h][side] + inventory[side] <= curve.total[side]
      BY <1>0, BookFacts, HeldWithinTotal
    <3> QED
      BY <1>0, <2>1, <3>1, SMT DEF Pair
  <2>3. shares[h] \in [Sides -> Nat]
    BY <1>0
  <2>4. /\ Min({pm_void_redeem_payout(shares[h]), collateral}) = pm_void_redeem_payout(shares[h])
        /\ \A side \in Sides : curve'.total[side] = curve.total[side] - shares[h][side]
        /\ 2 * (collateral - pm_void_redeem_payout(shares[h]))
             >= curve'.total["Pass"] + curve'.total["Fail"] + 2 * Earmarked
    BY <2>1, <2>2, <2>3, VoidPayout
  <2>5. \A side \in Sides : curve'.total[side] + shares[h][side] + inventory[side]
                              = curve.total[side] + shares'[h][side] + inventory'[side]
    BY <2>1, <2>2, <2>4, SMT
  <2>6. TotalsAreHeld'
    BY <1>0, <2>1, <2>5, TotalsMove
  <2>7. 2 * collateral' >= curve'.total["Pass"] + curve'.total["Fail"] + 2 * Earmarked'
    BY <2>1, <2>4 DEF RedemptionPaid
  <2> QED
    BY <2>1, <2>6, <2>7, VoidBooks
<1>7. ASSUME NEW from \in Sides, NEW amount \in Trades, NEW minOut \in MinOuts,
             SwapCurveShares(h, from, amount, minOut)
      PROVE  MarketBooks'
  <2> DEFINE to == Other(from)
             gross == buy_output(curve.virtual[from] + inventory[from],
                                 curve.virtual[to] + inventory[to], amount)
             fee == fee_amount(gross, curve.rates.fee)
             net == SatSub(gross, fee)
  <2>1. amount \in Nat /\ to \in Sides /\ to # from /\ Sides = {from, to} /\ ~ Idle
    BY <1>7, MarketCurveAssumption, SidesAre DEF SwapCurveShares, Idle
  <2>2. /\ amount > 0 /\ gross > 0 /\ shares[h][from] >= amount
        /\ InventoryCovers(from, to, amount, net, fee)
        /\ inventory' = [inventory EXCEPT ![from] = @ + amount - fee, ![to] = @ - net - fee]
        /\ curve' = [curve EXCEPT !.firm_fees = @ + FirmCut(fee),
                                  !.platform_fees = @ + PlatformCut(fee),
                                  !.pool_fees = @ + PoolCut(fee),
                                  !.total = Less(@, fee)]
        /\ shares' = [shares EXCEPT ![h][from] = @ - amount, ![h][to] = @ + net]
        /\ UNCHANGED <<poolVars, collateral, spare>>
    BY <1>7 DEF SwapCurveShares
  <2>3. gross \in Nat /\ fee \in Nat /\ net \in Nat
    <3>1. /\ curve.virtual[from] + inventory[from] \in Nat /\ curve.virtual[to] + inventory[to] \in Nat
          /\ curve.rates.fee \in Nat
      <4>1. /\ curve.virtual[from] \in Nat /\ inventory[from] \in Nat /\ curve.virtual[to] \in Nat
            /\ inventory[to] \in Nat /\ curve.rates.fee \in Nat
        BY <2>1, CurveFacts
      <4> QED
        BY <4>1, SMT
    <3> QED
      BY <2>1, <2>2, <3>1, SwapQuotes
  <2>4. /\ FirmCut(fee) \in Nat /\ PlatformCut(fee) \in Nat /\ PoolCut(fee) \in Nat
        /\ FirmCut(fee) + PlatformCut(fee) + PoolCut(fee) = fee
    BY <2>3, CurveFacts, CutsAddUp
  <2> HIDE DEF to, gross, fee, net
  <2>5. /\ curve'.status = curve.status /\ curve'.outcome = curve.outcome
        /\ curve'.total = Less(curve.total, fee)
        /\ curve'.firm_fees = curve.firm_fees + FirmCut(fee)
        /\ curve'.platform_fees = curve.platform_fees + PlatformCut(fee)
        /\ curve'.pool_fees = curve.pool_fees + PoolCut(fee)
        /\ collateral' = collateral /\ spare' = spare
    BY <1>0, <2>2 DEF CurveType
  <2>6. Earmarked' = Earmarked - (0 - fee)
    BY <2>3, <2>4, <2>5, CurveFacts, SMT DEF Earmarked, Fees
  <2>7. /\ inventory[from] \in Nat /\ inventory[to] \in Nat
        /\ inventory'[from] = inventory[from] + amount - fee
        /\ inventory'[to] = inventory[to] - net - fee
        /\ shares[h][from] \in Nat /\ shares[h][to] \in Nat
        /\ shares'[h][from] = shares[h][from] - amount /\ shares'[h][to] = shares[h][to] + net
        /\ \A i \in Holders : i # h => shares'[i] = shares[i]
        /\ curve.total[from] \in Nat /\ curve.total[to] \in Nat
        /\ inventory[from] + amount >= fee /\ inventory[to] >= net /\ inventory[to] - net >= fee
        /\ shares[h][from] >= amount
        /\ shares[h][from] + inventory[from] <= curve.total[from]
        /\ shares[h][to] + inventory[to] <= curve.total[to]
    <3>1. /\ inventory[from] \in Nat /\ inventory[to] \in Nat
          /\ shares[h] \in [Sides -> Nat]
          /\ curve.total[from] \in Nat /\ curve.total[to] \in Nat
          /\ shares[h][from] + inventory[from] <= curve.total[from]
          /\ shares[h][to] + inventory[to] <= curve.total[to]
      BY <1>0, <2>1, CurveFacts, HeldWithinTotal
    <3>2. inventory[from] + amount >= fee /\ inventory[to] >= net /\ inventory[to] - net >= fee
      BY <2>2, <2>3, <3>1, SMT DEF InventoryCovers
    <3>3. /\ inventory'[from] = inventory[from] + amount - fee
          /\ inventory'[to] = inventory[to] - net - fee
      BY <2>1, <2>2, CurveFacts
    <3>4. /\ shares'[h][from] = shares[h][from] - amount /\ shares'[h][to] = shares[h][to] + net
          /\ \A i \in Holders : i # h => shares'[i] = shares[i]
      BY <1>0, <2>1, <2>2, <3>1
    <3> QED
      BY <2>1, <2>2, <3>1, <3>2, <3>3, <3>4
  <2>8. /\ curve'.total[from] = curve.total[from] - fee /\ curve'.total[to] = curve.total[to] - fee
    <3>1. fee <= curve.total[from] /\ fee <= curve.total[to]
      BY <2>1, <2>3, <2>7, SMT
    <3> QED
      BY <2>1, <2>3, <2>5, <2>7, <3>1, SatSubFacts DEF Less
  <2>9. \A side \in Sides : curve'.total[side] + shares[h][side] + inventory[side]
                              = curve.total[side] + shares'[h][side] + inventory'[side]
    <3>1. /\ curve'.total[from] + shares[h][from] + inventory[from]
               = curve.total[from] + shares'[h][from] + inventory'[from]
          /\ curve'.total[to] + shares[h][to] + inventory[to]
               = curve.total[to] + shares'[h][to] + inventory'[to]
      BY <2>1, <2>3, <2>7, <2>8, SMT
    <3> QED
      BY <2>1, <3>1
  <2>10. TotalsAreHeld'
    BY <1>0, <2>7, <2>9, TotalsMove
  <2>11. /\ fee \in Int /\ 0 - fee \in Int /\ collateral' = collateral - fee - (0 - fee)
         /\ \A side \in Sides : curve'.total[side] = curve.total[side] - fee
    <3>1. fee \in Int /\ 0 - fee \in Int /\ collateral' = collateral - fee - (0 - fee)
      BY <1>0, <2>3, <2>5, SMT
    <3> QED
      BY <2>1, <2>8, <3>1
  <2> QED
    BY <2>1, <2>5, <2>6, <2>10, <2>11, BooksStep
<1> QED
  BY <1>1, <1>2, <1>3, <1>4, <1>5, <1>6, <1>7 DEF HolderStep

LEMMA CrankStepBooks ==
    ASSUME MarketTypes, MarketTypes', MarketBooks, CrankStep
    PROVE  MarketBooks'
<1>0. /\ TotalsAreHeld /\ curve \in CurveType /\ collateral \in Nat /\ Earmarked \in Nat
      /\ inventory \in [Sides -> Nat]
  BY CurveFacts, BookFacts DEF MarketBooks, MarketIsSolvent
<1>1. CASE SweepCurveFeesToPool
  <2> DEFINE amount == Min({curve.pool_fees, collateral})
  <2>1. amount \in Nat /\ amount <= curve.pool_fees
    BY CurveFacts, MinOfTwo
  <2>2. SweptToYield(amount) /\ curve' = [curve EXCEPT !.pool_fees = SatSub(@, amount)]
        /\ curve.pool_fees > 0 /\ UNCHANGED <<inventory, shares, spare>>
    BY <1>1 DEF SweepCurveFeesToPool
  <2> HIDE DEF amount
  <2>3. /\ curve'.status = curve.status /\ curve'.outcome = curve.outcome /\ curve'.total = curve.total
        /\ curve'.firm_fees = curve.firm_fees /\ curve'.platform_fees = curve.platform_fees
        /\ curve'.pool_fees = curve.pool_fees - amount /\ collateral' = collateral - amount
        /\ spare' = spare
    <3>1. SatSub(curve.pool_fees, amount) = curve.pool_fees - amount
      BY <2>1, CurveFacts, SatSubFacts
    <3> QED
      BY <1>0, <2>2, <3>1 DEF SweptToYield, CurveType
  <2>4. ~ Idle
    <3>1. ASSUME Idle PROVE FALSE
      <4>1. Fees + spare.collateral = 0
        BY <3>1 DEF MarketBooks, NothingYet, Earmarked
      <4> QED
        BY <2>2, <4>1, CurveFacts, SMT DEF Fees
    <3> QED
      BY <3>1
  <2>5. TotalsAreHeld'
    BY <1>0, <2>2, <2>3, TotalsKept
  <2>6. Earmarked' = Earmarked - amount
    BY <2>1, <2>3, CurveFacts, SMT DEF Earmarked, Fees
  <2>7. /\ 0 \in Int /\ amount \in Int /\ collateral' = collateral - 0 - amount
        /\ \A side \in Sides : curve'.total[side] = curve.total[side] - 0
    BY <1>0, <2>1, <2>3, BookFacts, SMT
  <2> QED
    BY <2>3, <2>4, <2>5, <2>6, <2>7, BooksStep
<1>2. ASSUME NEW toVault \in BOOLEAN, RedeemInventory(toVault) PROVE MarketBooks'
  <2> DEFINE amount == Min({inventory[curve.outcome], collateral})
  <2>1. /\ curve.status = "Settled" /\ InventoryLeft(amount, toVault)
        /\ curve'.total = Redeemed(inventory) /\ curve'.status = "Settled"
        /\ curve'.outcome = curve.outcome /\ Fees' = Fees
        /\ inventory' = Pair(0) /\ shares' = shares
    BY <1>0, <1>2 DEF RedeemInventory, CurveType, Fees
  <2>2. curve.outcome \in Sides /\ collateral = curve.total[curve.outcome] + Earmarked
    BY <2>1, SettledIsBacked
  <2>3. ASSUME NEW side \in Sides
        PROVE  /\ curve.total[side] \in Nat /\ inventory[side] \in Nat
               /\ inventory[side] <= curve.total[side]
               /\ curve'.total[side] = curve.total[side] - inventory[side]
               /\ inventory'[side] = 0
    <3>1. Trader \in Holders
      BY MarketCurveAssumption
    <3>2. /\ curve.total[side] \in Nat /\ inventory[side] \in Nat /\ shares[Trader][side] \in Nat
          /\ shares[Trader][side] + inventory[side] <= curve.total[side]
      BY <1>0, <3>1, BookFacts, HeldWithinTotal
    <3>3. inventory[side] <= curve.total[side]
      BY <3>2, SMT
    <3>4. curve'.total[side] = SatSub(curve.total[side], inventory[side])
      BY <1>0, <2>1, RedeemedType
    <3> QED
      BY <2>1, <3>2, <3>3, <3>4, SatSubFacts DEF Pair
  <2>4. \A side \in Sides : curve'.total[side] + inventory[side] = curve.total[side] + inventory'[side]
    BY <2>3, SMT
  <2>5. TotalsAreHeld'
    BY <1>0, <2>1, <2>4, TotalsKept
  <2>6. amount = inventory[curve.outcome] /\ amount \in Nat
    <3>1. inventory[curve.outcome] \in Nat /\ inventory[curve.outcome] <= collateral
      BY <1>0, <2>2, <2>3, SMT
    <3> QED
      BY <1>0, <3>1, MinWithin
  <2> HIDE DEF amount
  <2>7. collateral' - Earmarked' = (collateral - Earmarked) - amount /\ Earmarked' \in Nat /\ collateral' \in Nat
    <3>1. Fees \in Nat /\ spare.collateral \in Nat /\ spare \in [collateral : Nat, escrow : Nat]
          /\ collateral' \in Nat
      BY BookFacts, CurveFacts DEF MarketTypes, MarketTypeOK
    <3>2. CASE toVault
      <4>1. collateral' = collateral /\ spare'.collateral = spare.collateral + amount
        BY <2>1, <3>1, <3>2 DEF InventoryLeft
      <4> QED
        BY <1>0, <2>1, <2>6, <3>1, <4>1, SMT DEF Earmarked
    <3>3. CASE ~ toVault
      <4>1. collateral' = collateral - amount /\ spare'.collateral = spare.collateral
        BY <2>1, <3>1, <3>3 DEF InventoryLeft
      <4> QED
        BY <1>0, <2>1, <2>6, <3>1, <4>1, SMT DEF Earmarked
    <3> QED
      BY <3>2, <3>3
  <2>8. collateral' = curve'.total[curve'.outcome] + Earmarked'
    <3>1. /\ curve'.total[curve'.outcome] = curve.total[curve.outcome] - amount
          /\ curve.total[curve.outcome] \in Nat
      BY <2>1, <2>2, <2>3, <2>6
    <3> HIDE DEF Earmarked
    <3> QED
      BY <1>0, <2>2, <2>6, <2>7, <3>1, SMT
  <2> QED
    BY <2>1, <2>5, <2>8, SettledBooks
<1>3. CASE RedeemVoidCurveInventory
  <2> DEFINE payout == pm_void_redeem_payout(inventory)
             amount == Min({payout, collateral})
  <2>1. /\ curve.status = "Void" /\ Returned(amount, payout)
        /\ curve'.total = Redeemed(inventory) /\ curve'.status = "Void" /\ Fees' = Fees
        /\ inventory' = Pair(0) /\ shares' = shares /\ spare' = spare
    BY <1>0, <1>3 DEF RedeemVoidCurveInventory, CurveType, Fees
  <2>2. ASSUME NEW side \in Sides
        PROVE  /\ curve.total[side] \in Nat /\ inventory[side] \in Nat
               /\ inventory[side] <= curve.total[side] /\ inventory'[side] = 0
    <3>1. Trader \in Holders
      BY MarketCurveAssumption
    <3>2. /\ curve.total[side] \in Nat /\ inventory[side] \in Nat /\ shares[Trader][side] \in Nat
          /\ shares[Trader][side] + inventory[side] <= curve.total[side]
      BY <1>0, <3>1, BookFacts, HeldWithinTotal
    <3> QED
      BY <2>1, <3>2, SMT DEF Pair
  <2>3. /\ amount = payout
        /\ \A side \in Sides : curve'.total[side] = curve.total[side] - inventory[side]
        /\ 2 * (collateral - payout) >= curve'.total["Pass"] + curve'.total["Fail"] + 2 * Earmarked
    BY <1>0, <2>1, <2>2, VoidPayout
  <2>4. \A side \in Sides : curve'.total[side] + inventory[side] = curve.total[side] + inventory'[side]
    BY <2>2, <2>3, SMT
  <2>5. TotalsAreHeld'
    BY <1>0, <2>1, <2>4, TotalsKept
  <2>6. 2 * collateral' >= curve'.total["Pass"] + curve'.total["Fail"] + 2 * Earmarked'
    <3>1. collateral' = collateral - payout /\ Earmarked' = Earmarked
      BY <2>1, <2>3 DEF Returned, Earmarked
    <3> QED
      BY <2>3, <3>1
  <2> QED
    BY <2>1, <2>5, <2>6, VoidBooks
<1> QED
  BY <1>1, <1>2, <1>3 DEF CrankStep

LEMMA BooksKept ==
    ASSUME MarketBooks, UNCHANGED curveVars
    PROVE  MarketBooks'
<1>1. curve' = curve /\ inventory' = inventory /\ shares' = shares /\ collateral' = collateral /\ spare' = spare
  BY DEF curveVars
<1> QED
  BY <1>1 DEF MarketBooks, NothingYet, MarketIsSolvent, Idle, Earmarked, Fees, TotalsAreHeld,
              HeldOutside, Live

LEMMA StepBooks ==
    MarketTypes /\ MarketTypes' /\ MarketBooks /\ [MarketNext]_marketVars => MarketBooks'
BY BooksKept, KeeperStepBooks, HolderStepBooks, CrankStepBooks DEF MarketNext, marketVars

LEMMA InitBooks == MarketInit => MarketBooks
<1> SUFFICES ASSUME MarketInit PROVE MarketBooks
  OBVIOUS
<1>1. /\ NoCurve.status = "None" /\ NoCurve.total = Pair(0)
      /\ NoCurve.firm_fees = 0 /\ NoCurve.platform_fees = 0 /\ NoCurve.pool_fees = 0
      /\ NoCurve \in CurveType
  BY DEF NoCurve, CurveType, Statuses, Pair
<1>2. /\ curve.status \in {"None", "Stale"} /\ curve.total = Pair(0)
      /\ curve.firm_fees = 0 /\ curve.platform_fees = 0 /\ curve.pool_fees = 0
  <2> HIDE DEF NoCurve
  <2>1. curve \in {NoCurve, [NoCurve EXCEPT !.status = "Stale"],
                   [NoCurve EXCEPT !.status = "Stale", !.valued = TRUE]}
    BY DEF MarketInit, CurveInit
  <2> QED
    BY <1>1, <2>1 DEF CurveType
<1>3. /\ inventory = Pair(0) /\ shares = [h \in Holders |-> Pair(0)] /\ collateral = 0
      /\ spare.collateral = 0
  BY DEF MarketInit, CurveInit
<1>4. \A side \in Sides : HeldOutside(side) = 0 /\ Pair(0)[side] = 0
  <2>1. ASSUME NEW side \in Sides PROVE HeldOutside(side) = 0
    <3> DEFINE f == [h \in Holders |-> shares[h][side]]
    <3>1. N \in Nat /\ f \in [1..N -> Int] /\ \A h \in 1..N : f[h] = 0
      BY <1>3, MarketPoolAssumption DEF Pair, Holders
    <3> HIDE DEF f
    <3>2. SumTo(f, N) = 0
      BY <3>1, SumOfZeros
    <3> QED
      BY <3>2 DEF f, HeldOutside
  <2> QED
    BY <2>1 DEF Pair
<1>5. TotalsAreHeld
  BY <1>2, <1>3, <1>4, SMT DEF TotalsAreHeld
<1>6. Fees = 0 /\ Earmarked = 0
  BY <1>2, <1>3, SMT DEF Fees, Earmarked
<1> QED
  BY <1>2, <1>3, <1>4, <1>5, <1>6 DEF MarketBooks, NothingYet, MarketIsSolvent, Idle, Live

THEOREM BooksHold == MarketSpec => [](MarketTypes /\ MarketBooks)
BY InitBooks, MarketIsTyped, StepBooks, PTL DEF MarketSpec

(* However pairs are split, merged, swapped and funded, and however the    *)
(* market ends, the vault holds a token for every share that is due one:   *)
(* the clamp in redeem_shares never gives a haircut.                       *)
THEOREM MarketStaysSolvent == MarketSpec => []MarketIsSolvent
<1>1. MarketBooks => MarketIsSolvent
  BY DEF MarketBooks
<1> QED
  BY <1>1, BooksHold, PTL

----------------------------------------------------------------------------
(* The pool's books. What PoolEscrowIsAccounted needs to be inductive: the *)
(* pool's total is the sum of the stakes, and nobody has borne a loss, so  *)
(* that the principal paid is the stake that leaves the total.             *)
StakesAddUp == lpPool.total_staked = SumTo([h \in Holders |-> lp[h].staked], N)
NoLosses == lpPool.loss_acc = 0 /\ \A h \in Holders : lp[h].loss_debt = 0

PoolBooks == StakesAddUp /\ NoLosses /\ PoolEscrowIsAccounted

LEMMA NothingOf ==
    ASSUME NEW a \in Nat, NEW b \in Nat \ {0}
    PROVE  (a * 0) \div b = 0 /\ (0 * a) \div b = 0
<1>1. a * 0 = 0 /\ 0 * a = 0 /\ 0 <= 0 * b
  BY SMT
<1>2. 0 \div b \in Nat /\ 0 \div b <= 0
  BY <1>1, Quotient, QuotientAtMost
<1> QED
  BY <1>1, <1>2, SMT

(* A stake that changes by d moves the sum by d.                           *)
LEMMA StakeMoves ==
    ASSUME NEW p \in [Holders -> LpPositionType], NEW q \in [Holders -> LpPositionType],
           NEW h \in Holders, \A i \in Holders : i # h => q[i].staked = p[i].staked
    PROVE  /\ SumTo([i \in Holders |-> p[i].staked], N) \in Nat
           /\ p[h].staked <= SumTo([i \in Holders |-> p[i].staked], N)
           /\ SumTo([i \in Holders |-> q[i].staked], N)
                = SumTo([i \in Holders |-> p[i].staked], N) + q[h].staked - p[h].staked
<1> DEFINE f == [i \in Holders |-> p[i].staked]
           g == [i \in Holders |-> q[i].staked]
<1>1. N \in Nat /\ Holders = 1..N
  BY MarketPoolAssumption DEF Holders
<1>2. /\ f \in [1..N -> Nat] /\ g \in [1..N -> Nat] /\ h \in 1..N
      /\ f[h] = p[h].staked /\ g[h] = q[h].staked /\ \A i \in 1..N : i # h => g[i] = f[i]
  BY <1>1 DEF LpPositionType
<1>3. f \in [1..N -> Int] /\ g \in [1..N -> Int]
  BY <1>2
<1> HIDE DEF f, g
<1>4. SumTo(f, N) \in Nat /\ f[h] <= SumTo(f, N)
  BY <1>1, <1>2, SumCovers
<1>5. SumTo(g, N) = SumTo(f, N) + g[h] - f[h]
  BY <1>1, <1>2, <1>3, SumChange
<1> QED
  BY <1>2, <1>4, <1>5 DEF f, g

LEMMA PoolBooksKept ==
    ASSUME PoolBooks, lp' = lp, lpPool'.total_staked = lpPool.total_staked,
           lpPool'.loss_acc = lpPool.loss_acc, PoolEscrowIsAccounted'
    PROVE  PoolBooks'
BY DEF PoolBooks, StakesAddUp, NoLosses

LEMMA LpStepBooks ==
    ASSUME MarketTypes, MarketTypes', PoolBooks, LpStep, UNCHANGED spare
    PROVE  PoolBooks'
<1>1. /\ lp \in [Holders -> LpPositionType] /\ lp' \in [Holders -> LpPositionType]
      /\ lpPool \in LpPoolType /\ lpPool' \in LpPoolType /\ Stakers \subseteq Holders /\ Stakes \subseteq Nat
  BY MarketPoolAssumption DEF MarketTypes, MarketTypeOK
<1>2. /\ escrow \in Nat /\ lpPool.total_staked \in Nat /\ lpPool.total_drawn \in Nat
      /\ lpPool.total_returned \in Nat /\ spare.escrow \in Nat
      /\ escrow + lpPool.total_drawn = lpPool.total_staked + lpPool.total_returned + spare.escrow
  BY <1>1, CurveFacts DEF LpPoolType, PoolBooks, PoolEscrowIsAccounted
<1>3. CASE Tick
  BY <1>3, PoolBooksKept DEF Tick, PoolBooks, PoolEscrowIsAccounted
<1>4. CASE InitPmLpPool
  <2>1. /\ lpPool'.total_staked = lpPool.total_staked /\ lpPool'.loss_acc = lpPool.loss_acc
        /\ lpPool'.total_drawn = lpPool.total_drawn /\ lpPool'.total_returned = lpPool.total_returned
        /\ lp' = lp /\ escrow' = escrow
    BY <1>1, <1>4 DEF InitPmLpPool, LpPoolType
  <2> QED
    BY <1>2, <2>1, PoolBooksKept DEF PoolEscrowIsAccounted
<1>5. ASSUME NEW h \in Holders, NEW staked \in Nat, lp'[h].staked = staked,
             \A i \in Holders : i # h => lp'[i] = lp[i],
             lp'[h].loss_debt = 0, lpPool'.loss_acc = lpPool.loss_acc,
             lpPool'.total_staked = lpPool.total_staked + staked - lp[h].staked,
             escrow' = escrow + staked - lp[h].staked,
             lpPool'.total_drawn = lpPool.total_drawn,
             lpPool'.total_returned = lpPool.total_returned
      PROVE  PoolBooks'
  <2>1. SumTo([i \in Holders |-> lp'[i].staked], N)
          = SumTo([i \in Holders |-> lp[i].staked], N) + staked - lp[h].staked
    BY <1>1, <1>5, StakeMoves
  <2>2. StakesAddUp'
    BY <1>5, <2>1 DEF PoolBooks, StakesAddUp
  <2>3. NoLosses'
    BY <1>5 DEF PoolBooks, NoLosses
  <2>4. PoolEscrowIsAccounted'
    <3>1. lp[h].staked \in Nat
      BY <1>1, <1>5 DEF LpPositionType
    <3>2. (escrow + staked - lp[h].staked) + lpPool.total_drawn
            = (lpPool.total_staked + staked - lp[h].staked) + lpPool.total_returned + spare.escrow
      BY <1>2, <3>1, SMT
    <3> QED
      BY <1>5, <3>2 DEF PoolEscrowIsAccounted
  <2> QED
    BY <2>2, <2>3, <2>4 DEF PoolBooks
<1>6. ASSUME NEW h \in Stakers, NEW amount \in Stakes, StakePmLp(h, amount) PROVE PoolBooks'
  <2>1. h \in Holders /\ amount \in Nat /\ lp[h].staked \in Nat /\ lp[h].loss_debt = 0 /\ lpPool.loss_acc = 0
    BY <1>1 DEF LpPositionType, PoolBooks, NoLosses
  <2>2. Debt(amount, lpPool.loss_acc) = 0
    BY <2>1, NothingOf, StakePoolAssumption DEF Debt
  <2>3. /\ lp'[h].staked = lp[h].staked + amount /\ lp'[h].loss_debt = 0
        /\ \A i \in Holders : i # h => lp'[i] = lp[i]
    <3>1. lp' = [lp EXCEPT ![h] = Staked(lp[h], amount)]
      BY <1>6 DEF StakePmLp
    <3>2. /\ Staked(lp[h], amount).staked = lp[h].staked + amount
          /\ Staked(lp[h], amount).loss_debt = lp[h].loss_debt + Debt(amount, lpPool.loss_acc)
      BY <1>1, <2>1 DEF Staked, LpPositionType
    <3> QED
      BY <1>1, <2>1, <2>2, <3>1, <3>2
  <2>4. /\ lpPool'.total_staked = lpPool.total_staked + amount /\ lpPool'.loss_acc = lpPool.loss_acc
        /\ lpPool'.total_drawn = lpPool.total_drawn /\ lpPool'.total_returned = lpPool.total_returned
        /\ escrow' = escrow + amount
    BY <1>1, <1>6 DEF StakePmLp, StakeEscrowed, LpPoolType
  <2>5. /\ lp[h].staked + amount \in Nat
        /\ lpPool.total_staked + amount = lpPool.total_staked + (lp[h].staked + amount) - lp[h].staked
        /\ escrow + amount = escrow + (lp[h].staked + amount) - lp[h].staked
    BY <1>2, <2>1, SMT
  <2> QED
    BY <1>5, <2>1, <2>3, <2>4, <2>5
<1>7. ASSUME NEW h \in Stakers, NEW tier \in Tiers, RequestUnstakePmLp(h, tier) PROVE PoolBooks'
  <2>1. h \in Holders /\ lp[h].staked \in Nat /\ lp[h].loss_debt = 0
    BY <1>1 DEF LpPositionType, PoolBooks, NoLosses
  <2>2. /\ lp'[h].staked = lp[h].staked /\ lp'[h].loss_debt = lp[h].loss_debt
        /\ \A i \in Holders : i # h => lp'[i] = lp[i]
    BY <1>1, <1>7, <2>1 DEF RequestUnstakePmLp, LpPositionType
  <2>3. /\ lpPool' = lpPool /\ escrow' = escrow
        /\ lpPool.total_staked = lpPool.total_staked + lp[h].staked - lp[h].staked
        /\ escrow = escrow + lp[h].staked - lp[h].staked
    BY <1>2, <1>7, <2>1, SMT DEF RequestUnstakePmLp
  <2> QED
    BY <1>5, <2>1, <2>2, <2>3
<1>8. ASSUME NEW h \in Stakers, NEW amount \in Stakes, NEW tier \in Tiers,
             NEW broken \in BOOLEAN, WithdrawPmLp(h, amount, tier, broken)
      PROVE  PoolBooks'
  <2> DEFINE pos == lp[h]
             surviving == SatSub(pos.staked, Pending(pos.staked, lpPool.loss_acc, pos.loss_debt))
             principal == Slice(amount, surviving, pos.staked)
             yield == Slice(amount, Pending(pos.staked, lpPool.yield_acc, pos.yield_debt), pos.staked)
  <2>1. /\ h \in Holders /\ amount \in Nat /\ pos.staked \in Nat /\ pos.loss_debt = 0
        /\ lpPool.loss_acc = 0 /\ pos \in LpPositionType
    BY <1>1 DEF LpPositionType, PoolBooks, NoLosses
  <2>2. /\ 0 < amount /\ amount <= pos.staked /\ WithdrawalPaid(h, principal, yield)
        /\ lpPool' = [lpPool EXCEPT !.daily_withdrawn = WithdrawnToday + principal,
                                    !.withdraw_day = now \div Day,
                                    !.total_staked = SatSub(@, principal),
                                    !.total_yield_weight = SatSub(@, amount)]
        /\ lp' = [lp EXCEPT ![h] = Remainder(@, amount)]
    BY <1>8, <2>1, SMT DEF WithdrawPmLp
  <2>3. principal = amount
    <3>1. Pending(pos.staked, lpPool.loss_acc, pos.loss_debt) = 0
      <4>1. Debt(pos.staked, lpPool.loss_acc) = 0
        BY <2>1, NothingOf, StakePoolAssumption DEF Debt
      <4> QED
        BY <2>1, <4>1 DEF Pending, SatSub
    <3>2. surviving = pos.staked
      BY <2>1, <3>1, SMT DEF SatSub
    <3> QED
      BY <2>1, <2>2, <3>2, SliceOfStake
  <2>4. amount <= lpPool.total_staked
    <3>1. lpPool.total_staked \in Nat /\ pos.staked <= lpPool.total_staked
      BY <1>1, <2>1, StakeMoves DEF PoolBooks, StakesAddUp
    <3> QED
      BY <2>1, <2>2, <3>1, SMT
  <2>5. /\ lpPool'.total_staked = lpPool.total_staked - amount /\ lpPool'.loss_acc = lpPool.loss_acc
        /\ lpPool'.total_drawn = lpPool.total_drawn /\ lpPool'.total_returned = lpPool.total_returned
        /\ escrow' = escrow - amount
    <3>1. SatSub(lpPool.total_staked, amount) = lpPool.total_staked - amount
      BY <1>2, <2>1, <2>4, SatSubFacts
    <3>2. /\ lpPool'.total_staked = SatSub(lpPool.total_staked, principal)
          /\ lpPool'.loss_acc = lpPool.loss_acc
          /\ lpPool'.total_drawn = lpPool.total_drawn /\ lpPool'.total_returned = lpPool.total_returned
          /\ escrow' = escrow - principal
      <4> HIDE DEF principal, yield
      <4> QED
        BY <1>1, <2>2 DEF WithdrawalPaid, LpPoolType
    <3> QED
      BY <2>3, <3>1, <3>2
  <2>6. /\ lp'[h].staked = pos.staked - amount /\ lp'[h].loss_debt = 0
        /\ \A i \in Holders : i # h => lp'[i] = lp[i]
    <3>1. lp'[h] = Remainder(pos, amount) /\ \A i \in Holders : i # h => lp'[i] = lp[i]
      BY <1>1, <2>1, <2>2
    <3>2. Remainder(pos, amount).staked = pos.staked - amount /\ Remainder(pos, amount).loss_debt = 0
      <4>1. CASE pos.staked - amount = 0
        BY <4>1 DEF Remainder, NoPosition
      <4>2. CASE pos.staked - amount # 0
        <5>1. pos.staked - amount \in Nat /\ pos.staked \in Nat \ {0}
          BY <2>1, <2>2, SMT
        <5>2. ScaledDebt(pos.loss_debt, pos.staked - amount, pos.staked) = 0
          BY <2>1, <5>1, NothingOf DEF ScaledDebt
        <5> QED
          BY <2>1, <4>2, <5>2 DEF Remainder, LpPositionType
      <4> QED
        BY <4>1, <4>2
    <3> QED
      BY <3>1, <3>2
  <2>7. /\ pos.staked - amount \in Nat
        /\ lpPool.total_staked - amount = lpPool.total_staked + (pos.staked - amount) - pos.staked
        /\ escrow - amount = escrow + (pos.staked - amount) - pos.staked
    BY <1>2, <2>1, <2>2, SMT
  <2> QED
    BY <1>5, <2>1, <2>5, <2>6, <2>7
<1>9. ASSUME NEW h \in Stakers, ClaimPmLpYield(h) PROVE PoolBooks'
  <2>1. h \in Holders /\ lp[h].staked \in Nat /\ lp[h].loss_debt = 0
    BY <1>1 DEF LpPositionType, PoolBooks, NoLosses
  <2>2. /\ lp'[h].staked = lp[h].staked /\ lp'[h].loss_debt = lp[h].loss_debt
        /\ \A i \in Holders : i # h => lp'[i] = lp[i]
    BY <1>1, <1>9, <2>1 DEF ClaimPmLpYield, LpPositionType
  <2>3. /\ lpPool' = lpPool /\ escrow' = escrow
        /\ lpPool.total_staked = lpPool.total_staked + lp[h].staked - lp[h].staked
        /\ escrow = escrow + lp[h].staked - lp[h].staked
    BY <1>2, <1>9, <2>1, SMT DEF ClaimPmLpYield
  <2> QED
    BY <1>5, <2>1, <2>2, <2>3
<1> QED
  BY <1>3, <1>4, <1>6, <1>7, <1>8, <1>9 DEF LpStep

LEMMA CurveStepBooks ==
    ASSUME MarketTypes, MarketTypes', MarketBooks, PoolBooks,
           KeeperStep \/ CrankStep \/ (\E h \in Users : HolderStep(h))
    PROVE  PoolBooks'
<1>1. /\ escrow \in Nat /\ lpPool.total_staked \in Nat /\ lpPool.total_drawn \in Nat
      /\ lpPool.total_returned \in Nat /\ spare.escrow \in Nat /\ lpPool \in LpPoolType
      /\ spare \in [collateral : Nat, escrow : Nat]
      /\ escrow + lpPool.total_drawn = lpPool.total_staked + lpPool.total_returned + spare.escrow
  BY CurveFacts DEF LpPoolType, PoolBooks, PoolEscrowIsAccounted
<1>2. ASSUME UNCHANGED <<lpPool, lp, escrow, spare>> PROVE PoolBooks'
  BY <1>2, PoolBooksKept DEF PoolBooks, PoolEscrowIsAccounted
<1>3. ASSUME NEW d \in Nat, NEW r \in Nat, NEW x \in Nat, UNCHANGED lp,
             lpPool'.total_staked = lpPool.total_staked, lpPool'.loss_acc = lpPool.loss_acc,
             lpPool'.total_drawn = lpPool.total_drawn + d,
             lpPool'.total_returned = lpPool.total_returned + r,
             escrow' = escrow - d + r + x, spare'.escrow = spare.escrow + x
      PROVE  PoolBooks'
  <2>1. (escrow - d + r + x) + (lpPool.total_drawn + d)
          = lpPool.total_staked + (lpPool.total_returned + r) + (spare.escrow + x)
    <3> DEFINE i == escrow
               a == lpPool.total_drawn
               b == lpPool.total_staked
               c == lpPool.total_returned
               y == spare.escrow
    <3>1. i \in Nat /\ a \in Nat /\ b \in Nat /\ c \in Nat /\ y \in Nat /\ i + a = b + c + y
      BY <1>1
    <3> HIDE DEF i, a, b, c, y
    <3>2. (i - d + r + x) + (a + d) = b + (c + r) + (y + x)
      BY <1>3, <3>1, SMT
    <3> QED
      BY <3>2 DEF i, a, b, c, y
  <2>2. PoolEscrowIsAccounted'
    BY <1>3, <2>1 DEF PoolEscrowIsAccounted
  <2> QED
    BY <1>3, <2>2, PoolBooksKept
<1>4. Trades \subseteq Nat /\ Gifts \subseteq Nat /\ 0 \in Nat
  BY MarketCurveAssumption
<1>5. CASE KeeperStep
  <2>1. ASSUME NEW amount \in Trades, AllocatePoolToCurve(amount) PROVE PoolBooks'
    <3>1. /\ lpPool'.total_staked = lpPool.total_staked /\ lpPool'.loss_acc = lpPool.loss_acc
          /\ lpPool'.total_drawn = lpPool.total_drawn + amount
          /\ lpPool'.total_returned = lpPool.total_returned
          /\ escrow' = escrow - amount /\ UNCHANGED <<lp, spare>>
      BY <1>1, <2>1 DEF AllocatePoolToCurve, Disbursed, LpPoolType
    <3>2. /\ amount \in Nat /\ escrow - amount = escrow - amount + 0 + 0
          /\ lpPool.total_returned + 0 = lpPool.total_returned /\ spare.escrow + 0 = spare.escrow
      BY <1>1, <1>4, SMT
    <3> QED
      BY <1>3, <1>4, <3>1, <3>2
  <2>2. ASSUME NEW amount \in Trades, DeallocatePoolFromCurve(amount) PROVE PoolBooks'
    <3>1. /\ lpPool'.total_staked = lpPool.total_staked /\ lpPool'.loss_acc = lpPool.loss_acc
          /\ lpPool'.total_drawn = lpPool.total_drawn
          /\ lpPool'.total_returned = lpPool.total_returned + amount
          /\ escrow' = escrow + amount /\ UNCHANGED <<lp, spare>>
      BY <1>1, <2>2 DEF DeallocatePoolFromCurve, Returned, LpPoolType
    <3>2. /\ amount \in Nat /\ escrow + amount = escrow - 0 + amount + 0
          /\ lpPool.total_drawn + 0 = lpPool.total_drawn /\ spare.escrow + 0 = spare.escrow
      BY <1>1, <1>4, SMT
    <3> QED
      BY <1>3, <1>4, <3>1, <3>2
  <2> QED
    BY <1>2, <1>5, <2>1, <2>2 DEF KeeperStep, CloseStaleMarketCurve, InitMarketCurve, LockMarket,
                                  SettleMarket, VoidMarket, poolVars
<1>6. CASE CrankStep
  <2>1. CASE SweepCurveFeesToPool
    <3>1. /\ lpPool'.total_staked = lpPool.total_staked /\ lpPool'.loss_acc = lpPool.loss_acc
          /\ lpPool'.total_drawn = lpPool.total_drawn
          /\ lpPool'.total_returned = lpPool.total_returned
          /\ UNCHANGED <<lp, escrow, spare>>
      BY <1>1, <2>1 DEF SweepCurveFeesToPool, SweptToYield, LpPoolType
    <3> QED
      BY <1>1, <3>1, PoolBooksKept DEF PoolEscrowIsAccounted
  <2>2. ASSUME NEW toVault \in BOOLEAN, RedeemInventory(toVault) PROVE PoolBooks'
    <3>1. UNCHANGED <<lpPool, lp, escrow>> /\ spare'.escrow = spare.escrow
      BY <1>1, <2>2 DEF RedeemInventory, InventoryLeft, poolVars
    <3> QED
      BY <1>1, <3>1, PoolBooksKept DEF PoolEscrowIsAccounted
  <2>3. CASE RedeemVoidCurveInventory
    <3> DEFINE payout == pm_void_redeem_payout(inventory)
    <3>1. payout \in Nat /\ Min({payout, collateral}) = payout
      <4>1. Trader \in Holders /\ inventory \in [Sides -> Nat] /\ TotalsAreHeld
        BY MarketCurveAssumption, CurveFacts DEF MarketBooks, MarketIsSolvent
      <4>2. ASSUME NEW side \in Sides PROVE inventory[side] <= curve.total[side]
        <5>1. /\ inventory[side] \in Nat /\ curve.total[side] \in Nat /\ shares[Trader][side] \in Nat
              /\ shares[Trader][side] + inventory[side] <= curve.total[side]
          BY <4>1, BookFacts, HeldWithinTotal
        <5> QED
          BY <5>1, SMT
      <4> QED
        BY <2>3, <4>1, <4>2, VoidPayout DEF RedeemVoidCurveInventory
    <3>2. Returned(payout, payout) /\ UNCHANGED spare
      BY <2>3, <3>1 DEF RedeemVoidCurveInventory
    <3> HIDE DEF payout
    <3>3. /\ lpPool'.total_staked = lpPool.total_staked /\ lpPool'.loss_acc = lpPool.loss_acc
          /\ lpPool'.total_drawn = lpPool.total_drawn
          /\ lpPool'.total_returned = lpPool.total_returned + payout
          /\ escrow' = escrow + payout /\ UNCHANGED <<lp, spare>>
      BY <1>1, <3>2 DEF Returned, LpPoolType
    <3>4. /\ escrow + payout = escrow - 0 + payout + 0
          /\ lpPool.total_drawn + 0 = lpPool.total_drawn /\ spare.escrow + 0 = spare.escrow
      BY <1>1, <3>1, SMT
    <3> QED
      BY <1>3, <1>4, <3>1, <3>3, <3>4
  <2> QED
    BY <1>6, <2>1, <2>2, <2>3 DEF CrankStep
<1>7. ASSUME NEW h \in Users, HolderStep(h) PROVE PoolBooks'
  <2>1. ASSUME NEW amount \in Gifts, NEW vault \in {"collateral", "escrow"}, Gift(h, amount, vault)
        PROVE  PoolBooks'
    <3>1. CASE vault = "collateral"
      <4>1. UNCHANGED <<lpPool, lp, escrow>> /\ spare'.escrow = spare.escrow
        BY <1>1, <2>1, <3>1 DEF Gift
      <4> QED
        BY <1>1, <4>1, PoolBooksKept DEF PoolEscrowIsAccounted
    <3>2. CASE vault = "escrow"
      <4>1. /\ UNCHANGED <<lpPool, lp>> /\ escrow' = escrow + amount
            /\ spare'.escrow = spare.escrow + amount
        BY <1>1, <2>1, <3>2 DEF Gift
      <4>2. /\ amount \in Nat /\ escrow + amount = escrow - 0 + 0 + amount
            /\ lpPool.total_drawn + 0 = lpPool.total_drawn
            /\ lpPool.total_returned + 0 = lpPool.total_returned
        BY <1>1, <1>4, SMT
      <4> QED
        BY <1>3, <1>4, <4>1, <4>2
    <3> QED
      BY <3>1, <3>2
  <2>2. ASSUME NEW amount \in Trades,
               SplitCollateral(h, amount) \/ MergeShares(h, amount) \/ AddCurveTopup(h, amount)
        PROVE  PoolBooks'
    BY <1>2, <2>2 DEF SplitCollateral, MergeShares, AddCurveTopup, TopUpDeposited, Deposited, MergePaid
  <2>3. ASSUME NEW from \in Sides, NEW amount \in Trades, NEW minOut \in MinOuts,
               SwapCurveShares(h, from, amount, minOut)
        PROVE  PoolBooks'
    BY <1>2, <2>3 DEF SwapCurveShares, poolVars
  <2>4. CASE RedeemShares(h) \/ RedeemVoidShares(h)
    BY <1>2, <2>4 DEF RedeemShares, RedeemVoidShares, VoidPaid, RedemptionPaid
  <2> QED
    BY <1>7, <2>1, <2>2, <2>3, <2>4 DEF HolderStep
<1> QED
  BY <1>5, <1>6, <1>7

LEMMA StepPoolBooks ==
    MarketTypes /\ MarketTypes' /\ MarketBooks /\ PoolBooks /\ [MarketNext]_marketVars
      => PoolBooks'
<1> SUFFICES ASSUME MarketTypes, MarketTypes', MarketBooks, PoolBooks, [MarketNext]_marketVars
             PROVE  PoolBooks'
  OBVIOUS
<1>1. CASE UNCHANGED marketVars
  BY <1>1, PoolBooksKept DEF marketVars, poolVars, curveVars, PoolBooks, PoolEscrowIsAccounted
<1>2. CASE LpStep /\ UNCHANGED curveVars
  BY <1>2, LpStepBooks DEF curveVars
<1> QED
  BY <1>1, <1>2, CurveStepBooks DEF MarketNext

LEMMA InitPoolBooks == MarketInit => PoolBooks
<1> SUFFICES ASSUME MarketInit PROVE PoolBooks
  OBVIOUS
<1>1. /\ lp = [h \in Holders |-> NoPosition] /\ lpPool.total_staked = 0 /\ lpPool.loss_acc = 0
      /\ lpPool.total_drawn = 0 /\ lpPool.total_returned = 0 /\ escrow = 0 /\ spare.escrow = 0
  BY DEF MarketInit, PoolInit, CurveInit
<1> DEFINE f == [h \in Holders |-> lp[h].staked]
<1>2. N \in Nat /\ f \in [1..N -> Int] /\ \A h \in 1..N : f[h] = 0
  BY <1>1, MarketPoolAssumption DEF NoPosition, Holders
<1>3. SumTo(f, N) = 0
  <2> HIDE DEF f
  <2> QED
    BY <1>2, SumOfZeros
<1> QED
  BY <1>1, <1>3 DEF PoolBooks, StakesAddUp, NoLosses, PoolEscrowIsAccounted, NoPosition

(* The escrow holds exactly what is staked, less what the curves have and  *)
(* have not brought back: no order of stakes, withdrawals, allocations and *)
(* returns loses a token or pays one twice.                                *)
THEOREM PoolEscrowHolds == MarketSpec => []PoolEscrowIsAccounted
<1>1. PoolBooks => PoolEscrowIsAccounted
  BY DEF PoolBooks
<1>2. MarketSpec => []PoolBooks
  BY InitPoolBooks, BooksHold, StepPoolBooks, PTL DEF MarketSpec
<1> QED
  BY <1>1, <1>2, PTL

----------------------------------------------------------------------------
(* The pool's yield. What YieldIsBacked needs to be inductive: entitlement *)
(* counted before it is rounded, one part in Precision at a time, so that  *)
(* a fold, a claim and a withdrawal neither create nor lose any, and each  *)
(* rounding in a staker's favour costs less than one unit.                 *)
Entitlements(l, acc) == [h \in Holders |-> Entitled(l[h].staked, acc, l[h].yield_debt)]
Promised ==
    SumTo(Entitlements(lp, lpPool.yield_acc), N) + lpPool.unallocated_yield * Precision
Backing == yieldVault * Precision + roundings * (Precision - 1)

YieldWeighed == lpPool.total_yield_weight = SumTo([h \in Holders |-> lp[h].staked], N)
YieldBooks ==
    /\ roundings \in Nat /\ YieldWeighed
    /\ \A h \in Holders : Entitlements(lp, lpPool.yield_acc)[h] >= 0
    /\ Promised <= Backing

LEMMA EntitlementTypes ==
    ASSUME NEW l \in [Holders -> LpPositionType], NEW acc \in Nat
    PROVE  /\ N \in Nat /\ Holders = 1..N
           /\ \A h \in Holders :
                 /\ l[h] \in LpPositionType /\ l[h].staked \in Nat /\ l[h].yield_debt \in Nat
                 /\ Entitlements(l, acc)[h] = Entitled(l[h].staked, acc, l[h].yield_debt)
                 /\ Entitlements(l, acc)[h] \in Int
           /\ Entitlements(l, acc) \in [1..N -> Int]
           /\ SumTo(Entitlements(l, acc), N) \in Int
<1>1. N \in Nat /\ Holders = 1..N
  BY MarketPoolAssumption DEF Holders
<1>2. ASSUME NEW h \in Holders
      PROVE  /\ l[h] \in LpPositionType /\ l[h].staked \in Nat /\ l[h].yield_debt \in Nat
             /\ Entitled(l[h].staked, acc, l[h].yield_debt) \in Int
  <2>1. l[h] \in LpPositionType /\ l[h].staked \in Nat /\ l[h].yield_debt \in Nat
    BY DEF LpPositionType
  <2> QED
    BY <2>1, EntitledType
<1>3. Entitlements(l, acc) \in [1..N -> Int]
  BY <1>1, <1>2 DEF Entitlements
<1>4. SumTo(Entitlements(l, acc), N) \in Int
  BY <1>1, <1>3, SumIsMonotonic
<1> QED
  BY <1>1, <1>2, <1>3, <1>4 DEF Entitlements

LEMMA YieldTypes ==
    ASSUME MarketTypes
    PROVE  /\ lpPool \in LpPoolType /\ lp \in [Holders -> LpPositionType] /\ yieldVault \in Nat
           /\ lpPool.yield_acc \in Nat /\ lpPool.unallocated_yield \in Nat
           /\ lpPool.total_yield_weight \in Nat
BY DEF MarketTypes, MarketTypeOK, LpPoolType

LEMMA YieldKept ==
    ASSUME YieldBooks, UNCHANGED <<lp, yieldVault, roundings>>,
           lpPool'.yield_acc = lpPool.yield_acc,
           lpPool'.unallocated_yield = lpPool.unallocated_yield,
           lpPool'.total_yield_weight = lpPool.total_yield_weight
    PROVE  YieldBooks'
BY DEF YieldBooks, YieldWeighed, Promised, Backing

(* One position moves, and what it gains the vault or a rounding pays.     *)
LEMMA PositionMoves ==
    ASSUME MarketTypes, MarketTypes', YieldBooks, NEW h \in Holders,
           \A i \in Holders : i # h => lp'[i] = lp[i],
           lpPool'.yield_acc = lpPool.yield_acc,
           lpPool'.unallocated_yield = lpPool.unallocated_yield,
           lpPool'.total_yield_weight = lpPool.total_yield_weight + lp'[h].staked - lp[h].staked,
           roundings' \in Nat,
           NEW old \in Int, old = Entitled(lp[h].staked, lpPool.yield_acc, lp[h].yield_debt),
           NEW new \in Nat, new = Entitled(lp'[h].staked, lpPool.yield_acc, lp'[h].yield_debt),
           new + (yieldVault - yieldVault') * Precision
              <= old + (roundings' - roundings) * (Precision - 1)
    PROVE  YieldBooks'
<1> DEFINE f == Entitlements(lp, lpPool.yield_acc)
           g == Entitlements(lp', lpPool.yield_acc)
           u == lpPool.unallocated_yield * Precision
<1>1. /\ lp \in [Holders -> LpPositionType] /\ lp' \in [Holders -> LpPositionType]
      /\ lpPool.yield_acc \in Nat /\ yieldVault \in Nat /\ yieldVault' \in Nat
      /\ lpPool.unallocated_yield \in Nat /\ roundings \in Nat /\ Precision \in Nat \ {0}
  BY StakePoolAssumption, YieldTypes DEF YieldBooks, MarketTypes, MarketTypeOK
<1>2. /\ N \in Nat /\ h \in 1..N /\ Holders = 1..N /\ f \in [1..N -> Int] /\ g \in [1..N -> Int]
      /\ f[h] = old /\ g[h] = new
  BY <1>1, EntitlementTypes
<1>3. \A i \in 1..N : i # h => g[i] = f[i]
  BY <1>2 DEF Entitlements
<1>4. Promised = SumTo(f, N) + u /\ Promised' = SumTo(g, N) + u
  BY DEF Promised
<1>5. SumTo(f, N) \in Int /\ SumTo(g, N) = SumTo(f, N) + new - old
  <2> HIDE DEF f, g
  <2> QED
    BY <1>2, <1>3, SumChange
<1>6. /\ (yieldVault - yieldVault') * Precision = yieldVault * Precision - yieldVault' * Precision
      /\ (roundings' - roundings) * (Precision - 1)
           = roundings' * (Precision - 1) - roundings * (Precision - 1)
      /\ yieldVault * Precision \in Int /\ yieldVault' * Precision \in Int /\ u \in Int
      /\ roundings * (Precision - 1) \in Int /\ roundings' * (Precision - 1) \in Int
  <2> DEFINE v == yieldVault
             w == yieldVault'
             a == roundings
             b == roundings'
             z == lpPool.unallocated_yield
             pr == Precision
  <2>1. v \in Nat /\ w \in Nat /\ a \in Nat /\ b \in Nat /\ z \in Nat /\ pr \in Nat
    BY <1>1
  <2> HIDE DEF v, w, a, b, z, pr
  <2>2. /\ (v - w) * pr = v * pr - w * pr /\ (b - a) * (pr - 1) = b * (pr - 1) - a * (pr - 1)
        /\ v * pr \in Int /\ w * pr \in Int /\ z * pr \in Int
        /\ a * (pr - 1) \in Int /\ b * (pr - 1) \in Int
    BY <2>1, SMT
  <2> QED
    BY <2>2 DEF v, w, a, b, z, pr
<1>7. Promised <= Backing
  BY DEF YieldBooks
<1>8. YieldWeighed'
  <2>1. SumTo([i \in Holders |-> lp'[i].staked], N)
          = SumTo([i \in Holders |-> lp[i].staked], N) + lp'[h].staked - lp[h].staked
    BY <1>1, StakeMoves
  <2> QED
    BY <2>1 DEF YieldBooks, YieldWeighed
<1>9. \A i \in Holders : Entitlements(lp', lpPool.yield_acc)[i] >= 0
  <2> SUFFICES ASSUME NEW i \in Holders PROVE g[i] >= 0
    OBVIOUS
  <2>1. f[i] >= 0 /\ f[i] \in Int
    BY <1>2 DEF YieldBooks
  <2> HIDE DEF f, g
  <2>2. i = h => g[i] >= 0
    BY <1>2
  <2>3. i # h => g[i] = f[i]
    BY <1>2, <1>3
  <2> QED
    BY <2>1, <2>2, <2>3
<1> HIDE DEF f, g, u
<1>10. Promised' <= Backing'
  BY <1>4, <1>5, <1>6, <1>7 DEF Backing
<1> QED
  BY <1>8, <1>9, <1>10 DEF YieldBooks

LEMMA LpStepYield ==
    ASSUME MarketTypes, MarketTypes', YieldBooks, LpStep
    PROVE  YieldBooks'
<1> DEFINE acc == lpPool.yield_acc
<1>1. /\ lp \in [Holders -> LpPositionType] /\ lp' \in [Holders -> LpPositionType]
      /\ lpPool \in LpPoolType /\ acc \in Nat /\ lpPool.total_yield_weight \in Nat
      /\ yieldVault \in Nat /\ yieldVault' \in Nat /\ roundings \in Nat /\ Precision \in Nat \ {0}
      /\ Stakers \subseteq Holders /\ Stakes \subseteq Nat
  BY StakePoolAssumption, MarketPoolAssumption, YieldTypes DEF YieldBooks, MarketTypes, MarketTypeOK
<1>2. ASSUME NEW h \in Holders
      PROVE  /\ lp[h] \in LpPositionType /\ lp[h].staked \in Nat /\ lp[h].yield_debt \in Nat
             /\ Entitled(lp[h].staked, acc, lp[h].yield_debt) \in Nat
  <2>1. /\ lp[h] \in LpPositionType /\ lp[h].staked \in Nat /\ lp[h].yield_debt \in Nat
        /\ Entitlements(lp, acc)[h] = Entitled(lp[h].staked, acc, lp[h].yield_debt)
        /\ Entitlements(lp, acc)[h] \in Int
    BY <1>1, EntitlementTypes
  <2>2. Entitlements(lp, acc)[h] >= 0
    BY DEF YieldBooks
  <2> QED
    BY <2>1, <2>2
<1>3. CASE Tick \/ InitPmLpPool
  <2>1. /\ UNCHANGED <<lp, yieldVault, roundings>> /\ lpPool'.yield_acc = lpPool.yield_acc
        /\ lpPool'.unallocated_yield = lpPool.unallocated_yield
        /\ lpPool'.total_yield_weight = lpPool.total_yield_weight
    BY <1>1, <1>3 DEF Tick, InitPmLpPool, LpPoolType
  <2> QED
    BY <2>1, YieldKept
<1>4. ASSUME NEW h \in Stakers, NEW amount \in Stakes, StakePmLp(h, amount) PROVE YieldBooks'
  <2> DEFINE staked == lp[h].staked
             debt == lp[h].yield_debt
             r == (amount * acc) % Precision
  <2>1. h \in Holders /\ amount \in Nat /\ staked \in Nat /\ debt \in Nat /\ lp[h] \in LpPositionType
        /\ Entitled(staked, acc, debt) \in Nat
    BY <1>1, <1>2
  <2>2. /\ lp'[h].staked = staked + amount /\ lp'[h].yield_debt = debt + Debt(amount, acc)
        /\ \A i \in Holders : i # h => lp'[i] = lp[i]
    <3>1. lp' = [lp EXCEPT ![h] = Staked(lp[h], amount)]
      BY <1>4 DEF StakePmLp
    <3>2. /\ Staked(lp[h], amount).staked = staked + amount
          /\ Staked(lp[h], amount).yield_debt = debt + Debt(amount, acc)
      BY <2>1 DEF Staked, LpPositionType
    <3> QED
      BY <1>1, <2>1, <3>1, <3>2
  <2>3. /\ lpPool'.yield_acc = acc /\ lpPool'.unallocated_yield = lpPool.unallocated_yield
        /\ lpPool'.total_yield_weight = lpPool.total_yield_weight + amount
        /\ yieldVault' = yieldVault
        /\ roundings' = roundings + (IF r = 0 THEN 0 ELSE 1)
    BY <1>1, <1>4 DEF StakePmLp, CountRounding, LpPoolType
  <2>4. /\ Entitled(staked + amount, acc, debt + Debt(amount, acc)) = Entitled(staked, acc, debt) + r
        /\ r \in 0..Precision - 1
    <3> HIDE DEF acc, staked, debt
    <3> QED
      BY <1>1, <2>1, StakeEntitled
  <2> DEFINE old == Entitled(staked, acc, debt)
             new == old + r
  <2>5. /\ old = Entitled(lp[h].staked, lpPool.yield_acc, lp[h].yield_debt)
        /\ new = Entitled(lp'[h].staked, lpPool.yield_acc, lp'[h].yield_debt)
    BY <2>2, <2>4
  <2>6. old \in Int /\ new \in Nat /\ roundings' \in Nat
        /\ new + (yieldVault - yieldVault') * Precision
              <= old + (roundings' - roundings) * (Precision - 1)
    <3>1. old \in Nat /\ (yieldVault - yieldVault') * Precision = 0
      BY <1>1, <2>1, <2>3
    <3> HIDE DEF old, r
    <3>2. CASE r = 0
      BY <1>1, <2>3, <3>1, <3>2
    <3>3. CASE r # 0
      <4>1. roundings' - roundings = 1 /\ 1 * (Precision - 1) = Precision - 1
        BY <1>1, <2>3, <3>3
      <4> QED
        BY <1>1, <2>3, <2>4, <3>1, <3>3, <4>1
    <3> QED
      BY <3>2, <3>3
  <2>7. lpPool'.total_yield_weight = lpPool.total_yield_weight + lp'[h].staked - lp[h].staked
    BY <1>1, <2>1, <2>2, <2>3
  <2> HIDE DEF old, new
  <2> QED
    BY <2>1, <2>2, <2>3, <2>5, <2>6, <2>7, PositionMoves
<1>5. ASSUME NEW h \in Stakers, NEW tier \in Tiers, RequestUnstakePmLp(h, tier) PROVE YieldBooks'
  <2> DEFINE old == Entitled(lp[h].staked, acc, lp[h].yield_debt)
  <2>1. h \in Holders /\ lp[h] \in LpPositionType /\ lp[h].staked \in Nat /\ old \in Nat
    BY <1>1, <1>2
  <2>2. /\ lp'[h].staked = lp[h].staked /\ lp'[h].yield_debt = lp[h].yield_debt
        /\ \A i \in Holders : i # h => lp'[i] = lp[i]
        /\ UNCHANGED <<lpPool, yieldVault, roundings>>
    BY <1>1, <1>5, <2>1 DEF RequestUnstakePmLp, LpPositionType
  <2>3. /\ old = Entitled(lp'[h].staked, acc, lp'[h].yield_debt)
        /\ lpPool'.total_yield_weight = lpPool.total_yield_weight + lp'[h].staked - lp[h].staked
    BY <1>1, <2>1, <2>2
  <2>4. old + (yieldVault - yieldVault') * Precision <= old + (roundings' - roundings) * (Precision - 1)
    <3> HIDE DEF old
    <3> QED
      BY <1>1, <2>1, <2>2
  <2>5. old \in Int /\ roundings' \in Nat /\ old = Entitled(lp[h].staked, lpPool.yield_acc, lp[h].yield_debt)
    BY <1>1, <2>1, <2>2
  <2> HIDE DEF old
  <2> QED
    BY <2>1, <2>2, <2>3, <2>4, <2>5, PositionMoves
<1>6. ASSUME NEW h \in Stakers, ClaimPmLpYield(h) PROVE YieldBooks'
  <2> DEFINE staked == lp[h].staked
             debt == lp[h].yield_debt
             paid == Pending(staked, acc, debt)
             old == Entitled(staked, acc, debt)
             new == Entitled(staked, acc, Debt(staked, acc))
  <2>1. h \in Holders /\ staked \in Nat /\ debt \in Nat /\ lp[h] \in LpPositionType /\ old \in Nat
    BY <1>1, <1>2
  <2>2. /\ lp'[h].staked = staked /\ lp'[h].yield_debt = Debt(staked, acc)
        /\ \A i \in Holders : i # h => lp'[i] = lp[i]
        /\ UNCHANGED <<lpPool, roundings>> /\ yieldVault' = yieldVault - paid
    BY <1>1, <1>6, <2>1 DEF ClaimPmLpYield, ClaimPaid, LpPositionType
  <2>3. new >= 0 /\ new = old - paid * Precision /\ paid \in Nat /\ Debt(staked, acc) \in Nat
    BY <1>1, <2>1, ClaimEntitled, PendingOfEntitled
  <2>4. new \in Int
    BY <1>1, <2>1, <2>3, EntitledType
  <2>5. /\ old = Entitled(lp[h].staked, lpPool.yield_acc, lp[h].yield_debt)
        /\ new = Entitled(lp'[h].staked, lpPool.yield_acc, lp'[h].yield_debt)
        /\ lpPool'.total_yield_weight = lpPool.total_yield_weight + lp'[h].staked - lp[h].staked
    BY <1>1, <2>1, <2>2
  <2> HIDE DEF old, new, paid
  <2>6. new \in Nat /\ old \in Int /\ roundings' \in Nat
        /\ new + (yieldVault - yieldVault') * Precision
              <= old + (roundings' - roundings) * (Precision - 1)
    <3>1. yieldVault - yieldVault' = paid /\ roundings' - roundings = 0 /\ 0 * (Precision - 1) = 0
          /\ paid * Precision \in Int
      BY <1>1, <2>2, <2>3
    <3> QED
      BY <1>1, <2>1, <2>2, <2>3, <2>4, <3>1
  <2> QED
    BY <2>1, <2>2, <2>5, <2>6, PositionMoves
<1>7. ASSUME NEW h \in Stakers, NEW amount \in Stakes, NEW tier \in Tiers,
             NEW broken \in BOOLEAN, WithdrawPmLp(h, amount, tier, broken)
      PROVE  YieldBooks'
  <2> DEFINE staked == lp[h].staked
             debt == lp[h].yield_debt
             rest == staked - amount
             kept == ScaledDebt(debt, rest, staked)
             r == (debt * rest) % staked
             paid == Slice(amount, Pending(staked, acc, debt), staked)
             old == Entitled(staked, acc, debt)
             new == Entitled(rest, acc, kept)
  <2>1. h \in Holders /\ amount \in Nat /\ staked \in Nat /\ debt \in Nat
        /\ lp[h] \in LpPositionType /\ old \in Nat
    BY <1>1, <1>2
  <2>2. /\ 0 < amount /\ amount <= staked
        /\ yieldVault' = yieldVault - paid
        /\ lpPool'.yield_acc = acc /\ lpPool'.unallocated_yield = lpPool.unallocated_yield
        /\ lpPool'.total_yield_weight = SatSub(lpPool.total_yield_weight, amount)
        /\ lp' = [lp EXCEPT ![h] = Remainder(@, amount)]
        /\ roundings' = roundings + (IF r = 0 THEN 0 ELSE 1)
    BY <1>1, <1>7, <2>1 DEF WithdrawPmLp, WithdrawalPaid, CountRounding, LpPoolType
  <2>3. /\ new >= 0
        /\ new + paid * Precision <= old + (IF r = 0 THEN 0 ELSE Precision - 1)
    <3>1. acc \in Nat /\ Entitled(staked, acc, debt) >= 0
      BY <1>1, <2>1
    <3> HIDE DEF acc, staked, debt
    <3> QED
      BY <2>1, <2>2, <3>1, WithdrawEntitled, Zenon
  <2>4. rest \in Nat /\ staked \in Nat \ {0} /\ kept \in Nat /\ new \in Int /\ paid \in Nat
    <3>1. rest \in Nat /\ staked \in Nat \ {0}
      BY <2>1, <2>2
    <3>2. kept \in Nat /\ Pending(staked, acc, debt) \in Nat
      BY <1>1, <2>1, <3>1, ScaledDebtType, PendingType
    <3>3. new \in Int
      BY <1>1, <3>1, <3>2, EntitledType
    <3>4. paid \in Nat
      BY <2>1, <2>2, <3>2, SliceWithin
    <3> QED
      BY <3>1, <3>2, <3>3, <3>4
  <2>5. /\ lp'[h].staked = rest /\ new = Entitled(lp'[h].staked, acc, lp'[h].yield_debt)
        /\ \A i \in Holders : i # h => lp'[i] = lp[i]
    <3>1. lp'[h] = Remainder(lp[h], amount) /\ \A i \in Holders : i # h => lp'[i] = lp[i]
      BY <1>1, <2>1, <2>2
    <3>2. CASE rest = 0
      <4>1. lp'[h].staked = 0 /\ lp'[h].yield_debt = 0
        BY <3>1, <3>2 DEF Remainder, NoPosition
      <4>2. kept = 0
        BY <2>1, <2>4, <3>2, NothingOf DEF ScaledDebt
      <4> QED
        BY <3>1, <3>2, <4>1, <4>2
    <3>3. CASE rest # 0
      <4>1. Remainder(lp[h], amount).staked = rest /\ Remainder(lp[h], amount).yield_debt = kept
        BY <2>1, <3>3 DEF Remainder, LpPositionType
      <4> QED
        BY <3>1, <4>1
    <3> QED
      BY <3>2, <3>3
  <2>6. lpPool'.total_yield_weight = lpPool.total_yield_weight + lp'[h].staked - lp[h].staked
    <3>1. staked <= lpPool.total_yield_weight
      BY <1>1, <2>1, StakeMoves DEF YieldBooks, YieldWeighed
    <3>2. SatSub(lpPool.total_yield_weight, amount) = lpPool.total_yield_weight - amount
      <4>1. lpPool.total_yield_weight \in Nat /\ amount <= lpPool.total_yield_weight
        BY <1>1, <2>1, <2>2, <3>1
      <4> QED
        BY <2>1, <4>1, SatSubFacts
    <3> QED
      BY <1>1, <2>1, <2>2, <2>5, <3>2
  <2>7. old = Entitled(lp[h].staked, lpPool.yield_acc, lp[h].yield_debt)
    OBVIOUS
  <2> HIDE DEF old, new, paid, r, rest, kept
  <2>8. new \in Nat /\ old \in Int /\ roundings' \in Nat
        /\ new + (yieldVault - yieldVault') * Precision
              <= old + (roundings' - roundings) * (Precision - 1)
    <3>1. yieldVault - yieldVault' = paid /\ paid * Precision \in Int
      BY <1>1, <2>2, <2>4
    <3>2. (roundings' - roundings) * (Precision - 1) = (IF r = 0 THEN 0 ELSE Precision - 1)
      BY <1>1, <2>2
    <3> QED
      BY <1>1, <2>1, <2>2, <2>3, <2>4, <3>1, <3>2
  <2> QED
    BY <2>1, <2>2, <2>5, <2>6, <2>7, <2>8, PositionMoves
<1> QED
  BY <1>3, <1>4, <1>5, <1>6, <1>7 DEF LpStep

(* A sweep: what arrives is promised to the weight at most once.           *)
LEMMA SweepYield ==
    ASSUME MarketTypes, MarketTypes', YieldBooks, SweepCurveFeesToPool
    PROVE  YieldBooks'
<1> DEFINE amount == Min({curve.pool_fees, collateral})
           acc == lpPool.yield_acc
           rest == lpPool.unallocated_yield
           weight == lpPool.total_yield_weight
           next == FoldedAcc(acc, rest, amount, weight)
           left == FoldedRest(rest, amount, weight)
           d == next - acc
           f == Entitlements(lp, acc)
           g == Entitlements(lp, next)
           w == [h \in Holders |-> lp[h].staked]
<1>1. /\ lp \in [Holders -> LpPositionType] /\ lpPool \in LpPoolType /\ acc \in Nat /\ rest \in Nat
      /\ weight \in Nat /\ yieldVault \in Nat /\ roundings \in Nat /\ Precision \in Nat \ {0}
      /\ roundings * (Precision - 1) \in Int
  <2>1. /\ lp \in [Holders -> LpPositionType] /\ lpPool \in LpPoolType /\ acc \in Nat
        /\ rest \in Nat /\ weight \in Nat /\ yieldVault \in Nat /\ roundings \in Nat
        /\ Precision \in Nat \ {0}
    BY StakePoolAssumption, YieldTypes DEF YieldBooks
  <2>2. roundings * (Precision - 1) \in Int
    BY <2>1, SMT
  <2> QED
    BY <2>1, <2>2
<1>2. amount \in Nat
  BY CurveFacts, MinOfTwo DEF CurveType
<1>3. /\ lpPool'.yield_acc = next /\ lpPool'.unallocated_yield = left
      /\ lpPool'.total_yield_weight = weight
      /\ yieldVault' = yieldVault + amount /\ lp' = lp /\ roundings' = roundings
  BY <1>1 DEF SweepCurveFeesToPool, SweptToYield, LpPoolType
<1> HIDE DEF amount
<1>4. next \in Nat /\ left \in Nat
  BY <1>1, <1>2, FoldedTypes
<1>5. d \in Nat /\ d * weight + left * Precision <= (amount + rest) * Precision
  BY <1>1, <1>2, FoldEntitles
<1>6. /\ N \in Nat /\ Holders = 1..N /\ f \in [1..N -> Int] /\ g \in [1..N -> Int] /\ w \in [1..N -> Int]
      /\ \A h \in Holders : w[h] = lp[h].staked /\ w[h] \in Nat
  <2> HIDE DEF next
  <2>1. N \in Nat /\ Holders = 1..N /\ f \in [1..N -> Int] /\ \A h \in Holders : lp[h].staked \in Nat
    BY <1>1, EntitlementTypes
  <2>2. g \in [1..N -> Int]
    BY <1>1, <1>4, EntitlementTypes
  <2> QED
    BY <2>1, <2>2
<1>7. next = acc + d
  <2> HIDE DEF next
  <2> QED
    BY <1>1, <1>4
<1>8. \A i \in 1..N : g[i] = f[i] + d * w[i]
  <2> SUFFICES ASSUME NEW i \in Holders PROVE g[i] = f[i] + d * w[i]
    BY <1>6
  <2>1. /\ lp[i].staked \in Nat /\ lp[i].yield_debt \in Nat
        /\ f[i] = Entitled(lp[i].staked, acc, lp[i].yield_debt)
        /\ g[i] = Entitled(lp[i].staked, next, lp[i].yield_debt)
    BY <1>1, <1>4, EntitlementTypes
  <2> HIDE DEF f, g, next, d
  <2>2. Entitled(lp[i].staked, acc + d, lp[i].yield_debt)
          = Entitled(lp[i].staked, acc, lp[i].yield_debt) + d * lp[i].staked
    BY <1>1, <1>5, <2>1, EntitledGrows
  <2> QED
    BY <1>7, <2>1, <2>2
<1>9. \A h \in Holders : f[h] >= 0
  BY DEF YieldBooks
<1>10. Promised = SumTo(f, N) + rest * Precision /\ Promised' = SumTo(g, N) + left * Precision
  BY <1>3 DEF Promised
<1>11. SumTo(w, N) = weight /\ Promised <= Backing
  BY DEF YieldBooks, YieldWeighed
<1>12. YieldWeighed'
  BY <1>3 DEF YieldBooks, YieldWeighed
<1>13. Entitlements(lp', lpPool'.yield_acc) = g
  BY <1>3
<1> HIDE DEF f, g, w, next, left, d, acc, rest, weight
<1>14. SumTo(f, N) \in Int /\ SumTo(g, N) = SumTo(f, N) + d * weight
  <2>1. d \in Int
    BY <1>5
  <2> QED
    BY <1>6, <1>8, <1>11, <2>1, SumAdds
<1>15. \A h \in Holders : g[h] >= 0
  <2> SUFFICES ASSUME NEW h \in Holders PROVE g[h] >= 0
    OBVIOUS
  <2>1. f[h] \in Int /\ f[h] >= 0 /\ w[h] \in Nat /\ g[h] = f[h] + d * w[h]
    BY <1>6, <1>8, <1>9
  <2>2. d * w[h] \in Nat
    BY <1>5, <2>1, SMT
  <2> QED
    BY <2>1, <2>2
<1>16. /\ (amount + rest) * Precision = amount * Precision + rest * Precision
       /\ (yieldVault + amount) * Precision = yieldVault * Precision + amount * Precision
       /\ amount * Precision \in Int /\ rest * Precision \in Int /\ left * Precision \in Int
       /\ yieldVault * Precision \in Int /\ d * weight \in Int
  BY <1>1, <1>2, <1>4, <1>5, SMT
<1>17. Promised' <= Backing'
  BY <1>1, <1>3, <1>5, <1>10, <1>11, <1>14, <1>16 DEF Backing
<1> QED
  BY <1>1, <1>3, <1>12, <1>13, <1>15, <1>17 DEF YieldBooks

(* Of the curve's other instructions none touches the yield.               *)
LEMMA CurveStepYield ==
    ASSUME MarketTypes, YieldBooks, ~ SweepCurveFeesToPool,
           KeeperStep \/ CrankStep \/ (\E h \in Users : HolderStep(h))
    PROVE  YieldBooks'
<1>1. lpPool \in LpPoolType
  BY YieldTypes
<1> SUFFICES /\ UNCHANGED <<lp, yieldVault, roundings>> /\ lpPool'.yield_acc = lpPool.yield_acc
             /\ lpPool'.unallocated_yield = lpPool.unallocated_yield
             /\ lpPool'.total_yield_weight = lpPool.total_yield_weight
  BY YieldKept
<1>2. CASE KeeperStep
  <2>1. ASSUME NEW amount \in Trades,
               AllocatePoolToCurve(amount) \/ DeallocatePoolFromCurve(amount)
        PROVE  /\ UNCHANGED <<lp, yieldVault, roundings>> /\ lpPool'.yield_acc = lpPool.yield_acc
               /\ lpPool'.unallocated_yield = lpPool.unallocated_yield
               /\ lpPool'.total_yield_weight = lpPool.total_yield_weight
    BY <1>1, <2>1 DEF AllocatePoolToCurve, DeallocatePoolFromCurve, Disbursed, Returned, LpPoolType
  <2> QED
    BY <1>2, <2>1 DEF KeeperStep, CloseStaleMarketCurve, InitMarketCurve, LockMarket, SettleMarket,
                      VoidMarket, poolVars
<1>3. CASE CrankStep
  BY <1>1, <1>3 DEF CrankStep, RedeemInventory, RedeemVoidCurveInventory, Returned, poolVars, LpPoolType
<1>4. ASSUME NEW h \in Users, HolderStep(h)
      PROVE  UNCHANGED <<lpPool, lp, yieldVault, roundings>>
  <2>1. ASSUME NEW amount \in Trades,
               SplitCollateral(h, amount) \/ MergeShares(h, amount) \/ AddCurveTopup(h, amount)
        PROVE  UNCHANGED <<lpPool, lp, yieldVault, roundings>>
    BY <2>1 DEF SplitCollateral, MergeShares, AddCurveTopup, TopUpDeposited, Deposited, MergePaid
  <2>2. ASSUME NEW from \in Sides, NEW amount \in Trades, NEW minOut \in MinOuts,
               SwapCurveShares(h, from, amount, minOut)
        PROVE  UNCHANGED <<lpPool, lp, yieldVault, roundings>>
    BY <2>2 DEF SwapCurveShares, poolVars
  <2>3. CASE RedeemShares(h) \/ RedeemVoidShares(h)
    BY <2>3 DEF RedeemShares, RedeemVoidShares, VoidPaid, RedemptionPaid
  <2>4. ASSUME NEW amount \in Gifts, NEW vault \in {"collateral", "escrow"}, Gift(h, amount, vault)
        PROVE  UNCHANGED <<lpPool, lp, yieldVault, roundings>>
    BY <2>4 DEF Gift
  <2> QED
    BY <1>4, <2>1, <2>2, <2>3, <2>4 DEF HolderStep
<1> QED
  BY <1>2, <1>3, <1>4

LEMMA StepYield ==
    MarketTypes /\ MarketTypes' /\ YieldBooks /\ [MarketNext]_marketVars => YieldBooks'
<1> SUFFICES ASSUME MarketTypes, MarketTypes', YieldBooks, [MarketNext]_marketVars
             PROVE  YieldBooks'
  OBVIOUS
<1>1. CASE UNCHANGED marketVars
  BY <1>1, YieldKept DEF marketVars, poolVars
<1> QED
  BY <1>1, LpStepYield, SweepYield, CurveStepYield DEF MarketNext

LEMMA InitYield == MarketInit => YieldBooks
<1> SUFFICES ASSUME MarketInit PROVE YieldBooks
  OBVIOUS
<1>1. /\ lp = [h \in Holders |-> NoPosition] /\ lpPool.total_yield_weight = 0 /\ lpPool.yield_acc = 0
      /\ lpPool.unallocated_yield = 0 /\ yieldVault = 0 /\ roundings = 0
  BY DEF MarketInit, PoolInit
<1> DEFINE f == [h \in Holders |-> lp[h].staked]
           g == Entitlements(lp, lpPool.yield_acc)
<1>2. Precision \in Nat \ {0} /\ 0 * Precision = 0 /\ 0 * (Precision - 1) = 0
  BY StakePoolAssumption, SMT
<1>3. \A h \in Holders : lp[h].staked = 0 /\ lp[h].yield_debt = 0
  BY <1>1 DEF NoPosition
<1>4. N \in Nat /\ Holders = 1..N /\ f \in [1..N -> Int] /\ \A h \in 1..N : f[h] = 0
  BY <1>3, MarketPoolAssumption DEF Holders
<1>5. Entitled(0, 0, 0) = 0
  BY <1>2 DEF Entitled
<1>6. g \in [1..N -> Int] /\ \A h \in 1..N : g[h] = 0
  BY <1>1, <1>3, <1>4, <1>5 DEF Entitlements
<1>7. SumTo(f, N) = 0 /\ SumTo(g, N) = 0
  <2> HIDE DEF f, g
  <2> QED
    BY <1>4, <1>6, SumOfZeros
<1> QED
  BY <1>1, <1>2, <1>4, <1>6, <1>7 DEF YieldBooks, YieldWeighed, Promised, Backing

(* What is pending, rounded down, is covered: entitlements are.            *)
LEMMA BooksBackYield == MarketTypes /\ YieldBooks => YieldIsBacked
<1> SUFFICES ASSUME MarketTypes, YieldBooks PROVE YieldIsBacked
  OBVIOUS
<1> DEFINE acc == lpPool.yield_acc
           rest == lpPool.unallocated_yield
           f == [h \in Holders |-> Pending(lp[h].staked, acc, lp[h].yield_debt)]
           g == Entitlements(lp, acc)
           zero == [h \in Holders |-> 0]
           scaled == [h \in Holders |-> 0 + Precision * f[h]]
<1>1. /\ lp \in [Holders -> LpPositionType] /\ acc \in Nat /\ rest \in Nat
      /\ yieldVault \in Nat /\ roundings \in Nat /\ Precision \in Nat \ {0}
  BY StakePoolAssumption, YieldTypes DEF YieldBooks
<1>2. N \in Nat /\ Holders = 1..N /\ g \in [1..N -> Int]
  BY <1>1, EntitlementTypes
<1>3. ASSUME NEW h \in Holders
      PROVE  f[h] \in Nat /\ f[h] * Precision <= g[h]
  <2>1. /\ lp[h].staked \in Nat /\ lp[h].yield_debt \in Nat
        /\ g[h] = Entitled(lp[h].staked, acc, lp[h].yield_debt) /\ g[h] >= 0
    BY <1>1, EntitlementTypes DEF YieldBooks
  <2> QED
    BY <1>1, <2>1, PendingOfEntitled
<1>4. f \in [1..N -> Int] /\ zero \in [1..N -> Int] /\ scaled \in [1..N -> Int]
  BY <1>1, <1>2, <1>3
<1>5. \A h \in 1..N : zero[h] = 0 /\ scaled[h] = zero[h] + Precision * f[h] /\ scaled[h] <= g[h]
  <2> SUFFICES ASSUME NEW h \in Holders
               PROVE  zero[h] = 0 /\ scaled[h] = zero[h] + Precision * f[h] /\ scaled[h] <= g[h]
    BY <1>2
  <2>1. f[h] \in Nat /\ f[h] * Precision <= g[h] /\ zero[h] = 0 /\ scaled[h] = 0 + Precision * f[h]
    BY <1>3
  <2> HIDE DEF f, zero, scaled, g
  <2>2. Precision * f[h] = f[h] * Precision /\ Precision * f[h] \in Int
    BY <1>1, <2>1, SMT
  <2> QED
    BY <2>1, <2>2
<1>6. Promised = SumTo(g, N) + rest * Precision /\ Promised <= Backing
  BY DEF Promised, YieldBooks
<1>7. YieldIsBacked <=> SumTo(f, N) + rest <= yieldVault + SatSub(roundings, 1)
  BY DEF YieldIsBacked
<1> HIDE DEF f, g, zero, scaled, acc, rest
<1>8. SumTo(zero, N) = 0 /\ SumTo(f, N) \in Int /\ SumTo(scaled, N) = 0 + Precision * SumTo(f, N)
      /\ SumTo(scaled, N) <= SumTo(g, N) /\ SumTo(g, N) \in Int
  <2>1. SumTo(zero, N) = 0
    BY <1>2, <1>4, <1>5, SumOfZeros
  <2>2. SumTo(f, N) \in Int /\ SumTo(scaled, N) = SumTo(zero, N) + Precision * SumTo(f, N)
    <3>1. Precision \in Int
      BY <1>1
    <3>2. \A h \in 1..N : scaled[h] = zero[h] + Precision * f[h]
      BY <1>5
    <3>3. N \in Nat
      BY <1>2
    <3> QED
      BY <1>4, <3>1, <3>2, <3>3, SumAdds
  <2>3. SumTo(scaled, N) <= SumTo(g, N) /\ SumTo(g, N) \in Int
    BY <1>2, <1>4, <1>5, SumIsMonotonic
  <2> QED
    BY <2>1, <2>2, <2>3
<1> DEFINE x == SumTo(f, N) + rest - yieldVault
<1>9. x \in Int /\ Precision * x <= roundings * (Precision - 1)
  <2> DEFINE total == SumTo(f, N)
             all == SumTo(g, N)
  <2>1. total \in Int /\ all \in Int /\ Precision * total <= all
        /\ all + rest * Precision <= yieldVault * Precision + roundings * (Precision - 1)
    BY <1>1, <1>6, <1>8, SMT DEF Backing
  <2> HIDE DEF total, all
  <2>2. (total + rest - yieldVault) \in Int
        /\ Precision * (total + rest - yieldVault)
             = Precision * total + rest * Precision - yieldVault * Precision
    BY <1>1, <2>1, SMT
  <2>3. /\ Precision * total \in Int /\ rest * Precision \in Int /\ yieldVault * Precision \in Int
        /\ roundings * (Precision - 1) \in Int
    BY <1>1, <2>1, SMT
  <2>4. Precision * (total + rest - yieldVault) <= roundings * (Precision - 1)
    BY <2>1, <2>2, <2>3
  <2> QED
    BY <2>2, <2>4 DEF total
<1> HIDE DEF x
<1>10. x <= SatSub(roundings, 1)
  <2>1. CASE roundings = 0
    <3>1. Precision * (0 - x) >= 0 /\ 0 - x \in Int
      <4>1. Precision * (0 - x) = 0 - Precision * x /\ Precision * x \in Int /\ 0 * (Precision - 1) = 0
        BY <1>1, <1>9, SMT
      <4> QED
        BY <1>1, <1>9, <2>1, <4>1
    <3>2. 0 - x >= 0
      BY <1>1, <3>1, SignOfFactor
    <3> QED
      BY <1>9, <2>1, <3>2 DEF SatSub
  <2>2. CASE roundings # 0
    <3>1. Precision * (roundings - x) > 0 /\ roundings - x \in Int
      <4>1. /\ Precision * (roundings - x) = roundings * Precision - Precision * x
            /\ roundings * (Precision - 1) = roundings * Precision - roundings
            /\ Precision * x \in Int /\ roundings * Precision \in Int
        BY <1>1, <1>9, SMT
      <4> QED
        BY <1>1, <1>9, <2>2, <4>1
    <3>2. roundings - x > 0
      BY <1>1, <3>1, SignOfFactor
    <3>3. SatSub(roundings, 1) = roundings - 1
      BY <1>1, <2>2, SatSubFacts
    <3> QED
      BY <1>1, <1>9, <3>2, <3>3
  <2> QED
    BY <2>1, <2>2
<1>11. SatSub(roundings, 1) \in Nat
  BY <1>1, SatSubFacts
<1> QED
  BY <1>1, <1>7, <1>8, <1>10, <1>11 DEF x

THEOREM YieldBooksHold == MarketSpec => []YieldBooks
BY InitYield, MarketIsTyped, StepYield, PTL DEF MarketSpec

(* Whatever the order of stakes, sweeps, claims and partial withdrawals,   *)
(* the yield vault covers what the pool has promised, but for less than a  *)
(* unit each time a debt was rounded down.                                 *)
THEOREM YieldStaysBacked == MarketSpec => []YieldIsBacked
BY MarketIsTyped, YieldBooksHold, BooksBackYield, PTL
=============================================================================
