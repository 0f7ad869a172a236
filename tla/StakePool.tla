------------------------------ MODULE StakePool ------------------------------
(***************************************************************************)
(* The arithmetic the firm's staking pools share: yield and loss are held  *)
(* per staked token in an accumulator scaled by Precision, a position      *)
(* remembers as a debt what the accumulator held before it came, and a     *)
(* stake leaves after a cooldown, under a daily cap. The backstop pool and *)
(* the prediction-market pool have the same helpers each, line for line.   *)
(***************************************************************************)
EXTENDS Integers, FiniteSetsExt

CONSTANTS
    Precision,      \* PRECISION
    Day,            \* 86_400
    Cooldown,       \* the unbonding time of each risk tier
    OutflowCapBps   \* the share of the pool that may leave in a day

ASSUME StakePoolAssumption ==
    /\ Precision \in Nat \ {0} /\ Day \in Nat \ {0}
    /\ Cooldown \in [0..3 -> Nat \ {0}]
    /\ OutflowCapBps \in 0..10000

SatSub(a, b) == IF a > b THEN a - b ELSE 0

(* fold_yield: what arrives is spread over the weight; with nothing staked *)
(* it waits, and is spread with what comes next.                           *)
FoldedAcc(acc, unallocated, amount, weight) ==
    IF weight = 0 THEN acc ELSE acc + ((amount + unallocated) * Precision) \div weight
FoldedRest(unallocated, amount, weight) == IF weight = 0 THEN unallocated + amount ELSE 0

Debt(staked, acc) == (staked * acc) \div Precision
Pending(staked, acc, debt) == SatSub(Debt(staked, acc), debt)

(* The slice of a position's entitlement that goes with part of its stake, *)
(* and the debt that stays with the rest.                                  *)
Slice(amount, entitled, staked) == (amount * entitled) \div staked
ScaledDebt(debt, remainder, staked) == (debt * remainder) \div staked

(* The cooldown grows with the risk tier and with the position's share.    *)
ShareBps(staked, total) ==
    IF total = 0 THEN 10000 ELSE Min({10000, (staked * 10000) \div total})
WhaleTenths(share) ==
    CASE share < 500 -> 10 [] share \in 500..1499 -> 15
      [] share \in 1500..2999 -> 20 [] OTHER -> 30
RequiredCooldown(tier, staked, total) ==
    (Cooldown[tier] * WhaleTenths(ShareBps(staked, total))) \div 10

(* Asked for, and waited for under the conditions of then and of now.      *)
Matured(position, time, tier, total) ==
    /\ position.ends_at # 0
    /\ time >= Max({position.ends_at,
                    position.requested_at + RequiredCooldown(tier, position.staked, total)})

OutflowCap(total) == (total * OutflowCapBps) \div 10000
=============================================================================
