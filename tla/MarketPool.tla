----------------------------- MODULE MarketPool -----------------------------
(***************************************************************************)
(* The firm's prediction-market liquidity pool: anybody stakes the firm's  *)
(* token into a shared escrow, from which the keeper funds market curves;  *)
(* the curves' fees come back as yield. A stake leaves after a cooldown.   *)
(***************************************************************************)
EXTENDS StakePool, Sums

CONSTANTS
    N,            \* the accounts 1..N that stake, trade and hold tokens
    Stakers,      \* those of them that stake in the instance
    Wallets,      \* what each of them starts with
    Stakes,       \* amounts that may be staked or withdrawn
    Tiers,        \* effective risk tiers the firm may be in
    Times,        \* the moments at which the instance calls
    MaxRoundings  \* bound on the history of debts rounded down

Holders == 1..N

ASSUME MarketPoolAssumption ==
    /\ N \in Nat /\ Stakers \subseteq Holders /\ Wallets \in [Holders -> Nat]
    /\ Stakes \subseteq Nat /\ Tiers \subseteq 0..3
    /\ Times \subseteq Nat \ {0} /\ Times # {} /\ MaxRoundings \in Nat

VARIABLES
    lpPool,      \* PredictionMarketLpPool ["pm_lp_pool", firm]
    lp,          \* PredictionMarketLpPosition ["pm_lp_pos", firm, staker]
    escrow,      \* tokens in ["pm_lp_escrow", firm]
    yieldVault,  \* tokens in ["pm_lp_yield", firm]
    wallet,      \* tokens in the holders' own accounts
    now,         \* the cluster clock
    roundings    \* history: how often a debt was rounded down

poolVars == <<lpPool, lp, escrow, yieldVault, wallet, now, roundings>>

LpPoolType ==
    [exists : BOOLEAN, total_staked : Nat, total_yield_weight : Nat, yield_acc : Nat,
     loss_acc : Nat, unallocated_yield : Nat, total_drawn : Nat, total_returned : Nat,
     daily_withdrawn : Nat, withdraw_day : Nat]

LpPositionType ==
    [staked : Nat, yield_debt : Nat, loss_debt : Nat, ends_at : Nat, requested_at : Nat]

NoPosition ==
    [staked |-> 0, yield_debt |-> 0, loss_debt |-> 0, ends_at |-> 0, requested_at |-> 0]

PoolInit ==
    /\ lpPool = [exists |-> FALSE, total_staked |-> 0, total_yield_weight |-> 0,
                 yield_acc |-> 0, loss_acc |-> 0, unallocated_yield |-> 0, total_drawn |-> 0,
                 total_returned |-> 0, daily_withdrawn |-> 0, withdraw_day |-> 0]
    /\ lp = [h \in Holders |-> NoPosition]
    /\ escrow = 0 /\ yieldVault = 0
    /\ wallet = Wallets
    /\ now \in Times /\ \A t \in Times : now <= t
    /\ roundings = 0

Tick ==
    /\ now' \in Times
    /\ now' > now
    /\ UNCHANGED <<lpPool, lp, escrow, yieldVault, wallet, roundings>>

CountRounding(product, divisor) ==
    /\ roundings' = roundings + (IF product % divisor = 0 THEN 0 ELSE 1)
    /\ roundings' <= MaxRoundings

----------------------------------------------------------------------------
(* init_pm_lp_pool: anybody, once per firm.                                *)
InitPmLpPool ==
    /\ ~ lpPool.exists
    /\ lpPool' = [lpPool EXCEPT !.exists = TRUE]
    /\ UNCHANGED <<lp, escrow, yieldVault, wallet, now, roundings>>

(* The tokens of a stake go from the staker's account into the escrow.     *)
StakeEscrowed(h, amount) ==
    /\ wallet[h] >= amount
    /\ wallet' = [wallet EXCEPT ![h] = @ - amount]
    /\ escrow' = escrow + amount

(* A new stake earns no past yield and bears no past loss.                 *)
UnshieldedStake(pos, amount) == [pos EXCEPT !.staked = @ + amount]
Staked(pos, amount) ==
    [pos EXCEPT !.staked = @ + amount,
                !.yield_debt = @ + Debt(amount, lpPool.yield_acc),
                !.loss_debt = @ + Debt(amount, lpPool.loss_acc)]

StakePmLp(h, amount) ==
    /\ lpPool.exists
    /\ amount > 0
    /\ lp[h].ends_at = 0
    /\ StakeEscrowed(h, amount)
    /\ lpPool' = [lpPool EXCEPT !.total_staked = @ + amount, !.total_yield_weight = @ + amount]
    /\ lp' = [lp EXCEPT ![h] = Staked(@, amount)]
    /\ CountRounding(amount * lpPool.yield_acc, Precision)
    /\ UNCHANGED <<yieldVault, now>>

RequestUnstakePmLp(h, tier) ==
    /\ lp[h].staked > 0
    /\ lp[h].ends_at = 0
    /\ lp' = [lp EXCEPT ![h].requested_at = now,
                        ![h].ends_at =
                            now + RequiredCooldown(tier, lp[h].staked, lpPool.total_staked)]
    /\ UNCHANGED <<lpPool, escrow, yieldVault, wallet, now, roundings>>

(* Principal is paid out of the escrow and yield out of the yield vault,   *)
(* both to an account of the staker.                                       *)
WithdrawalPaid(h, principal, yield) ==
    /\ escrow >= principal /\ escrow' = escrow - principal
    /\ yieldVault >= yield /\ yieldVault' = yieldVault - yield
    /\ wallet' = [wallet EXCEPT ![h] = @ + principal + yield]

(* What stays after a withdrawal: the debts in proportion, still cooling   *)
(* down, or nothing.                                                       *)
Remainder(pos, amount) ==
    LET rest == pos.staked - amount
    IN  IF rest = 0 THEN NoPosition
        ELSE [pos EXCEPT !.staked = rest,
                         !.yield_debt = ScaledDebt(@, rest, pos.staked),
                         !.loss_debt = ScaledDebt(@, rest, pos.staked)]

WithdrawnToday == IF lpPool.withdraw_day = now \div Day THEN lpPool.daily_withdrawn ELSE 0

(* The firm's tier and its velocity break are read at the call: others     *)
(* change them at any time.                                                *)
WithdrawPmLp(h, amount, tier, velocityBreak) ==
    LET pos == lp[h]
        surviving == SatSub(pos.staked, Pending(pos.staked, lpPool.loss_acc, pos.loss_debt))
        principal == Slice(amount, surviving, pos.staked)
        yield == Slice(amount, Pending(pos.staked, lpPool.yield_acc, pos.yield_debt), pos.staked)
    IN  /\ amount > 0
        /\ ~ velocityBreak
        /\ Matured(pos, now, tier, lpPool.total_staked)
        /\ amount <= pos.staked
        /\ WithdrawnToday + principal <= OutflowCap(lpPool.total_staked)
        /\ WithdrawalPaid(h, principal, yield)
        /\ lpPool' = [lpPool EXCEPT !.daily_withdrawn = WithdrawnToday + principal,
                                    !.withdraw_day = now \div Day,
                                    !.total_staked = SatSub(@, principal),
                                    !.total_yield_weight = SatSub(@, amount)]
        /\ lp' = [lp EXCEPT ![h] = Remainder(@, amount)]
        /\ CountRounding(pos.yield_debt * (pos.staked - amount), pos.staked)
        /\ UNCHANGED now

(* What a claim leaves as the position's debt: all it has been paid for.   *)
ClaimPaid(h, yield) ==
    /\ yieldVault >= yield /\ yieldVault' = yieldVault - yield
    /\ wallet' = [wallet EXCEPT ![h] = @ + yield]

ClaimPmLpYield(h) ==
    /\ lpPool.exists
    /\ ClaimPaid(h, Pending(lp[h].staked, lpPool.yield_acc, lp[h].yield_debt))
    /\ lp' = [lp EXCEPT ![h].yield_debt = Debt(lp[h].staked, lpPool.yield_acc)]
    /\ UNCHANGED <<lpPool, escrow, now, roundings>>

LpStep ==
    \/ Tick
    \/ InitPmLpPool
    \/ \E h \in Stakers :
          \/ \E amount \in Stakes : StakePmLp(h, amount)
          \/ \E tier \in Tiers : RequestUnstakePmLp(h, tier)
          \/ \E amount \in Stakes, tier \in Tiers, broken \in BOOLEAN :
                WithdrawPmLp(h, amount, tier, broken)
          \/ ClaimPmLpYield(h)
=============================================================================
