---------------------------- MODULE BackstopPool ----------------------------
(***************************************************************************)
(* The firm's Investor Backstop Pool: the third tier of a payout. Stakers  *)
(* put the firm's token at risk in an escrow; a draw takes from all of     *)
(* them at once through the loss accumulator, and in return they earn a    *)
(* premium in SOL and a share of delivered payouts in the firm's token.    *)
(***************************************************************************)
EXTENDS StakePool, Sums

CONSTANTS
    N,           \* the accounts 1..N that stake
    Stakes,      \* amounts that may be staked, routed or withdrawn
    Premiums,    \* amounts that may be paid in as premium
    Tiers        \* effective risk tiers the firm may be in

Holders == 1..N

ASSUME BackstopPoolAssumption ==
    /\ N \in Nat
    /\ Stakes \subseteq Nat /\ Premiums \subseteq Nat /\ Tiers \subseteq 0..3

VARIABLES
    now,           \* the cluster clock
    backstop,      \* BackstopPool ["backstop_pool", firm]
    position,      \* BackstopPosition ["backstop_pos", firm, staker]
    escrow,        \* tokens in ["backstop_escrow", firm]
    premiumVault,  \* SOL in ["backstop_premium", firm]
    rewardVault,   \* tokens in ["backstop_firma_reward", firm]
    wallet,        \* tokens in the stakers' own accounts
    funds          \* SOL in the account premiums are paid from

backstopVars == <<backstop, position, escrow, premiumVault, rewardVault, wallet, funds>>

BackstopType ==
    [exists : BOOLEAN, total_staked : Nat, total_premium_weight : Nat, premium_acc : Nat,
     loss_acc : Nat, acc_firma : Nat, unallocated_premium : Nat, unallocated_firma : Nat,
     firma_reward_accounted : Nat, total_drawn : Nat, daily_withdrawn : Nat,
     withdraw_day : Nat]

PositionType ==
    [staked : Nat, premium_debt : Nat, loss_debt : Nat, firma_debt : Nat,
     ends_at : Nat, requested_at : Nat]

NoPosition ==
    [staked |-> 0, premium_debt |-> 0, loss_debt |-> 0, firma_debt |-> 0,
     ends_at |-> 0, requested_at |-> 0]

BackstopInit(start) ==
    /\ backstop = [exists |-> FALSE, total_staked |-> 0, total_premium_weight |-> 0,
                   premium_acc |-> 0, loss_acc |-> 0, acc_firma |-> 0,
                   unallocated_premium |-> 0, unallocated_firma |-> 0,
                   firma_reward_accounted |-> 0, total_drawn |-> 0, daily_withdrawn |-> 0,
                   withdraw_day |-> 0]
    /\ position = [h \in Holders |-> NoPosition]
    /\ escrow = 0 /\ premiumVault = 0 /\ rewardVault = start.reward
    /\ wallet = start.wallet /\ funds = start.funds

----------------------------------------------------------------------------
InitBackstopPool ==
    /\ ~ backstop.exists
    /\ backstop' = [backstop EXCEPT !.exists = TRUE]
    /\ UNCHANGED <<position, escrow, premiumVault, rewardVault, wallet, funds, now>>

(* Tokens go from the staker's account into the escrow, and the pool grows *)
(* by as much.                                                             *)
Escrowed(h, amount) ==
    /\ backstop.exists
    /\ amount > 0
    /\ position[h].ends_at = 0
    /\ wallet[h] >= amount
    /\ wallet' = [wallet EXCEPT ![h] = @ - amount]
    /\ escrow' = escrow + amount
    /\ backstop' = [backstop EXCEPT !.total_staked = @ + amount,
                                    !.total_premium_weight = @ + amount]
    /\ UNCHANGED <<premiumVault, rewardVault, funds, now>>

(* A new stake earns no past premium and bears no past loss.               *)
Shielded(pos, amount) ==
    [pos EXCEPT !.staked = @ + amount,
                !.premium_debt = @ + Debt(amount, backstop.premium_acc),
                !.loss_debt = @ + Debt(amount, backstop.loss_acc)]

StakeBackstop(h, amount) ==
    /\ Escrowed(h, amount)
    /\ position' = [position EXCEPT ![h] =
                       [Shielded(position[h], amount) EXCEPT
                           !.firma_debt = @ + Debt(amount, backstop.acc_firma)]]

(* route_firma, all of it into the backstop: unlike a stake it leaves the  *)
(* debt of the token yield where it was.                                   *)
RouteFirma(h, amount) ==
    /\ Escrowed(h, amount)
    /\ position' = [position EXCEPT ![h] = Shielded(@, amount)]

RequestUnstakeBackstop(h, tier) ==
    /\ position[h].staked > 0
    /\ position[h].ends_at = 0
    /\ position' = [position EXCEPT
                       ![h].requested_at = now,
                       ![h].ends_at = now + RequiredCooldown(tier, position[h].staked,
                                                             backstop.total_staked)]
    /\ UNCHANGED <<backstop, escrow, premiumVault, rewardVault, wallet, funds, now>>

(* Premium is paid in SOL, principal and yield in tokens.                  *)
PremiumPaid(amount) == premiumVault >= amount /\ premiumVault' = premiumVault - amount
YieldPaid(amount) == rewardVault >= amount /\ rewardVault' = rewardVault - amount
PrincipalPaid(amount) == escrow >= amount /\ escrow' = escrow - amount

(* What stays after a withdrawal: the debts in proportion, still cooling   *)
(* down, or nothing. A debt set anew would let slices escape a loss.       *)
Remainder(pos, amount) ==
    LET rest == pos.staked - amount
    IN  IF rest = 0 THEN NoPosition
        ELSE [pos EXCEPT !.staked = rest,
                         !.premium_debt = ScaledDebt(@, rest, pos.staked),
                         !.loss_debt = ScaledDebt(@, rest, pos.staked),
                         !.firma_debt = ScaledDebt(@, rest, pos.staked)]

WithdrawnToday == IF backstop.withdraw_day = now \div Day THEN backstop.daily_withdrawn ELSE 0

(* What the draws since it came have left of a position.                   *)
Surviving(pos) == SatSub(pos.staked, Pending(pos.staked, backstop.loss_acc, pos.loss_debt))

WithdrawBackstop(h, amount, tier, frozen) ==
    LET pos == position[h]
        principal == Slice(amount, Surviving(pos), pos.staked)
        premium == Slice(amount, Pending(pos.staked, backstop.premium_acc, pos.premium_debt),
                         pos.staked)
        yield == Slice(amount, Pending(pos.staked, backstop.acc_firma, pos.firma_debt), pos.staked)
    IN  /\ amount > 0
        /\ ~ frozen
        /\ Matured(pos, now, tier, backstop.total_staked)
        /\ amount <= pos.staked
        /\ WithdrawnToday + principal <= OutflowCap(backstop.total_staked)
        /\ PrincipalPaid(principal) /\ PremiumPaid(premium) /\ YieldPaid(yield)
        /\ wallet' = [wallet EXCEPT ![h] = @ + principal + yield]
        /\ backstop' = [backstop EXCEPT !.daily_withdrawn = WithdrawnToday + principal,
                                        !.withdraw_day = now \div Day,
                                        !.total_staked = SatSub(@, principal),
                                        !.total_premium_weight = SatSub(@, amount)]
        /\ position' = [position EXCEPT ![h] = Remainder(@, amount)]
        /\ UNCHANGED <<funds, now>>

ClaimBackstopPremium(h) ==
    LET pos == position[h]
        yield == Pending(pos.staked, backstop.acc_firma, pos.firma_debt)
    IN  /\ backstop.exists
        /\ PremiumPaid(Pending(pos.staked, backstop.premium_acc, pos.premium_debt))
        /\ YieldPaid(yield)
        /\ wallet' = [wallet EXCEPT ![h] = @ + yield]
        /\ position' = [position EXCEPT
                           ![h].premium_debt = Debt(pos.staked, backstop.premium_acc),
                           ![h].firma_debt = Debt(pos.staked, backstop.acc_firma)]
        /\ UNCHANGED <<backstop, escrow, funds, now>>

(* The keeper pays premium in; it is spread over the nominal weight, which *)
(* a draw does not shrink.                                                 *)
FundBackstopPremium(amount) ==
    /\ backstop.exists
    /\ funds >= amount /\ funds' = funds - amount
    /\ premiumVault' = premiumVault + amount
    /\ backstop' = [backstop EXCEPT
                       !.premium_acc = FoldedAcc(@, backstop.unallocated_premium, amount,
                                                 backstop.total_premium_weight),
                       !.unallocated_premium = FoldedRest(@, amount,
                                                          backstop.total_premium_weight)]
    /\ UNCHANGED <<position, escrow, rewardVault, wallet, now>>

(* Anybody folds in what reached the reward vault since the last sync.     *)
SyncBackstopFirmaYield ==
    LET arrived == SatSub(rewardVault, backstop.firma_reward_accounted)
    IN  /\ backstop.exists
        /\ backstop' = [backstop EXCEPT
                           !.acc_firma = FoldedAcc(@, backstop.unallocated_firma, arrived,
                                                   backstop.total_premium_weight),
                           !.unallocated_firma = FoldedRest(@, arrived,
                                                            backstop.total_premium_weight),
                           !.firma_reward_accounted = rewardVault]
        /\ UNCHANGED <<position, escrow, premiumVault, rewardVault, wallet, funds, now>>

(* A draw is charged to every staked token of the moment alike.            *)
UnchargedLoss(draw) == backstop.loss_acc
LossAfterDraw(draw) == backstop.loss_acc + (draw * Precision) \div backstop.total_staked

(* What a draw takes from the pool: escrowed tokens, and the same share of *)
(* every stake (draw_backstop).                                            *)
DrawnFromStakers(draw) ==
    /\ backstop.exists
    /\ draw > 0 /\ draw <= backstop.total_staked
    /\ PrincipalPaid(draw)
    /\ backstop' = [backstop EXCEPT !.loss_acc = LossAfterDraw(draw),
                                    !.total_staked = @ - draw,
                                    !.total_drawn = @ + draw]
    /\ UNCHANGED <<position, premiumVault, wallet, funds>>

BackstopStep(frozen) ==
    \/ InitBackstopPool
    \/ SyncBackstopFirmaYield
    \/ \E amount \in Premiums : FundBackstopPremium(amount)
    \/ \E h \in Holders :
          \/ \E amount \in Stakes : StakeBackstop(h, amount) \/ RouteFirma(h, amount)
          \/ \E tier \in Tiers : RequestUnstakeBackstop(h, tier)
          \/ \E amount \in Stakes, tier \in Tiers : WithdrawBackstop(h, amount, tier, frozen)
          \/ ClaimBackstopPremium(h)
=============================================================================
