---------------------------- MODULE PayoutSystem ----------------------------
(***************************************************************************)
(* The payouts of one firm as a whole: the first-payout advance, paid      *)
(* while the settlement may still be refuted; the ways an entry ends that  *)
(* nobody can deliver; the wind-down of a bankrupt firm; and all of it     *)
(* composed with the queue and the backstop pool.                          *)
(***************************************************************************)
EXTENDS PayoutQueue

CONSTANTS
    MaxClaimBps,      \* ADVANCE_MAX_CLAIM_BPS
    AdvanceCapBps,    \* ADVANCE_CAP_BPS
    AdvanceDailyBps,  \* ADVANCE_DAILY_CAP_BPS
    AdvanceFloor      \* MIN_DAILY_ADVANCE_FLOOR_SOL

ASSUME PayoutSystemAssumption ==
    /\ MaxClaimBps \in 0..10000 /\ AdvanceCapBps \in 0..10000 /\ AdvanceDailyBps \in 0..10000
    /\ AdvanceFloor \in Nat

----------------------------------------------------------------------------
(* require_firm_advance_authority: the window is open and no fault proven. *)
Advanceable(c) ==
    LET claim == <<c, Settlement>>
    IN  claim \in Claims /\ phase[claim] = "Pending" /\ now <= deadline[claim]

AdvancedToday == IF advancePool.day = now \div Day THEN advancePool.daily ELSE 0

(* The caps that bound what a false claim can cost: a part of the claim, a *)
(* part of the firm's backing over all advances, and of it again per day.  *)
WithinAdvanceCaps(sol, owed, backing) ==
    LET total == firm.treasury_sol + backing
    IN  /\ sol > 0 /\ sol <= Bps(owed, MaxClaimBps)
        /\ owed <= ConcentrationLimit(backing)
        /\ sol <= SatSub(Bps(total, AdvanceCapBps), advancePool.sol_outstanding)
        /\ AdvancedToday + sol <= Max({Bps(total, AdvanceDailyBps), AdvanceFloor})

(* advance_first_payout: the entry of cycle 0 is made early, filled as far *)
(* as the advance reached.                                                 *)
AdvanceFirstPayout(c, sol, quote, fill, backing) ==
    LET e == <<c, 0>>
    IN  /\ Advanceable(c)
        /\ WithinAdvanceCaps(sol, SolOwed[<<c, Settlement>>], backing)
        /\ entry[e].kind = "None"
        /\ SpentFromTreasury(sol, Carve(sol))
        /\ Rewarded(fill)
        /\ firm' = [firm EXCEPT !.treasury_sol = treasury', !.open_payouts = @ + 1]
        /\ advancePool' = [sol_outstanding |-> advancePool.sol_outstanding + RecordedSpend,
                           daily |-> AdvancedToday + RecordedSpend, day |-> now \div Day]
        /\ entry' = [entry EXCEPT ![e] =
                        [kind |-> "Queued", owed |-> quote, delivered |-> fill,
                         sol |-> SolOwed[<<c, Settlement>>], queued_at |-> now,
                         hold_until |-> 0, advanced |-> RecordedSpend]]
        /\ UNCHANGED <<now, claimVars, reserve, insurance, backstop, position, escrow,
                       premiumVault, wallet, funds>>

(* An advance is released once: the entry forgets what it carried.         *)
RememberedRelease(e) == entry[e]
Released(e) == [entry[e] EXCEPT !.advanced = 0]
FloatReleased(e) ==
    advancePool' = [advancePool EXCEPT !.sol_outstanding = SatSub(@, entry[e].advanced)]

(* reconcile_payout_advance: the settlement stood, nothing is at risk.     *)
ReconcilePayoutAdvance(c) ==
    LET e == <<c, 0>>
    IN  /\ Final(<<c, Settlement>>)
        /\ entry[e].advanced > 0
        /\ FloatReleased(e)
        /\ entry' = [entry EXCEPT ![e] = Released(e)]
        /\ UNCHANGED <<now, claimVars, firm, tierVars, backstopVars>>

(* write_off_faulted_advance: the settlement fell, nothing more is owed.   *)
WriteOffFaultedAdvance(c) ==
    LET e == <<c, 0>>
    IN  /\ <<c, Settlement>> \in Claims /\ phase[<<c, Settlement>>] = "Refuted"
        /\ Outstanding(e)
        /\ entry[e].advanced > 0
        /\ FloatReleased(e)
        /\ entry' = [entry EXCEPT ![e] = [Released(e) EXCEPT !.owed = entry[e].delivered]]
        /\ firm' = [firm EXCEPT !.open_payouts = SatSub(@, 1)]
        /\ UNCHANGED <<now, claimVars, tierVars, backstopVars>>

----------------------------------------------------------------------------
(* force_discharge_undeliverable_payout: of a bankrupt firm, anybody may   *)
(* end what was not delivered in time.                                     *)
DischargedFromNow(e) == now + DischargeTimeout
DischargeDue(e) == entry[e].queued_at + DischargeTimeout

ForceDischarge(e) ==
    /\ firm.bankrupt
    /\ entry[e].kind = "Queued"
    /\ Outstanding(e)
    /\ now >= DischargeDue(e)
    /\ firm' = [firm EXCEPT !.open_payouts = SatSub(@, 1)]
    /\ entry' = [entry EXCEPT ![e] = NoEntry]
    /\ UNCHANGED <<now, claimVars, tierVars, advancePool, backstopVars>>

(* finalize_bankruptcy: with no trader left to pay, what the firm has goes *)
(* to the Universal Pool.                                                  *)
FinalizeBankruptcy ==
    /\ firm.bankrupt
    /\ firm.open_payouts = 0
    /\ universal' = [universal EXCEPT !.vault = @ + treasury + insurance]
    /\ treasury' = 0 /\ insurance' = 0
    /\ firm' = [firm EXCEPT !.treasury_sol = 0]
    /\ UNCHANGED <<now, claimVars, entry, reserve, advancePool, backstopVars>>

----------------------------------------------------------------------------
Tick ==
    /\ now' \in Times
    /\ now' > now
    /\ UNCHANGED <<backstopVars, queueVars>>

(* The claims' own steps, as the challenge program promises them.          *)
ClaimStep(claim) ==
    /\ \/ /\ deadline' = [deadline EXCEPT ![claim] = now + Window]
          /\ Claim!Propose(claim)
       \/ Claim!Refute(claim)
       \/ Claim!Uphold(claim)
    /\ UNCHANGED <<entry, firm, tierVars, advancePool, backstopVars>>

(* An advance buys with at most half of what is owed, so it fills less     *)
(* than the whole: quotes so small that flooring hides this are left out.  *)
AdvanceStep(c) ==
    \/ \E sol \in Spends, quote \in Quotes, backing \in Backings :
          \E fill \in 0..quote - 1 : AdvanceFirstPayout(c, sol, quote, fill, backing)
    \/ ReconcilePayoutAdvance(c)
    \/ WriteOffFaultedAdvance(c)

EntryStep(e) ==
    \/ \E sol \in Spends : ExecutePayoutBuy(e, sol)
    \/ \E asWithdrawal \in BOOLEAN, owed \in Quotes, backing \in Backings :
          EnqueuePayout(e, asWithdrawal, owed, backing)
    \/ \E backing \in Backings : ReconcilePayoutHold(e, backing)
    \/ \E asWithdrawal \in BOOLEAN :
          \/ \E sol \in Spends, fill \in Draws :
                ProcessQueuedPayout(e, asWithdrawal, sol, fill)
          \/ \E amount \in Draws :
                \/ DrawTreasuryFirma(e, asWithdrawal, amount)
                \/ DrawBackstop(e, asWithdrawal, amount)
                \/ \E sol \in Spends : DrawUniversal(e, asWithdrawal, sol, amount)
    \/ CloseQueuedPayout(e)
    \/ ForceDischarge(e)

FirmStep ==
    \/ \E active \in BOOLEAN : SetVelocityBreak(active)
    \/ ClearVelocityBreakPermissionless
    \/ \E amount \in Credits : CurveFees(amount)
    \/ FinalizeBankruptcy

PayoutInit == \E start \in Starts : BackstopInit(start) /\ QueueInit(start)

PayoutNext ==
    \/ Tick
    \/ \E claim \in Claims : ClaimStep(claim)
    \/ \E c \in Challenges : AdvanceStep(c)
    \/ \E e \in Entries : EntryStep(e)
    \/ FirmStep
    \/ BackstopStep(firm.velocity_break) /\ UNCHANGED queueVars

PayoutSpec == PayoutInit /\ [][PayoutNext]_payoutVars

(* Time passes, and what anybody may do for a bankrupt firm is done.       *)
FairPayoutSpec ==
    /\ PayoutSpec
    /\ WF_payoutVars(Tick)
    /\ \A e \in Entries : WF_payoutVars(ForceDischarge(e))
    /\ WF_payoutVars(FinalizeBankruptcy)

----------------------------------------------------------------------------
(* Every account of the payout path has its type; nothing is delivered     *)
(* beyond what is owed, and no vault is overdrawn.                         *)
PayoutTypeOK ==
    /\ now \in Nat
    /\ phase \in [Claims -> {"None", "Pending", "Upheld", "Refuted"}]
    /\ deadline \in [Claims -> Nat]
    /\ entry \in [Entries -> EntryType]
    /\ \A e \in Entries : entry[e].delivered <= entry[e].owed
    /\ firm \in FirmType
    /\ treasury \in Nat /\ reserve \in Nat /\ insurance \in Nat
    /\ universal \in [vault : Nat, drawn : Nat, day : Nat]
    /\ advancePool \in [sol_outstanding : Nat, daily : Nat, day : Nat]
    /\ backstop \in BackstopType
    /\ position \in [Holders -> PositionType]
    /\ escrow \in Nat /\ premiumVault \in Nat /\ rewardVault \in Nat
    /\ wallet \in [Holders -> Nat] /\ funds \in Nat

(* open_payouts is the entries still to be filled: whichever of the tiers  *)
(* fills one up, however an entry ends, it is counted out exactly once     *)
(* (the F1 gate of finalize_bankruptcy and of the breaker's release).      *)
OpenPayoutsIsExact ==
    firm.open_payouts = Cardinality({e \in Entries : Outstanding(e)})

(* The entries in some order, each under one number, to sum over them.     *)
Numbered ==
    CHOOSE f \in [1..Cardinality(Entries) -> Entries] :
        \A e \in Entries : \E i \in DOMAIN f : \A k \in DOMAIN f : f[k] = e <=> k = i
AdvancesOf == [i \in 1..Cardinality(Entries) |-> entry[Numbered[i]].advanced]

(* The float the advances are capped by never loses sight of one: it is at *)
(* least what the live entries carry (reconcile, write-off and the fills   *)
(* may come in any order).                                                 *)
FloatCoversAdvances ==
    advancePool.sol_outstanding >= SumTo(AdvancesOf, Cardinality(Entries))

(* What is left of the stakes, in units of one part in Precision, beyond   *)
(* what the escrow holds; and what one step may add to it by rounding: a   *)
(* draw the remainder it does not charge, a withdrawal less than a unit.   *)
SurvivingExactly(pos) ==
    SatSub((pos.staked + pos.loss_debt) * Precision, pos.staked * backstop.loss_acc)
Unbacked ==
    SatSub(SumTo([h \in Holders |-> SurvivingExactly(position[h])], N), escrow * Precision)
Rounding ==
    IF backstop'.total_drawn > backstop.total_drawn
    THEN ((backstop'.total_drawn - backstop.total_drawn) * Precision) % backstop.total_staked
    ELSE IF \E h \in Holders : position'[h].staked < position[h].staked THEN Precision - 1 ELSE 0

(* What is staked is in the escrow, whatever was drawn, and nothing but    *)
(* the rounding of a draw or of a withdrawal ever leaves the stakers with  *)
(* more than the escrow holds (draw_backstop, withdraw_backstop): a draw   *)
(* charges every stake, old, new or scaled down, at least its part.        *)
EscrowIsStaked == escrow = backstop.total_staked
BackstopIsBacked ==
    /\ []EscrowIsStaked
    /\ [][Unbacked' <= Unbacked + Rounding]_payoutVars

(* A bankrupt firm's obligations end: each that the clock of the instance  *)
(* lets fall due is filled or discharged, whoever refuses to deliver, and  *)
(* once no obligation is left or made, the residual reaches the Universal  *)
(* Pool.  That no obligation is made any more is not for this program to   *)
(* say (WindDown).                                                         *)
FallsDue(t) == \E u \in Times : u >= t + DischargeTimeout
Owed(e, t) == Outstanding(e) /\ entry[e].queued_at = t
ObligationsEnd ==
    /\ \A e \in Entries, t \in {t \in Times : FallsDue(t)} :
          firm.bankrupt /\ Owed(e, t) ~> ~ Owed(e, t)
    /\ <>[](firm.bankrupt /\ firm.open_payouts = 0) => []<>(treasury = 0 /\ insurance = 0)
=============================================================================
