------------------------------ MODULE WindDown ------------------------------
(***************************************************************************)
(* The wind-down of a bankrupt firm whose tiers are empty, against a       *)
(* keeper that holds one final settlement.  PayoutSystem has the whole     *)
(* payout path over a clock that ends; here time is the age of an entry,   *)
(* which stops at the timeout, so that the clock runs on for ever.         *)
(***************************************************************************)
EXTENDS Integers

CONSTANTS
    Cycles,           \* cycle numbers the keeper names, 0 among them
    DischargeTimeout  \* FORCE_DISCHARGE_TIMEOUT

VARIABLES
    age,           \* of the QueuedPayout ["payout", challenge, cycle], -1 if there is none
    open_payouts,  \* FirmState.open_payouts
    residual       \* whether treasury or insurance still hold something

windVars == <<age, open_payouts, residual>>

Absent == -1

(* The firm fails with one payout queued.                                  *)
WindInit ==
    /\ age = [n \in Cycles |-> IF n = 0 THEN 0 ELSE Absent]
    /\ open_payouts = 1
    /\ residual = TRUE

(* enqueue_payout of a settlement: under any cycle whose account does not  *)
(* exist, at the entry's own time, whatever the status of the firm.        *)
EnqueuePayout(n) ==
    /\ age[n] = Absent
    /\ age' = [age EXCEPT ![n] = 0]
    /\ open_payouts' = open_payouts + 1
    /\ UNCHANGED residual

(* force_discharge_undeliverable_payout: closes the account, so that its   *)
(* seeds are free again.                                                   *)
ForceDischarge(n) ==
    /\ age[n] = DischargeTimeout
    /\ age' = [age EXCEPT ![n] = Absent]
    /\ open_payouts' = open_payouts - 1
    /\ UNCHANGED residual

(* finalize_bankruptcy.                                                    *)
FinalizeBankruptcy ==
    /\ open_payouts = 0
    /\ residual' = FALSE
    /\ UNCHANGED <<age, open_payouts>>

Tick ==
    /\ age' = [n \in Cycles |->
            IF age[n] \in {Absent, DischargeTimeout} THEN age[n] ELSE age[n] + 1]
    /\ UNCHANGED <<open_payouts, residual>>

WindNext ==
    \/ Tick
    \/ FinalizeBankruptcy
    \/ \E n \in Cycles : EnqueuePayout(n) \/ ForceDischarge(n)

(* Time passes, and what anybody may do for a bankrupt firm is done: an    *)
(* entry that is due is discharged, and the residual is swept if ever and  *)
(* ever again it can be.                                                   *)
FairWindDown ==
    /\ WindInit /\ [][WindNext]_windVars
    /\ WF_windVars(Tick)
    /\ SF_windVars(FinalizeBankruptcy)
    /\ \A n \in Cycles : WF_windVars(ForceDischarge(n))

(* A bankrupt firm is "able to finish winding down" and nobody can "wedge  *)
(* the wind-down": its residual reaches the Universal Pool at last.        *)
WindDownConcludes == <>(~ residual)
=============================================================================
