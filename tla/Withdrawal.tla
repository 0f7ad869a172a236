----------------------------- MODULE Withdrawal -----------------------------
(***************************************************************************)
(* Funded withdrawals: a funded account takes profit while it keeps        *)
(* trading.  Its life is cut into cycles; the transcript of cycle n covers *)
(* the trades since withdrawal n - 1 and opens at that withdrawal's final  *)
(* state with the gross debited.  Each cycle has PDAs of its own and a     *)
(* fraud-proof window scaled by the risk tier.                             *)
(***************************************************************************)
EXTENDS Settlement

(* owes is amount_sol_owed > 0 of a live withdrawal; gross is in equity.   *)
WithdrawalType ==
    [status: {"None", "Provisional", "Final", "Faulted"}, gross: Nat, genesis: Int,
     transcript: Transcript, watermark: Nat, window_end: Nat]

NoWithdrawal ==
    [status |-> "None", gross |-> 0, genesis |-> 0, transcript |-> NoTranscript,
     watermark |-> 0, window_end |-> 0]

NoCounter == [cycle |-> -1, cumulative |-> 0]

WithdrawalInit ==
    /\ counter = [c \in Challenges |-> NoCounter]
    /\ withdrawal = [c \in Challenges |-> [n \in Cycles |-> NoWithdrawal]]
    /\ wcoverage = [c \in Challenges |-> [n \in Cycles |-> NoCoverage]]

(* init_withdrawal_counter: once per funded challenge.                     *)
InitWithdrawalCounter(c, signer) ==
    /\ SignedByAuthority(c, signer)
    /\ Phase[c] = "Funded"
    /\ counter[c] = NoCounter
    /\ counter' = [counter EXCEPT ![c] = [cycle |-> 0, cumulative |-> 0]]
    /\ UNCHANGED <<withdrawal, wcoverage, challengeVars, batchVars, keeper>>

(* init_withdrawal_coverage and the two appends.                           *)
InitWithdrawalCoverage(c, signer, n) ==
    /\ SignedByAuthority(c, signer)
    /\ counter[c].cycle = n
    /\ wcoverage[c][n].stage = "Absent"
    /\ wcoverage' = [wcoverage EXCEPT ![c][n] = OpenCoverage]
    /\ UNCHANGED <<counter, withdrawal, challengeVars, batchVars, keeper>>

AddWithdrawalCoverageEpoch(c, signer, n, e, base, count) ==
    /\ SignedByAuthority(c, signer)
    /\ Appendable(wcoverage[c][n], e)
    /\ SegmentCommitted(c, e, base, count)
    /\ wcoverage' = [wcoverage EXCEPT ![c][n] = CoverEpoch(@, c, e, base, count)]
    /\ UNCHANGED <<counter, withdrawal, challengeVars, batchVars, keeper>>

AddWithdrawalCoverageEpochSupplemental(c, signer, n, e) ==
    /\ SignedByAuthority(c, signer)
    /\ Appendable(wcoverage[c][n], e)
    /\ supplemental[c][e] > 0
    /\ wcoverage' = [wcoverage EXCEPT ![c][n] = CoverEpoch(@, c, e, 0, supplemental[c][e])]
    /\ UNCHANGED <<counter, withdrawal, challengeVars, batchVars, keeper>>

----------------------------------------------------------------------------
PrevWatermark(c, n) == IF n = 0 THEN 0 ELSE withdrawal[c][n - 1].watermark

(* The cycles partition the trade timeline.                                *)
CyclesMayOverlap(c, n) == TRUE
StartsAfterLastCycle(c, n) ==
    n > 0 /\ wcoverage[c][n].entries # <<>> =>
        wcoverage[c][n].entries[1].epoch > PrevWatermark(c, n)

(* The genesis the program derives; the keeper can only agree with it.     *)
CycleGenesis(c, n) ==
    IF n = 0 THEN GenesisState
    ELSE Rebaseline(withdrawal[c][n - 1].transcript.final, withdrawal[c][n - 1].gross)

(* The watermark a withdrawal leaves: an empty cycle carries the last on.  *)
NextWatermark(c, n) ==
    IF wcoverage[c][n].entries = <<>> THEN PrevWatermark(c, n) ELSE wcoverage[c][n].last_epoch

(* propose_funded_withdrawal.                                              *)
NotSettling(c) == challenge[c].status = "Active" /\ challenge[c].settlement = "Unsettled"
SlotFree(c, n) == withdrawal[c][n].status = "None"

ProposeFundedWithdrawal(c, signer, n, transcript, gross, tier) ==
    /\ SignedByAuthority(c, signer)
    /\ Phase[c] = "Funded"
    /\ NotSettling(c)
    /\ counter[c].cycle = n
    /\ SlotFree(c, n)
    /\ wcoverage[c][n].stage # "Absent"
    /\ transcript.len >= 1
    /\ wcoverage[c][n].covered = transcript.len - 1
    /\ StartsAfterLastCycle(c, n)
    /\ n > 0 => withdrawal[c][n - 1].status = "Final"
    /\ 0 < gross /\ gross <= transcript.final
    /\ wcoverage' = [wcoverage EXCEPT ![c][n] = FinalizeCoverage(@)]
    /\ withdrawal' = [withdrawal EXCEPT ![c][n] =
            [status |-> "Provisional", gross |-> gross, genesis |-> CycleGenesis(c, n),
             transcript |-> transcript, watermark |-> NextWatermark(c, n),
             window_end |-> now + WithdrawalWindow[tier]]]
    /\ UNCHANGED <<counter, challengeVars, batchVars, keeper>>

----------------------------------------------------------------------------
(* finalize_funded_withdrawal: a permissionless crank that also moves the  *)
(* counter; it does not look at the challenge.                             *)
CycleReached(c, n) ==
    /\ withdrawal[c][n].status = "Provisional"
    /\ now >= withdrawal[c][n].window_end
CycleOverWhileActive(c, n) ==
    /\ withdrawal[c][n].status = "Provisional"
    /\ now > withdrawal[c][n].window_end /\ challenge[c].status = "Active"
CycleOver(c, n) ==
    /\ withdrawal[c][n].status = "Provisional"
    /\ now > withdrawal[c][n].window_end

FinalizeFundedWithdrawal(c, n) ==
    /\ CycleOver(c, n)
    /\ counter[c].cycle = n
    /\ withdrawal' = [withdrawal EXCEPT ![c][n].status = "Final"]
    /\ counter' = [counter EXCEPT
            ![c] = [cycle |-> n + 1, cumulative |-> @.cumulative + withdrawal[c][n].gross]]
    /\ UNCHANGED <<wcoverage, challengeVars, batchVars, keeper>>

(* A fraud proof needs the challenge account and an open window.           *)
InCycleWindow(c, n) ==
    /\ Exists(c)
    /\ withdrawal[c][n].status = "Provisional"
    /\ now <= withdrawal[c][n].window_end

(* withdrawal_fault_out: the withdrawal owes nothing; the challenge is not *)
(* failed and the counter does not move.                                   *)
WithdrawalFaultOut(c, n) ==
    /\ withdrawal' = [withdrawal EXCEPT ![c][n] = [@ EXCEPT !.status = "Faulted", !.gross = 0]]
    /\ UNCHANGED <<counter, wcoverage, challengeVars, batchVars, keeper>>

(* prove_withdrawal_{genesis, amount, transition, input, provenance}_fault. *)
CycleGenesisAgainstStart(w, leaf) == leaf # GenesisState
CycleGenesisFault(w, leaf) == leaf # w.genesis
CycleGenesisProvable(w) == \E leaf \in Leaves(w.transcript) : CycleGenesisFault(w, leaf)

CycleAmountFault(w, leaf) == w.gross > leaf \/ leaf # w.transcript.final
CycleAmountProvable(w) == \E leaf \in Leaves(w.transcript) : CycleAmountFault(w, leaf)

ProveWithdrawalGenesisFault(c, n) ==
    InCycleWindow(c, n) /\ CycleGenesisProvable(withdrawal[c][n]) /\ WithdrawalFaultOut(c, n)
ProveWithdrawalAmountFault(c, n) ==
    InCycleWindow(c, n) /\ CycleAmountProvable(withdrawal[c][n]) /\ WithdrawalFaultOut(c, n)
ProveWithdrawalTransitionFault(c, n) ==
    /\ InCycleWindow(c, n)
    /\ TransitionProvable(withdrawal[c][n].transcript)
    /\ WithdrawalFaultOut(c, n)
ProveWithdrawalInputFault(c, n) ==
    /\ InCycleWindow(c, n)
    /\ InputProvable(withdrawal[c][n].transcript, c, wcoverage[c][n])
    /\ WithdrawalFaultOut(c, n)
ProveWithdrawalProvenanceFault(c, n) ==
    /\ InCycleWindow(c, n)
    /\ ProvenanceProvable(withdrawal[c][n].transcript, wcoverage[c][n])
    /\ WithdrawalFaultOut(c, n)
=============================================================================
