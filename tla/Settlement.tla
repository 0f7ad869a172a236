----------------------------- MODULE Settlement -----------------------------
(***************************************************************************)
(* The verifiable settlement of a challenge: purchase, coverage, proposal, *)
(* fraud proofs inside the challenge window, finalization after it, the    *)
(* deprecated trusted path beside it, the integrity hold, and closing.     *)
(*                                                                         *)
(* One action per instruction; every instruction is one atomic             *)
(* transaction, so an action is a whole handler and a failed require! is a *)
(* disabled action.                                                        *)
(***************************************************************************)
EXTENDS ChallengeAccounts

CONSTANTS
    Lies,      \* deviations from the truth a settlement may commit to
    CycleLies, \* and the withdrawal of each cycle
    MayOmit    \* parties that leave optional accounts out of a transaction

ASSUME SettlementAssumption ==
    /\ DOMAIN CycleLies = Cycles
    /\ \A lies \in {Lies} \cup {CycleLies[n] : n \in Cycles} : lies \subseteq
          {"Transition", "Input", "Provenance", "Split", "Unbound", "Unstepped", "Padding",
           "Genesis", "Result", "Detached"}
    /\ MayOmit \subseteq {"Keeper", "Challenger"}

NoClaim == [transcript |-> NoTranscript, passed |-> FALSE, profit |-> 0]
ClaimType == [transcript: Transcript, passed: BOOLEAN, profit: Int]

ChallengeType ==
    [status: {"None", "Active", "Passed", "Failed"},
     settlement: {"Unsettled", "Provisional", "Final", "Faulted"},
     authority: Keys \cup {NoKey}, started_at: Nat, window_end: Nat, owed: {0, 1},
     hold: {"None", "Advisory", "Behavioural"}, claim: ClaimType,
     fault_challenger: Challengers \cup {NoKey}]

NoChallenge ==
    [status |-> "None", settlement |-> "Unsettled", authority |-> NoKey, started_at |-> 0,
     window_end |-> 0, owed |-> 0, hold |-> "None", claim |-> NoClaim,
     fault_challenger |-> NoKey]

SettlementInit ==
    /\ challenge = [c \in Challenges |-> NoChallenge]
    /\ coverage = [c \in Challenges |-> NoCoverage]
    /\ supplemental = [c \in Challenges |-> [e \in Epochs |-> 0]]
    /\ used = {}

Exists(c) == challenge[c].status # "None"

(* The account constraint settlement_authority == signer.                  *)
SignedByAuthority(c, signer) == Exists(c) /\ signer = challenge[c].authority

----------------------------------------------------------------------------
(* init_challenge_state: an Active, Unsettled challenge that freezes the   *)
(* firm's live keeper, whoever attested it.                                *)
FreezeSigner(c, attestor) ==
    [NoChallenge EXCEPT !.status = "Active", !.authority = attestor, !.started_at = now]
InitChallengeState(c, attestor) ==
    [NoChallenge EXCEPT !.status = "Active", !.authority = keeper.current, !.started_at = now]

OpenSlot(c, attestor) ==
    /\ ~ Exists(c)
    /\ FreshNonces => c \notin used
    /\ challenge' = [challenge EXCEPT ![c] = InitChallengeState(c, attestor)]
    /\ used' = used \cup {c}
    /\ UNCHANGED <<coverage, supplemental, withdrawalVars, batchVars, keeper>>

(* purchase_challenge: the trader signs with an attestor that is the       *)
(* firm's keeper or its provisioning key.                                  *)
PurchaseChallenge(c, attestor) ==
    /\ attestor \in {keeper.current, Provisioner}
    /\ OpenSlot(c, attestor)

(* grant_giveaway_challenge: the keeper alone signs.                       *)
GrantGiveawayChallenge(c, authority) ==
    /\ authority = keeper.current
    /\ OpenSlot(c, authority)

(* repair_settlement_authority: the live keeper adopts the challenge.      *)
RepairSettlementAuthority(c, signer) ==
    /\ Exists(c)
    /\ signer = keeper.current
    /\ challenge' = [challenge EXCEPT ![c].authority = keeper.current]
    /\ UNCHANGED <<coverage, supplemental, used, withdrawalVars, batchVars, keeper>>

(* Only a funded challenge may owe a payout, and only if it passed.        *)
PayoutAllowed(c, passed, owed) == passed => Phase[c] = "Funded" \/ owed = 0

(* settle_challenge, the deprecated trusted path.                          *)
ActiveOnly(c) == challenge[c].status = "Active"
NotProposed(c) ==
    challenge[c].status = "Active" /\ challenge[c].settlement = "Unsettled"

SettleChallenge(c, signer, passed, owed) ==
    /\ SignedByAuthority(c, signer)
    /\ NotProposed(c)
    /\ PayoutAllowed(c, passed, owed)
    /\ challenge' = [challenge EXCEPT
            ![c].status = IF passed THEN "Passed" ELSE "Failed",
            ![c].owed = IF passed THEN owed ELSE 0,
            ![c].settlement = "Final"]
    /\ UNCHANGED <<coverage, supplemental, used, withdrawalVars, batchVars, keeper>>

----------------------------------------------------------------------------
(* set_integrity_hold: hold is what the committed evidence consists of.    *)
SetIntegrityHold(c, signer, evidence) ==
    /\ SignedByAuthority(c, signer)
    /\ challenge' = [challenge EXCEPT ![c].hold = evidence]
    /\ UNCHANGED <<coverage, supplemental, used, withdrawalVars, batchVars, keeper>>

(* prove_integrity_fault: revealed evidence of identity detectors alone    *)
(* lifts the hold.                                                         *)
AdvisoryHold(c) == challenge[c].hold = "Advisory"

ProveIntegrityFault(c) ==
    /\ Exists(c)
    /\ AdvisoryHold(c)
    /\ challenge' = [challenge EXCEPT ![c].hold = "None"]
    /\ UNCHANGED <<coverage, supplemental, used, withdrawalVars, batchVars, keeper>>

----------------------------------------------------------------------------
(* init_settlement_coverage, add_coverage_epoch and its supplemental twin. *)
InitSettlementCoverage(c, signer) ==
    /\ SignedByAuthority(c, signer)
    /\ NotProposed(c)
    /\ coverage[c].stage = "Absent"
    /\ coverage' = [coverage EXCEPT ![c] = OpenCoverage]
    /\ UNCHANGED <<challenge, supplemental, used, withdrawalVars, batchVars, keeper>>

AddCoverageEpoch(c, signer, e, base, count) ==
    /\ SignedByAuthority(c, signer)
    /\ Appendable(coverage[c], e)
    /\ SegmentCommitted(c, e, base, count)
    /\ coverage' = [coverage EXCEPT ![c] = CoverEpoch(@, c, e, base, count)]
    /\ UNCHANGED <<challenge, supplemental, used, withdrawalVars, batchVars, keeper>>

AddCoverageEpochSupplemental(c, signer, e) ==
    /\ SignedByAuthority(c, signer)
    /\ Appendable(coverage[c], e)
    /\ supplemental[c][e] > 0
    /\ coverage' = [coverage EXCEPT ![c] = CoverEpoch(@, c, e, 0, supplemental[c][e])]
    /\ UNCHANGED <<challenge, supplemental, used, withdrawalVars, batchVars, keeper>>

(* commit_supplemental_segment: only for a challenge younger than the      *)
(* epoch's root, once per (challenge, epoch).                              *)
SupplementalSameSecond(c, e) ==
    batchRoot[e] # NoRoot /\ challenge[c].started_at >= batchRoot[e].committed_at
SupplementalEligible(c, e) ==
    batchRoot[e] # NoRoot /\ challenge[c].started_at > batchRoot[e].committed_at

CommitSupplementalSegment(c, signer, e, count) ==
    /\ SignedByAuthority(c, signer)
    /\ count > 0
    /\ SupplementalEligible(c, e)
    /\ supplemental[c][e] = 0
    /\ supplemental' = [supplemental EXCEPT ![c][e] = count]
    /\ UNCHANGED <<challenge, coverage, used, withdrawalVars, batchVars, keeper>>

----------------------------------------------------------------------------
(* Whether a transaction hands in the optional withdrawal_counter account: *)
(* a careful party always does when the account exists.                    *)
SuppliesCounter(party, c, withCounter) ==
    /\ withCounter => counter[c].cycle >= 0
    /\ ~ withCounter => counter[c].cycle < 0 \/ party \in MayOmit

LastFinal(c) == withdrawal[c][counter[c].cycle - 1]

(* The guard on the open cycle: it must not be inside its own window.  The *)
(* transaction may also leave open_withdrawal out.                         *)
OpenCycleUnchecked(c) == TRUE
OpenCycleSettled(c) ==
    counter[c].cycle \in Cycles /\ "Keeper" \notin MayOmit =>
        withdrawal[c][counter[c].cycle].status # "Provisional"

(* The watermark of the last final cycle, and the epochs above it.         *)
StartsAboveWatermark(c, withCounter) ==
    LET watermark == IF withCounter /\ counter[c].cycle > 0 THEN LastFinal(c).watermark ELSE 0
    IN  watermark > 0 /\ coverage[c].entries # <<>> => coverage[c].entries[1].epoch > watermark

(* The opening equity that is honest for this account.                     *)
HonestGenesis(c, withCounter) ==
    IF withCounter /\ counter[c].cycle > 0
    THEN Rebaseline(LastFinal(c).transcript.final, LastFinal(c).gross)
    ELSE GenesisState

(* propose_settlement: commits to a claim, locks the coverage and opens    *)
(* the challenge window; status stays Active.                              *)
CountAtMost(c, len) == coverage[c].covered <= len - 1
CountBound(c, len) == len >= 1 /\ coverage[c].covered = len - 1

ProposeSettlement(c, signer, claim, owed, withCounter) ==
    /\ SignedByAuthority(c, signer)
    /\ NotProposed(c)
    /\ coverage[c].stage # "Absent"
    /\ SuppliesCounter("Keeper", c, withCounter)
    /\ withCounter => OpenCycleSettled(c)
    /\ withCounter /\ counter[c].cycle > 0 => LastFinal(c).status = "Final"
    /\ StartsAboveWatermark(c, withCounter)
    /\ CountBound(c, claim.transcript.len)
    /\ PayoutAllowed(c, claim.passed, owed)
    /\ coverage' = [coverage EXCEPT ![c] = FinalizeCoverage(@)]
    /\ challenge' = [challenge EXCEPT
            ![c].settlement = "Provisional",
            ![c].claim = claim,
            ![c].owed = IF claim.passed THEN owed ELSE 0,
            ![c].window_end = now + ChallengeWindow]
    /\ UNCHANGED <<supplemental, used, withdrawalVars, batchVars, keeper>>

----------------------------------------------------------------------------
(* Fraud proofs: permissionless, only inside the window.                   *)
InWindow(c) ==
    Exists(c) /\ challenge[c].settlement = "Provisional" /\ now <= challenge[c].window_end

(* fault_out.                                                              *)
FaultOut(c, challenger) ==
    /\ challenge' = [challenge EXCEPT
            ![c].settlement = "Faulted", ![c].status = "Failed", ![c].owed = 0,
            ![c].fault_challenger = challenger]
    /\ UNCHANGED <<coverage, supplemental, used, withdrawalVars, batchVars, keeper>>

Committed(c) == challenge[c].claim.transcript

(* prove_settlement_fault: one step is mis-computed.                       *)
ProveSettlementFault(c, challenger) ==
    InWindow(c) /\ TransitionProvable(Committed(c)) /\ FaultOut(c, challenger)

(* prove_result_fault: the committed final state is a leaf of the          *)
(* transcript and does not yield the claimed result, verdict and profit.   *)
PassedProvable(c) ==
    LET claim == challenge[c].claim
    IN  /\ claim.transcript.final \in Leaves(claim.transcript)
        /\ DeriveOutcome(claim.transcript.final).passed # claim.passed
ResultProvable(c) ==
    LET claim == challenge[c].claim
        honest == DeriveOutcome(claim.transcript.final)
    IN  /\ claim.transcript.final \in Leaves(claim.transcript)
        /\ honest.passed # claim.passed \/ honest.profit # claim.profit
ProveResultFault(c, challenger) ==
    InWindow(c) /\ ResultProvable(c) /\ FaultOut(c, challenger)

(* prove_genesis_fault: a leaf is not the honest genesis, judged by the    *)
(* withdrawal history the challenger hands in.                             *)
GenesisFault(c, leaf, withCounter) == leaf # HonestGenesis(c, withCounter)
GenesisProvable(c, withCounter) ==
    \E leaf \in Leaves(Committed(c)) : GenesisFault(c, leaf, withCounter)
ProveGenesisFault(c, challenger, withCounter) ==
    /\ InWindow(c)
    /\ SuppliesCounter("Challenger", c, withCounter)
    /\ GenesisProvable(c, withCounter)
    /\ FaultOut(c, challenger)

(* prove_input_fault and prove_provenance_fault.                           *)
ProveInputFault(c, challenger) ==
    InWindow(c) /\ InputProvable(Committed(c), c, coverage[c]) /\ FaultOut(c, challenger)
ProveProvenanceFault(c, challenger) ==
    InWindow(c) /\ ProvenanceProvable(Committed(c), coverage[c]) /\ FaultOut(c, challenger)

(* finalize_settlement: a permissionless crank once the window is over.    *)
WindowReached(c) ==
    Exists(c) /\ challenge[c].settlement = "Provisional" /\ now >= challenge[c].window_end
WindowOverAndClear(c) ==
    /\ Exists(c) /\ challenge[c].settlement = "Provisional"
    /\ now > challenge[c].window_end /\ challenge[c].hold = "None"
WindowOver(c) ==
    Exists(c) /\ challenge[c].settlement = "Provisional" /\ now > challenge[c].window_end

FinalizeSettlement(c) ==
    /\ WindowOver(c)
    /\ challenge' = [challenge EXCEPT
            ![c].status = IF challenge[c].claim.passed THEN "Passed" ELSE "Failed",
            ![c].owed = IF challenge[c].claim.passed THEN @ ELSE 0,
            ![c].settlement = "Final"]
    /\ UNCHANGED <<coverage, supplemental, used, withdrawalVars, batchVars, keeper>>

(* close_challenge: the trader reclaims the rent of a failed challenge.    *)
(* Status Claimed is never set.  The other PDAs of the slot stay behind.   *)
CloseChallenge(c) ==
    /\ challenge[c].status = "Failed"
    /\ challenge' = [challenge EXCEPT ![c] = NoChallenge]
    /\ UNCHANGED <<coverage, supplemental, used, withdrawalVars, batchVars, keeper>>
=============================================================================
