-------------------------- MODULE ChallengeAccounts --------------------------
(***************************************************************************)
(* The accounts of the challenge program for one firm: a challenge per     *)
(* (trader, tier, phase, nonce) slot, its settlement coverage, its         *)
(* supplemental segments, its withdrawal counter, and one withdrawal and   *)
(* one withdrawal coverage per cycle; and the helpers both the settlement  *)
(* and the withdrawal path use.                                            *)
(*                                                                         *)
(* Equity is measured from the locked starting balance, so genesis_state   *)
(* is 0 and withdrawable_profit of a state is the state itself.  The       *)
(* states of a transcript are its first and its last, the covered trades   *)
(* between them are one aggregated step, and a hash stands for the value   *)
(* it commits to.                                                          *)
(***************************************************************************)
EXTENDS FirmAuthority, Sequences

CONSTANTS
    Challenges,          \* challenge slots (PDA seeds)
    Phase,               \* phase of each slot, part of its seeds
    Provisioner,         \* FirmProvisioning.authority, may attest a purchase
    Challengers,         \* signers of fault proofs
    TradeCount,          \* fills of each slot in each epoch
    TradePnl,            \* and their profit or loss
    ProfitTarget,        \* profit_target_bps of the locked rules, in equity
    ChallengeWindow,     \* SETTLEMENT_CHALLENGE_WINDOW
    Tiers,               \* risk tiers a withdrawal may be proposed under
    WithdrawalWindow,    \* withdrawal_window_for_tier
    MaxCoverageEpochs,   \* MAX_COVERAGE_EPOCHS
    MaxCycles,           \* bound on the withdrawal cycles of the instance
    FreshNonces          \* whether callers pick a fresh nonce per purchase

Cycles == 0..(MaxCycles - 1)

ASSUME ChallengeAssumption ==
    /\ Phase \in [Challenges -> {"Phase1", "Phase2", "Funded"}]
    /\ TradeCount \in [Challenges -> [Epochs -> Nat]]
    /\ TradePnl \in [Challenges -> [Epochs -> Int]]
    /\ ProfitTarget \in Nat
    /\ ChallengeWindow \in Nat \ {0}
    /\ WithdrawalWindow \in [Tiers -> Nat \ {0}]
    /\ MaxCoverageEpochs \in Nat
    /\ MaxCycles \in Nat
    /\ FreshNonces \in BOOLEAN
    /\ NoKey \notin Challengers

VARIABLES
    challenge,     \* ChallengeState of each slot
    coverage,      \* SettlementCoverage ["coverage", challenge]
    supplemental,  \* SupplementalSegment ["supp_segment", challenge, epoch]: its count, 0 if absent
    counter,       \* WithdrawalCounter ["wcount", challenge]
    withdrawal,    \* FundedWithdrawal ["withdrawal", challenge, cycle]
    wcoverage,     \* SettlementCoverage ["wcoverage", challenge, cycle]
    used           \* slots purchased so far: what a careful caller remembers of its nonces

challengeVars == <<challenge, coverage, supplemental, used>>
withdrawalVars == <<counter, withdrawal, wcoverage>>
vars == <<now, committer, batchRoot, keeper, challenge, coverage, supplemental, used,
          counter, withdrawal, wcoverage>>

----------------------------------------------------------------------------
(* Transcript commitments, each stored as it is given: a root stands for   *)
(* the leaves it opens to, and a root made up of nothing opens to none.    *)
(* genesis and last are the first and last leaf of transcript_root, steps  *)
(* the leaves of step_root, bound those of bound_step_root, final the      *)
(* state behind final_state_hash, len transcript_len.  A bound leaf names  *)
(* its trades and whether they sit at the slots the coverage assigns.      *)
BoundLeaf == [tick: Int, positional: BOOLEAN]
Transcript ==
    [genesis: Int, steps: SUBSET Int, bound: SUBSET BoundLeaf, last: Int, final: Int, len: Nat]

Leaves(t) == {t.genesis, t.last}

NoTranscript ==
    [genesis |-> 0, steps |-> {}, bound |-> {}, last |-> 0, final |-> 0, len |-> 0]

(* The engine's verdict on a final state.                                  *)
DeriveOutcome(state) == [passed |-> state >= ProfitTarget, profit |-> state]
GenesisState == 0

(* The next cycle opens at the last one's end with the full gross debited. *)
RebaselineWithoutDebit(final, gross) == final
Rebaseline(final, gross) == final - gross

----------------------------------------------------------------------------
(* SettlementCoverage: stage folds the account's existence and its         *)
(* `finalized` flag; pnl totals the real trades of the entries.            *)
CoverageEntry == [epoch: Epochs, prefix: Nat, trade_count: Nat, base_offset: Nat]
CoverageType ==
    [stage: {"Absent", "Open", "Finalized"}, entries: Seq(CoverageEntry),
     covered: Nat, last_epoch: Nat, pnl: Int]

NoCoverage == [stage |-> "Absent", entries |-> <<>>, covered |-> 0, last_epoch |-> 0, pnl |-> 0]
OpenCoverage == [NoCoverage EXCEPT !.stage = "Open"]

(* The guards both add_coverage_epoch and add_withdrawal_coverage_epoch    *)
(* start with: not locked, not full, epochs in strictly increasing order.  *)
Appendable(cov, e) ==
    /\ cov.stage = "Open"
    /\ Len(cov.entries) < MaxCoverageEpochs
    /\ cov.entries = <<>> \/ e > cov.last_epoch

(* What an append writes: the run starts where the coverage ended so far,  *)
(* and one without a fill brings no profit.                                *)
CoverEpoch(cov, c, e, base, count) ==
    [cov EXCEPT
        !.entries = Append(@, [epoch |-> e, prefix |-> cov.covered, trade_count |-> count,
                               base_offset |-> base]),
        !.covered = @ + count,
        !.last_epoch = e,
        !.pnl = IF count = 0 THEN @ ELSE @ + TradePnl[c][e]]

FinalizeCoverage(cov) == [cov EXCEPT !.stage = "Finalized"]

(* verify_segment and the leaf-space check: (base, count) is the run the   *)
(* producer committed for this very challenge in this epoch's root.        *)
SegmentOfAnyone(c, e, base, count) ==
    /\ batchRoot[e] # NoRoot
    /\ \E d \in DOMAIN batchRoot[e].segments :
          batchRoot[e].segments[d] = [base_offset |-> base, trade_count |-> count]
    /\ base + count <= batchRoot[e].trade_count
SegmentCommitted(c, e, base, count) ==
    /\ batchRoot[e] # NoRoot
    /\ c \in DOMAIN batchRoot[e].segments
    /\ batchRoot[e].segments[c] = [base_offset |-> base, trade_count |-> count]
    /\ base + count <= batchRoot[e].trade_count

(* Whether the firm-hour root has a tick at an entry's slots at all, and   *)
(* whether it is this challenge's own.  A supplemental entry, read as a    *)
(* position in the root (base_offset 0), can point at somebody else's.     *)
CommittedSlot(entry) ==
    batchRoot[entry.epoch] # NoRoot /\ entry.base_offset < batchRoot[entry.epoch].trade_count
OwnSlot(c, entry) ==
    LET segments == batchRoot[entry.epoch].segments
    IN  /\ batchRoot[entry.epoch] # NoRoot
        /\ c \in DOMAIN segments
        /\ segments[c] = [base_offset |-> entry.base_offset, trade_count |-> entry.trade_count]

----------------------------------------------------------------------------
(* The verifiers' conditions on a committed transcript.  A fault shows     *)
(* revealed leaves at odds with the rest; it is provable when any leaves   *)
(* do, because Merkle proofs show that a leaf is a member of its root and  *)
(* not at which index it sits.  A transition is judged by step_root alone, *)
(* the origin of a trade by bound_step_root alone.                         *)
TransitionFault(t, prev, next) == \E step \in t.steps : prev + step # next
TransitionProvable(t) == \E prev, next \in Leaves(t) : TransitionFault(t, prev, next)

InputProvable(t, c, cov) ==
    \E leaf \in t.bound, i \in DOMAIN cov.entries :
        /\ leaf.positional
        /\ CommittedSlot(cov.entries[i])
        /\ leaf.tick # cov.pnl \/ ~ OwnSlot(c, cov.entries[i])

ProvenanceProvable(t, cov) ==
    cov.entries # <<>> /\ \E leaf \in t.bound : ~ leaf.positional

(* A transcript that replays the covered trades, all of them and no other. *)
Ticks(cov) == IF cov.covered > 0 THEN {cov.pnl} ELSE {}
AtTheirSlots(ticks) == [tick: ticks, positional: {TRUE}]

FaithfulReplay(t, honestGenesis, cov) ==
    /\ t.genesis = honestGenesis
    /\ t.steps = Ticks(cov)
    /\ t.bound = AtTheirSlots(Ticks(cov))
    /\ t.last = t.genesis + cov.pnl
    /\ t.final = t.last
=============================================================================
