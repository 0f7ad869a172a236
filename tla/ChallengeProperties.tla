------------------------- MODULE ChallengeProperties -------------------------
(***************************************************************************)
(* What the firm relies on when it pays: the gates of the firm program     *)
(* over the challenge accounts, and the properties of ChallengeProgram.    *)
(***************************************************************************)
EXTENDS ChallengeProgram, Sums

(* require_firm_settlement_authority, and the rest of enqueue_payout's     *)
(* conditions on a settlement.                                             *)
SettlementAuthorised(c) ==
    /\ Exists(c)
    /\ KeeperBound(challenge[c].authority)
    /\ challenge[c].settlement = "Final"
    /\ challenge[c].window_end > 0
    /\ challenge[c].hold = "None"

SettlementPayable(c) ==
    SettlementAuthorised(c) /\ challenge[c].status = "Passed" /\ challenge[c].owed > 0

----------------------------------------------------------------------------
(* positional_slot: the batch slot that the coverage assigns to a step.    *)
EntryOf(cov, i) ==
    CHOOSE k \in DOMAIN cov.entries :
        /\ cov.entries[k].prefix <= i
        /\ i < cov.entries[k].prefix + cov.entries[k].trade_count
PositionalSlot(cov, i) ==
    LET entry == cov.entries[EntryOf(cov, i)]
    IN  <<entry.epoch, entry.base_offset + (i - entry.prefix)>>

Supplemental(c, entry) == supplemental[c][entry.epoch] > 0
Primary(c, cov) == \A i \in DOMAIN cov.entries : ~ Supplemental(c, cov.entries[i])
EpochsOf(cov) == {cov.entries[i].epoch : i \in DOMAIN cov.entries}

Coverages(c) == {coverage[c]} \cup {wcoverage[c][n] : n \in Cycles}

(* The honest opening of a settlement, with the whole history at hand.     *)
TrueGenesis(c) == HonestGenesis(c, counter[c].cycle >= 0)

FaithfulSettlement(c) ==
    LET claim == challenge[c].claim
    IN  /\ FaithfulReplay(claim.transcript, TrueGenesis(c), coverage[c])
        /\ DeriveOutcome(claim.transcript.final) = [passed |-> claim.passed, profit |-> claim.profit]

FaithfulWithdrawal(c, n) ==
    FaithfulReplay(withdrawal[c][n].transcript, CycleGenesis(c, n), wcoverage[c][n])

Paid(c) == {n \in Cycles : withdrawal[c][n].status = "Final"}
Standing(c) == {n \in Cycles : withdrawal[c][n].status \in {"Provisional", "Final"}}
SettlementStands(c) ==
    challenge[c].settlement \in {"Provisional", "Final"} /\ challenge[c].window_end > 0

----------------------------------------------------------------------------
(* Every account has the type its struct gives it.                         *)
TypeOK ==
    /\ now \in 0..MaxTime
    /\ committer \in Committers
    /\ keeper \in KeeperType
    /\ challenge \in [Challenges -> ChallengeType]
    /\ coverage \in [Challenges -> CoverageType]
    /\ supplemental \in [Challenges -> [Epochs -> Nat]]
    /\ used \subseteq Challenges
    /\ counter \in [Challenges -> [cycle: -1..MaxCycles, cumulative: Nat]]
    /\ withdrawal \in [Challenges -> [Cycles -> WithdrawalType]]
    /\ wcoverage \in [Challenges -> [Cycles -> CoverageType]]

(* The coverage a claim was bound to at its proposal is the coverage it is *)
(* judged by: locked, and with exactly one covered trade per step, for as  *)
(* long as the claim stands (add_coverage_epoch against the lock and the   *)
(* count binding of propose_settlement and propose_funded_withdrawal).     *)
CoverageIsBound ==
    \A c \in Challenges :
        /\ SettlementStands(c) =>
              /\ coverage[c].stage = "Finalized"
              /\ coverage[c].covered = challenge[c].claim.transcript.len - 1
        /\ \A n \in Standing(c) :
              /\ wcoverage[c][n].stage = "Finalized"
              /\ wcoverage[c][n].covered = withdrawal[c][n].transcript.len - 1

(* Every step of a coverage stands for one fill: positional_slot is        *)
(* defined for each step, never gives two steps the same slot, and keeps   *)
(* to the run the producer committed for this very challenge.              *)
StepsAreDistinctOwnFills ==
    \A c \in Challenges : \A cov \in Coverages(c) :
        LET steps == 0..(cov.covered - 1)
        IN  /\ \A i \in steps : \E k \in DOMAIN cov.entries :
                  cov.entries[k].prefix <= i
                  /\ i < cov.entries[k].prefix + cov.entries[k].trade_count
            /\ \A i, j \in steps : i # j => PositionalSlot(cov, i) # PositionalSlot(cov, j)
            /\ \A k \in DOMAIN cov.entries :
                  ~ Supplemental(c, cov.entries[k]) => OwnSlot(c, cov.entries[k])

(* A supplemental segment never doubles a fill the hour's root already     *)
(* has: its challenge did not exist when the root was committed            *)
(* (commit_supplemental_segment's strict comparison of the two times).     *)
SupplementalFillsAreAbsentFromRoot ==
    \A c \in Challenges, e \in Epochs :
        supplemental[c][e] > 0 => batchRoot[e] # NoRoot /\ c \notin DOMAIN batchRoot[e].segments

(* What the refutability of a claim rests on and no instruction checks:    *)
(* step_root and bound_step_root hold the same trades, and a transcript of *)
(* one state, and no other, has no step and ends where it opens.           *)
Coherent(t) ==
    /\ t.steps = {leaf.tick : leaf \in t.bound}
    /\ t.steps = {} <=> t.len = 1
    /\ t.len = 1 => t.last = t.genesis

(* One of the five proofs against a settlement verifies, revealing the     *)
(* very leaves its instruction names (prove_settlement_fault,              *)
(* prove_result_fault, prove_genesis_fault, prove_input_fault,             *)
(* prove_provenance_fault).                                                *)
Refutable(c) ==
    LET t == Committed(c)
    IN  \/ TransitionFault(t, t.genesis, t.last)
        \/ ResultProvable(c)
        \/ GenesisFault(c, t.genesis, counter[c].cycle >= 0)
        \/ InputProvable(t, c, coverage[c])
        \/ ProvenanceProvable(t, coverage[c])

(* Inside its window every false settlement over primary segments can be   *)
(* refuted, if its commitments agree with each other: no kind of lie slips *)
(* between the proofs.                                                     *)
LieIsRefutable ==
    \A c \in Challenges :
        InWindow(c) /\ Primary(c, coverage[c]) /\ ~ FaithfulSettlement(c) =>
            LET t == Committed(c) IN Coherent(t) /\ t.final = t.last => Refutable(c)

(* The same for a withdrawal and its five proofs; the amount proof does    *)
(* not need the final state to be the last leaf.                           *)
CycleLieIsRefutable ==
    \A c \in Challenges, n \in Cycles :
        InCycleWindow(c, n) /\ Primary(c, wcoverage[c][n]) /\ ~ FaithfulWithdrawal(c, n) =>
            LET w == withdrawal[c][n]
                t == w.transcript
            IN  Coherent(t) =>
                    \/ CycleGenesisFault(w, t.genesis)
                    \/ CycleAmountFault(w, t.last)
                    \/ TransitionFault(t, t.genesis, t.last)
                    \/ InputProvable(t, c, wcoverage[c][n])
                    \/ ProvenanceProvable(t, wcoverage[c][n])

----------------------------------------------------------------------------
(* A settlement that the firm would pay is one of a funded account, was    *)
(* open to refutation for its whole window, and its claim was not changed  *)
(* by the trusted path on the way (settle_challenge on a proposed          *)
(* settlement, SETTLE-CHALLENGE-EARLY-FINAL-1).                            *)
PayableOnlyAfterWindow ==
    \A c \in Challenges :
        SettlementPayable(c) =>
            /\ Phase[c] = "Funded"
            /\ now > challenge[c].window_end
            /\ challenge[c].claim.passed

(* A keeper rotation never strands a challenge of the live keeper: no      *)
(* single step, a rotation included, takes a challenge that is frozen to   *)
(* the live key out of the keeper binding of the payout gates.             *)
RotationKeepsCurrentBound ==
    [][\A c \in Challenges :
          Exists(c) /\ Exists(c)' /\ challenge[c].authority = keeper.current
              => KeeperBound(challenge[c].authority)']_vars

(* No fill is paid twice: the epochs of the withdrawals and of the         *)
(* settlement that stand are disjoint (the watermark of the cycles and     *)
(* the one propose_settlement reads).                                      *)
NoTradePaidTwice ==
    \A c \in Challenges :
        /\ \A m, n \in Standing(c) : m # n => EpochsOf(wcoverage[c][m]) \cap EpochsOf(wcoverage[c][n]) = {}
        /\ SettlementStands(c) =>
              \A n \in Paid(c) : EpochsOf(coverage[c]) \cap EpochsOf(wcoverage[c][n]) = {}

(* The total of an amount over the withdrawals that stand.                 *)
OverStanding(c, amount) ==
    SumTo([i \in 1..MaxCycles |-> IF i - 1 \in Standing(c) THEN amount[i - 1] ELSE 0], MaxCycles)

(* Over all its cycles an account is never paid more than the trades its   *)
(* cycles covered, as long as no false withdrawal went unrefuted: the      *)
(* rebaseline debits the full gross.                                       *)
PaidWithinEarned ==
    \A c \in Challenges :
        (\A n \in Standing(c) : FaithfulWithdrawal(c, n)) =>
            OverStanding(c, [n \in Cycles |-> withdrawal[c][n].gross])
            <= OverStanding(c, [n \in Cycles |-> wcoverage[c][n].pnl])

(* A settlement and a withdrawal of one account are never judged at the    *)
(* same time, so neither can be rebaselined from a claim still in doubt.   *)
ClaimsDoNotRace ==
    \A c \in Challenges, n \in Cycles :
        ~ (challenge[c].settlement = "Provisional" /\ withdrawal[c][n].status = "Provisional")

----------------------------------------------------------------------------
(* Both paths implement the optimistic claim.  A settlement that never     *)
(* opened a window is no claim: the gates refuse it.                       *)
SettlementPhase(c) ==
    CASE challenge[c].settlement = "Provisional" -> "Pending"
      [] challenge[c].settlement = "Faulted" -> "Refuted"
      [] challenge[c].settlement = "Final" /\ challenge[c].window_end > 0 -> "Upheld"
      [] OTHER -> "None"

CycleSlots == Challenges \X Cycles
CyclePhase(s) ==
    LET status == withdrawal[s[1]][s[2]].status
    IN  CASE status = "Provisional" -> "Pending"
          [] status = "Faulted" -> "Refuted"
          [] status = "Final" -> "Upheld"
          [] OTHER -> "None"

SettlementClaim ==
    INSTANCE OptimisticClaim WITH
        Slots <- Challenges, Reusable <- Challenges, now <- now,
        phase <- [c \in Challenges |-> SettlementPhase(c)],
        deadline <- [c \in Challenges |-> challenge[c].window_end]
WithdrawalClaim ==
    INSTANCE OptimisticClaim WITH
        Slots <- CycleSlots, Reusable <- {}, now <- now,
        phase <- [s \in CycleSlots |-> CyclePhase(s)],
        deadline <- [s \in CycleSlots |-> withdrawal[s[1]][s[2]].window_end]

(* A settlement is refuted only inside its window and upheld only after    *)
(* it, and its verdict never changes while the account exists.             *)
SettlementIsOptimistic == SettlementClaim!Spec

(* The same for each withdrawal cycle, whose slot is never reused.         *)
WithdrawalIsOptimistic == WithdrawalClaim!Spec

(* Every proposed settlement is decided, because anyone may finalize it.   *)
SettlementConcludes ==
    \A c \in Challenges :
        challenge[c].settlement = "Provisional" ~> challenge[c].settlement # "Provisional"

(* Every proposed withdrawal is decided: the crank does not depend on the  *)
(* challenge, which may even have been closed meanwhile.                   *)
WithdrawalConcludes ==
    \A c \in Challenges, n \in Cycles :
        withdrawal[c][n].status = "Provisional" ~> withdrawal[c][n].status # "Provisional"

----------------------------------------------------------------------------
(* What the documents say and the code does not keep.                      *)

(* "An honest transcript can never satisfy it": a faithful settlement or   *)
(* withdrawal is never faulted.                                            *)
HonestNeverFaulted ==
    [][\A c \in Challenges :
          /\ challenge[c].settlement = "Provisional" /\ FaithfulSettlement(c)
                => challenge'[c].settlement # "Faulted"
          /\ \A n \in Cycles :
                withdrawal[c][n].status = "Provisional" /\ FaithfulWithdrawal(c, n)
                    => withdrawal'[c][n].status # "Faulted"]_vars

(* The input and provenance proofs make "the settlement fully trustless    *)
(* against fabrication": a settlement that invents trades in the place of  *)
(* the covered ones, and states to go with them, can be refuted inside its *)
(* window.                                                                 *)
FabricationIsRefutable ==
    \A c \in Challenges :
        InWindow(c) /\ Primary(c, coverage[c]) /\ coverage[c].covered > 0 =>
            Committed(c).steps = Ticks(coverage[c]) \/ Refutable(c)

(* A faulted withdrawal "must not cost the trader their funded account":   *)
(* the slot of the cycle the counter points at can still be proposed.      *)
FaultLeavesAccountUsable ==
    \A c \in Challenges :
        challenge[c].status = "Active" /\ counter[c].cycle \in Cycles =>
            withdrawal[c][counter[c].cycle].status # "Faulted"
=============================================================================
