--------------------------- MODULE ChallengeProgram ---------------------------
(***************************************************************************)
(* The challenge program composed with the batch program, the firm's       *)
(* keeper rotation and the parties that drive them: one step is one        *)
(* instruction, sent by any signer, or a tick of the clock.                *)
(*                                                                         *)
(* The parties are not in the repository.  The batch producer commits      *)
(* every fill of the hour, grouped by account.  A keeper proposes the      *)
(* honest replay of the coverage it built, or that replay with one of the  *)
(* deviations in Lies (settlement) or CycleLies (withdrawal).  A           *)
(* challenger may send any fault proof that verifies, at any time.         *)
(***************************************************************************)
EXTENDS Withdrawal, FiniteSets, Functions

CONSTANTS
    OtherFills,  \* fills per epoch of accounts outside the instance, sorted first
    OtherOwner,  \* stands for those accounts in a segment table
    MaxFills,    \* bound on the size of a segment
    SuppCounts,  \* counts a keeper may assert for a supplemental segment
    Holds,       \* kinds of evidence a keeper may hold an account on
    Skew,        \* how far a deviation moves a state
    MintTimes,   \* bound: when a challenge may be minted
    Rotations    \* bound: when the guardian may rotate the keeper

ASSUME ChallengeProgramAssumption ==
    /\ OtherFills \in [Epochs -> Nat]
    /\ OtherOwner \notin Challenges
    /\ MaxFills \in Nat
    /\ SuppCounts \subseteq Nat
    /\ Holds \subseteq {"Advisory", "Behavioural"}
    /\ Skew \in Nat \ {0}

----------------------------------------------------------------------------
(* The hour's payload: the fills of the other accounts, then one run per   *)
(* existing challenge that traded, in the order of the slots.              *)
Traders(e) == {c \in Challenges : Exists(c) /\ TradeCount[c][e] > 0}

ProducerPayload(e) ==
    LET fills == [c \in Challenges |-> TradeCount[c][e]]
        order == CHOOSE f \in [Traders(e) -> 1..Cardinality(Traders(e))] : IsInjective(f)
        before(c) == {d \in Traders(e) : order[d] < order[c]}
        total(S) == FoldFunctionOnSet(+, OtherFills[e], fills, S)
    IN  [trade_count |-> total(Traders(e)),
         segments |-> [c \in Traders(e) \cup {OtherOwner} |->
             IF c = OtherOwner
             THEN [base_offset |-> 0, trade_count |-> OtherFills[e]]
             ELSE [base_offset |-> total(before(c)), trade_count |-> fills[c]]]]

----------------------------------------------------------------------------
(* What a keeper may propose for the coverage it built.  Every lie but     *)
(* Detached ends in the state it commits to.  Transition, Input, Padding   *)
(* and Provenance commit the same steps under both roots; Split, Unbound   *)
(* and Unstepped do not, and nothing in the program compares the two.      *)
Told(genesis, steps, bound, last, len) ==
    [genesis |-> genesis, steps |-> steps, bound |-> bound, last |-> last, final |-> last,
     len |-> len]

HonestTranscript(genesis, cov) ==
    Told(genesis, Ticks(cov), AtTheirSlots(Ticks(cov)), genesis + cov.pnl, cov.covered + 1)

Deviation(genesis, cov, lie) ==
    LET real == Ticks(cov)
        invented == {cov.pnl + Skew}
        elsewhere == [tick: invented, positional: {FALSE}]
        last == genesis + cov.pnl + Skew
        len == cov.covered + 1
    IN  CASE lie = "Transition" -> Told(genesis, real, AtTheirSlots(real), last, len)
          [] lie = "Input" -> Told(genesis, invented, AtTheirSlots(invented), last, len)
          [] lie = "Provenance" -> Told(genesis, invented, elsewhere, last, len)
          [] lie = "Split" -> Told(genesis, invented, AtTheirSlots(real), last, len)
          [] lie = "Unbound" -> Told(genesis, invented, {}, last, len)
          [] lie = "Unstepped" -> Told(genesis, {}, {}, last, len)
          [] OTHER -> Told(genesis, invented, AtTheirSlots(invented), last, len + 1)

InSteps == {"Transition", "Input", "Provenance", "Split", "Unbound", "Unstepped", "Padding"}

Transcripts(genesis, cov, lies) ==
    LET honest == HonestTranscript(genesis, cov)
    IN  {honest}
        \cup {Deviation(genesis, cov, lie) : lie \in InSteps \cap lies}
        \cup {HonestTranscript(g, cov) :
                  g \in {g \in {genesis + Skew, GenesisState} : "Genesis" \in lies}}
        \cup {[honest EXCEPT !.final = @ + Skew] : k \in {"Detached"} \cap lies}

(* The claimed result follows from the committed final state, unless the   *)
(* result itself is the lie.                                               *)
ClaimOf(t, outcome) == [transcript |-> t, passed |-> outcome.passed, profit |-> outcome.profit]
Claims(genesis, cov) ==
    {ClaimOf(t, DeriveOutcome(t.final)) : t \in Transcripts(genesis, cov, Lies)}
    \cup {ClaimOf(HonestTranscript(genesis, cov), outcome) :
            outcome \in {o \in {[passed |-> TRUE, profit |-> genesis + cov.pnl],
                                [passed |-> FALSE, profit |-> genesis + cov.pnl + Skew]} :
                            "Result" \in Lies}}

----------------------------------------------------------------------------
Init == BatchInit /\ KeeperInit /\ SettlementInit /\ WithdrawalInit

(* MaxTime leaves room for every window that opens.                        *)
Room(window) == now + window < MaxTime

BatchStep ==
    \/ \E k \in Committers : SetBatchCommitter(k) /\ UNCHANGED <<keeper, challengeVars, withdrawalVars>>
    \/ \E k \in Committers, e \in Epochs :
          CommitBatchRoot(k, e, ProducerPayload(e))
          /\ UNCHANGED <<keeper, challengeVars, withdrawalVars>>

TickStep == Tick /\ UNCHANGED <<keeper, challengeVars, withdrawalVars>>

RotateStep ==
    /\ now \in Rotations
    /\ \E k \in Keys : SetRiskEngineAuthority(k)
    /\ UNCHANGED <<challengeVars, withdrawalVars>>

MintStep(c) ==
    \/ /\ now \in MintTimes
       /\ \E a \in Keys \cup {Provisioner} :
             PurchaseChallenge(c, a) \/ GrantGiveawayChallenge(c, a)
    \/ \E k \in Keys : RepairSettlementAuthority(c, k)
    \/ CloseChallenge(c)

HoldStep(c) ==
    \/ \E k \in Keys, h \in {"None"} \cup Holds : SetIntegrityHold(c, k, h)
    \/ ProveIntegrityFault(c)

CoverageStep(c) ==
    \E k \in Keys :
        \/ InitSettlementCoverage(c, k)
        \/ \E e \in Epochs :
              \/ \E base, count \in 0..MaxFills : AddCoverageEpoch(c, k, e, base, count)
              \/ AddCoverageEpochSupplemental(c, k, e)
              \/ \E count \in SuppCounts : CommitSupplementalSegment(c, k, e, count)

SettleStep(c) ==
    \E k \in Keys, owed \in {0, 1} :
        \/ \E passed \in BOOLEAN : SettleChallenge(c, k, passed, owed)
        \/ /\ Room(ChallengeWindow)
           /\ \E withCounter \in BOOLEAN :
                 \E claim \in Claims(HonestGenesis(c, withCounter), coverage[c]) :
                    ProposeSettlement(c, k, claim, owed, withCounter)

DisproveStep(c) ==
    \E w \in Challengers :
        \/ ProveSettlementFault(c, w)
        \/ ProveResultFault(c, w)
        \/ \E withCounter \in BOOLEAN : ProveGenesisFault(c, w, withCounter)
        \/ ProveInputFault(c, w)
        \/ ProveProvenanceFault(c, w)

CycleStep(c, n) ==
    \E k \in Keys :
        \/ InitWithdrawalCoverage(c, k, n)
        \/ \E e \in Epochs :
              \/ \E base, count \in 0..MaxFills : AddWithdrawalCoverageEpoch(c, k, n, e, base, count)
              \/ AddWithdrawalCoverageEpochSupplemental(c, k, n, e)
        \/ \E tier \in Tiers :
              /\ Room(WithdrawalWindow[tier])
              /\ counter[c].cycle = n
              /\ n > 0 => withdrawal[c][n - 1].status = "Final"
              /\ \E t \in Transcripts(CycleGenesis(c, n), wcoverage[c][n], CycleLies[n]) :
                    \E gross \in 1..t.final : ProposeFundedWithdrawal(c, k, n, t, gross, tier)

CycleFaultStep(c, n) ==
    \/ ProveWithdrawalGenesisFault(c, n)
    \/ ProveWithdrawalAmountFault(c, n)
    \/ ProveWithdrawalTransitionFault(c, n)
    \/ ProveWithdrawalInputFault(c, n)
    \/ ProveWithdrawalProvenanceFault(c, n)

Next ==
    \/ TickStep \/ BatchStep \/ RotateStep
    \/ \E c \in Challenges :
          \/ MintStep(c) \/ HoldStep(c) \/ CoverageStep(c) \/ SettleStep(c) \/ DisproveStep(c)
          \/ FinalizeSettlement(c)
          \/ \E k \in Keys : InitWithdrawalCounter(c, k)
          \/ \E n \in Cycles :
                CycleStep(c, n) \/ CycleFaultStep(c, n) \/ FinalizeFundedWithdrawal(c, n)

Spec == Init /\ [][Next]_vars

(* The clock advances, and the permissionless cranks are sent by somebody: *)
(* every beneficiary of a settlement can send them.                        *)
FairSpec ==
    /\ Spec
    /\ WF_vars(TickStep)
    /\ \A c \in Challenges :
          /\ WF_vars(FinalizeSettlement(c))
          /\ \A n \in Cycles : WF_vars(FinalizeFundedWithdrawal(c, n))
=============================================================================
