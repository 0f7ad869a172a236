---------------------------- MODULE ChallengeProofs ----------------------------
(***************************************************************************)
(* Theorems about ChallengeProgram, for every number of challenges,        *)
(* epochs, keys and cycles and every length of the windows: its types,     *)
(* what the firm's payout gate lets through, what a claim is bound to,     *)
(* which claims can be open together, and what no step may do to evidence  *)
(* and to keeper bindings.                                                 *)
(***************************************************************************)
EXTENDS ChallengeProperties, TLAPS

----------------------------------------------------------------------------
(* An append keeps a coverage a coverage.                                  *)
LEMMA CoverEpochType ==
    ASSUME NEW cov \in CoverageType, NEW c \in Challenges, NEW e \in Epochs,
           NEW base \in Nat, NEW count \in Nat
    PROVE  CoverEpoch(cov, c, e, base, count) \in CoverageType
<1>1. [epoch |-> e, prefix |-> cov.covered, trade_count |-> count, base_offset |-> base]
        \in CoverageEntry
  BY DEF CoverageType, CoverageEntry
<1>2. Append(cov.entries, [epoch |-> e, prefix |-> cov.covered, trade_count |-> count,
                           base_offset |-> base]) \in Seq(CoverageEntry)
  BY <1>1 DEF CoverageType
<1>3. /\ cov.covered + count \in Nat /\ e \in Nat
      /\ (IF count = 0 THEN cov.pnl ELSE cov.pnl + TradePnl[c][e]) \in Int
  <2>1. TradePnl[c][e] \in Int
    BY ChallengeAssumption
  <2> QED
    BY <2>1, BatchAssumption DEF CoverageType
<1>4. \A seq \in Seq(CoverageEntry), k \in Nat, m \in Nat, x \in Int :
        [cov EXCEPT !.entries = seq, !.covered = k, !.last_epoch = m, !.pnl = x] \in CoverageType
  BY DEF CoverageType
<1> QED
  BY <1>2, <1>3, <1>4 DEF CoverEpoch

(* Finalizing a coverage keeps it a coverage.                               *)
LEMMA FinalizeCoverageType ==
    ASSUME NEW cov \in CoverageType
    PROVE  FinalizeCoverage(cov) \in CoverageType
BY DEF FinalizeCoverage, CoverageType

(* A freshly opened coverage is a coverage.                                 *)
LEMMA OpenCoverageType == OpenCoverage \in CoverageType
<1>1. NoCoverage \in CoverageType
  BY DEF NoCoverage, CoverageType
<1>2. \A cov \in CoverageType : [cov EXCEPT !.stage = "Open"] \in CoverageType
  BY DEF CoverageType
<1> QED
  BY <1>1, <1>2 DEF OpenCoverage

(* A transcript told of integers is a transcript.                          *)
LEMMA ToldType ==
    ASSUME NEW genesis \in Int, NEW steps \in SUBSET Int, NEW bound \in SUBSET BoundLeaf,
           NEW last \in Int, NEW len \in Nat
    PROVE  Told(genesis, steps, bound, last, len) \in Transcript
BY DEF Told, Transcript

(* Trades at their slots, or elsewhere, are leaves of a bound_step_root.    *)
LEMMA BoundLeavesType ==
    ASSUME NEW ticks \in SUBSET Int
    PROVE  /\ AtTheirSlots(ticks) \in SUBSET BoundLeaf
           /\ [tick: ticks, positional: {FALSE}] \in SUBSET BoundLeaf
BY DEF AtTheirSlots, BoundLeaf

(* Whatever a keeper may commit to is a transcript.                         *)
LEMMA TranscriptsType ==
    ASSUME NEW genesis \in Int, NEW cov \in CoverageType, NEW lies,
           NEW t \in Transcripts(genesis, cov, lies)
    PROVE  t \in Transcript
<1>1. cov.pnl \in Int /\ cov.covered \in Nat /\ Skew \in Int
  BY ChallengeProgramAssumption DEF CoverageType
<1>2. Ticks(cov) \in SUBSET Int /\ AtTheirSlots(Ticks(cov)) \in SUBSET BoundLeaf
  <2>1. Ticks(cov) \in SUBSET Int
    BY <1>1 DEF Ticks
  <2> QED
    BY <2>1, BoundLeavesType
<1>3. \A g \in Int : HonestTranscript(g, cov) \in Transcript
  <2> TAKE g \in Int
  <2>1. g + cov.pnl \in Int /\ cov.covered + 1 \in Nat
    BY <1>1
  <2> QED
    BY <1>2, <2>1, ToldType DEF HonestTranscript
<1>4. \A lie : Deviation(genesis, cov, lie) \in Transcript
  <2> DEFINE invented == {cov.pnl + Skew}
             last == genesis + cov.pnl + Skew
             len == cov.covered + 1
  <2>1. /\ invented \in SUBSET Int /\ {} \in SUBSET Int /\ {} \in SUBSET BoundLeaf
        /\ last \in Int /\ len \in Nat /\ len + 1 \in Nat
    BY <1>1
  <2>2. /\ AtTheirSlots(invented) \in SUBSET BoundLeaf
        /\ [tick: invented, positional: {FALSE}] \in SUBSET BoundLeaf
    BY <2>1, BoundLeavesType
  <2> HIDE DEF invented, last, len
  <2>3. \A steps \in SUBSET Int, bound \in SUBSET BoundLeaf :
          /\ Told(genesis, steps, bound, last, len) \in Transcript
          /\ Told(genesis, steps, bound, last, len + 1) \in Transcript
    BY <2>1, ToldType
  <2> TAKE lie
  <2>4. Deviation(genesis, cov, lie) \in
          {Told(genesis, Ticks(cov), AtTheirSlots(Ticks(cov)), last, len),
           Told(genesis, invented, AtTheirSlots(invented), last, len),
           Told(genesis, invented, [tick: invented, positional: {FALSE}], last, len),
           Told(genesis, invented, AtTheirSlots(Ticks(cov)), last, len),
           Told(genesis, invented, {}, last, len), Told(genesis, {}, {}, last, len),
           Told(genesis, invented, AtTheirSlots(invented), last, len + 1)}
    BY DEF Deviation, invented, last, len
  <2> QED
    BY <1>2, <2>1, <2>2, <2>3, <2>4
<1>5. genesis + Skew \in Int /\ GenesisState \in Int
  BY <1>1 DEF GenesisState
<1>6. \A u \in Transcript, x \in Int : [u EXCEPT !.final = x] \in Transcript
  BY DEF Transcript
<1>7. [HonestTranscript(genesis, cov) EXCEPT !.final = @ + Skew] \in Transcript
  <2>1. HonestTranscript(genesis, cov).final + Skew \in Int
    BY <1>1, <1>3 DEF Transcript
  <2> QED
    BY <1>3, <1>6, <2>1
<1> QED
  BY <1>3, <1>4, <1>5, <1>7 DEF Transcripts

(* A claim built from a transcript and an outcome is a claim.               *)
LEMMA ClaimOfType ==
    ASSUME NEW t \in Transcript, NEW outcome \in [passed: BOOLEAN, profit: Int]
    PROVE  ClaimOf(t, outcome) \in ClaimType
BY DEF ClaimOf, ClaimType

(* Whatever a keeper may propose is a claim.                                *)
LEMMA ClaimsType ==
    ASSUME NEW genesis \in Int, NEW cov \in CoverageType, NEW claim \in Claims(genesis, cov)
    PROVE  claim \in ClaimType
<1>1. \A t \in Transcripts(genesis, cov, Lies) : ClaimOf(t, DeriveOutcome(t.final)) \in ClaimType
  <2> TAKE t \in Transcripts(genesis, cov, Lies)
  <2>1. t \in Transcript
    BY TranscriptsType
  <2>2. DeriveOutcome(t.final) \in [passed: BOOLEAN, profit: Int]
    BY <2>1 DEF DeriveOutcome, Transcript
  <2> QED
    BY <2>1, <2>2, ClaimOfType
<1>2. HonestTranscript(genesis, cov) \in Transcript
  BY TranscriptsType DEF Transcripts
<1>3. genesis + cov.pnl \in Int /\ genesis + cov.pnl + Skew \in Int
  BY ChallengeProgramAssumption DEF CoverageType
<1> QED
  BY <1>1, <1>2, <1>3, ClaimOfType DEF Claims

----------------------------------------------------------------------------
(* Every fault proof has the same effect as the others of its family.      *)
LEMMA DisproveFaultsOut ==
    ASSUME NEW c \in Challenges, DisproveStep(c)
    PROVE  InWindow(c) /\ \E w \in Challengers : FaultOut(c, w)
BY DEF DisproveStep, ProveSettlementFault, ProveResultFault, ProveGenesisFault,
       ProveInputFault, ProveProvenanceFault

(* Every withdrawal fault proof ends in WithdrawalFaultOut.                 *)
LEMMA CycleFaultsOut ==
    ASSUME NEW c \in Challenges, NEW n \in Cycles, CycleFaultStep(c, n)
    PROVE  InCycleWindow(c, n) /\ WithdrawalFaultOut(c, n)
BY DEF CycleFaultStep, ProveWithdrawalGenesisFault, ProveWithdrawalAmountFault,
       ProveWithdrawalTransitionFault, ProveWithdrawalInputFault, ProveWithdrawalProvenanceFault

(* Buying and granting a challenge both open a fresh slot.                  *)
LEMMA MintOpens ==
    ASSUME NEW c \in Challenges, MintStep(c)
    PROVE  \/ \E a : OpenSlot(c, a)
           \/ \E k \in Keys : RepairSettlementAuthority(c, k)
           \/ CloseChallenge(c)
BY DEF MintStep, PurchaseChallenge, GrantGiveawayChallenge

(* The genesis a program derives is a state.                               *)
LEMMA GenesisTypes ==
    ASSUME TypeOK, NEW c \in Challenges
    PROVE  /\ \A withCounter \in BOOLEAN : HonestGenesis(c, withCounter) \in Int
           /\ \A n \in Cycles : CycleGenesis(c, n) \in Int
<1>1. \A n \in Cycles : Rebaseline(withdrawal[c][n].transcript.final, withdrawal[c][n].gross) \in Int
  BY DEF TypeOK, WithdrawalType, Transcript, Rebaseline
<1>2. counter[c].cycle \in -1..MaxCycles /\ MaxCycles \in Nat
  BY ChallengeAssumption DEF TypeOK
<1>3. counter[c].cycle > 0 => counter[c].cycle - 1 \in Cycles
  BY <1>2 DEF Cycles
<1>4. \A n \in Cycles : n # 0 => n - 1 \in Cycles
  BY <1>2 DEF Cycles
<1> QED
  BY <1>1, <1>3, <1>4 DEF HonestGenesis, LastFinal, CycleGenesis, GenesisState

(* The accounts start with their types.                                     *)
LEMMA InitTypeOK == Init => TypeOK
<1> SUFFICES ASSUME Init PROVE TypeOK
  OBVIOUS
<1>1. MaxTime \in Nat /\ MaxCycles \in Nat
  BY BatchAssumption, ChallengeAssumption
<1>2. NoTranscript \in Transcript
  BY DEF NoTranscript, Transcript
<1>3. NoCoverage \in CoverageType
  BY DEF NoCoverage, CoverageType
<1>4. NoChallenge \in ChallengeType
  BY <1>2 DEF NoChallenge, NoClaim, ChallengeType, ClaimType
<1>5. NoWithdrawal \in WithdrawalType
  BY <1>2 DEF NoWithdrawal, WithdrawalType
<1>6. NoCounter \in [cycle: -1..MaxCycles, cumulative: Nat]
  BY <1>1 DEF NoCounter
<1>7. now \in 0..MaxTime /\ committer \in Committers /\ keeper \in KeeperType
  BY <1>1 DEF Init, BatchInit, KeeperInit, KeeperType
<1>8. /\ challenge \in [Challenges -> ChallengeType]
      /\ coverage \in [Challenges -> CoverageType]
      /\ supplemental \in [Challenges -> [Epochs -> Nat]]
      /\ used \subseteq Challenges
  BY <1>3, <1>4 DEF Init, SettlementInit
<1>9. /\ counter \in [Challenges -> [cycle: -1..MaxCycles, cumulative: Nat]]
      /\ withdrawal \in [Challenges -> [Cycles -> WithdrawalType]]
      /\ wcoverage \in [Challenges -> [Cycles -> CoverageType]]
  BY <1>3, <1>5, <1>6 DEF Init, WithdrawalInit
<1> QED
  BY <1>7, <1>8, <1>9 DEF TypeOK

(* The actions that rewrite one challenge account.                         *)
LEMMA ChallengeTypeStep ==
    ASSUME TypeOK, NEW c \in Challenges, MintStep(c) \/ HoldStep(c) \/ DisproveStep(c)
                                          \/ FinalizeSettlement(c)
    PROVE  TypeOK'
<1> USE DEF challengeVars, withdrawalVars, batchVars
<1>1. ASSUME NEW ch \in ChallengeType, challenge' = [challenge EXCEPT ![c] = ch],
             used' \subseteq Challenges,
             UNCHANGED <<coverage, supplemental, withdrawalVars, batchVars, keeper>>
      PROVE  TypeOK'
  BY <1>1 DEF TypeOK
<1>2. challenge[c] \in ChallengeType /\ keeper.current \in Keys /\ now \in Nat /\ used \subseteq Challenges
  BY BatchAssumption DEF TypeOK, KeeperType
<1>3. NoChallenge \in ChallengeType
  BY DEF NoChallenge, NoClaim, ChallengeType, ClaimType, NoTranscript, Transcript
<1>4. ASSUME NEW a, OpenSlot(c, a) PROVE TypeOK'
  <2>1. InitChallengeState(c, a) \in ChallengeType
    BY <1>2, <1>3 DEF InitChallengeState, ChallengeType
  <2> QED
    BY <1>1, <1>2, <1>4, <2>1 DEF OpenSlot
<1>5. ASSUME NEW k \in Keys, RepairSettlementAuthority(c, k) PROVE TypeOK'
  <2>1. [challenge[c] EXCEPT !.authority = keeper.current] \in ChallengeType
    BY <1>2 DEF ChallengeType
  <2> QED
    BY <1>1, <1>2, <1>5, <2>1 DEF RepairSettlementAuthority
<1>6. ASSUME CloseChallenge(c) PROVE TypeOK'
  BY <1>1, <1>2, <1>3, <1>6 DEF CloseChallenge
<1>7. ASSUME NEW k \in Keys, NEW h \in {"None", "Advisory", "Behavioural"},
             SetIntegrityHold(c, k, h)
      PROVE  TypeOK'
  <2>1. [challenge[c] EXCEPT !.hold = h] \in ChallengeType
    BY <1>2 DEF ChallengeType
  <2> QED
    BY <1>1, <1>2, <1>7, <2>1 DEF SetIntegrityHold
<1>8. ASSUME ProveIntegrityFault(c) PROVE TypeOK'
  <2>1. [challenge[c] EXCEPT !.hold = "None"] \in ChallengeType
    BY <1>2 DEF ChallengeType
  <2> QED
    BY <1>1, <1>2, <1>8, <2>1 DEF ProveIntegrityFault
<1>9. ASSUME NEW w \in Challengers, FaultOut(c, w) PROVE TypeOK'
  <2>1. [challenge[c] EXCEPT !.settlement = "Faulted", !.status = "Failed", !.owed = 0,
                             !.fault_challenger = w] \in ChallengeType
    BY <1>2 DEF ChallengeType
  <2> QED
    BY <1>1, <1>2, <1>9, <2>1 DEF FaultOut
<1>10. ASSUME FinalizeSettlement(c) PROVE TypeOK'
  <2>1. \A status \in {"Passed", "Failed"}, owed \in {0, 1} :
          [challenge[c] EXCEPT !.status = status, !.owed = owed, !.settlement = "Final"]
            \in ChallengeType
    BY <1>2 DEF ChallengeType
  <2>2. challenge[c].owed \in {0, 1}
    BY <1>2 DEF ChallengeType
  <2> DEFINE passed == challenge[c].claim.passed
             decided == [challenge[c] EXCEPT !.status = IF passed THEN "Passed" ELSE "Failed",
                                             !.owed = IF passed THEN @ ELSE 0,
                                             !.settlement = "Final"]
  <2>3. decided \in ChallengeType
    BY <2>1, <2>2
  <2>4. challenge' = [challenge EXCEPT ![c] = decided]
    BY <1>10 DEF FinalizeSettlement
  <2>5. /\ used' \subseteq Challenges
        /\ UNCHANGED <<coverage, supplemental, withdrawalVars, batchVars, keeper>>
    BY <1>2, <1>10 DEF FinalizeSettlement
  <2> QED
    BY <1>1, <2>3, <2>4, <2>5
<1> QED
  BY <1>4, <1>5, <1>6, <1>7, <1>8, <1>9, <1>10, MintOpens, DisproveFaultsOut,
     ChallengeProgramAssumption DEF HoldStep

(* The actions that build a settlement's evidence.                         *)
LEMMA CoverageTypeStep ==
    ASSUME TypeOK, NEW c \in Challenges, CoverageStep(c)
    PROVE  TypeOK'
<1> USE DEF challengeVars, withdrawalVars, batchVars
<1>1. ASSUME NEW cov \in CoverageType, coverage' = [coverage EXCEPT ![c] = cov],
             UNCHANGED <<challenge, supplemental, used, withdrawalVars, batchVars, keeper>>
      PROVE  TypeOK'
  BY <1>1 DEF TypeOK
<1>2. /\ coverage[c] \in CoverageType
      /\ \A e \in Epochs : supplemental[c][e] \in Nat
      /\ \A base \in 0..MaxFills : base \in Nat
  BY ChallengeProgramAssumption DEF TypeOK
<1>3. ASSUME NEW k \in Keys, InitSettlementCoverage(c, k) PROVE TypeOK'
  BY <1>1, <1>3, OpenCoverageType DEF InitSettlementCoverage
<1>4. ASSUME NEW k \in Keys, NEW e \in Epochs, NEW base \in 0..MaxFills, NEW count \in 0..MaxFills,
             AddCoverageEpoch(c, k, e, base, count)
      PROVE  TypeOK'
  <2>1. CoverEpoch(coverage[c], c, e, base, count) \in CoverageType
    BY <1>2, CoverEpochType
  <2> QED
    BY <1>1, <1>4, <2>1 DEF AddCoverageEpoch
<1>5. ASSUME NEW k \in Keys, NEW e \in Epochs, AddCoverageEpochSupplemental(c, k, e)
      PROVE  TypeOK'
  <2>1. CoverEpoch(coverage[c], c, e, 0, supplemental[c][e]) \in CoverageType
    BY <1>2, CoverEpochType
  <2> QED
    BY <1>1, <1>5, <2>1 DEF AddCoverageEpochSupplemental
<1>6. ASSUME NEW k \in Keys, NEW e \in Epochs, NEW count \in SuppCounts,
             CommitSupplementalSegment(c, k, e, count)
      PROVE  TypeOK'
  <2>1. supplemental' \in [Challenges -> [Epochs -> Nat]]
    BY <1>6, ChallengeProgramAssumption DEF CommitSupplementalSegment, TypeOK
  <2> QED
    BY <1>6, <2>1 DEF CommitSupplementalSegment, TypeOK
<1> QED
  BY <1>3, <1>4, <1>5, <1>6 DEF CoverageStep

(* The trusted verdict and the optimistic proposal.                        *)
LEMMA SettleTypeStep ==
    ASSUME TypeOK, NEW c \in Challenges, SettleStep(c)
    PROVE  TypeOK'
<1> USE DEF challengeVars, withdrawalVars, batchVars
<1>1. /\ challenge[c] \in ChallengeType /\ coverage[c] \in CoverageType
      /\ now + ChallengeWindow \in Nat
  BY BatchAssumption, ChallengeAssumption DEF TypeOK
<1>2. ASSUME NEW k \in Keys, NEW owed \in {0, 1}, NEW passed \in BOOLEAN,
             SettleChallenge(c, k, passed, owed)
      PROVE  TypeOK'
  <2> DEFINE ch == [challenge[c] EXCEPT !.status = IF passed THEN "Passed" ELSE "Failed",
                        !.owed = IF passed THEN owed ELSE 0, !.settlement = "Final"]
  <2>1. \A status \in {"Passed", "Failed"}, o \in {0, 1} :
          [challenge[c] EXCEPT !.status = status, !.owed = o, !.settlement = "Final"]
            \in ChallengeType
    BY <1>1 DEF ChallengeType
  <2>2. ch \in ChallengeType
    BY <2>1
  <2>3. challenge' = [challenge EXCEPT ![c] = ch]
    BY <1>2 DEF SettleChallenge
  <2> QED
    BY <1>2, <2>2, <2>3 DEF SettleChallenge, TypeOK
<1>3. ASSUME NEW k \in Keys, NEW owed \in {0, 1}, NEW withCounter \in BOOLEAN,
             NEW claim \in Claims(HonestGenesis(c, withCounter), coverage[c]),
             ProposeSettlement(c, k, claim, owed, withCounter)
      PROVE  TypeOK'
  <2> DEFINE ch == [challenge[c] EXCEPT !.settlement = "Provisional", !.claim = claim,
                        !.owed = IF claim.passed THEN owed ELSE 0,
                        !.window_end = now + ChallengeWindow]
  <2>1. claim \in ClaimType
    BY <1>1, GenesisTypes, ClaimsType
  <2>2. \A o \in {0, 1}, end \in Nat, cl \in ClaimType :
          [challenge[c] EXCEPT !.settlement = "Provisional", !.claim = cl, !.owed = o,
                               !.window_end = end] \in ChallengeType
    BY <1>1 DEF ChallengeType
  <2>3. ch \in ChallengeType
    BY <1>1, <2>1, <2>2
  <2>4. challenge' = [challenge EXCEPT ![c] = ch]
    BY <1>3 DEF ProposeSettlement
  <2>5. coverage' \in [Challenges -> CoverageType]
    BY <1>1, <1>3, FinalizeCoverageType DEF ProposeSettlement, TypeOK
  <2> QED
    BY <1>3, <2>3, <2>4, <2>5 DEF ProposeSettlement, TypeOK
<1> QED
  BY <1>2, <1>3 DEF SettleStep

(* The withdrawal actions.                                                 *)
LEMMA CycleTypeStep ==
    ASSUME TypeOK, NEW c \in Challenges, NEW n \in Cycles, CycleStep(c, n) \/ CycleFaultStep(c, n)
    PROVE  TypeOK'
<1> USE DEF challengeVars, withdrawalVars, batchVars
<1>1. ASSUME NEW cov \in CoverageType, wcoverage' = [wcoverage EXCEPT ![c][n] = cov],
             UNCHANGED <<counter, withdrawal, challengeVars, batchVars, keeper>>
      PROVE  TypeOK'
  BY <1>1 DEF TypeOK
<1>2. /\ wcoverage[c][n] \in CoverageType /\ withdrawal[c][n] \in WithdrawalType
      /\ \A e \in Epochs : supplemental[c][e] \in Nat
      /\ \A base \in 0..MaxFills : base \in Nat
      /\ \A tier \in Tiers : now + WithdrawalWindow[tier] \in Nat
  BY ChallengeProgramAssumption, ChallengeAssumption, BatchAssumption DEF TypeOK
<1>3. ASSUME NEW k \in Keys, InitWithdrawalCoverage(c, k, n) PROVE TypeOK'
  BY <1>1, <1>3, OpenCoverageType DEF InitWithdrawalCoverage
<1>4. ASSUME NEW k \in Keys, NEW e \in Epochs, NEW base \in 0..MaxFills, NEW count \in 0..MaxFills,
             AddWithdrawalCoverageEpoch(c, k, n, e, base, count)
      PROVE  TypeOK'
  <2>1. CoverEpoch(wcoverage[c][n], c, e, base, count) \in CoverageType
    BY <1>2, CoverEpochType
  <2>2. wcoverage' = [wcoverage EXCEPT ![c][n] = CoverEpoch(wcoverage[c][n], c, e, base, count)]
    BY <1>4 DEF AddWithdrawalCoverageEpoch
  <2> QED
    BY <1>1, <1>4, <2>1, <2>2 DEF AddWithdrawalCoverageEpoch
<1>5. ASSUME NEW k \in Keys, NEW e \in Epochs,
             AddWithdrawalCoverageEpochSupplemental(c, k, n, e)
      PROVE  TypeOK'
  <2>1. CoverEpoch(wcoverage[c][n], c, e, 0, supplemental[c][e]) \in CoverageType
    BY <1>2, CoverEpochType
  <2>2. wcoverage' = [wcoverage EXCEPT ![c][n] =
                        CoverEpoch(wcoverage[c][n], c, e, 0, supplemental[c][e])]
    BY <1>5 DEF AddWithdrawalCoverageEpochSupplemental
  <2> QED
    BY <1>1, <1>5, <2>1, <2>2 DEF AddWithdrawalCoverageEpochSupplemental
<1>6. ASSUME NEW k \in Keys, NEW tier \in Tiers,
             NEW t \in Transcripts(CycleGenesis(c, n), wcoverage[c][n], CycleLies[n]),
             NEW gross \in 1..t.final,
             ProposeFundedWithdrawal(c, k, n, t, gross, tier)
      PROVE  TypeOK'
  <2>1. t \in Transcript /\ gross \in Nat
    <3>1. t \in Transcript
      BY <1>2, GenesisTypes, TranscriptsType
    <3> QED
      BY <3>1 DEF Transcript
  <2>2. CycleGenesis(c, n) \in Int
    BY GenesisTypes
  <2>3. n # 0 => n - 1 \in Cycles
    <3>1. MaxCycles \in Nat
      BY ChallengeAssumption
    <3> QED
      BY <3>1 DEF Cycles
  <2>4. NextWatermark(c, n) \in Nat
    BY <1>2, <2>3 DEF NextWatermark, PrevWatermark, TypeOK, CoverageType, WithdrawalType
  <2>5. [status |-> "Provisional", gross |-> gross, genesis |-> CycleGenesis(c, n),
         transcript |-> t, watermark |-> NextWatermark(c, n),
         window_end |-> now + WithdrawalWindow[tier]] \in WithdrawalType
    BY <1>2, <2>1, <2>2, <2>4 DEF WithdrawalType
  <2>6. withdrawal' \in [Challenges -> [Cycles -> WithdrawalType]]
    BY <1>6, <2>5 DEF ProposeFundedWithdrawal, TypeOK
  <2>7. FinalizeCoverage(wcoverage[c][n]) \in CoverageType
    BY <1>2, FinalizeCoverageType
  <2>8. wcoverage' \in [Challenges -> [Cycles -> CoverageType]]
    BY <1>6, <2>7 DEF ProposeFundedWithdrawal, TypeOK
  <2> QED
    BY <1>6, <2>6, <2>8 DEF ProposeFundedWithdrawal, TypeOK
<1>7. ASSUME WithdrawalFaultOut(c, n) PROVE TypeOK'
  <2>1. [withdrawal[c][n] EXCEPT !.status = "Faulted", !.gross = 0] \in WithdrawalType
    BY <1>2 DEF WithdrawalType
  <2>2. withdrawal' = [withdrawal EXCEPT ![c][n] =
                          [withdrawal[c][n] EXCEPT !.status = "Faulted", !.gross = 0]]
    BY <1>7 DEF WithdrawalFaultOut
  <2> QED
    BY <1>7, <2>1, <2>2 DEF WithdrawalFaultOut, TypeOK
<1> QED
  BY <1>3, <1>4, <1>5, <1>6, <1>7, CycleFaultsOut DEF CycleStep

(* Opening the withdrawal counter keeps every account typed.                *)
LEMMA CounterTypeStep ==
    ASSUME TypeOK, NEW c \in Challenges,
           \/ \E k \in Keys : InitWithdrawalCounter(c, k)
           \/ \E n \in Cycles : FinalizeFundedWithdrawal(c, n)
    PROVE  TypeOK'
<1> USE DEF challengeVars, withdrawalVars, batchVars
<1>1. MaxCycles \in Nat
  BY ChallengeAssumption
<1>2. ASSUME NEW k \in Keys, InitWithdrawalCounter(c, k) PROVE TypeOK'
  <2>1. [cycle |-> 0, cumulative |-> 0] \in [cycle: -1..MaxCycles, cumulative: Nat]
    BY <1>1
  <2> QED
    BY <1>2, <2>1 DEF InitWithdrawalCounter, TypeOK
<1>3. ASSUME NEW n \in Cycles, FinalizeFundedWithdrawal(c, n) PROVE TypeOK'
  <2>1. n + 1 \in -1..MaxCycles
    BY <1>1 DEF Cycles
  <2>2. counter[c].cumulative + withdrawal[c][n].gross \in Nat
    BY DEF TypeOK, WithdrawalType
  <2>3. counter' \in [Challenges -> [cycle: -1..MaxCycles, cumulative: Nat]]
    BY <1>3, <2>1, <2>2 DEF FinalizeFundedWithdrawal, TypeOK
  <2>4. \A w \in WithdrawalType : [w EXCEPT !.status = "Final"] \in WithdrawalType
    BY DEF WithdrawalType
  <2>5. withdrawal' = [withdrawal EXCEPT ![c][n] = [withdrawal[c][n] EXCEPT !.status = "Final"]]
    BY <1>3 DEF FinalizeFundedWithdrawal, TypeOK
  <2>6. withdrawal' \in [Challenges -> [Cycles -> WithdrawalType]]
    BY <2>4, <2>5 DEF TypeOK
  <2> QED
    BY <1>3, <2>3, <2>6 DEF FinalizeFundedWithdrawal, TypeOK
<1> QED
  BY <1>2, <1>3

(* The clock, the committer and the keeper.                                *)
LEMMA SystemTypeStep ==
    ASSUME TypeOK, TickStep \/ BatchStep \/ RotateStep
    PROVE  TypeOK'
<1> USE DEF challengeVars, withdrawalVars, batchVars
<1>1. ASSUME TickStep PROVE TypeOK'
  <2>1. now' \in 0..MaxTime
    BY <1>1, BatchAssumption DEF TickStep, Tick, TypeOK
  <2> QED
    BY <1>1, <2>1 DEF TickStep, Tick, TypeOK
<1>2. ASSUME BatchStep PROVE TypeOK'
  BY <1>2 DEF BatchStep, SetBatchCommitter, CommitBatchRoot, TypeOK
<1>3. ASSUME RotateStep PROVE TypeOK'
  <2>1. \A k \in Keys : Rotated(k) \in KeeperType
    BY BatchAssumption, FirmAuthorityAssumption DEF Rotated, KeeperType, TypeOK
  <2> QED
    BY <1>3, <2>1 DEF RotateStep, SetRiskEngineAuthority, TypeOK
<1> QED
  BY <1>1, <1>2, <1>3

(* Type correctness of the whole composition.                              *)
THEOREM TypeCorrect == Spec => []TypeOK
<1>1. TypeOK /\ [Next]_vars => TypeOK'
  <2> SUFFICES ASSUME TypeOK, [Next]_vars PROVE TypeOK'
    OBVIOUS
  <2>1. CASE TickStep \/ BatchStep \/ RotateStep
    BY <2>1, SystemTypeStep
  <2>2. ASSUME NEW c \in Challenges,
               MintStep(c) \/ HoldStep(c) \/ DisproveStep(c) \/ FinalizeSettlement(c)
        PROVE  TypeOK'
    BY <2>2, ChallengeTypeStep
  <2>3. ASSUME NEW c \in Challenges, CoverageStep(c) PROVE TypeOK'
    BY <2>3, CoverageTypeStep
  <2>4. ASSUME NEW c \in Challenges, SettleStep(c) PROVE TypeOK'
    BY <2>4, SettleTypeStep
  <2>5. ASSUME NEW c \in Challenges, NEW n \in Cycles, CycleStep(c, n) \/ CycleFaultStep(c, n)
        PROVE  TypeOK'
    BY <2>5, CycleTypeStep
  <2>6. ASSUME NEW c \in Challenges,
               \/ \E k \in Keys : InitWithdrawalCounter(c, k)
               \/ \E n \in Cycles : FinalizeFundedWithdrawal(c, n)
        PROVE  TypeOK'
    BY <2>6, CounterTypeStep
  <2>7. CASE UNCHANGED vars
    BY <2>7 DEF vars, TypeOK
  <2> QED
    BY <2>1, <2>2, <2>3, <2>4, <2>5, <2>6, <2>7 DEF Next
<1> QED
  BY InitTypeOK, <1>1, PTL DEF Spec

----------------------------------------------------------------------------
(* The inductive invariant of one settlement.  status, settlement and      *)
(* window_end move together; owed is only ever positive for a passed claim *)
(* of a funded account.                                                    *)
WindowMarksProposal(c) ==
    /\ challenge[c].settlement = "Unsettled" => challenge[c].window_end = 0
    /\ challenge[c].settlement = "Provisional" =>
          challenge[c].status = "Active" /\ challenge[c].window_end > 0

FinalIsLate(c) ==
    challenge[c].settlement = "Final" /\ challenge[c].window_end > 0 =>
        now > challenge[c].window_end

OwedIsFunded(c) ==
    challenge[c].owed > 0 =>
        /\ Phase[c] = "Funded"
        /\ challenge[c].window_end > 0 => challenge[c].claim.passed

SettlementInvAt(c) == WindowMarksProposal(c) /\ FinalIsLate(c) /\ OwedIsFunded(c)
SettlementInv == \A c \in Challenges : SettlementInvAt(c)

(* The cycle counter points at the only withdrawal that can be undecided.  *)
OnlyOpenCycleUndecided ==
    \A c \in Challenges, n \in Cycles :
        withdrawal[c][n].status = "Provisional" => counter[c].cycle = n

(* The table of roots keeps its shape.                                     *)
RootTable ==
    /\ batchRoot = [e \in Epochs |-> batchRoot[e]]
    /\ \A e \in Epochs : batchRoot[e] # NoRoot => batchRoot[e].trade_count \in Nat

----------------------------------------------------------------------------
(* The evidence of a settlement moves while the challenge does not.        *)
LEMMA CoverageStepFrame ==
    ASSUME NEW c \in Challenges, CoverageStep(c)
    PROVE  UNCHANGED <<challenge, withdrawalVars, batchVars, keeper>>
BY DEF CoverageStep, InitSettlementCoverage, AddCoverageEpoch, AddCoverageEpochSupplemental,
       CommitSupplementalSegment

(* Withdrawals never touch a challenge.                                    *)
LEMMA CycleFrame ==
    ASSUME NEW c \in Challenges,
           \/ \E k \in Keys : InitWithdrawalCounter(c, k)
           \/ \E n \in Cycles : CycleStep(c, n) \/ CycleFaultStep(c, n) \/ FinalizeFundedWithdrawal(c, n)
    PROVE  UNCHANGED <<challengeVars, batchVars, keeper>>
<1>1. ASSUME NEW n \in Cycles, CycleFaultStep(c, n) PROVE UNCHANGED <<challengeVars, batchVars, keeper>>
  BY <1>1, CycleFaultsOut DEF WithdrawalFaultOut
<1> QED
  BY <1>1 DEF CycleStep, InitWithdrawalCounter, InitWithdrawalCoverage, AddWithdrawalCoverageEpoch,
       AddWithdrawalCoverageEpochSupplemental, ProposeFundedWithdrawal, FinalizeFundedWithdrawal

(* Ticks, batches and rotations leave the challenge accounts alone.         *)
LEMMA SystemFrame ==
    ASSUME TickStep \/ BatchStep \/ RotateStep
    PROVE  UNCHANGED <<challengeVars, withdrawalVars>>
BY DEF TickStep, BatchStep, RotateStep

(* Only a tick moves the clock, only the batch program its roots.          *)
LEMMA ChallengeFrame ==
    ASSUME NEW c \in Challenges,
           MintStep(c) \/ HoldStep(c) \/ SettleStep(c) \/ DisproveStep(c) \/ FinalizeSettlement(c)
    PROVE  UNCHANGED <<supplemental, withdrawalVars, batchVars, keeper>>
<1>1. ASSUME MintStep(c) PROVE UNCHANGED <<supplemental, withdrawalVars, batchVars, keeper>>
  BY <1>1, MintOpens DEF OpenSlot, RepairSettlementAuthority, CloseChallenge
<1>2. ASSUME HoldStep(c) PROVE UNCHANGED <<supplemental, withdrawalVars, batchVars, keeper>>
  BY <1>2 DEF HoldStep, SetIntegrityHold, ProveIntegrityFault
<1>3. ASSUME SettleStep(c) PROVE UNCHANGED <<supplemental, withdrawalVars, batchVars, keeper>>
  BY <1>3 DEF SettleStep, SettleChallenge, ProposeSettlement
<1>4. ASSUME DisproveStep(c) PROVE UNCHANGED <<supplemental, withdrawalVars, batchVars, keeper>>
  BY <1>4, DisproveFaultsOut DEF FaultOut
<1>5. ASSUME FinalizeSettlement(c)
      PROVE  UNCHANGED <<supplemental, withdrawalVars, batchVars, keeper>>
  BY <1>5 DEF FinalizeSettlement
<1> QED
  BY <1>1, <1>2, <1>3, <1>4, <1>5

(* Outside the batch program's own steps its accounts stay put.             *)
LEMMA BatchFrame ==
    ASSUME [Next]_vars
    PROVE  UNCHANGED batchVars \/ TickStep \/ BatchStep
<1>1. ASSUME RotateStep PROVE UNCHANGED batchVars
  BY <1>1 DEF RotateStep, SetRiskEngineAuthority
<1>2. CASE UNCHANGED vars
  BY <1>2 DEF vars, batchVars
<1> QED
  BY <1>1, <1>2, ChallengeFrame, CoverageStepFrame, CycleFrame DEF Next

----------------------------------------------------------------------------
(* The table of roots keeps its domain.                                    *)
LEMMA RootTableStep == RootTable /\ [Next]_vars => RootTable'
<1> SUFFICES ASSUME RootTable, [Next]_vars PROVE RootTable'
  OBVIOUS
<1>1. ASSUME TickStep \/ BatchStep PROVE RootTable'
  <2>1. ASSUME NEW k \in Committers, NEW f \in Epochs, CommitBatchRoot(k, f, ProducerPayload(f))
        PROVE  RootTable'
    BY <2>1 DEF CommitBatchRoot, RootTable
  <2>2. ASSUME UNCHANGED batchRoot PROVE RootTable'
    BY <2>2 DEF RootTable
  <2> QED
    BY <1>1, <2>1, <2>2 DEF TickStep, Tick, BatchStep, SetBatchCommitter
<1>2. ASSUME UNCHANGED batchVars PROVE RootTable'
  BY <1>2 DEF batchVars, RootTable
<1> QED
  BY <1>1, <1>2, BatchFrame

THEOREM RootTableHolds == Spec => []RootTable
<1>1. Init => RootTable
  BY DEF Init, BatchInit, RootTable
<1> QED
  BY <1>1, RootTableStep, PTL DEF Spec

(* A committed root is never rewritten, and none is committed late.        *)
LEMMA RootsSettle ==
    ASSUME TypeOK, RootTable, [Next]_vars, NEW e \in Epochs,
           batchRoot[e] # NoRoot \/ now > EpochEnd(e) + MaxCommitDelay
    PROVE  batchRoot'[e] = batchRoot[e]
<1>1. now \in Int /\ EpochEnd(e) + MaxCommitDelay \in Int
  BY BatchAssumption DEF TypeOK, EpochEnd, EpochStart
<1>2. ASSUME NEW f \in Epochs, CommitWindowOpen(f), RootAbsent(f) PROVE f # e
  BY <1>1, <1>2 DEF CommitWindowOpen, RootAbsent
<1>3. CASE TickStep \/ BatchStep
  BY <1>2, <1>3 DEF TickStep, Tick, BatchStep, SetBatchCommitter, CommitBatchRoot, RootTable
<1>4. CASE UNCHANGED batchVars
  BY <1>4 DEF batchVars
<1> QED
  BY <1>3, <1>4, BatchFrame

(* Evidence is append-only and timely (commit_batch_root's `init` and its  *)
(* clock constraint), whatever else happens in the system.                 *)
THEOREM EvidenceIsSettled == Spec => EvidenceSettles
<1>1. TypeOK /\ RootTable /\ [Next]_vars =>
        [\A e \in Epochs :
           (batchRoot[e] # NoRoot \/ now > EpochEnd(e) + MaxCommitDelay)
              => batchRoot'[e] = batchRoot[e]]_batchVars
  BY RootsSettle
<1> QED
  BY <1>1, RootTableHolds, TypeCorrect, PTL DEF Spec, EvidenceSettles

----------------------------------------------------------------------------
(* Where the clock stands still, a challenge that an action leaves alone   *)
(* keeps its invariant.                                                    *)
LEMMA SettlementInvElsewhere ==
    ASSUME SettlementInv, now' = now, NEW c \in Challenges, SettlementInvAt(c)',
           \A d \in Challenges \ {c} : challenge'[d] = challenge[d]
    PROVE  SettlementInv'
BY DEF SettlementInv, SettlementInvAt, WindowMarksProposal, FinalIsLate, OwedIsFunded

(* Every step of the system keeps the settlement invariant.                 *)
LEMMA SettlementInvInductive == TypeOK /\ SettlementInv /\ [Next]_vars => SettlementInv'
<1> SUFFICES ASSUME TypeOK, SettlementInv, [Next]_vars PROVE SettlementInv'
  OBVIOUS
<1> USE DEF SettlementInvAt, WindowMarksProposal, FinalIsLate, OwedIsFunded
<1>1. ASSUME UNCHANGED challenge, now' \in Nat, now' >= now PROVE SettlementInv'
  BY <1>1, BatchAssumption DEF SettlementInv, TypeOK, ChallengeType
<1>2. ASSUME TickStep PROVE SettlementInv'
  BY <1>1, <1>2, BatchAssumption DEF TickStep, Tick, TypeOK, challengeVars
<1>3. ASSUME BatchStep \/ RotateStep \/ UNCHANGED vars PROVE SettlementInv'
  BY <1>1, <1>3, BatchAssumption DEF BatchStep, SetBatchCommitter, CommitBatchRoot, RotateStep,
       SetRiskEngineAuthority, batchVars, challengeVars, vars, TypeOK
<1>4. ASSUME NEW c \in Challenges,
             \/ CoverageStep(c)
             \/ \E k \in Keys : InitWithdrawalCounter(c, k)
             \/ \E n \in Cycles : CycleStep(c, n) \/ CycleFaultStep(c, n) \/ FinalizeFundedWithdrawal(c, n)
      PROVE  SettlementInv'
  BY <1>1, <1>4, CoverageStepFrame, CycleFrame, BatchAssumption DEF batchVars, challengeVars, TypeOK
<1>5. ASSUME NEW c \in Challenges,
             MintStep(c) \/ HoldStep(c) \/ SettleStep(c) \/ DisproveStep(c) \/ FinalizeSettlement(c)
      PROVE  SettlementInv'
  <2>1. now' = now /\ now \in Nat /\ challenge[c] \in ChallengeType /\ SettlementInvAt(c)
        /\ challenge \in [Challenges -> ChallengeType]
    BY <1>5, ChallengeFrame, BatchAssumption DEF batchVars, TypeOK, SettlementInv
  <2>2. ASSUME NEW a, OpenSlot(c, a) PROVE SettlementInv'
    <3>1. SettlementInvAt(c)'
      BY <2>1, <2>2 DEF OpenSlot, InitChallengeState, NoChallenge
    <3> QED
      BY <2>1, <2>2, <3>1, SettlementInvElsewhere DEF OpenSlot
  <2>3. ASSUME NEW k \in Keys, RepairSettlementAuthority(c, k) PROVE SettlementInv'
    <3>1. SettlementInvAt(c)'
      BY <2>1, <2>3 DEF RepairSettlementAuthority, ChallengeType
    <3> QED
      BY <2>1, <2>3, <3>1, SettlementInvElsewhere DEF RepairSettlementAuthority
  <2>4. ASSUME CloseChallenge(c) PROVE SettlementInv'
    <3>1. SettlementInvAt(c)'
      BY <2>1, <2>4 DEF CloseChallenge, NoChallenge
    <3> QED
      BY <2>1, <2>4, <3>1, SettlementInvElsewhere DEF CloseChallenge
  <2>5. ASSUME HoldStep(c) PROVE SettlementInv'
    <3>1. SettlementInvAt(c)'
      BY <2>1, <2>5 DEF HoldStep, SetIntegrityHold, ProveIntegrityFault, ChallengeType
    <3> QED
      BY <2>1, <2>5, <3>1, SettlementInvElsewhere DEF HoldStep, SetIntegrityHold, ProveIntegrityFault
  <2>6. ASSUME NEW k \in Keys, NEW owed \in {0, 1}, NEW passed \in BOOLEAN,
               SettleChallenge(c, k, passed, owed)
        PROVE  SettlementInv'
    <3>1. SettlementInvAt(c)'
      BY <2>1, <2>6 DEF SettleChallenge, NotProposed, PayoutAllowed, ChallengeType
    <3> QED
      BY <2>1, <2>6, <3>1, SettlementInvElsewhere DEF SettleChallenge
  <2>7. ASSUME NEW k \in Keys, NEW owed \in {0, 1}, NEW withCounter \in BOOLEAN, NEW claim,
               ProposeSettlement(c, k, claim, owed, withCounter)
        PROVE  SettlementInv'
    <3>1. now + ChallengeWindow \in Nat \ {0}
      BY <2>1, ChallengeAssumption
    <3>2. SettlementInvAt(c)'
      BY <2>1, <2>7, <3>1 DEF ProposeSettlement, NotProposed, PayoutAllowed, ChallengeType
    <3> QED
      BY <2>1, <2>7, <3>2, SettlementInvElsewhere DEF ProposeSettlement
  <2>8. ASSUME NEW w \in Challengers, FaultOut(c, w) PROVE SettlementInv'
    <3>1. SettlementInvAt(c)'
      BY <2>1, <2>8 DEF FaultOut, ChallengeType
    <3> QED
      BY <2>1, <2>8, <3>1, SettlementInvElsewhere DEF FaultOut
  <2>9. ASSUME FinalizeSettlement(c) PROVE SettlementInv'
    <3>1. SettlementInvAt(c)'
      BY <2>1, <2>9 DEF FinalizeSettlement, WindowOver, ChallengeType
    <3> QED
      BY <2>1, <2>9, <3>1, SettlementInvElsewhere DEF FinalizeSettlement
  <2> QED
    BY <1>5, <2>2, <2>3, <2>4, <2>5, <2>6, <2>7, <2>8, <2>9, MintOpens, DisproveFaultsOut
    DEF SettleStep
<1> QED
  BY <1>2, <1>3, <1>4, <1>5 DEF Next

(* The settlement invariant holds in every reachable state.                 *)
THEOREM SettlementInvHolds == Spec => []SettlementInv
<1>1. Init => SettlementInv
  BY DEF Init, SettlementInit, NoChallenge, SettlementInv, SettlementInvAt,
         WindowMarksProposal, FinalIsLate, OwedIsFunded
<1> QED
  BY <1>1, SettlementInvInductive, TypeCorrect, PTL DEF Spec

(* What the firm's settlement gate lets through is a passed claim of a     *)
(* funded account that stood for its whole window.                         *)
THEOREM PaymentsWaited == Spec => []PayableOnlyAfterWindow
<1>1. TypeOK /\ SettlementInv => PayableOnlyAfterWindow
  BY DEF SettlementInv, SettlementInvAt, PayableOnlyAfterWindow, SettlementPayable,
         SettlementAuthorised, FinalIsLate, OwedIsFunded
<1> QED
  BY <1>1, SettlementInvHolds, TypeCorrect, PTL

----------------------------------------------------------------------------
(* What an open window is bound to cannot be rewritten under it.           *)
SettlementBound(c) ==
    SettlementStands(c) =>
        /\ coverage[c].stage = "Finalized"
        /\ coverage[c].covered = challenge[c].claim.transcript.len - 1
CycleBound(c, n) ==
    withdrawal[c][n].status \in {"Provisional", "Final"} =>
        /\ wcoverage[c][n].stage = "Finalized"
        /\ wcoverage[c][n].covered = withdrawal[c][n].transcript.len - 1

(* CoverageIsBound, split in its settlement and its cycle part.             *)
LEMMA BoundParts ==
    CoverageIsBound <=>
        \A c \in Challenges : SettlementBound(c) /\ \A n \in Cycles : CycleBound(c, n)
BY DEF CoverageIsBound, SettlementBound, CycleBound, Standing

(* No step unbinds a proposed settlement from its coverage.                 *)
LEMMA SettlementBoundStep ==
    ASSUME TypeOK, SettlementInv, CoverageIsBound, [Next]_vars, NEW d \in Challenges
    PROVE  SettlementBound(d)'
<1> USE DEF SettlementBound, SettlementStands
<1>1. /\ SettlementBound(d) /\ SettlementInvAt(d)
      /\ challenge \in [Challenges -> ChallengeType] /\ coverage \in [Challenges -> CoverageType]
  BY BoundParts DEF SettlementInv, TypeOK
<1>2. ASSUME UNCHANGED <<challenge, coverage>> PROVE SettlementBound(d)'
  BY <1>1, <1>2
<1>3. ASSUME TickStep \/ BatchStep \/ RotateStep \/ UNCHANGED vars PROVE SettlementBound(d)'
  BY <1>2, <1>3, SystemFrame DEF challengeVars, vars
<1>4. ASSUME NEW c \in Challenges,
             \/ \E k \in Keys : InitWithdrawalCounter(c, k)
             \/ \E n \in Cycles : CycleStep(c, n) \/ CycleFaultStep(c, n) \/ FinalizeFundedWithdrawal(c, n)
      PROVE  SettlementBound(d)'
  BY <1>2, <1>4, CycleFrame DEF challengeVars
<1>5. ASSUME NEW c \in Challenges, CoverageStep(c) PROVE SettlementBound(d)'
  <2>1. coverage[d].stage = "Finalized" => coverage'[d] = coverage[d]
    BY <1>1, <1>5 DEF CoverageStep, InitSettlementCoverage, AddCoverageEpoch,
         AddCoverageEpochSupplemental, CommitSupplementalSegment, Appendable
  <2> QED
    BY <1>1, <1>5, <2>1, CoverageStepFrame
<1>6. ASSUME NEW c \in Challenges, MintStep(c) PROVE SettlementBound(d)'
  <2>1. ASSUME NEW a, OpenSlot(c, a) PROVE SettlementBound(d)'
    BY <1>1, <2>1 DEF OpenSlot, InitChallengeState, NoChallenge
  <2>2. ASSUME NEW k \in Keys, RepairSettlementAuthority(c, k) PROVE SettlementBound(d)'
    BY <1>1, <2>2 DEF RepairSettlementAuthority, ChallengeType
  <2>3. ASSUME CloseChallenge(c) PROVE SettlementBound(d)'
    BY <1>1, <2>3 DEF CloseChallenge, NoChallenge
  <2> QED
    BY <1>6, <2>1, <2>2, <2>3, MintOpens
<1>7. ASSUME NEW c \in Challenges, HoldStep(c) PROVE SettlementBound(d)'
  BY <1>1, <1>7 DEF HoldStep, SetIntegrityHold, ProveIntegrityFault, ChallengeType
<1>8. ASSUME NEW c \in Challenges, SettleStep(c) PROVE SettlementBound(d)'
  <2>1. ASSUME NEW k \in Keys, NEW owed \in {0, 1}, NEW passed \in BOOLEAN,
               SettleChallenge(c, k, passed, owed)
        PROVE  SettlementBound(d)'
    BY <1>1, <2>1 DEF SettleChallenge, NotProposed, SettlementInv, SettlementInvAt, WindowMarksProposal
  <2>2. ASSUME NEW k \in Keys, NEW owed \in {0, 1}, NEW withCounter \in BOOLEAN, NEW claim,
               ProposeSettlement(c, k, claim, owed, withCounter)
        PROVE  SettlementBound(d)'
    <3>1. FinalizeCoverage(coverage[c]).stage = "Finalized"
          /\ FinalizeCoverage(coverage[c]).covered = coverage[c].covered
      BY <1>1 DEF FinalizeCoverage, CoverageType
    <3> QED
      BY <1>1, <2>2, <3>1 DEF ProposeSettlement, CountBound
  <2> QED
    BY <1>8, <2>1, <2>2 DEF SettleStep
<1>9. ASSUME NEW c \in Challenges, DisproveStep(c) PROVE SettlementBound(d)'
  <2>1. ASSUME NEW w \in Challengers, FaultOut(c, w) PROVE SettlementBound(d)'
    BY <1>1, <2>1 DEF FaultOut, ChallengeType
  <2> QED
    BY <1>9, <2>1, DisproveFaultsOut
<1>10. ASSUME NEW c \in Challenges, FinalizeSettlement(c) PROVE SettlementBound(d)'
  BY <1>1, <1>10 DEF FinalizeSettlement, WindowOver
<1> QED
  BY <1>3, <1>4, <1>5, <1>6, <1>7, <1>8, <1>9, <1>10 DEF Next

(* No step unbinds a proposed withdrawal from its coverage.                 *)
LEMMA CycleBoundStep ==
    ASSUME TypeOK, CoverageIsBound, [Next]_vars, NEW d \in Challenges, NEW m \in Cycles
    PROVE  CycleBound(d, m)'
<1> USE DEF CycleBound
<1>1. /\ CycleBound(d, m)
      /\ withdrawal \in [Challenges -> [Cycles -> WithdrawalType]]
      /\ wcoverage \in [Challenges -> [Cycles -> CoverageType]]
  BY BoundParts DEF TypeOK
<1>2. ASSUME UNCHANGED <<withdrawal, wcoverage>> PROVE CycleBound(d, m)'
  BY <1>1, <1>2
<1>3. ASSUME TickStep \/ BatchStep \/ RotateStep \/ UNCHANGED vars PROVE CycleBound(d, m)'
  BY <1>2, <1>3, SystemFrame DEF withdrawalVars, vars
<1>4. ASSUME NEW c \in Challenges,
             \/ MintStep(c) \/ HoldStep(c) \/ CoverageStep(c) \/ SettleStep(c) \/ DisproveStep(c)
             \/ FinalizeSettlement(c)
      PROVE  CycleBound(d, m)'
  BY <1>2, <1>4, ChallengeFrame, CoverageStepFrame DEF withdrawalVars
<1>5. ASSUME NEW c \in Challenges, NEW k \in Keys, InitWithdrawalCounter(c, k)
      PROVE  CycleBound(d, m)'
  BY <1>2, <1>5 DEF InitWithdrawalCounter
<1>6. ASSUME NEW c \in Challenges, NEW n \in Cycles, CycleStep(c, n) PROVE CycleBound(d, m)'
  <2>1. ASSUME NEW k \in Keys, NEW t, NEW gross, NEW tier, ProposeFundedWithdrawal(c, k, n, t, gross, tier)
        PROVE  CycleBound(d, m)'
    <3>1. FinalizeCoverage(wcoverage[c][n]).stage = "Finalized"
          /\ FinalizeCoverage(wcoverage[c][n]).covered = wcoverage[c][n].covered
      BY <1>1 DEF FinalizeCoverage, CoverageType
    <3> QED
      BY <1>1, <2>1, <3>1 DEF ProposeFundedWithdrawal
  <2>2. ASSUME UNCHANGED withdrawal,
               wcoverage[d][m].stage = "Finalized" => wcoverage'[d][m] = wcoverage[d][m]
        PROVE  CycleBound(d, m)'
    BY <1>1, <2>2
  <2> QED
    BY <1>1, <1>6, <2>1, <2>2 DEF CycleStep, InitWithdrawalCoverage, AddWithdrawalCoverageEpoch,
       AddWithdrawalCoverageEpochSupplemental, Appendable
<1>7. ASSUME NEW c \in Challenges, NEW n \in Cycles, CycleFaultStep(c, n) PROVE CycleBound(d, m)'
  <2>1. /\ UNCHANGED wcoverage
        /\ withdrawal' = [withdrawal EXCEPT ![c][n] = [@ EXCEPT !.status = "Faulted", !.gross = 0]]
    BY <1>7, CycleFaultsOut DEF WithdrawalFaultOut
  <2>2. CASE c = d /\ n = m
    <3>1. withdrawal'[d][m].status = "Faulted"
      BY <1>1, <2>1, <2>2 DEF WithdrawalType
    <3> QED
      BY <3>1
  <2>3. CASE c # d \/ n # m
    <3>1. withdrawal'[d][m] = withdrawal[d][m]
      BY <1>1, <2>1, <2>3
    <3> QED
      BY <1>1, <2>1, <3>1
  <2> QED
    BY <2>2, <2>3
<1>8. ASSUME NEW c \in Challenges, NEW n \in Cycles, FinalizeFundedWithdrawal(c, n)
      PROVE  CycleBound(d, m)'
  BY <1>1, <1>8 DEF FinalizeFundedWithdrawal, CycleOver, WithdrawalType
<1> QED
  BY <1>3, <1>4, <1>5, <1>6, <1>7, <1>8 DEF Next

(* The coverage a claim was bound to is the coverage it is judged by.      *)
THEOREM CoverageStaysBound == Spec => []CoverageIsBound
<1>1. Init => CoverageIsBound
  BY BoundParts DEF Init, SettlementInit, WithdrawalInit, NoChallenge, NoWithdrawal,
     SettlementBound, SettlementStands, CycleBound
<1>2. TypeOK /\ SettlementInv /\ CoverageIsBound /\ [Next]_vars => CoverageIsBound'
  <2> SUFFICES ASSUME TypeOK, SettlementInv, CoverageIsBound, [Next]_vars PROVE CoverageIsBound'
    OBVIOUS
  <2>1. \A c \in Challenges : SettlementBound(c)' /\ \A n \in Cycles : CycleBound(c, n)'
    BY SettlementBoundStep, CycleBoundStep
  <2> QED
    BY <2>1 DEF CoverageIsBound, SettlementBound, CycleBound, Standing
<1> QED
  BY <1>1, <1>2, TypeCorrect, SettlementInvHolds, PTL DEF Spec

----------------------------------------------------------------------------
(* A withdrawal is decided before its counter moves, and a settlement is   *)
(* not proposed against an open withdrawal nor the other way round.        *)
UndecidedInv == OnlyOpenCycleUndecided /\ ClaimsDoNotRace

(* A fault proof moves no counter and opens no provisional withdrawal.      *)
LEMMA CycleStatusStep ==
    ASSUME TypeOK, NEW c \in Challenges, NEW n \in Cycles, CycleFaultStep(c, n)
    PROVE  /\ UNCHANGED <<counter, challenge>>
           /\ \A d \in Challenges, m \in Cycles :
                 withdrawal'[d][m].status = "Provisional" => withdrawal[d][m].status = "Provisional"
<1>1. /\ UNCHANGED <<counter, challenge>>
      /\ withdrawal' = [withdrawal EXCEPT ![c][n] = [@ EXCEPT !.status = "Faulted", !.gross = 0]]
  BY CycleFaultsOut DEF WithdrawalFaultOut, challengeVars
<1>2. withdrawal \in [Challenges -> [Cycles -> WithdrawalType]]
  BY DEF TypeOK
<1>3. ASSUME NEW d \in Challenges, NEW m \in Cycles, c # d \/ n # m
      PROVE  withdrawal'[d][m] = withdrawal[d][m]
  BY <1>1, <1>2, <1>3
<1>4. withdrawal'[c][n].status = "Faulted"
  BY <1>1, <1>2 DEF WithdrawalType
<1> QED
  BY <1>1, <1>3, <1>4

(* With the counter supplied, every step keeps UndecidedInv.                *)
LEMMA UndecidedStep ==
    ASSUME "Keeper" \notin MayOmit, TypeOK, UndecidedInv, [Next]_vars
    PROVE  UndecidedInv'
<1> USE DEF UndecidedInv, OnlyOpenCycleUndecided, ClaimsDoNotRace
<1>1. /\ challenge \in [Challenges -> ChallengeType]
      /\ counter \in [Challenges -> [cycle: -1..MaxCycles, cumulative: Nat]]
      /\ withdrawal \in [Challenges -> [Cycles -> WithdrawalType]]
      /\ \A n \in Cycles : n \in Nat
  BY DEF TypeOK, Cycles
<1>2. ASSUME UNCHANGED <<counter, withdrawal>>,
             \A d \in Challenges :
                challenge'[d].settlement = "Provisional" => challenge[d].settlement = "Provisional"
      PROVE  UndecidedInv'
  BY <1>2
<1>3. ASSUME TickStep \/ BatchStep \/ RotateStep \/ UNCHANGED vars PROVE UndecidedInv'
  BY <1>2, <1>3, SystemFrame DEF challengeVars, withdrawalVars, vars
<1>4. ASSUME NEW c \in Challenges, CoverageStep(c) PROVE UndecidedInv'
  BY <1>2, <1>4, CoverageStepFrame DEF withdrawalVars
<1>5. ASSUME NEW c \in Challenges, MintStep(c) \/ HoldStep(c) \/ DisproveStep(c) \/ FinalizeSettlement(c)
      PROVE  UndecidedInv'
  <2>1. UNCHANGED <<counter, withdrawal>>
    BY <1>5, ChallengeFrame DEF withdrawalVars
  <2>2. ASSUME NEW a, OpenSlot(c, a) PROVE UndecidedInv'
    BY <1>1, <1>2, <2>1, <2>2 DEF OpenSlot, InitChallengeState, NoChallenge
  <2>3. ASSUME NEW k \in Keys, RepairSettlementAuthority(c, k) PROVE UndecidedInv'
    BY <1>1, <1>2, <2>1, <2>3 DEF RepairSettlementAuthority, ChallengeType
  <2>4. ASSUME CloseChallenge(c) PROVE UndecidedInv'
    BY <1>1, <1>2, <2>1, <2>4 DEF CloseChallenge, NoChallenge
  <2>5. ASSUME HoldStep(c) PROVE UndecidedInv'
    BY <1>1, <1>2, <2>1, <2>5 DEF HoldStep, SetIntegrityHold, ProveIntegrityFault, ChallengeType
  <2>6. ASSUME NEW w \in Challengers, FaultOut(c, w) PROVE UndecidedInv'
    BY <1>1, <1>2, <2>1, <2>6 DEF FaultOut, ChallengeType
  <2>7. ASSUME FinalizeSettlement(c) PROVE UndecidedInv'
    BY <1>1, <1>2, <2>1, <2>7 DEF FinalizeSettlement, ChallengeType
  <2> QED
    BY <1>5, <2>2, <2>3, <2>4, <2>5, <2>6, <2>7, MintOpens, DisproveFaultsOut
<1>6. ASSUME NEW c \in Challenges, SettleStep(c) PROVE UndecidedInv'
  <2>1. UNCHANGED <<counter, withdrawal>>
    BY <1>6, ChallengeFrame DEF withdrawalVars
  <2>2. ASSUME NEW k \in Keys, NEW owed \in {0, 1}, NEW passed \in BOOLEAN,
               SettleChallenge(c, k, passed, owed)
        PROVE  UndecidedInv'
    BY <1>1, <1>2, <2>1, <2>2 DEF SettleChallenge, ChallengeType
  <2>3. ASSUME NEW k \in Keys, NEW owed \in {0, 1}, NEW withCounter \in BOOLEAN, NEW claim,
               ProposeSettlement(c, k, claim, owed, withCounter)
        PROVE  UndecidedInv'
    <3>1. \A n \in Cycles : withdrawal[c][n].status # "Provisional"
      BY <1>1, <2>3 DEF ProposeSettlement, SuppliesCounter, OpenCycleSettled
    <3>2. \A d \in Challenges : d # c => challenge'[d] = challenge[d]
      BY <1>1, <2>3 DEF ProposeSettlement
    <3> QED
      BY <2>1, <3>1, <3>2
  <2> QED
    BY <1>6, <2>2, <2>3 DEF SettleStep
<1>7. ASSUME NEW c \in Challenges, NEW k \in Keys, InitWithdrawalCounter(c, k) PROVE UndecidedInv'
  BY <1>1, <1>7 DEF InitWithdrawalCounter, NoCounter, challengeVars
<1>8. ASSUME NEW c \in Challenges, NEW n \in Cycles, CycleStep(c, n) PROVE UndecidedInv'
  <2>1. UNCHANGED <<counter, challenge>>
    BY <1>8 DEF CycleStep, InitWithdrawalCoverage, AddWithdrawalCoverageEpoch,
       AddWithdrawalCoverageEpochSupplemental, ProposeFundedWithdrawal, challengeVars
  <2>2. ASSUME NEW k \in Keys, NEW t, NEW gross, NEW tier, ProposeFundedWithdrawal(c, k, n, t, gross, tier)
        PROVE  UndecidedInv'
    <3>1. \A d \in Challenges, m \in Cycles : (d # c \/ m # n) => withdrawal'[d][m] = withdrawal[d][m]
      BY <1>1, <2>2 DEF ProposeFundedWithdrawal
    <3>2. counter[c].cycle = n /\ challenge[c].settlement # "Provisional"
      BY <2>2 DEF ProposeFundedWithdrawal, NotSettling
    <3> QED
      BY <2>1, <3>1, <3>2
  <2> QED
    BY <1>8, <1>2, <2>1, <2>2 DEF CycleStep, InitWithdrawalCoverage, AddWithdrawalCoverageEpoch,
       AddWithdrawalCoverageEpochSupplemental
<1>9. ASSUME NEW c \in Challenges, NEW n \in Cycles, CycleFaultStep(c, n) PROVE UndecidedInv'
  BY <1>9, CycleStatusStep
<1>10. ASSUME NEW c \in Challenges, NEW n \in Cycles, FinalizeFundedWithdrawal(c, n)
       PROVE  UndecidedInv'
  BY <1>1, <1>10 DEF FinalizeFundedWithdrawal, WithdrawalType, challengeVars
<1> QED
  BY <1>3, <1>4, <1>5, <1>6, <1>7, <1>8, <1>9, <1>10 DEF Next

(* Provided that the keeper hands in the withdrawal counter when there is  *)
(* one, a settlement and a withdrawal are never both open.                 *)
THEOREM ClaimsNeverRace == "Keeper" \notin MayOmit /\ Spec => []ClaimsDoNotRace
<1>1. Init => UndecidedInv
  BY DEF Init, SettlementInit, WithdrawalInit, NoWithdrawal, NoChallenge, UndecidedInv,
         OnlyOpenCycleUndecided, ClaimsDoNotRace
<1>2. "Keeper" \notin MayOmit => (TypeOK /\ UndecidedInv /\ [Next]_vars => UndecidedInv')
  BY UndecidedStep
<1>3. UndecidedInv => ClaimsDoNotRace
  BY DEF UndecidedInv
<1>4. CASE "Keeper" \notin MayOmit
  BY <1>1, <1>2, <1>3, <1>4, TypeCorrect, PTL DEF Spec
<1>5. CASE "Keeper" \in MayOmit
  BY <1>5
<1> QED
  BY <1>4, <1>5

----------------------------------------------------------------------------
(* A keeper rotation never strands a challenge of the live keeper.         *)
THEOREM RotationIsGraceful == Spec => RotationKeepsCurrentBound
<1>1. TypeOK /\ [Next]_vars =>
        [\A c \in Challenges :
            Exists(c) /\ Exists(c)' /\ challenge[c].authority = keeper.current
                => KeeperBound(challenge[c].authority)']_vars
  <2> SUFFICES ASSUME TypeOK, Next, NEW d \in Challenges, Exists(d), Exists(d)',
                      challenge[d].authority = keeper.current
               PROVE  KeeperBound(challenge[d].authority)'
    OBVIOUS
  <2> USE DEF KeeperBound, Exists
  <2>1. /\ challenge \in [Challenges -> ChallengeType] /\ keeper \in KeeperType /\ now \in Nat
    BY BatchAssumption DEF TypeOK
  <2>2. ASSUME UNCHANGED keeper, challenge'[d].authority = challenge[d].authority
        PROVE  KeeperBound(challenge[d].authority)'
    BY <2>2
  <2>3. CASE TickStep \/ BatchStep
    BY <2>2, <2>3 DEF TickStep, BatchStep, challengeVars
  <2>4. CASE RotateStep
    BY <2>1, <2>4, FirmAuthorityAssumption
    DEF RotateStep, SetRiskEngineAuthority, Rotated, KeeperType, batchVars, challengeVars
  <2>5. ASSUME NEW c \in Challenges,
               MintStep(c) \/ HoldStep(c) \/ SettleStep(c) \/ DisproveStep(c) \/ FinalizeSettlement(c)
        PROVE  KeeperBound(challenge[d].authority)'
    <3>1. UNCHANGED keeper
      BY <2>5, ChallengeFrame
    <3>2. ASSUME NEW a, OpenSlot(c, a) PROVE KeeperBound(challenge[d].authority)'
      BY <2>1, <2>2, <3>1, <3>2 DEF OpenSlot
    <3>3. ASSUME NEW k \in Keys, RepairSettlementAuthority(c, k) PROVE KeeperBound(challenge[d].authority)'
      BY <2>1, <2>2, <3>1, <3>3 DEF RepairSettlementAuthority, ChallengeType
    <3>4. ASSUME CloseChallenge(c) PROVE KeeperBound(challenge[d].authority)'
      BY <2>1, <2>2, <3>1, <3>4 DEF CloseChallenge, NoChallenge
    <3>5. CASE HoldStep(c)
      BY <2>1, <2>2, <3>1, <3>5 DEF HoldStep, SetIntegrityHold, ProveIntegrityFault, ChallengeType
    <3>6. CASE SettleStep(c)
      <4>1. ASSUME NEW k \in Keys, NEW owed \in {0, 1}, NEW passed \in BOOLEAN,
                   SettleChallenge(c, k, passed, owed)
            PROVE  challenge'[d].authority = challenge[d].authority
        BY <2>1, <4>1 DEF SettleChallenge, ChallengeType
      <4>2. ASSUME NEW k \in Keys, NEW owed \in {0, 1}, NEW withCounter \in BOOLEAN, NEW claim,
                   ProposeSettlement(c, k, claim, owed, withCounter)
            PROVE  challenge'[d].authority = challenge[d].authority
        BY <2>1, <4>2 DEF ProposeSettlement, ChallengeType
      <4> QED
        BY <2>2, <3>1, <3>6, <4>1, <4>2 DEF SettleStep
    <3>7. ASSUME NEW w \in Challengers, FaultOut(c, w) PROVE KeeperBound(challenge[d].authority)'
      BY <2>1, <2>2, <3>1, <3>7 DEF FaultOut, ChallengeType
    <3>8. CASE FinalizeSettlement(c)
      BY <2>1, <2>2, <3>1, <3>8 DEF FinalizeSettlement, ChallengeType
    <3> QED
      BY <2>5, <3>2, <3>3, <3>4, <3>5, <3>6, <3>7, <3>8, MintOpens, DisproveFaultsOut
  <2>6. ASSUME NEW c \in Challenges,
               \/ CoverageStep(c)
               \/ \E k \in Keys : InitWithdrawalCounter(c, k)
               \/ \E n \in Cycles : CycleStep(c, n) \/ CycleFaultStep(c, n) \/ FinalizeFundedWithdrawal(c, n)
        PROVE  KeeperBound(challenge[d].authority)'
    BY <2>2, <2>6, CoverageStepFrame, CycleFrame DEF challengeVars
  <2> QED
    BY <2>3, <2>4, <2>5, <2>6 DEF Next
<1> QED
  BY <1>1, TypeCorrect, PTL DEF Spec, RotationKeepsCurrentBound
=============================================================================
