------------------------------ MODULE ClaimProofs ------------------------------
(***************************************************************************)
(* Theorems about the claims of ChallengeProgram, for every number of      *)
(* challenges, epochs and cycles: settlements and withdrawals implement    *)
(* the optimistic claim, the coverage of a claim is made of distinct fills *)
(* of its own account, every false claim over it can be refuted, and what  *)
(* is withdrawn over the cycles is paid once and was earned.               *)
(***************************************************************************)
EXTENDS ChallengeProofs, SumsProofs

----------------------------------------------------------------------------
(* Settlements implement the optimistic claim.  A slot that holds no       *)
(* account holds no settlement either.                                     *)
VacantSlots == \A c \in Challenges : ~ Exists(c) => challenge[c].settlement = "Unsettled"

(* What one step may do to the claim of a settlement slot.                 *)
SlotKept(c) ==
    SettlementPhase(c)' = SettlementPhase(c) /\ challenge'[c].window_end = challenge[c].window_end
SlotProposed(c) ==
    /\ SettlementPhase(c) = "None" /\ SettlementPhase(c)' = "Pending"
    /\ challenge'[c].window_end > now
SlotDecided(c) ==
    /\ SettlementPhase(c) = "Pending" /\ challenge'[c].window_end = challenge[c].window_end
    /\ \/ SettlementPhase(c)' = "Refuted" /\ now <= challenge[c].window_end
       \/ SettlementPhase(c)' = "Upheld" /\ now > challenge[c].window_end
SlotGivenBack(c) ==
    /\ SettlementPhase(c) \in {"Upheld", "Refuted"} /\ SettlementPhase(c)' = "None"
    /\ challenge'[c].window_end = 0

(* Each instruction of the settlement path does one of these.              *)
LEMMA SettlementSlotStep ==
    ASSUME TypeOK, SettlementInv, VacantSlots, NEW c \in Challenges,
           MintStep(c) \/ HoldStep(c) \/ SettleStep(c) \/ DisproveStep(c) \/ FinalizeSettlement(c)
    PROVE  /\ now' = now
           /\ \A d \in Challenges : d # c => challenge'[d] = challenge[d]
           /\ challenge'[c].status = "None" => challenge'[c].settlement = "Unsettled"
           /\ SlotKept(c) \/ SlotProposed(c) \/ SlotDecided(c) \/ SlotGivenBack(c)
<1> USE DEF SlotKept, SlotProposed, SlotDecided, SlotGivenBack, SettlementPhase
<1>1. /\ challenge \in [Challenges -> ChallengeType] /\ challenge[c] \in ChallengeType
      /\ challenge[c].window_end \in Nat /\ now \in Nat
      /\ challenge[c].status = "None" => challenge[c].settlement = "Unsettled"
      /\ challenge[c].settlement = "Unsettled" => challenge[c].window_end = 0
      /\ challenge[c].settlement = "Provisional" =>
            challenge[c].status = "Active" /\ challenge[c].window_end > 0
  BY BatchAssumption DEF TypeOK, ChallengeType, VacantSlots, Exists, SettlementInv,
     SettlementInvAt, WindowMarksProposal
<1>2. now' = now
  BY ChallengeFrame DEF batchVars
<1> DEFINE Others == \A d \in Challenges : d # c => challenge'[d] = challenge[d]
           Vacant == challenge'[c].status = "None" => challenge'[c].settlement = "Unsettled"
           Moved == SlotKept(c) \/ SlotProposed(c) \/ SlotDecided(c) \/ SlotGivenBack(c)
<1>3. ASSUME NEW a, OpenSlot(c, a) PROVE Others /\ Vacant /\ Moved
  BY <1>1, <1>3 DEF OpenSlot, Exists, InitChallengeState, NoChallenge
<1>4. ASSUME NEW k \in Keys, RepairSettlementAuthority(c, k) PROVE Others /\ Vacant /\ Moved
  BY <1>1, <1>4 DEF RepairSettlementAuthority, Exists, ChallengeType
<1>5. ASSUME CloseChallenge(c) PROVE Others /\ Vacant /\ Moved
  BY <1>1, <1>5 DEF CloseChallenge, NoChallenge, ChallengeType
<1>6. ASSUME HoldStep(c) PROVE Others /\ Vacant /\ Moved
  BY <1>1, <1>6 DEF HoldStep, SetIntegrityHold, ProveIntegrityFault, ChallengeType
<1>7. ASSUME NEW k \in Keys, NEW owed \in {0, 1}, NEW passed \in BOOLEAN,
             SettleChallenge(c, k, passed, owed)
      PROVE  Others /\ Vacant /\ Moved
  BY <1>1, <1>7 DEF SettleChallenge, NotProposed, ChallengeType
<1>8. ASSUME NEW k \in Keys, NEW owed \in {0, 1}, NEW withCounter \in BOOLEAN, NEW claim,
             ProposeSettlement(c, k, claim, owed, withCounter)
      PROVE  Others /\ Vacant /\ Moved
  <2>1. now + ChallengeWindow > now
    BY <1>1, ChallengeAssumption
  <2> QED
    BY <1>1, <1>8, <2>1 DEF ProposeSettlement, NotProposed, ChallengeType
<1>9. ASSUME NEW w \in Challengers, InWindow(c), FaultOut(c, w) PROVE Others /\ Vacant /\ Moved
  BY <1>1, <1>9 DEF FaultOut, InWindow, ChallengeType
<1>10. ASSUME FinalizeSettlement(c) PROVE Others /\ Vacant /\ Moved
  BY <1>1, <1>10 DEF FinalizeSettlement, WindowOver, ChallengeType
<1> HIDE DEF Others, Vacant, Moved
<1>11. Others /\ Vacant /\ Moved
  BY <1>3, <1>4, <1>5, <1>6, <1>7, <1>8, <1>9, <1>10, MintOpens, DisproveFaultsOut DEF SettleStep
<1> QED
  BY <1>2, <1>11 DEF Others, Vacant, Moved

(* No other instruction touches a challenge; only the clock's tick is a    *)
(* step of the abstract claim.                                             *)
LEMMA OtherStepsKeepClaims ==
    ASSUME [Next]_vars
    PROVE  \/ UNCHANGED <<challenge, now>>
           \/ UNCHANGED challenge /\ now' = now + 1
           \/ \E c \in Challenges :
                 MintStep(c) \/ HoldStep(c) \/ SettleStep(c) \/ DisproveStep(c) \/ FinalizeSettlement(c)
<1>1. ASSUME NEW c \in Challenges,
             \/ CoverageStep(c)
             \/ \E k \in Keys : InitWithdrawalCounter(c, k)
             \/ \E n \in Cycles : CycleStep(c, n) \/ CycleFaultStep(c, n) \/ FinalizeFundedWithdrawal(c, n)
      PROVE  UNCHANGED <<challenge, now>>
  BY <1>1, CoverageStepFrame, CycleFrame DEF challengeVars, batchVars
<1>2. ASSUME TickStep PROVE UNCHANGED challenge /\ now' = now + 1
  BY <1>2 DEF TickStep, Tick, challengeVars
<1>3. ASSUME BatchStep \/ RotateStep \/ UNCHANGED vars PROVE UNCHANGED <<challenge, now>>
  BY <1>3 DEF BatchStep, SetBatchCommitter, CommitBatchRoot, RotateStep, SetRiskEngineAuthority,
     batchVars, challengeVars, vars
<1> QED
  BY <1>1, <1>2, <1>3 DEF Next

LEMMA VacantStep == TypeOK /\ SettlementInv /\ VacantSlots /\ [Next]_vars => VacantSlots'
<1> SUFFICES ASSUME TypeOK, SettlementInv, VacantSlots, [Next]_vars PROVE VacantSlots'
  OBVIOUS
<1>1. CASE UNCHANGED challenge
  BY <1>1 DEF VacantSlots, Exists
<1>2. ASSUME NEW c \in Challenges,
             MintStep(c) \/ HoldStep(c) \/ SettleStep(c) \/ DisproveStep(c) \/ FinalizeSettlement(c)
      PROVE  VacantSlots'
  BY <1>2, SettlementSlotStep DEF VacantSlots, Exists
<1> QED
  BY <1>1, <1>2, OtherStepsKeepClaims

(* Every step of the program is a step of the claims or leaves them alone. *)
LEMMA SettlementSimulation ==
    TypeOK /\ SettlementInv /\ VacantSlots /\ [Next]_vars
        => [SettlementClaim!Next]_(SettlementClaim!claimVars)
<1> SUFFICES ASSUME TypeOK, SettlementInv, VacantSlots, [Next]_vars
             PROVE  SettlementClaim!Next \/ UNCHANGED SettlementClaim!claimVars
  OBVIOUS
<1>1. CASE UNCHANGED <<challenge, now>>
  BY <1>1 DEF SettlementClaim!claimVars, SettlementPhase
<1>2. CASE UNCHANGED challenge /\ now' = now + 1
  BY <1>2 DEF SettlementClaim!Next, SettlementClaim!Advance, SettlementPhase
<1>3. ASSUME NEW c \in Challenges,
             MintStep(c) \/ HoldStep(c) \/ SettleStep(c) \/ DisproveStep(c) \/ FinalizeSettlement(c)
      PROVE  SettlementClaim!Next \/ UNCHANGED SettlementClaim!claimVars
  <2> DEFINE phase == [d \in Challenges |-> SettlementPhase(d)]
             deadline == [d \in Challenges |-> challenge[d].window_end]
  <2>1. /\ now' = now
        /\ SlotKept(c) \/ SlotProposed(c) \/ SlotDecided(c) \/ SlotGivenBack(c)
    BY <1>3, SettlementSlotStep
  <2>2. \A d \in Challenges : d # c => /\ SettlementPhase(d)' = SettlementPhase(d)
                                       /\ challenge'[d].window_end = challenge[d].window_end
    BY <1>3, SettlementSlotStep DEF SettlementPhase
  <2>3. /\ phase' = [phase EXCEPT ![c] = SettlementPhase(c)']
        /\ deadline' = [deadline EXCEPT ![c] = challenge'[c].window_end]
        /\ phase[c] = SettlementPhase(c) /\ deadline[c] = challenge[c].window_end
        /\ deadline'[c] = challenge'[c].window_end
    BY <2>2
  <2>4. CASE SlotKept(c)
    <3>1. phase' = phase /\ deadline' = deadline
      BY <2>3, <2>4 DEF SlotKept
    <3> QED
      BY <2>1, <3>1 DEF SettlementClaim!claimVars
  <2>5. CASE SlotProposed(c)
    <3>1. SettlementClaim!Propose(c)
      BY <2>1, <2>3, <2>5 DEF SlotProposed, SettlementClaim!Propose
    <3> QED
      BY <3>1 DEF SettlementClaim!Next
  <2>6. CASE SlotDecided(c)
    <3>1. deadline' = deadline
      BY <2>3, <2>6 DEF SlotDecided
    <3>2. SettlementClaim!Refute(c) \/ SettlementClaim!Uphold(c)
      BY <2>1, <2>3, <2>6, <3>1 DEF SlotDecided, SettlementClaim!Refute, SettlementClaim!Uphold
    <3> QED
      BY <3>2 DEF SettlementClaim!Next
  <2>7. CASE SlotGivenBack(c)
    <3>1. SettlementClaim!GiveBack(c)
      BY <2>1, <2>3, <2>7 DEF SlotGivenBack, SettlementClaim!GiveBack
    <3> QED
      BY <3>1 DEF SettlementClaim!Next
  <2> QED
    BY <2>1, <2>4, <2>5, <2>6, <2>7
<1> QED
  BY <1>1, <1>2, <1>3, OtherStepsKeepClaims

(* A settlement is refuted only inside its window and upheld only after    *)
(* it, and its verdict stands while the account exists                     *)
(* (propose_settlement, the five prove_*_fault, finalize_settlement,       *)
(* close_challenge): the settlement path implements OptimisticClaim.       *)
THEOREM SettlementsAreClaims == Spec => SettlementIsOptimistic
<1>1. Init => SettlementClaim!Init
  BY DEF Init, BatchInit, SettlementInit, NoChallenge, SettlementClaim!Init, SettlementPhase
<1>2. Init => VacantSlots
  BY DEF Init, SettlementInit, NoChallenge, VacantSlots
<1> QED
  BY <1>1, <1>2, VacantStep, SettlementSimulation, TypeCorrect, SettlementInvHolds, PTL
  DEF Spec, SettlementIsOptimistic, SettlementClaim!Spec

----------------------------------------------------------------------------
(* Withdrawals implement the optimistic claim too.                         *)
CycleKept(c, n) ==
    /\ withdrawal'[c][n].status = withdrawal[c][n].status
    /\ withdrawal'[c][n].window_end = withdrawal[c][n].window_end
CycleProposed(c, n) ==
    /\ withdrawal[c][n].status = "None" /\ withdrawal'[c][n].status = "Provisional"
    /\ withdrawal'[c][n].window_end > now
CycleDecided(c, n) ==
    /\ withdrawal[c][n].status = "Provisional"
    /\ withdrawal'[c][n].window_end = withdrawal[c][n].window_end
    /\ \/ withdrawal'[c][n].status = "Faulted" /\ now <= withdrawal[c][n].window_end
       \/ withdrawal'[c][n].status = "Final" /\ now > withdrawal[c][n].window_end

(* What one withdrawal instruction may do to the withdrawals.              *)
LEMMA CycleSlotStep ==
    ASSUME TypeOK, NEW c \in Challenges, NEW n \in Cycles,
           CycleStep(c, n) \/ CycleFaultStep(c, n) \/ FinalizeFundedWithdrawal(c, n)
    PROVE  /\ now' = now
           /\ \A d \in Challenges, m \in Cycles :
                 d # c \/ m # n => withdrawal'[d][m] = withdrawal[d][m]
           /\ CycleKept(c, n) \/ CycleProposed(c, n) \/ CycleDecided(c, n)
<1> USE DEF CycleKept, CycleProposed, CycleDecided
<1>1. /\ withdrawal \in [Challenges -> [Cycles -> WithdrawalType]]
      /\ withdrawal[c][n] \in WithdrawalType /\ now \in Nat
  BY BatchAssumption DEF TypeOK
<1>2. now' = now
  BY CycleFrame DEF batchVars
<1>3. ASSUME NEW k \in Keys, NEW t, NEW gross, NEW tier \in Tiers,
             ProposeFundedWithdrawal(c, k, n, t, gross, tier)
      PROVE  /\ CycleProposed(c, n)
             /\ \A d \in Challenges, m \in Cycles :
                   d # c \/ m # n => withdrawal'[d][m] = withdrawal[d][m]
  <2>1. now + WithdrawalWindow[tier] > now
    BY <1>1, ChallengeAssumption
  <2> QED
    BY <1>1, <1>3, <2>1 DEF ProposeFundedWithdrawal, SlotFree
<1>4. ASSUME CycleFaultStep(c, n)
      PROVE  /\ CycleDecided(c, n)
             /\ \A d \in Challenges, m \in Cycles :
                   d # c \/ m # n => withdrawal'[d][m] = withdrawal[d][m]
  <2>1. InCycleWindow(c, n) /\ WithdrawalFaultOut(c, n)
    BY <1>4, CycleFaultsOut
  <2>2. withdrawal'[c][n] = [withdrawal[c][n] EXCEPT !.status = "Faulted", !.gross = 0]
    BY <1>1, <2>1 DEF WithdrawalFaultOut
  <2>3. /\ withdrawal'[c][n].status = "Faulted"
        /\ withdrawal'[c][n].window_end = withdrawal[c][n].window_end
    BY <1>1, <2>2 DEF WithdrawalType
  <2> QED
    BY <1>1, <2>1, <2>3 DEF WithdrawalFaultOut, InCycleWindow
<1>5. ASSUME FinalizeFundedWithdrawal(c, n)
      PROVE  /\ CycleDecided(c, n)
             /\ \A d \in Challenges, m \in Cycles :
                   d # c \/ m # n => withdrawal'[d][m] = withdrawal[d][m]
  BY <1>1, <1>5 DEF FinalizeFundedWithdrawal, CycleOver, WithdrawalType
<1>6. ASSUME UNCHANGED withdrawal
      PROVE  /\ CycleKept(c, n)
             /\ \A d \in Challenges, m \in Cycles :
                   d # c \/ m # n => withdrawal'[d][m] = withdrawal[d][m]
  BY <1>6
<1>7. CASE CycleStep(c, n)
  BY <1>2, <1>3, <1>6, <1>7 DEF CycleStep, InitWithdrawalCoverage, AddWithdrawalCoverageEpoch,
     AddWithdrawalCoverageEpochSupplemental
<1> QED
  BY <1>2, <1>4, <1>5, <1>7

LEMMA OtherStepsKeepWithdrawals ==
    ASSUME [Next]_vars
    PROVE  \/ UNCHANGED <<withdrawal, now>>
           \/ UNCHANGED withdrawal /\ now' = now + 1
           \/ \E c \in Challenges, n \in Cycles :
                 CycleStep(c, n) \/ CycleFaultStep(c, n) \/ FinalizeFundedWithdrawal(c, n)
<1>1. ASSUME NEW c \in Challenges,
             MintStep(c) \/ HoldStep(c) \/ SettleStep(c) \/ DisproveStep(c) \/ FinalizeSettlement(c)
      PROVE  UNCHANGED <<withdrawal, now>>
  BY <1>1, ChallengeFrame DEF withdrawalVars, batchVars
<1>2. ASSUME NEW c \in Challenges, CoverageStep(c) \/ \E k \in Keys : InitWithdrawalCounter(c, k)
      PROVE  UNCHANGED <<withdrawal, now>>
  BY <1>2, CoverageStepFrame DEF InitWithdrawalCounter, withdrawalVars, batchVars
<1>3. ASSUME TickStep PROVE UNCHANGED withdrawal /\ now' = now + 1
  BY <1>3 DEF TickStep, Tick, withdrawalVars
<1>4. ASSUME BatchStep \/ RotateStep \/ UNCHANGED vars PROVE UNCHANGED <<withdrawal, now>>
  BY <1>4 DEF BatchStep, SetBatchCommitter, CommitBatchRoot, RotateStep, SetRiskEngineAuthority,
     batchVars, withdrawalVars, vars
<1> QED
  BY <1>1, <1>2, <1>3, <1>4 DEF Next

LEMMA WithdrawalSimulation ==
    TypeOK /\ [Next]_vars => [WithdrawalClaim!Next]_(WithdrawalClaim!claimVars)
<1> SUFFICES ASSUME TypeOK, [Next]_vars
             PROVE  WithdrawalClaim!Next \/ UNCHANGED WithdrawalClaim!claimVars
  OBVIOUS
<1>1. CASE UNCHANGED <<withdrawal, now>>
  BY <1>1 DEF WithdrawalClaim!claimVars, CyclePhase
<1>2. CASE UNCHANGED withdrawal /\ now' = now + 1
  BY <1>2 DEF WithdrawalClaim!Next, WithdrawalClaim!Advance, CyclePhase
<1>3. ASSUME NEW c \in Challenges, NEW n \in Cycles,
             CycleStep(c, n) \/ CycleFaultStep(c, n) \/ FinalizeFundedWithdrawal(c, n)
      PROVE  WithdrawalClaim!Next \/ UNCHANGED WithdrawalClaim!claimVars
  <2> DEFINE slot == <<c, n>>
             phase == [s \in CycleSlots |-> CyclePhase(s)]
             deadline == [s \in CycleSlots |-> withdrawal[s[1]][s[2]].window_end]
  <2>1. /\ now' = now
        /\ CycleKept(c, n) \/ CycleProposed(c, n) \/ CycleDecided(c, n)
    BY <1>3, CycleSlotStep
  <2>2. \A s \in CycleSlots : s # slot => withdrawal'[s[1]][s[2]] = withdrawal[s[1]][s[2]]
    <3> TAKE s \in CycleSlots
    <3>1. s = <<s[1], s[2]>> /\ s[1] \in Challenges /\ s[2] \in Cycles
      BY DEF CycleSlots
    <3> QED
      BY <1>3, <3>1, CycleSlotStep
  <2>3. slot \in CycleSlots /\ slot[1] = c /\ slot[2] = n
    BY DEF CycleSlots
  <2> HIDE DEF slot
  <2>4. \A s \in CycleSlots : s # slot => CyclePhase(s)' = CyclePhase(s)
    BY <2>2 DEF CyclePhase
  <2>5. /\ phase' = [phase EXCEPT ![slot] = CyclePhase(slot)']
        /\ deadline' = [deadline EXCEPT ![slot] = withdrawal'[c][n].window_end]
        /\ phase[slot] = CyclePhase(slot) /\ deadline[slot] = withdrawal[c][n].window_end
        /\ deadline'[slot] = withdrawal'[c][n].window_end
    BY <2>2, <2>3, <2>4
  <2>6. CASE CycleKept(c, n)
    <3>1. CyclePhase(slot)' = CyclePhase(slot)
      BY <2>3, <2>6 DEF CycleKept, CyclePhase
    <3>2. \A s \in CycleSlots :
             /\ CyclePhase(s)' = CyclePhase(s)
             /\ withdrawal'[s[1]][s[2]].window_end = withdrawal[s[1]][s[2]].window_end
      BY <2>2, <2>3, <2>4, <2>6, <3>1 DEF CycleKept
    <3>3. phase' = phase /\ deadline' = deadline
      BY <3>2
    <3> QED
      BY <2>1, <3>3 DEF WithdrawalClaim!claimVars
  <2>7. CASE CycleProposed(c, n)
    <3>1. CyclePhase(slot) = "None" /\ CyclePhase(slot)' = "Pending"
      BY <2>3, <2>7 DEF CycleProposed, CyclePhase
    <3>2. WithdrawalClaim!Propose(slot)
      BY <2>1, <2>5, <2>7, <3>1 DEF CycleProposed, WithdrawalClaim!Propose
    <3> QED
      BY <2>3, <3>2 DEF WithdrawalClaim!Next
  <2>8. CASE CycleDecided(c, n)
    <3>1. deadline' = deadline
      BY <2>5, <2>8 DEF CycleDecided
    <3>2. /\ CyclePhase(slot) = "Pending"
          /\ \/ CyclePhase(slot)' = "Refuted" /\ now <= withdrawal[c][n].window_end
             \/ CyclePhase(slot)' = "Upheld" /\ now > withdrawal[c][n].window_end
      BY <2>3, <2>8 DEF CycleDecided, CyclePhase
    <3>3. WithdrawalClaim!Refute(slot) \/ WithdrawalClaim!Uphold(slot)
      BY <2>1, <2>5, <3>1, <3>2 DEF WithdrawalClaim!Refute, WithdrawalClaim!Uphold
    <3> QED
      BY <2>3, <3>3 DEF WithdrawalClaim!Next
  <2> QED
    BY <2>1, <2>6, <2>7, <2>8
<1> QED
  BY <1>1, <1>2, <1>3, OtherStepsKeepWithdrawals

(* A withdrawal is refuted only inside its window and paid only after it,  *)
(* its verdict is for ever and its slot is never used again, not even when *)
(* the challenge is closed and bought anew (propose_funded_withdrawal to   *)
(* finalize_funded_withdrawal): withdrawals implement OptimisticClaim.     *)
THEOREM WithdrawalsAreClaims == Spec => WithdrawalIsOptimistic
<1>1. Init => WithdrawalClaim!Init
  <2> SUFFICES ASSUME Init PROVE WithdrawalClaim!Init
    OBVIOUS
  <2>1. now = 0
    BY DEF Init, BatchInit
  <2>2. \A s \in CycleSlots : s[1] \in Challenges /\ s[2] \in Cycles
    BY DEF CycleSlots
  <2>3. \A s \in CycleSlots : /\ withdrawal[s[1]][s[2]].status = "None"
                              /\ withdrawal[s[1]][s[2]].window_end = 0
    BY <2>2 DEF Init, WithdrawalInit, NoWithdrawal
  <2>4. \A s \in CycleSlots : CyclePhase(s) = "None"
    BY <2>3 DEF CyclePhase
  <2> QED
    BY <2>1, <2>3, <2>4 DEF WithdrawalClaim!Init
<1> QED
  BY <1>1, WithdrawalSimulation, TypeCorrect, PTL
  DEF Spec, WithdrawalIsOptimistic, WithdrawalClaim!Spec

----------------------------------------------------------------------------
(* Coverage and the evidence under it.  Contiguous is about the coverage   *)
(* alone: its runs follow each other without a gap, in the order of their  *)
(* epochs, and without a trade there is no profit.  A run that is not      *)
(* supplemental is the account's own run in the hour's root, and lies      *)
(* inside that root.                                                       *)
Contiguous(cov) ==
    /\ \A i \in 0..(cov.covered - 1) : \E k \in DOMAIN cov.entries :
          cov.entries[k].prefix <= i /\ i < cov.entries[k].prefix + cov.entries[k].trade_count
    /\ \A j, k \in DOMAIN cov.entries : j < k => cov.entries[j].epoch < cov.entries[k].epoch
    /\ \A k \in DOMAIN cov.entries : cov.entries[k].epoch <= cov.last_epoch
    /\ cov.covered = 0 => cov.pnl = 0

Runs(cov) == {cov.entries[k] : k \in DOMAIN cov.entries}

RunCommitted(c, run) ==
    \/ Supplemental(c, run)
    \/ /\ OwnSlot(c, run)
       /\ run.base_offset + run.trade_count <= batchRoot[run.epoch].trade_count

NextRun(cov, e, base, count) ==
    [epoch |-> e, prefix |-> cov.covered, trade_count |-> count, base_offset |-> base]

(* What a step may do to a coverage of account c.                          *)
CoverageMoves(c, cov, new) ==
    \/ new = cov
    \/ cov.stage = "Absent" /\ new = OpenCoverage
    \/ new = FinalizeCoverage(cov)
    \/ \E e \in Epochs : \E base, count \in Nat :
          /\ Appendable(cov, e)
          /\ RunCommitted(c, NextRun(cov, e, base, count))
          /\ new = CoverEpoch(cov, c, e, base, count)

EvidenceInv ==
    \A c \in Challenges :
        /\ Contiguous(coverage[c])
        /\ \A run \in Runs(coverage[c]) : RunCommitted(c, run)
        /\ \A n \in Cycles : /\ Contiguous(wcoverage[c][n])
                             /\ \A run \in Runs(wcoverage[c][n]) : RunCommitted(c, run)

----------------------------------------------------------------------------
(* An append adds one run behind the others.                               *)
LEMMA AppendKeepsContiguous ==
    ASSUME NEW cov \in CoverageType, NEW c \in Challenges, NEW e \in Epochs, NEW base \in Nat,
           NEW count \in Nat, Contiguous(cov), Appendable(cov, e)
    PROVE  /\ Contiguous(CoverEpoch(cov, c, e, base, count))
           /\ Runs(CoverEpoch(cov, c, e, base, count)) = Runs(cov) \cup {NextRun(cov, e, base, count)}
<1> DEFINE run == NextRun(cov, e, base, count)
           new == CoverEpoch(cov, c, e, base, count)
           L == Len(cov.entries)
<1>1. /\ cov.entries \in Seq(CoverageEntry) /\ cov.covered \in Nat /\ cov.last_epoch \in Nat
      /\ L \in Nat /\ DOMAIN cov.entries = 1..L /\ e \in Nat
      /\ \A k \in 1..L : cov.entries[k] \in CoverageEntry
  BY BatchAssumption DEF CoverageType
<1>2. run \in CoverageEntry /\ run.epoch = e /\ run.prefix = cov.covered
      /\ run.trade_count = count /\ run.base_offset = base
  BY <1>1 DEF NextRun, CoverageEntry
<1>3. new.entries = Append(cov.entries, run) /\ new.covered = cov.covered + count /\ new.last_epoch = e
  BY DEF CoverEpoch, NextRun, CoverageType
<1>3a. new.covered = 0 => new.pnl = 0
  <2>1. new.pnl = IF count = 0 THEN cov.pnl ELSE cov.pnl + TradePnl[c][e]
    BY DEF CoverEpoch, CoverageType
  <2>2. new.covered = 0 => count = 0 /\ cov.covered = 0
    BY <1>1, <1>3
  <2> QED
    BY <2>1, <2>2 DEF Contiguous
<1> HIDE DEF run, new
<1>4. /\ DOMAIN new.entries = 1..(L + 1) /\ new.entries[L + 1] = run
      /\ \A k \in 1..L : new.entries[k] = cov.entries[k]
  BY <1>1, <1>2, <1>3
<1> HIDE DEF L
<1>5. ASSUME NEW k \in 1..L PROVE cov.entries[k].epoch < e
  <2>1. cov.entries # <<>>
    BY <1>1
  <2>2. cov.entries[k].epoch <= cov.last_epoch /\ cov.last_epoch < e
    BY <1>1, <2>1 DEF Contiguous, Appendable
  <2>3. cov.entries[k].epoch \in Nat
    BY <1>1, BatchAssumption DEF CoverageEntry
  <2> QED
    BY <1>1, <2>2, <2>3
<1>6. ASSUME NEW i \in 0..(new.covered - 1)
      PROVE  \E k \in DOMAIN new.entries :
                new.entries[k].prefix <= i /\ i < new.entries[k].prefix + new.entries[k].trade_count
  <2>1. CASE i < cov.covered
    <3>1. PICK k \in 1..L : cov.entries[k].prefix <= i
                            /\ i < cov.entries[k].prefix + cov.entries[k].trade_count
      BY <1>1, <2>1 DEF Contiguous
    <3> QED
      BY <1>1, <1>4, <3>1
  <2>2. CASE i >= cov.covered
    <3>1. L + 1 \in DOMAIN new.entries
      BY <1>1, <1>4
    <3>2. run.prefix <= i /\ i < run.prefix + run.trade_count
      BY <1>1, <1>2, <1>3, <2>2
    <3> QED
      BY <1>4, <3>1, <3>2
  <2> QED
    BY <1>1, <2>1, <2>2
<1>7. \A j, k \in 1..(L + 1) : j < k => new.entries[j].epoch < new.entries[k].epoch
  <2> SUFFICES ASSUME NEW j \in 1..(L + 1), NEW k \in 1..(L + 1), j < k
               PROVE  new.entries[j].epoch < new.entries[k].epoch
    OBVIOUS
  <2>1. j \in 1..L
    BY <1>1
  <2>2. CASE k = L + 1
    BY <1>2, <1>4, <1>5, <2>1, <2>2
  <2>3. CASE k \in 1..L
    BY <1>1, <1>4, <2>1, <2>3 DEF Contiguous
  <2> QED
    BY <1>1, <2>2, <2>3
<1>8. \A k \in 1..(L + 1) : new.entries[k].epoch <= new.last_epoch
  <2> TAKE k \in 1..(L + 1)
  <2>1. CASE k = L + 1
    BY <1>1, <1>2, <1>3, <1>4, <2>1
  <2>2. CASE k \in 1..L
    <3>1. cov.entries[k].epoch \in Nat
      BY <1>1, <2>2, BatchAssumption DEF CoverageEntry
    <3> QED
      BY <1>1, <1>3, <1>4, <1>5, <2>2, <3>1
  <2> QED
    BY <1>1, <2>1, <2>2
<1>9. Contiguous(new)
  BY <1>4, <1>6, <1>7, <1>8, <1>3a DEF Contiguous
<1>10. Runs(new) = Runs(cov) \cup {run}
  <2>1. 1..(L + 1) = (1..L) \cup {L + 1}
    BY <1>1
  <2> QED
    BY <1>1, <1>4, <2>1 DEF Runs
<1> QED
  BY <1>9, <1>10 DEF new, run

(* Whatever a step does to a coverage, it stays contiguous, and every new  *)
(* run is a committed one.                                                 *)
LEMMA MovesKeepContiguous ==
    ASSUME NEW c \in Challenges, NEW cov \in CoverageType, NEW new, Contiguous(cov),
           CoverageMoves(c, cov, new)
    PROVE  /\ Contiguous(new)
           /\ \A run \in Runs(new) : run \in Runs(cov) \/ RunCommitted(c, run)
           /\ cov.stage = "Finalized" => new = cov
<1>1. CASE cov.stage = "Absent" /\ new = OpenCoverage
  <2>1. new.entries = <<>> /\ new.covered = 0 /\ new.pnl = 0
    BY <1>1 DEF OpenCoverage, NoCoverage
  <2> QED
    BY <1>1, <2>1 DEF Contiguous, Runs
<1>2. CASE new = FinalizeCoverage(cov)
  <2>1. /\ new.entries = cov.entries /\ new.covered = cov.covered /\ new.last_epoch = cov.last_epoch
        /\ new.pnl = cov.pnl
        /\ cov.stage = "Finalized" => new = cov
    BY <1>2 DEF FinalizeCoverage, CoverageType
  <2> QED
    BY <2>1 DEF Contiguous, Runs
<1>3. ASSUME NEW e \in Epochs, NEW base \in Nat, NEW count \in Nat, Appendable(cov, e),
             RunCommitted(c, NextRun(cov, e, base, count)),
             new = CoverEpoch(cov, c, e, base, count)
      PROVE  /\ Contiguous(new)
             /\ \A run \in Runs(new) : run \in Runs(cov) \/ RunCommitted(c, run)
             /\ cov.stage = "Finalized" => new = cov
  BY <1>3, AppendKeepsContiguous DEF Appendable
<1> QED
  BY <1>1, <1>2, <1>3 DEF CoverageMoves

(* The guards of the two kinds of append let only committed runs in.       *)
LEMMA AppendedRunCommitted ==
    ASSUME TypeOK, NEW c \in Challenges, NEW cov, NEW e \in Epochs, NEW base \in Nat, NEW count \in Nat,
           SegmentCommitted(c, e, base, count) \/ supplemental[c][e] > 0
    PROVE  RunCommitted(c, NextRun(cov, e, base, count))
BY DEF SegmentCommitted, RunCommitted, NextRun, OwnSlot, Supplemental

LEMMA SettlementCoverageMoves ==
    ASSUME TypeOK, [Next]_vars, NEW d \in Challenges
    PROVE  CoverageMoves(d, coverage[d], coverage'[d])
<1>1. /\ coverage \in [Challenges -> CoverageType]
      /\ \A e \in Epochs : supplemental[d][e] \in Nat
      /\ \A b \in 0..MaxFills : b \in Nat
  BY ChallengeProgramAssumption DEF TypeOK
<1>2. ASSUME UNCHANGED coverage PROVE CoverageMoves(d, coverage[d], coverage'[d])
  BY <1>2 DEF CoverageMoves
<1>3. CASE TickStep \/ BatchStep \/ RotateStep \/ UNCHANGED vars
  BY <1>2, <1>3, SystemFrame DEF challengeVars, vars
<1>4. ASSUME NEW c \in Challenges,
             \/ \E k \in Keys : InitWithdrawalCounter(c, k)
             \/ \E n \in Cycles : CycleStep(c, n) \/ CycleFaultStep(c, n) \/ FinalizeFundedWithdrawal(c, n)
      PROVE  CoverageMoves(d, coverage[d], coverage'[d])
  BY <1>2, <1>4, CycleFrame DEF challengeVars
<1>5. ASSUME NEW c \in Challenges, MintStep(c) \/ HoldStep(c) \/ DisproveStep(c) \/ FinalizeSettlement(c)
      PROVE  CoverageMoves(d, coverage[d], coverage'[d])
  <2>1. UNCHANGED coverage
    BY <1>5, MintOpens, DisproveFaultsOut DEF OpenSlot, RepairSettlementAuthority, CloseChallenge,
       HoldStep, SetIntegrityHold, ProveIntegrityFault, FaultOut, FinalizeSettlement
  <2> QED
    BY <1>2, <2>1
<1>6. ASSUME NEW c \in Challenges, SettleStep(c) PROVE CoverageMoves(d, coverage[d], coverage'[d])
  BY <1>1, <1>6 DEF SettleStep, SettleChallenge, ProposeSettlement, CoverageMoves
<1>7. ASSUME NEW c \in Challenges, CoverageStep(c) PROVE CoverageMoves(d, coverage[d], coverage'[d])
  <2>1. ASSUME NEW e \in Epochs, NEW base \in Nat, NEW count \in Nat, Appendable(coverage[c], e),
               SegmentCommitted(c, e, base, count) \/ supplemental[c][e] > 0,
               coverage' = [coverage EXCEPT ![c] = CoverEpoch(@, c, e, base, count)]
        PROVE  CoverageMoves(d, coverage[d], coverage'[d])
    <3>1. CASE c = d
      <4>1. RunCommitted(d, NextRun(coverage[d], e, base, count))
        BY <2>1, <3>1, AppendedRunCommitted
      <4>2. coverage'[d] = CoverEpoch(coverage[d], d, e, base, count)
        BY <1>1, <2>1, <3>1
      <4> QED
        BY <2>1, <3>1, <4>1, <4>2 DEF CoverageMoves
    <3>2. CASE c # d
      BY <1>1, <2>1, <3>2 DEF CoverageMoves
    <3> QED
      BY <3>1, <3>2
  <2>2. ASSUME NEW k \in Keys, InitSettlementCoverage(c, k) PROVE CoverageMoves(d, coverage[d], coverage'[d])
    BY <1>1, <2>2 DEF InitSettlementCoverage, CoverageMoves
  <2>3. ASSUME NEW k \in Keys, NEW e \in Epochs, NEW base \in 0..MaxFills, NEW count \in 0..MaxFills,
               AddCoverageEpoch(c, k, e, base, count)
        PROVE  CoverageMoves(d, coverage[d], coverage'[d])
    BY <1>1, <2>1, <2>3 DEF AddCoverageEpoch
  <2>4. ASSUME NEW k \in Keys, NEW e \in Epochs, AddCoverageEpochSupplemental(c, k, e)
        PROVE  CoverageMoves(d, coverage[d], coverage'[d])
    <3>1. supplemental[c][e] \in Nat
      BY DEF TypeOK
    <3> QED
      BY <2>1, <2>4, <3>1 DEF AddCoverageEpochSupplemental
  <2>5. ASSUME NEW k \in Keys, NEW e \in Epochs, NEW count \in SuppCounts,
               CommitSupplementalSegment(c, k, e, count)
        PROVE  CoverageMoves(d, coverage[d], coverage'[d])
    BY <1>2, <2>5 DEF CommitSupplementalSegment
  <2> QED
    BY <1>7, <2>2, <2>3, <2>4, <2>5 DEF CoverageStep
<1> QED
  BY <1>3, <1>4, <1>5, <1>6, <1>7 DEF Next

LEMMA CycleCoverageMoves ==
    ASSUME TypeOK, [Next]_vars, NEW d \in Challenges, NEW m \in Cycles
    PROVE  CoverageMoves(d, wcoverage[d][m], wcoverage'[d][m])
<1> DEFINE Moves == CoverageMoves(d, wcoverage[d][m], wcoverage'[d][m])
<1>1. /\ wcoverage \in [Challenges -> [Cycles -> CoverageType]]
      /\ \A b \in 0..MaxFills : b \in Nat
  BY ChallengeProgramAssumption DEF TypeOK
<1>2. ASSUME wcoverage'[d][m] = wcoverage[d][m] PROVE Moves
  BY <1>2 DEF CoverageMoves
<1>3. CASE TickStep \/ BatchStep \/ RotateStep \/ UNCHANGED vars
  BY <1>2, <1>3, SystemFrame DEF withdrawalVars, vars
<1>4. ASSUME NEW c \in Challenges,
             \/ MintStep(c) \/ HoldStep(c) \/ CoverageStep(c) \/ SettleStep(c) \/ DisproveStep(c)
             \/ FinalizeSettlement(c)
      PROVE  Moves
  BY <1>2, <1>4, ChallengeFrame, CoverageStepFrame DEF withdrawalVars
<1>5. ASSUME NEW c \in Challenges,
             \/ \E k \in Keys : InitWithdrawalCounter(c, k)
             \/ \E n \in Cycles : CycleFaultStep(c, n) \/ FinalizeFundedWithdrawal(c, n)
      PROVE  Moves
  BY <1>2, <1>5, CycleFaultsOut DEF InitWithdrawalCounter, WithdrawalFaultOut, FinalizeFundedWithdrawal
<1>6. ASSUME NEW c \in Challenges, NEW n \in Cycles, c # d \/ n # m, NEW new,
             wcoverage' = [wcoverage EXCEPT ![c][n] = new]
      PROVE  Moves
  BY <1>1, <1>2, <1>6
<1>7. ASSUME NEW new, wcoverage' = [wcoverage EXCEPT ![d][m] = new] PROVE wcoverage'[d][m] = new
  BY <1>1, <1>7
<1>8. ASSUME NEW c \in Challenges, NEW n \in Cycles, CycleStep(c, n) PROVE Moves
  <2>1. ASSUME NEW e \in Epochs, NEW base \in Nat, NEW count \in Nat, Appendable(wcoverage[c][n], e),
               SegmentCommitted(c, e, base, count) \/ supplemental[c][e] > 0,
               wcoverage' = [wcoverage EXCEPT ![c][n] = CoverEpoch(wcoverage[c][n], c, e, base, count)]
        PROVE  Moves
    <3>1. CASE c = d /\ n = m
      <4>1. RunCommitted(d, NextRun(wcoverage[d][m], e, base, count))
        BY <2>1, <3>1, AppendedRunCommitted
      <4>2. wcoverage'[d][m] = CoverEpoch(wcoverage[d][m], d, e, base, count)
        BY <1>7, <2>1, <3>1
      <4> QED
        BY <2>1, <3>1, <4>1, <4>2 DEF CoverageMoves
    <3> QED
      BY <1>6, <2>1, <3>1
  <2>2. ASSUME NEW k \in Keys, InitWithdrawalCoverage(c, k, n) PROVE Moves
    <3>1. CASE c = d /\ n = m
      BY <1>7, <2>2, <3>1 DEF InitWithdrawalCoverage, CoverageMoves
    <3> QED
      BY <1>6, <2>2, <3>1 DEF InitWithdrawalCoverage
  <2>3. ASSUME NEW k \in Keys, NEW e \in Epochs, NEW base \in 0..MaxFills, NEW count \in 0..MaxFills,
               AddWithdrawalCoverageEpoch(c, k, n, e, base, count)
        PROVE  Moves
    <3>1. wcoverage' = [wcoverage EXCEPT ![c][n] = CoverEpoch(wcoverage[c][n], c, e, base, count)]
      BY <2>3 DEF AddWithdrawalCoverageEpoch
    <3> QED
      BY <1>1, <2>1, <2>3, <3>1 DEF AddWithdrawalCoverageEpoch
  <2>4. ASSUME NEW k \in Keys, NEW e \in Epochs, AddWithdrawalCoverageEpochSupplemental(c, k, n, e)
        PROVE  Moves
    <3>1. supplemental[c][e] \in Nat
      BY DEF TypeOK
    <3>2. wcoverage' = [wcoverage EXCEPT ![c][n] =
                           CoverEpoch(wcoverage[c][n], c, e, 0, supplemental[c][e])]
      BY <2>4 DEF AddWithdrawalCoverageEpochSupplemental
    <3> QED
      BY <2>1, <2>4, <3>1, <3>2 DEF AddWithdrawalCoverageEpochSupplemental
  <2>5. ASSUME NEW k \in Keys, NEW t, NEW gross, NEW tier \in Tiers,
               ProposeFundedWithdrawal(c, k, n, t, gross, tier)
        PROVE  Moves
    <3>1. wcoverage' = [wcoverage EXCEPT ![c][n] = FinalizeCoverage(wcoverage[c][n])]
      BY <2>5 DEF ProposeFundedWithdrawal
    <3>2. CASE c = d /\ n = m
      BY <1>7, <3>1, <3>2 DEF CoverageMoves
    <3> QED
      BY <1>6, <3>1, <3>2
  <2> HIDE DEF Moves
  <2> QED
    BY <1>8, <2>2, <2>3, <2>4, <2>5 DEF CycleStep
<1> HIDE DEF Moves
<1> QED
  BY <1>3, <1>4, <1>5, <1>8 DEF Next, Moves

(* Evidence only grows, so a committed run stays one.                      *)
LEMMA SupplementalStays ==
    ASSUME TypeOK, [Next]_vars, NEW d \in Challenges, NEW e \in Epochs
    PROVE  \/ supplemental'[d][e] = supplemental[d][e]
           \/ /\ Exists(d) /\ SupplementalEligible(d, e)
              /\ supplemental[d][e] = 0 /\ supplemental'[d][e] > 0 /\ UNCHANGED batchVars
<1>1. supplemental \in [Challenges -> [Epochs -> Nat]]
  BY DEF TypeOK
<1>2. CASE TickStep \/ BatchStep \/ RotateStep \/ UNCHANGED vars
  BY <1>2, SystemFrame DEF challengeVars, vars
<1>3. ASSUME NEW c \in Challenges,
             \/ \E k \in Keys : InitWithdrawalCounter(c, k)
             \/ \E n \in Cycles : CycleStep(c, n) \/ CycleFaultStep(c, n) \/ FinalizeFundedWithdrawal(c, n)
      PROVE  supplemental' = supplemental
  BY <1>3, CycleFrame DEF challengeVars
<1>4. ASSUME NEW c \in Challenges,
             MintStep(c) \/ HoldStep(c) \/ SettleStep(c) \/ DisproveStep(c) \/ FinalizeSettlement(c)
      PROVE  supplemental' = supplemental
  BY <1>4, ChallengeFrame
<1>5. ASSUME NEW c \in Challenges, CoverageStep(c)
      PROVE  \/ supplemental'[d][e] = supplemental[d][e]
             \/ /\ Exists(d) /\ SupplementalEligible(d, e)
                /\ supplemental[d][e] = 0 /\ supplemental'[d][e] > 0 /\ UNCHANGED batchVars
  <2>1. ASSUME NEW k \in Keys, NEW f \in Epochs, NEW count \in SuppCounts,
               CommitSupplementalSegment(c, k, f, count)
        PROVE  \/ supplemental'[d][e] = supplemental[d][e]
               \/ /\ Exists(d) /\ SupplementalEligible(d, e)
                  /\ supplemental[d][e] = 0 /\ supplemental'[d][e] > 0 /\ UNCHANGED batchVars
    <3>1. CASE c = d /\ f = e
      BY <1>1, <2>1, <3>1 DEF CommitSupplementalSegment, SignedByAuthority
    <3>2. CASE c # d \/ f # e
      BY <1>1, <2>1, <3>2 DEF CommitSupplementalSegment
    <3> QED
      BY <3>1, <3>2
  <2> QED
    BY <1>5, <2>1 DEF CoverageStep, InitSettlementCoverage, AddCoverageEpoch, AddCoverageEpochSupplemental
<1> QED
  BY <1>2, <1>3, <1>4, <1>5 DEF Next

LEMMA RunStaysCommitted ==
    ASSUME TypeOK, RootTable, [Next]_vars, NEW c \in Challenges, NEW run \in CoverageEntry,
           RunCommitted(c, run)
    PROVE  RunCommitted(c, run)'
<1>1. run.epoch \in Epochs
  BY DEF CoverageEntry
<1>2. CASE Supplemental(c, run)
  <2>1. supplemental'[c][run.epoch] > 0
    BY <1>1, <1>2, SupplementalStays DEF Supplemental
  <2> QED
    BY <2>1 DEF RunCommitted, Supplemental
<1>3. CASE ~ Supplemental(c, run)
  <2>1. batchRoot[run.epoch] # NoRoot
    BY <1>3 DEF RunCommitted, OwnSlot
  <2>2. batchRoot'[run.epoch] = batchRoot[run.epoch]
    BY <1>1, <2>1, RootsSettle
  <2> QED
    BY <1>3, <2>2 DEF RunCommitted, OwnSlot
<1> QED
  BY <1>2, <1>3

LEMMA RunsAreEntries == ASSUME NEW cov \in CoverageType PROVE Runs(cov) \subseteq CoverageEntry
BY DEF Runs, CoverageType

LEMMA EvidenceInvStep ==
    TypeOK /\ TypeOK' /\ RootTable /\ EvidenceInv /\ [Next]_vars => EvidenceInv'
<1> SUFFICES ASSUME TypeOK, TypeOK', RootTable, EvidenceInv, [Next]_vars, NEW c \in Challenges
             PROVE  /\ Contiguous(coverage'[c])
                    /\ \A run \in Runs(coverage'[c]) : RunCommitted(c, run)'
                    /\ \A n \in Cycles :
                          /\ Contiguous(wcoverage'[c][n])
                          /\ \A run \in Runs(wcoverage'[c][n]) : RunCommitted(c, run)'
  BY DEF EvidenceInv, Contiguous, Runs
<1>1. /\ coverage[c] \in CoverageType /\ coverage'[c] \in CoverageType
      /\ Contiguous(coverage[c]) /\ \A run \in Runs(coverage[c]) : RunCommitted(c, run)
      /\ CoverageMoves(c, coverage[c], coverage'[c])
  BY SettlementCoverageMoves DEF EvidenceInv, TypeOK
<1>2. ASSUME NEW run \in Runs(coverage'[c]) PROVE RunCommitted(c, run)'
  <2>1. run \in CoverageEntry /\ RunCommitted(c, run)
    BY <1>1, <1>2, MovesKeepContiguous, RunsAreEntries
  <2> QED
    BY <2>1, RunStaysCommitted
<1>3. ASSUME NEW n \in Cycles
      PROVE  /\ Contiguous(wcoverage'[c][n])
             /\ \A run \in Runs(wcoverage'[c][n]) : RunCommitted(c, run)'
  <2>1. /\ wcoverage[c][n] \in CoverageType /\ wcoverage'[c][n] \in CoverageType
        /\ Contiguous(wcoverage[c][n]) /\ \A run \in Runs(wcoverage[c][n]) : RunCommitted(c, run)
        /\ CoverageMoves(c, wcoverage[c][n], wcoverage'[c][n])
    BY CycleCoverageMoves DEF EvidenceInv, TypeOK
  <2>2. ASSUME NEW run \in Runs(wcoverage'[c][n]) PROVE RunCommitted(c, run)'
    <3>1. run \in CoverageEntry /\ RunCommitted(c, run)
      BY <2>1, <2>2, MovesKeepContiguous, RunsAreEntries
    <3> QED
      BY <3>1, RunStaysCommitted
  <2> QED
    BY <2>1, <2>2, MovesKeepContiguous
<1> QED
  BY <1>1, <1>2, <1>3, MovesKeepContiguous

THEOREM EvidenceInvHolds == Spec => []EvidenceInv
<1>1. Contiguous(NoCoverage) /\ Runs(NoCoverage) = {}
  BY DEF Contiguous, Runs, NoCoverage
<1>2. Init => EvidenceInv
  BY <1>1 DEF Init, SettlementInit, WithdrawalInit, EvidenceInv
<1> QED
  BY <1>2, EvidenceInvStep, TypeCorrect, RootTableHolds, PTL DEF Spec

(* Two steps of a contiguous coverage never share a slot: in one run their *)
(* offsets differ, in two runs their epochs do.                            *)
LEMMA ContiguousIsDistinct ==
    ASSUME NEW cov \in CoverageType, Contiguous(cov),
           NEW i \in 0..(cov.covered - 1), NEW j \in 0..(cov.covered - 1), i # j
    PROVE  PositionalSlot(cov, i) # PositionalSlot(cov, j)
<1>1. \A k \in DOMAIN cov.entries : /\ cov.entries[k] \in CoverageEntry
                                    /\ k \in Nat
  BY DEF CoverageType
<1>2. /\ EntryOf(cov, i) \in DOMAIN cov.entries /\ EntryOf(cov, j) \in DOMAIN cov.entries
  BY DEF Contiguous, EntryOf
<1> DEFINE k == EntryOf(cov, i)
           l == EntryOf(cov, j)
<1>3. /\ PositionalSlot(cov, i) =
            <<cov.entries[k].epoch, cov.entries[k].base_offset + (i - cov.entries[k].prefix)>>
      /\ PositionalSlot(cov, j) =
            <<cov.entries[l].epoch, cov.entries[l].base_offset + (j - cov.entries[l].prefix)>>
  BY DEF PositionalSlot
<1> HIDE DEF k, l
<1>4. CASE k = l
  <2>1. cov.entries[k].base_offset \in Nat /\ cov.entries[k].prefix \in Nat /\ i \in Int /\ j \in Int
    BY <1>1, <1>2 DEF CoverageEntry, k
  <2> QED
    BY <1>3, <1>4, <2>1
<1>5. CASE k # l
  <2>1. k \in DOMAIN cov.entries /\ l \in DOMAIN cov.entries
    BY <1>2 DEF k, l
  <2>2. k < l \/ l < k
    BY <1>1, <1>5, <2>1
  <2>3. cov.entries[k].epoch \in Nat /\ cov.entries[l].epoch \in Nat
    BY <1>1, <2>1, BatchAssumption DEF CoverageEntry
  <2>4. cov.entries[k].epoch # cov.entries[l].epoch
    BY <2>1, <2>2, <2>3 DEF Contiguous
  <2> QED
    BY <1>3, <2>4
<1> QED
  BY <1>4, <1>5

(* Each step of a coverage, of a settlement or a withdrawal, has a slot of *)
(* its own in the account's committed run (add_coverage_epoch and its      *)
(* supplemental and withdrawal twins).                                     *)
THEOREM StepsAreOwnFills == Spec => []StepsAreDistinctOwnFills
<1>1. TypeOK /\ EvidenceInv => StepsAreDistinctOwnFills
  <2> SUFFICES ASSUME TypeOK, EvidenceInv, NEW c \in Challenges, NEW cov \in Coverages(c)
               PROVE  /\ Contiguous(cov) /\ cov \in CoverageType
                      /\ \A k \in DOMAIN cov.entries :
                            ~ Supplemental(c, cov.entries[k]) => OwnSlot(c, cov.entries[k])
    BY ContiguousIsDistinct DEF StepsAreDistinctOwnFills, Contiguous
  <2>1. /\ Contiguous(cov) /\ cov \in CoverageType
        /\ \A run \in Runs(cov) : RunCommitted(c, run)
    BY DEF Coverages, EvidenceInv, TypeOK
  <2> QED
    BY <2>1 DEF Runs, RunCommitted
<1> QED
  BY <1>1, EvidenceInvHolds, TypeCorrect, PTL

----------------------------------------------------------------------------
(* An account in an hour's root was purchased before the root, so with a   *)
(* fresh nonce per purchase no later account of the slot is in it.         *)
RootsKnowOnlyThePast ==
    /\ \A c \in Challenges : Exists(c) => c \in used /\ challenge[c].started_at <= now
    /\ \A e \in Epochs, c \in Challenges :
          batchRoot[e] # NoRoot /\ c \in DOMAIN batchRoot[e].segments =>
              /\ c \in used /\ batchRoot[e].committed_at \in Nat
              /\ Exists(c) => challenge[c].started_at <= batchRoot[e].committed_at

(* What a step may do to the existence and the birthday of an account.     *)
LEMMA BirthStep ==
    ASSUME TypeOK, [Next]_vars, NEW d \in Challenges
    PROVE  \/ /\ Exists(d)' => Exists(d) /\ challenge'[d].started_at = challenge[d].started_at
              /\ d \in used => d \in used'
           \/ /\ FreshNonces => d \notin used
              /\ challenge'[d].started_at = now /\ d \in used' /\ UNCHANGED batchVars
<1> USE DEF Exists
<1>1. challenge \in [Challenges -> ChallengeType] /\ challenge[d] \in ChallengeType
  BY DEF TypeOK
<1> DEFINE Kept == /\ Exists(d)' => Exists(d) /\ challenge'[d].started_at = challenge[d].started_at
                   /\ d \in used => d \in used'
           Born == /\ FreshNonces => d \notin used
                   /\ challenge'[d].started_at = now /\ d \in used' /\ UNCHANGED batchVars
<1>2. ASSUME TickStep \/ BatchStep \/ RotateStep \/ UNCHANGED vars PROVE Kept
  <2>1. UNCHANGED <<challenge, used>>
    BY <1>2, SystemFrame DEF challengeVars, vars
  <2> QED
    BY <2>1
<1>3. ASSUME NEW c \in Challenges,
             \/ \E k \in Keys : InitWithdrawalCounter(c, k)
             \/ \E n \in Cycles : CycleStep(c, n) \/ CycleFaultStep(c, n) \/ FinalizeFundedWithdrawal(c, n)
      PROVE  Kept
  BY <1>3, CycleFrame DEF challengeVars
<1>4. ASSUME NEW c \in Challenges, CoverageStep(c) PROVE Kept
  <2>1. UNCHANGED <<challenge, used>>
    BY <1>4, CoverageStepFrame DEF CoverageStep, InitSettlementCoverage, AddCoverageEpoch,
       AddCoverageEpochSupplemental, CommitSupplementalSegment
  <2> QED
    BY <2>1
<1>5. ASSUME NEW c \in Challenges, NEW a, OpenSlot(c, a) PROVE Kept \/ Born
  BY <1>1, <1>5 DEF OpenSlot, InitChallengeState, NoChallenge
<1>6. ASSUME NEW c \in Challenges, NEW k \in Keys, RepairSettlementAuthority(c, k) PROVE Kept
  BY <1>1, <1>6 DEF RepairSettlementAuthority, ChallengeType
<1>7. ASSUME NEW c \in Challenges, CloseChallenge(c) PROVE Kept
  BY <1>1, <1>7 DEF CloseChallenge, NoChallenge
<1>8. ASSUME NEW c \in Challenges, HoldStep(c) PROVE Kept
  BY <1>1, <1>8 DEF HoldStep, SetIntegrityHold, ProveIntegrityFault, ChallengeType
<1>9. ASSUME NEW c \in Challenges, SettleStep(c) PROVE Kept
  <2>1. ASSUME NEW k \in Keys, NEW owed \in {0, 1}, NEW passed \in BOOLEAN,
               SettleChallenge(c, k, passed, owed)
        PROVE  Kept
    BY <1>1, <2>1 DEF SettleChallenge, NotProposed, ChallengeType
  <2>2. ASSUME NEW k \in Keys, NEW owed \in {0, 1}, NEW withCounter \in BOOLEAN, NEW claim,
               ProposeSettlement(c, k, claim, owed, withCounter)
        PROVE  Kept
    BY <1>1, <2>2 DEF ProposeSettlement, NotProposed, ChallengeType
  <2> QED
    BY <1>9, <2>1, <2>2 DEF SettleStep
<1>10. ASSUME NEW c \in Challenges, NEW w \in Challengers, InWindow(c), FaultOut(c, w) PROVE Kept
  BY <1>1, <1>10 DEF FaultOut, InWindow, ChallengeType
<1>11. ASSUME NEW c \in Challenges, FinalizeSettlement(c) PROVE Kept
  BY <1>1, <1>11 DEF FinalizeSettlement, WindowOver, ChallengeType
<1> HIDE DEF Kept, Born
<1>12. ASSUME NEW c \in Challenges, MintStep(c) PROVE Kept \/ Born
  BY <1>5, <1>6, <1>7, <1>12, MintOpens
<1>13. ASSUME NEW c \in Challenges, DisproveStep(c) PROVE Kept
  BY <1>10, <1>13, DisproveFaultsOut
<1>14. Kept \/ Born
  BY <1>2, <1>3, <1>4, <1>8, <1>9, <1>11, <1>12, <1>13 DEF Next
<1> QED
  BY <1>14 DEF Kept, Born

(* What a step may do to the clock and to the root of an hour.             *)
LEMMA RootStep ==
    ASSUME TypeOK, RootTable, [Next]_vars, NEW e \in Epochs
    PROVE  /\ now \in Nat /\ now' \in Nat /\ now <= now'
           /\ \/ batchRoot'[e] = batchRoot[e]
              \/ /\ batchRoot'[e].committed_at = now
                 /\ DOMAIN batchRoot'[e].segments = Traders(e) \cup {OtherOwner}
                 /\ UNCHANGED <<now, challenge, used>>
<1>1. now \in Nat
  BY BatchAssumption DEF TypeOK
<1>2. CASE UNCHANGED batchVars
  BY <1>1, <1>2 DEF batchVars
<1>3. CASE TickStep
  BY <1>1, <1>3 DEF TickStep, Tick
<1>4. CASE BatchStep
  <2>1. ASSUME NEW k \in Committers, NEW f \in Epochs, CommitBatchRoot(k, f, ProducerPayload(f))
        PROVE  \/ batchRoot'[e] = batchRoot[e]
               \/ /\ batchRoot'[e].committed_at = now
                  /\ DOMAIN batchRoot'[e].segments = Traders(e) \cup {OtherOwner}
    <3>1. DOMAIN ProducerPayload(e).segments = Traders(e) \cup {OtherOwner}
      BY DEF ProducerPayload
    <3>2. CASE f = e
      BY <2>1, <3>1, <3>2 DEF CommitBatchRoot, RootTable
    <3>3. CASE f # e
      BY <2>1, <3>3 DEF CommitBatchRoot, RootTable
    <3> QED
      BY <3>2, <3>3
  <2>2. UNCHANGED <<now, challenge, used>>
    BY <1>4 DEF BatchStep, SetBatchCommitter, CommitBatchRoot, challengeVars
  <2> QED
    BY <1>1, <1>4, <2>1, <2>2 DEF BatchStep, SetBatchCommitter
<1> QED
  BY <1>2, <1>3, <1>4, BatchFrame

LEMMA PastStep ==
    FreshNonces /\ TypeOK /\ RootTable /\ RootsKnowOnlyThePast /\ [Next]_vars
        => RootsKnowOnlyThePast'
<1> SUFFICES ASSUME FreshNonces, TypeOK, RootTable, RootsKnowOnlyThePast, [Next]_vars
             PROVE  RootsKnowOnlyThePast'
  OBVIOUS
<1>1. \A c \in Challenges : challenge[c].started_at \in Nat
  BY DEF TypeOK, ChallengeType
<1>2. now \in Nat /\ now' \in Nat /\ now <= now'
  BY BatchAssumption, BatchFrame DEF TypeOK, batchVars, TickStep, Tick, BatchStep, SetBatchCommitter,
     CommitBatchRoot
<1>3. ASSUME NEW c \in Challenges, Exists(c)' PROVE c \in used' /\ challenge'[c].started_at <= now'
  BY <1>1, <1>2, <1>3, BirthStep DEF RootsKnowOnlyThePast
<1>4. ASSUME NEW e \in Epochs, NEW c \in Challenges, batchRoot'[e] # NoRoot,
             c \in DOMAIN batchRoot'[e].segments
      PROVE  /\ c \in used' /\ batchRoot'[e].committed_at \in Nat
             /\ Exists(c)' => challenge'[c].started_at <= batchRoot'[e].committed_at
  <2>1. CASE batchRoot'[e] = batchRoot[e]
    BY <1>4, <2>1, BirthStep DEF RootsKnowOnlyThePast
  <2>2. CASE /\ batchRoot'[e].committed_at = now
             /\ DOMAIN batchRoot'[e].segments = Traders(e) \cup {OtherOwner}
             /\ UNCHANGED <<now, challenge, used>>
    <3>1. c # OtherOwner
      BY ChallengeProgramAssumption
    <3>2. Exists(c)
      BY <1>4, <2>2, <3>1 DEF Traders
    <3> QED
      BY <1>2, <2>2, <3>2 DEF RootsKnowOnlyThePast
  <2> QED
    BY <2>1, <2>2, RootStep
<1> QED
  BY <1>3, <1>4 DEF RootsKnowOnlyThePast

LEMMA AbsentStep ==
    TypeOK /\ RootTable /\ RootsKnowOnlyThePast /\ SupplementalFillsAreAbsentFromRoot /\ [Next]_vars
        => SupplementalFillsAreAbsentFromRoot'
<1> SUFFICES ASSUME TypeOK, RootTable, RootsKnowOnlyThePast, SupplementalFillsAreAbsentFromRoot,
                    [Next]_vars, NEW c \in Challenges, NEW e \in Epochs, supplemental'[c][e] > 0
             PROVE  batchRoot'[e] # NoRoot /\ c \notin DOMAIN batchRoot'[e].segments
  BY DEF SupplementalFillsAreAbsentFromRoot
<1>1. CASE supplemental'[c][e] = supplemental[c][e]
  BY <1>1, RootsSettle DEF SupplementalFillsAreAbsentFromRoot
<1>2. CASE Exists(c) /\ SupplementalEligible(c, e) /\ UNCHANGED batchVars
  <2>1. batchRoot[e] # NoRoot /\ batchRoot'[e] = batchRoot[e]
    BY <1>2 DEF SupplementalEligible, batchVars
  <2>2. ASSUME c \in DOMAIN batchRoot[e].segments PROVE FALSE
    <3>1. /\ challenge[c].started_at <= batchRoot[e].committed_at
          /\ challenge[c].started_at \in Nat /\ batchRoot[e].committed_at \in Nat
      BY <1>2, <2>1, <2>2 DEF RootsKnowOnlyThePast, TypeOK, ChallengeType
    <3>2. challenge[c].started_at > batchRoot[e].committed_at
      BY <1>2 DEF SupplementalEligible
    <3> QED
      BY <3>1, <3>2
  <2> QED
    BY <2>1, <2>2
<1> QED
  BY <1>1, <1>2, SupplementalStays

(* As long as callers pick a fresh nonce per purchase, a supplemental      *)
(* segment never doubles a fill that the hour's root already has           *)
(* (commit_supplemental_segment).                                          *)
THEOREM SupplementsAreNew == FreshNonces /\ Spec => []SupplementalFillsAreAbsentFromRoot
<1>1. Init => RootsKnowOnlyThePast /\ SupplementalFillsAreAbsentFromRoot
  BY DEF Init, BatchInit, SettlementInit, NoChallenge, Exists, RootsKnowOnlyThePast,
     SupplementalFillsAreAbsentFromRoot
<1>2. CASE FreshNonces
  BY <1>1, <1>2, PastStep, AbsentStep, TypeCorrect, RootTableHolds, PTL DEF Spec
<1>3. CASE ~ FreshNonces
  BY <1>3
<1> QED
  BY <1>2, <1>3

----------------------------------------------------------------------------
(* A false replay of primary runs shows, if its commitments agree with     *)
(* each other: in a transition, in a trade or in the position of a trade.  *)
(* Without a covered trade a coherent transcript has no step to lie about; *)
(* with one, the committed run of that trade is what a challenger shows.   *)
FalseReplay(t, cov) ==
    \/ t.steps # Ticks(cov) \/ t.bound # AtTheirSlots(Ticks(cov))
    \/ t.last # t.genesis + cov.pnl

LEMMA FalseReplayShows ==
    ASSUME RootTable, NEW c \in Challenges, NEW cov \in CoverageType, NEW t \in Transcript,
           Contiguous(cov), \A run \in Runs(cov) : RunCommitted(c, run), Primary(c, cov),
           cov.covered = t.len - 1, Coherent(t), FalseReplay(t, cov)
    PROVE  \/ TransitionFault(t, t.genesis, t.last)
           \/ InputProvable(t, c, cov)
           \/ ProvenanceProvable(t, cov)
<1>1. /\ cov.covered \in Nat /\ t.len \in Nat /\ t.genesis \in Int /\ t.last \in Int
      /\ cov.pnl \in Int /\ cov.entries \in Seq(CoverageEntry)
      /\ t.steps \subseteq Int /\ t.bound \subseteq BoundLeaf
  BY DEF CoverageType, Transcript
<1>2. cov.covered > 0 /\ t.steps # {}
  <2>1. ASSUME cov.covered = 0 PROVE FALSE
    <3>1. t.len = 1 /\ cov.pnl = 0
      BY <1>1, <2>1 DEF Contiguous
    <3>2. t.steps = {} /\ t.bound = {} /\ t.last = t.genesis
      BY <3>1 DEF Coherent
    <3>3. Ticks(cov) = {} /\ AtTheirSlots({}) = {}
      BY <2>1 DEF Ticks, AtTheirSlots
    <3> QED
      BY <1>1, <3>1, <3>2, <3>3 DEF FalseReplay
  <2>2. t.len # 1
    BY <1>1, <2>1
  <2> QED
    BY <1>1, <2>1, <2>2 DEF Coherent
<1>3. PICK k \in DOMAIN cov.entries :
         cov.entries[k].prefix <= 0 /\ 0 < cov.entries[k].prefix + cov.entries[k].trade_count
  BY <1>1, <1>2 DEF Contiguous
<1>4. cov.entries[k] \in CoverageEntry /\ cov.entries # <<>>
  BY <1>1, <1>3
<1>5. CommittedSlot(cov.entries[k])
  <2> DEFINE run == cov.entries[k]
  <2>1. run.trade_count > 0 /\ run.base_offset \in Nat /\ run.trade_count \in Nat
    BY <1>3, <1>4 DEF CoverageEntry
  <2>2. OwnSlot(c, run) /\ run.base_offset + run.trade_count <= batchRoot[run.epoch].trade_count
    BY <1>3 DEF Primary, Runs, RunCommitted
  <2>3. batchRoot[run.epoch] # NoRoot
    BY <2>2 DEF OwnSlot
  <2>4. batchRoot[run.epoch].trade_count \in Nat
    BY <1>4, <2>3 DEF RootTable, CoverageEntry
  <2>5. run.base_offset < batchRoot[run.epoch].trade_count
    <3> HIDE DEF run
    <3> QED
      BY <2>1, <2>2, <2>4
  <2> QED
    BY <2>3, <2>5 DEF CommittedSlot
<1>6. ASSUME NEW leaf \in t.bound, ~ leaf.positional PROVE ProvenanceProvable(t, cov)
  BY <1>4, <1>6 DEF ProvenanceProvable
<1>7. ASSUME NEW leaf \in t.bound, leaf.positional, leaf.tick # cov.pnl
      PROVE  InputProvable(t, c, cov)
  BY <1>3, <1>5, <1>7 DEF InputProvable
<1>8. CASE \A leaf \in t.bound : leaf.positional /\ leaf.tick = cov.pnl
  <2>1. t.steps = {cov.pnl}
    BY <1>2, <1>8 DEF Coherent
  <2>2. Ticks(cov) = {cov.pnl}
    BY <1>1, <1>2 DEF Ticks
  <2>3. t.bound = AtTheirSlots({cov.pnl})
    <3>1. t.bound # {}
      BY <1>2 DEF Coherent
    <3>2. \A leaf \in t.bound : leaf = [tick |-> cov.pnl, positional |-> TRUE]
      BY <1>1, <1>8 DEF BoundLeaf
    <3>3. AtTheirSlots({cov.pnl}) = {[tick |-> cov.pnl, positional |-> TRUE]}
      <4>1. ASSUME NEW leaf \in AtTheirSlots({cov.pnl})
            PROVE  leaf = [tick |-> cov.pnl, positional |-> TRUE]
        <5>1. leaf \in [tick: {cov.pnl}, positional: {TRUE}]
          BY DEF AtTheirSlots
        <5>2. /\ leaf = [tick |-> leaf.tick, positional |-> leaf.positional]
              /\ leaf.tick \in {cov.pnl} /\ leaf.positional \in {TRUE}
          BY <5>1
        <5>3. leaf.tick = cov.pnl /\ leaf.positional = TRUE
          BY <5>2
        <5> QED
          BY <5>2, <5>3
      <4>2. [tick |-> cov.pnl, positional |-> TRUE] \in AtTheirSlots({cov.pnl})
        BY DEF AtTheirSlots
      <4> QED
        BY <4>1, <4>2
    <3> QED
      BY <3>1, <3>2, <3>3
  <2>4. t.last # t.genesis + cov.pnl
    BY <2>1, <2>2, <2>3 DEF FalseReplay
  <2> QED
    BY <2>1, <2>4 DEF TransitionFault
<1> QED
  BY <1>6, <1>7, <1>8

----------------------------------------------------------------------------
(* What a step may do to the claim of a settlement: leave it, end it, or   *)
(* propose it anew.                                                        *)
SettlementProposed(c) ==
    \E k \in Keys, owed \in {0, 1}, withCounter \in BOOLEAN :
        \E claim \in Claims(HonestGenesis(c, withCounter), coverage[c]) :
            ProposeSettlement(c, k, claim, owed, withCounter)

LEMMA ClaimStep ==
    ASSUME TypeOK, SettlementInv, [Next]_vars, NEW d \in Challenges
    PROVE  \/ /\ SettlementStands(d)' => SettlementStands(d)
              /\ challenge'[d].settlement = "Provisional" =>
                    /\ challenge[d].settlement = "Provisional"
                    /\ challenge'[d].claim = challenge[d].claim
           \/ SettlementProposed(d)
<1> DEFINE Kept == /\ SettlementStands(d)' => SettlementStands(d)
                   /\ challenge'[d].settlement = "Provisional" =>
                         /\ challenge[d].settlement = "Provisional"
                         /\ challenge'[d].claim = challenge[d].claim
<1> USE DEF SettlementStands
<1>1. challenge \in [Challenges -> ChallengeType] /\ SettlementInvAt(d)
  BY DEF TypeOK, SettlementInv
<1>2. ASSUME UNCHANGED challenge PROVE Kept
  BY <1>2
<1>3. ASSUME NEW c \in Challenges, MintStep(c) PROVE Kept
  <2>1. ASSUME NEW a, OpenSlot(c, a) PROVE Kept
    BY <1>1, <2>1 DEF OpenSlot, InitChallengeState, NoChallenge
  <2>2. ASSUME NEW k \in Keys, RepairSettlementAuthority(c, k) PROVE Kept
    BY <1>1, <2>2 DEF RepairSettlementAuthority, ChallengeType
  <2>3. ASSUME CloseChallenge(c) PROVE Kept
    BY <1>1, <2>3 DEF CloseChallenge, NoChallenge
  <2> QED
    BY <1>3, <2>1, <2>2, <2>3, MintOpens
<1>4. ASSUME NEW c \in Challenges, HoldStep(c) PROVE Kept
  BY <1>1, <1>4 DEF HoldStep, SetIntegrityHold, ProveIntegrityFault, ChallengeType
<1>5. ASSUME NEW c \in Challenges, DisproveStep(c) PROVE Kept
  <2>1. ASSUME NEW w \in Challengers, FaultOut(c, w) PROVE Kept
    BY <1>1, <2>1 DEF FaultOut, ChallengeType
  <2> QED
    BY <1>5, <2>1, DisproveFaultsOut
<1>6. ASSUME NEW c \in Challenges, FinalizeSettlement(c) PROVE Kept
  BY <1>1, <1>6 DEF FinalizeSettlement, WindowOver, ChallengeType
<1>7. ASSUME NEW c \in Challenges, SettleStep(c) PROVE Kept \/ SettlementProposed(d)
  <2>1. ASSUME NEW k \in Keys, NEW owed \in {0, 1}, NEW passed \in BOOLEAN,
               SettleChallenge(c, k, passed, owed)
        PROVE  Kept
    BY <1>1, <2>1 DEF SettleChallenge, NotProposed, SettlementInvAt, WindowMarksProposal, ChallengeType
  <2>2. ASSUME NEW k \in Keys, NEW owed \in {0, 1}, NEW withCounter \in BOOLEAN,
               NEW claim \in Claims(HonestGenesis(c, withCounter), coverage[c]),
               ProposeSettlement(c, k, claim, owed, withCounter)
        PROVE  Kept \/ SettlementProposed(d)
    <3>1. CASE c = d
      BY <2>2, <3>1 DEF SettlementProposed
    <3>2. CASE c # d
      BY <1>1, <2>2, <3>2 DEF ProposeSettlement
    <3> QED
      BY <3>1, <3>2
  <2> HIDE DEF Kept
  <2> QED
    BY <1>7, <2>1, <2>2 DEF SettleStep
<1>8. ASSUME NEW c \in Challenges,
             \/ CoverageStep(c)
             \/ \E k \in Keys : InitWithdrawalCounter(c, k)
             \/ \E n \in Cycles : CycleStep(c, n) \/ CycleFaultStep(c, n) \/ FinalizeFundedWithdrawal(c, n)
      PROVE  Kept
  BY <1>2, <1>8, CoverageStepFrame, CycleFrame DEF challengeVars
<1>9. ASSUME TickStep \/ BatchStep \/ RotateStep \/ UNCHANGED vars PROVE Kept
  BY <1>2, <1>9, SystemFrame DEF challengeVars, vars
<1> HIDE DEF Kept
<1>10. Kept \/ SettlementProposed(d)
  BY <1>3, <1>4, <1>5, <1>6, <1>7, <1>8, <1>9 DEF Next
<1> QED
  BY <1>10 DEF Kept

(* The coverage under a standing claim does not move.                      *)
LEMMA BoundCoverageStays ==
    ASSUME TypeOK, EvidenceInv, CoverageIsBound, [Next]_vars, NEW d \in Challenges
    PROVE  /\ SettlementStands(d) => coverage'[d] = coverage[d]
           /\ \A n \in Standing(d) : wcoverage'[d][n] = wcoverage[d][n]
<1>1. SettlementStands(d) => coverage'[d] = coverage[d]
  BY SettlementCoverageMoves, MovesKeepContiguous DEF TypeOK, EvidenceInv, CoverageIsBound
<1>2. ASSUME NEW n \in Standing(d) PROVE wcoverage'[d][n] = wcoverage[d][n]
  <2>1. n \in Cycles
    BY DEF Standing
  <2>2. /\ wcoverage[d][n] \in CoverageType /\ Contiguous(wcoverage[d][n])
        /\ wcoverage[d][n].stage = "Finalized"
    BY <2>1 DEF TypeOK, EvidenceInv, CoverageIsBound
  <2> QED
    BY <2>1, <2>2, CycleCoverageMoves, MovesKeepContiguous
<1> QED
  BY <1>1, <1>2

(* Every false settlement over primary segments whose commitments agree    *)
(* with each other falls to one of the five fault proofs while its window  *)
(* is open (prove_settlement_fault, prove_result_fault,                    *)
(* prove_genesis_fault, prove_input_fault, prove_provenance_fault).  Of    *)
(* the transcript the proof uses only its type: the theorem does not rest  *)
(* on the lies a keeper of the model chooses from.                         *)
THEOREM LiesAreRefutable == Spec => []LieIsRefutable
<1>1. TypeOK /\ RootTable /\ SettlementInv /\ EvidenceInv /\ CoverageIsBound => LieIsRefutable
  <2> SUFFICES ASSUME TypeOK, RootTable, SettlementInv, EvidenceInv, CoverageIsBound,
                      NEW c \in Challenges,
                      InWindow(c), Primary(c, coverage[c]), ~ FaithfulSettlement(c),
                      Coherent(Committed(c)), Committed(c).final = Committed(c).last
               PROVE  Refutable(c)
    BY DEF LieIsRefutable
  <2> DEFINE t == Committed(c)
  <2>1. challenge[c].settlement = "Provisional" /\ SettlementStands(c)
    BY DEF InWindow, SettlementStands, SettlementInv, SettlementInvAt, WindowMarksProposal
  <2>2. /\ t \in Transcript /\ coverage[c] \in CoverageType /\ coverage[c].covered = t.len - 1
        /\ Contiguous(coverage[c]) /\ \A run \in Runs(coverage[c]) : RunCommitted(c, run)
    BY <2>1 DEF TypeOK, ChallengeType, ClaimType, Committed, CoverageIsBound, EvidenceInv
  <2>3. t = challenge[c].claim.transcript /\ Coherent(t) /\ t.final = t.last
    BY DEF Committed
  <2> HIDE DEF t
  <2>4. CASE t.genesis # TrueGenesis(c)
    BY <2>4 DEF Refutable, TrueGenesis, GenesisFault, t
  <2>5. CASE FalseReplay(t, coverage[c])
    BY <2>2, <2>3, <2>5, FalseReplayShows DEF Refutable, t
  <2>6. CASE t.genesis = TrueGenesis(c) /\ ~ FalseReplay(t, coverage[c])
    <3>1. DeriveOutcome(t.final) # [passed |-> challenge[c].claim.passed,
                                    profit |-> challenge[c].claim.profit]
      BY <2>3, <2>6 DEF FaithfulSettlement, FaithfulReplay, FalseReplay
    <3>2. \/ DeriveOutcome(t.final).passed # challenge[c].claim.passed
          \/ DeriveOutcome(t.final).profit # challenge[c].claim.profit
      BY <3>1 DEF DeriveOutcome
    <3> QED
      BY <2>3, <3>2 DEF Refutable, ResultProvable, Leaves
  <2> QED
    BY <2>4, <2>5, <2>6
<1> QED
  BY <1>1, TypeCorrect, RootTableHolds, SettlementInvHolds, EvidenceInvHolds, CoverageStaysBound, PTL

----------------------------------------------------------------------------
(* The cycles of one account.  Those below the counter are final, those    *)
(* above it not begun; a standing withdrawal opens where the last one      *)
(* ended, takes no more than it ends with, and covers only epochs above    *)
(* the watermark of every withdrawal before it and up to its own.          *)
CycleOrder(c) ==
    \A n \in Cycles :
        /\ n < counter[c].cycle <=> withdrawal[c][n].status = "Final"
        /\ n > counter[c].cycle => withdrawal[c][n].status = "None"

EpochsFollow(c, n) ==
    /\ \A e \in EpochsOf(wcoverage[c][n]) : e <= withdrawal[c][n].watermark
    /\ \A m \in Cycles : m < n =>
          /\ withdrawal[c][m].watermark <= withdrawal[c][n].watermark
          /\ \A e \in EpochsOf(wcoverage[c][n]) : withdrawal[c][m].watermark < e

CycleSound(c, n) ==
    /\ withdrawal[c][n].genesis = CycleGenesis(c, n)
    /\ withdrawal[c][n].gross <= withdrawal[c][n].transcript.final
    /\ EpochsFollow(c, n)

CyclesInv == \A c \in Challenges : CycleOrder(c) /\ \A n \in Standing(c) : CycleSound(c, n)

(* What a step may do to the counter and the withdrawals of an account.    *)
WithdrawalProposed(c, n) ==
    \E k \in Keys, tier \in Tiers :
        \E t \in Transcripts(CycleGenesis(c, n), wcoverage[c][n], CycleLies[n]) :
            \E gross \in 1..t.final : ProposeFundedWithdrawal(c, k, n, t, gross, tier)
CounterOpened(c) ==
    /\ counter[c] = NoCounter /\ counter'[c].cycle = 0 /\ withdrawal'[c] = withdrawal[c]
WithdrawalMoved(c, n) ==
    \/ WithdrawalProposed(c, n)
    \/ InCycleWindow(c, n) /\ WithdrawalFaultOut(c, n)
    \/ FinalizeFundedWithdrawal(c, n)

LEMMA AccountCycleStep ==
    ASSUME TypeOK, [Next]_vars, NEW d \in Challenges
    PROVE  \/ counter'[d] = counter[d] /\ withdrawal'[d] = withdrawal[d]
           \/ CounterOpened(d)
           \/ \E n \in Cycles : WithdrawalMoved(d, n)
<1> DEFINE Kept == counter'[d] = counter[d] /\ withdrawal'[d] = withdrawal[d]
           Moved == \E n \in Cycles : WithdrawalMoved(d, n)
<1> USE DEF WithdrawalMoved
<1>1. /\ counter \in [Challenges -> [cycle: -1..MaxCycles, cumulative: Nat]]
      /\ withdrawal \in [Challenges -> [Cycles -> WithdrawalType]]
  BY DEF TypeOK
<1>2. ASSUME UNCHANGED <<counter, withdrawal>> PROVE Kept
  BY <1>2
<1>3. ASSUME TickStep \/ BatchStep \/ RotateStep \/ UNCHANGED vars PROVE Kept
  BY <1>2, <1>3, SystemFrame DEF withdrawalVars, vars
<1>4. ASSUME NEW c \in Challenges,
             \/ MintStep(c) \/ HoldStep(c) \/ CoverageStep(c) \/ SettleStep(c) \/ DisproveStep(c)
             \/ FinalizeSettlement(c)
      PROVE  Kept
  BY <1>2, <1>4, ChallengeFrame, CoverageStepFrame DEF withdrawalVars
<1>5. ASSUME NEW c \in Challenges, NEW k \in Keys, InitWithdrawalCounter(c, k)
      PROVE  Kept \/ CounterOpened(d)
  BY <1>1, <1>5 DEF InitWithdrawalCounter, CounterOpened
<1>6. ASSUME NEW c \in Challenges, NEW n \in Cycles, CycleFaultStep(c, n) PROVE Kept \/ Moved
  <2>1. InCycleWindow(c, n) /\ WithdrawalFaultOut(c, n)
    BY <1>6, CycleFaultsOut
  <2>2. CASE c = d
    BY <2>1, <2>2
  <2>3. CASE c # d
    BY <1>1, <2>1, <2>3 DEF WithdrawalFaultOut
  <2> QED
    BY <2>2, <2>3
<1>7. ASSUME NEW c \in Challenges, NEW n \in Cycles, FinalizeFundedWithdrawal(c, n) PROVE Kept \/ Moved
  <2>1. CASE c = d
    BY <1>7, <2>1
  <2>2. CASE c # d
    BY <1>1, <1>7, <2>2 DEF FinalizeFundedWithdrawal
  <2> QED
    BY <2>1, <2>2
<1>8. ASSUME NEW c \in Challenges, NEW n \in Cycles, CycleStep(c, n) PROVE Kept \/ Moved
  <2>1. ASSUME NEW k \in Keys, NEW tier \in Tiers,
               NEW t \in Transcripts(CycleGenesis(c, n), wcoverage[c][n], CycleLies[n]),
               NEW gross \in 1..t.final, ProposeFundedWithdrawal(c, k, n, t, gross, tier)
        PROVE  Kept \/ Moved
    <3>1. CASE c = d
      <4>1. WithdrawalProposed(d, n)
        BY <2>1, <3>1 DEF WithdrawalProposed
      <4> QED
        BY <4>1
    <3>2. CASE c # d
      BY <1>1, <2>1, <3>2 DEF ProposeFundedWithdrawal
    <3> QED
      BY <3>1, <3>2
  <2>2. ASSUME UNCHANGED <<counter, withdrawal>> PROVE Kept \/ Moved
    BY <2>2
  <2> HIDE DEF Kept, Moved
  <2> QED
    BY <1>8, <2>1, <2>2 DEF CycleStep, InitWithdrawalCoverage, AddWithdrawalCoverageEpoch,
       AddWithdrawalCoverageEpochSupplemental
<1> HIDE DEF Kept, Moved
<1>9. Kept \/ CounterOpened(d) \/ Moved
  BY <1>3, <1>4, <1>5, <1>6, <1>7, <1>8 DEF Next
<1> QED
  BY <1>9 DEF Kept, Moved

(* The facts about the numbers of cycles.                                  *)
LEMMA CycleNumbers ==
    ASSUME TypeOK, NEW c \in Challenges
    PROVE  /\ counter[c].cycle \in Int /\ -1 <= counter[c].cycle
           /\ \A n \in Cycles : n \in Nat /\ (n # 0 => n - 1 \in Cycles)
BY ChallengeAssumption DEF TypeOK, Cycles

(* The counter names the only cycle that is begun and undecided; all below *)
(* a standing one are final.                                               *)
LEMMA CurrentCycle ==
    ASSUME TypeOK, NEW c \in Challenges, CycleOrder(c), NEW n \in Cycles
    PROVE  /\ withdrawal[c][n].status \notin {"None", "Final"} => counter[c].cycle = n
           /\ withdrawal[c][n].status # "None" => n <= counter[c].cycle
           /\ withdrawal[c][n].status # "None" =>
                 \A m \in Cycles : m < n => withdrawal[c][m].status = "Final"
<1>1. n \in Int /\ counter[c].cycle \in Int /\ \A m \in Cycles : m \in Int
  BY CycleNumbers
<1>2. withdrawal[c][n].status # "None" => n <= counter[c].cycle
  BY <1>1 DEF CycleOrder
<1>3. withdrawal[c][n].status # "Final" => n >= counter[c].cycle
  BY <1>1 DEF CycleOrder
<1>4. ASSUME NEW m \in Cycles, m < n, n <= counter[c].cycle PROVE withdrawal[c][m].status = "Final"
  <2>1. m < counter[c].cycle
    <3>1. m \in Int
      BY <1>1
    <3> QED
      BY <1>1, <1>4, <3>1
  <2> QED
    BY <2>1 DEF CycleOrder
<1> QED
  BY <1>1, <1>2, <1>3, <1>4

(* In the order of the cycles the counter names the one that moves.        *)
LEMMA CycleOrderStep ==
    ASSUME TypeOK, NEW c \in Challenges, CycleOrder(c), [Next]_vars
    PROVE  CycleOrder(c)'
<1> USE DEF CycleOrder
<1>1. /\ counter \in [Challenges -> [cycle: -1..MaxCycles, cumulative: Nat]]
      /\ withdrawal \in [Challenges -> [Cycles -> WithdrawalType]]
      /\ counter[c].cycle \in Int /\ \A n \in Cycles : n \in Nat
  BY CycleNumbers DEF TypeOK
<1>2. CASE counter'[c] = counter[c] /\ withdrawal'[c] = withdrawal[c]
  BY <1>2
<1>3. CASE CounterOpened(c)
  <2>1. counter[c].cycle = -1 /\ counter'[c].cycle = 0
    BY <1>3 DEF CounterOpened, NoCounter
  <2>2. \A n \in Cycles : withdrawal'[c][n].status = "None"
    BY <1>1, <1>3, <2>1 DEF CounterOpened
  <2> QED
    BY <1>1, <2>1, <2>2
<1>4. ASSUME NEW n \in Cycles, WithdrawalProposed(c, n) PROVE CycleOrder(c)'
  <2>1. PICK k, t, gross, tier : ProposeFundedWithdrawal(c, k, n, t, gross, tier)
    BY <1>4 DEF WithdrawalProposed
  <2>2. /\ counter' = counter /\ counter[c].cycle = n
        /\ withdrawal'[c][n].status = "Provisional"
        /\ \A m \in Cycles : m # n => withdrawal'[c][m] = withdrawal[c][m]
    BY <1>1, <2>1 DEF ProposeFundedWithdrawal
  <2> QED
    BY <1>1, <2>2
<1>5. ASSUME NEW n \in Cycles, InCycleWindow(c, n), WithdrawalFaultOut(c, n) PROVE CycleOrder(c)'
  <2>1. /\ counter' = counter /\ withdrawal[c][n].status = "Provisional"
        /\ withdrawal'[c][n].status = "Faulted"
        /\ \A m \in Cycles : m # n => withdrawal'[c][m] = withdrawal[c][m]
    BY <1>1, <1>5 DEF WithdrawalFaultOut, InCycleWindow, WithdrawalType
  <2>2. counter[c].cycle = n
    BY <2>1, CurrentCycle
  <2> QED
    BY <1>1, <2>1, <2>2
<1>6. ASSUME NEW n \in Cycles, FinalizeFundedWithdrawal(c, n) PROVE CycleOrder(c)'
  <2>1. /\ counter[c].cycle = n /\ counter'[c].cycle = n + 1 /\ n \in Nat
        /\ withdrawal'[c][n].status = "Final"
        /\ \A m \in Cycles : m # n => withdrawal'[c][m] = withdrawal[c][m]
    BY <1>1, <1>6 DEF FinalizeFundedWithdrawal, WithdrawalType
  <2>2. ASSUME NEW m \in Cycles, m # n
        PROVE  /\ m < n + 1 <=> withdrawal[c][m].status = "Final"
               /\ m > n + 1 => withdrawal[c][m].status = "None"
    <3>1. m \in Nat
      BY <1>1
    <3>2. (m < n + 1 <=> m < n) /\ (m > n + 1 => m > n)
      BY <2>1, <2>2, <3>1
    <3> QED
      BY <2>1, <3>2
  <2>3. n < n + 1 /\ ~ (n > n + 1)
    BY <2>1
  <2> QED
    BY <2>1, <2>2, <2>3
<1> QED
  BY <1>2, <1>3, <1>4, <1>5, <1>6, AccountCycleStep DEF WithdrawalMoved

----------------------------------------------------------------------------
(* A standing withdrawal was just proposed, or it and those before it keep *)
(* what they say.                                                          *)
SameClaim(w, v) ==
    /\ w.gross = v.gross /\ w.genesis = v.genesis /\ w.transcript = v.transcript
    /\ w.watermark = v.watermark

LEMMA StandingStep ==
    ASSUME TypeOK, EvidenceInv, CoverageIsBound, NEW c \in Challenges, CycleOrder(c), [Next]_vars,
           NEW n \in Cycles, n \in Standing(c)'
    PROVE  \/ WithdrawalProposed(c, n)
           \/ /\ n \in Standing(c) /\ wcoverage'[c][n] = wcoverage[c][n]
              /\ \A m \in Cycles : m <= n => SameClaim(withdrawal'[c][m], withdrawal[c][m])
<1> DEFINE Kept == /\ n \in Standing(c)
                   /\ \A m \in Cycles : m <= n => SameClaim(withdrawal'[c][m], withdrawal[c][m])
<1> USE DEF Standing, SameClaim
<1>1. /\ withdrawal \in [Challenges -> [Cycles -> WithdrawalType]]
      /\ counter[c].cycle \in Int /\ \A m \in Cycles : m \in Nat
  BY CycleNumbers DEF TypeOK
<1>2. ASSUME withdrawal'[c] = withdrawal[c] PROVE Kept
  BY <1>2
<1>3. ASSUME CounterOpened(c) PROVE Kept
  BY <1>3 DEF CounterOpened
<1>4. ASSUME NEW m \in Cycles, WithdrawalProposed(c, m) PROVE WithdrawalProposed(c, n) \/ Kept
  <2>1. PICK k, t, gross, tier : ProposeFundedWithdrawal(c, k, m, t, gross, tier)
    BY <1>4 DEF WithdrawalProposed
  <2>2. /\ counter[c].cycle = m
        /\ \A l \in Cycles : l # m => withdrawal'[c][l] = withdrawal[c][l]
    BY <1>1, <2>1 DEF ProposeFundedWithdrawal
  <2>3. CASE n = m
    BY <1>4, <2>3
  <2>4. CASE n # m
    <3>1. n \in Standing(c)
      BY <2>2, <2>4
    <3>2. n < m
      <4>1. n <= counter[c].cycle
        BY <3>1, CurrentCycle
      <4> QED
        BY <1>1, <2>2, <2>4, <4>1
    <3> QED
      BY <1>1, <2>2, <3>1, <3>2
  <2> QED
    BY <2>3, <2>4
<1>5. ASSUME NEW m \in Cycles, InCycleWindow(c, m), WithdrawalFaultOut(c, m) PROVE Kept
  <2>1. /\ withdrawal[c][m].status = "Provisional" /\ withdrawal'[c][m].status = "Faulted"
        /\ \A l \in Cycles : l # m => withdrawal'[c][l] = withdrawal[c][l]
    BY <1>1, <1>5 DEF WithdrawalFaultOut, InCycleWindow, WithdrawalType
  <2>2. n # m /\ n \in Standing(c)
    BY <2>1
  <2>3. n < m
    <3>1. n <= counter[c].cycle /\ counter[c].cycle = m
      BY <2>1, <2>2, CurrentCycle
    <3> QED
      BY <1>1, <2>2, <3>1
  <2> QED
    BY <1>1, <2>1, <2>2, <2>3
<1>6. ASSUME NEW m \in Cycles, FinalizeFundedWithdrawal(c, m) PROVE Kept
  <2>1. /\ withdrawal[c][m].status = "Provisional" /\ SameClaim(withdrawal'[c][m], withdrawal[c][m])
        /\ \A l \in Cycles : l # m => withdrawal'[c][l] = withdrawal[c][l]
    BY <1>1, <1>6 DEF FinalizeFundedWithdrawal, CycleOver, WithdrawalType
  <2> QED
    BY <2>1
<1>7. WithdrawalProposed(c, n) \/ Kept
  BY <1>2, <1>3, <1>4, <1>5, <1>6, AccountCycleStep DEF WithdrawalMoved
<1> QED
  BY <1>7, BoundCoverageStays

(* The epochs of a contiguous coverage lie between its first and its last. *)
LEMMA EpochsOfContiguous ==
    ASSUME NEW cov \in CoverageType, Contiguous(cov)
    PROVE  /\ cov.last_epoch \in Nat
           /\ cov.entries # <<>> => cov.entries[1].epoch \in EpochsOf(cov)
           /\ \A e \in EpochsOf(cov) :
                 /\ e \in Nat \ {0} /\ e <= cov.last_epoch /\ cov.entries # <<>>
                 /\ cov.entries[1].epoch <= e
<1>1. cov.entries \in Seq(CoverageEntry) /\ cov.last_epoch \in Nat
  BY DEF CoverageType
<1>2. \A i \in DOMAIN cov.entries : cov.entries[i] \in CoverageEntry /\ i \in Nat /\ 1 <= i
  BY <1>1
<1>3. \A i \in DOMAIN cov.entries : cov.entries[i].epoch \in Nat \ {0}
  BY <1>2, BatchAssumption DEF CoverageEntry
<1>4. /\ cov.entries # <<>> => 1 \in DOMAIN cov.entries
      /\ cov.entries = <<>> => DOMAIN cov.entries = {}
  BY <1>1
<1>5. ASSUME NEW i \in DOMAIN cov.entries
      PROVE  /\ cov.entries[i].epoch <= cov.last_epoch /\ cov.entries # <<>>
             /\ cov.entries[1].epoch <= cov.entries[i].epoch
  <2>1. cov.entries # <<>> /\ 1 \in DOMAIN cov.entries
    BY <1>4
  <2>2. i = 1 \/ cov.entries[1].epoch < cov.entries[i].epoch
    BY <1>2, <2>1 DEF Contiguous
  <2> QED
    BY <1>3, <2>1, <2>2 DEF Contiguous
<1> QED
  BY <1>1, <1>3, <1>4, <1>5 DEF EpochsOf

(* A proposal opens where the last withdrawal ended and above its          *)
(* watermark, and therefore above those of all before it.                  *)
LEMMA ProposalIsSound ==
    ASSUME TypeOK, EvidenceInv, NEW c \in Challenges, NEW n \in Cycles,
           CycleOrder(c), \A m \in Standing(c) : CycleSound(c, m), WithdrawalProposed(c, n)
    PROVE  CycleSound(c, n)'
<1>1. /\ withdrawal \in [Challenges -> [Cycles -> WithdrawalType]]
      /\ wcoverage \in [Challenges -> [Cycles -> CoverageType]]
      /\ wcoverage[c][n] \in CoverageType /\ Contiguous(wcoverage[c][n])
      /\ counter[c].cycle \in Int /\ \A m \in Cycles : m \in Nat /\ (m # 0 => m - 1 \in Cycles)
      /\ CycleGenesis(c, n) \in Int
      /\ \A m \in Cycles : withdrawal[c][m].watermark \in Nat
  BY CycleNumbers, GenesisTypes DEF TypeOK, EvidenceInv, WithdrawalType
<1>2. PICK k \in Keys, tier \in Tiers :
             \E t \in Transcripts(CycleGenesis(c, n), wcoverage[c][n], CycleLies[n]) :
                 \E gross \in 1..t.final : ProposeFundedWithdrawal(c, k, n, t, gross, tier)
  BY DEF WithdrawalProposed
<1>3. PICK t \in Transcripts(CycleGenesis(c, n), wcoverage[c][n], CycleLies[n]) :
             \E gross \in 1..t.final : ProposeFundedWithdrawal(c, k, n, t, gross, tier)
  BY <1>2
<1>4. PICK gross \in 1..t.final : ProposeFundedWithdrawal(c, k, n, t, gross, tier)
  BY <1>3
<1>5. /\ withdrawal'[c][n] = [status |-> "Provisional", gross |-> gross, genesis |-> CycleGenesis(c, n),
             transcript |-> t, watermark |-> NextWatermark(c, n),
             window_end |-> now + WithdrawalWindow[tier]]
      /\ \A m \in Cycles : m # n => withdrawal'[c][m] = withdrawal[c][m]
      /\ wcoverage'[c][n] = FinalizeCoverage(wcoverage[c][n])
      /\ counter[c].cycle = n /\ StartsAfterLastCycle(c, n) /\ gross <= t.final
  BY <1>1, <1>4 DEF ProposeFundedWithdrawal
<1>6. /\ wcoverage'[c][n].entries = wcoverage[c][n].entries
      /\ wcoverage'[c][n].covered = wcoverage[c][n].covered /\ wcoverage'[c][n].pnl = wcoverage[c][n].pnl
  BY <1>1, <1>5 DEF FinalizeCoverage, CoverageType
<1>7. CycleGenesis(c, n)' = CycleGenesis(c, n)
  BY <1>1, <1>5 DEF CycleGenesis
<1> DEFINE cov == wcoverage[c][n]
<1>9. /\ cov.last_epoch \in Nat
      /\ cov.entries # <<>> => cov.entries[1].epoch \in EpochsOf(cov)
      /\ \A e \in EpochsOf(cov) : /\ e \in Nat /\ e <= cov.last_epoch /\ cov.entries # <<>>
                                 /\ cov.entries[1].epoch <= e
  BY <1>1, EpochsOfContiguous
<1>10. \A m \in Cycles : m < n => /\ withdrawal[c][m].watermark <= PrevWatermark(c, n)
                                 /\ PrevWatermark(c, n) = withdrawal[c][n - 1].watermark /\ n > 0
                                 /\ PrevWatermark(c, n) \in Nat
  <2> SUFFICES ASSUME NEW m \in Cycles, m < n
               PROVE  /\ withdrawal[c][m].watermark <= PrevWatermark(c, n)
                      /\ PrevWatermark(c, n) = withdrawal[c][n - 1].watermark /\ n > 0
                      /\ PrevWatermark(c, n) \in Nat
    OBVIOUS
  <2>0. m \in Nat /\ n \in Nat /\ n - 1 < counter[c].cycle
    BY <1>1, <1>5
  <2>1. n > 0 /\ n - 1 \in Cycles /\ n - 1 \in Standing(c)
    <3>1. n > 0 /\ n - 1 \in Cycles
      BY <1>1, <2>0
    <3> QED
      BY <2>0, <3>1 DEF CycleOrder, Standing
  <2>2. PrevWatermark(c, n) = withdrawal[c][n - 1].watermark
    BY <1>1, <2>1 DEF PrevWatermark
  <2>3. m = n - 1 \/ m < n - 1
    BY <2>0
  <2> QED
    BY <1>1, <2>1, <2>2, <2>3 DEF CycleSound, EpochsFollow
<1>11. /\ \A e \in EpochsOf(cov) : e <= NextWatermark(c, n)
       /\ \A m \in Cycles : m < n =>
              /\ withdrawal[c][m].watermark <= NextWatermark(c, n)
              /\ \A e \in EpochsOf(cov) : withdrawal[c][m].watermark < e
  <2>1. \A e \in EpochsOf(cov) : e <= NextWatermark(c, n)
    BY <1>9 DEF NextWatermark
  <2>2. ASSUME NEW m \in Cycles, m < n, cov.entries = <<>>
        PROVE  /\ withdrawal[c][m].watermark <= NextWatermark(c, n)
               /\ \A e \in EpochsOf(cov) : withdrawal[c][m].watermark < e
    BY <1>9, <1>10, <2>2 DEF NextWatermark
  <2>3. ASSUME NEW m \in Cycles, m < n, cov.entries # <<>>
        PROVE  /\ withdrawal[c][m].watermark <= NextWatermark(c, n)
               /\ \A e \in EpochsOf(cov) : withdrawal[c][m].watermark < e
    <3>1. cov.entries[1].epoch > PrevWatermark(c, n)
      BY <1>5, <1>10, <2>3 DEF StartsAfterLastCycle
    <3>2. cov.entries[1].epoch \in EpochsOf(cov) /\ cov.entries[1].epoch \in Nat
      BY <1>9, <2>3
    <3>3. NextWatermark(c, n) = cov.last_epoch
      BY <2>3 DEF NextWatermark
    <3>4. /\ withdrawal[c][m].watermark \in Nat /\ PrevWatermark(c, n) \in Nat
          /\ withdrawal[c][m].watermark <= PrevWatermark(c, n)
      BY <1>1, <1>10, <2>3
    <3>5. cov.entries[1].epoch <= cov.last_epoch /\ cov.last_epoch \in Nat
      BY <1>9, <3>2
    <3>6. \A e \in EpochsOf(cov) : withdrawal[c][m].watermark < e
      BY <1>9, <3>1, <3>2, <3>4
    <3> QED
      BY <3>1, <3>2, <3>3, <3>4, <3>5, <3>6
  <2> QED
    BY <2>1, <2>2, <2>3
<1>12. EpochsOf(wcoverage'[c][n]) = EpochsOf(cov)
  BY <1>6 DEF EpochsOf
<1>13. EpochsFollow(c, n)'
  BY <1>1, <1>5, <1>11, <1>12 DEF EpochsFollow
<1> QED
  BY <1>5, <1>7, <1>13 DEF CycleSound

LEMMA CyclesInvStep ==
    TypeOK /\ EvidenceInv /\ CoverageIsBound /\ CyclesInv /\ [Next]_vars => CyclesInv'
<1> SUFFICES ASSUME TypeOK, EvidenceInv, CoverageIsBound, CyclesInv, [Next]_vars, NEW c \in Challenges
             PROVE  CycleOrder(c)' /\ \A n \in Standing(c)' : CycleSound(c, n)'
  BY DEF CyclesInv
<1>1. CycleOrder(c) /\ \A n \in Standing(c) : CycleSound(c, n)
  BY DEF CyclesInv
<1>2. CycleOrder(c)'
  BY <1>1, CycleOrderStep
<1>3. ASSUME NEW n \in Cycles, n \in Standing(c)' PROVE CycleSound(c, n)'
  <2>1. CASE WithdrawalProposed(c, n)
    BY <1>1, <2>1, ProposalIsSound
  <2>2. CASE /\ n \in Standing(c) /\ wcoverage'[c][n] = wcoverage[c][n]
             /\ \A m \in Cycles : m <= n => SameClaim(withdrawal'[c][m], withdrawal[c][m])
    <3>1. n \in Nat /\ (n # 0 => n - 1 \in Cycles) /\ \A m \in Cycles : m \in Nat
      BY CycleNumbers
    <3>2. SameClaim(withdrawal'[c][n], withdrawal[c][n])
      BY <2>2, <3>1
    <3>3. CycleGenesis(c, n)' = CycleGenesis(c, n)
      <4>1. n # 0 => SameClaim(withdrawal'[c][n - 1], withdrawal[c][n - 1])
        BY <2>2, <3>1
      <4> QED
        BY <4>1 DEF CycleGenesis, SameClaim
    <3>4. \A m \in Cycles : m < n => SameClaim(withdrawal'[c][m], withdrawal[c][m])
      <4> SUFFICES ASSUME NEW m \in Cycles, m < n PROVE SameClaim(withdrawal'[c][m], withdrawal[c][m])
        OBVIOUS
      <4>1. m <= n
        BY <3>1
      <4> QED
        BY <2>2, <4>1
    <3>5. CycleSound(c, n)
      BY <1>1, <2>2
    <3>6. EpochsOf(wcoverage'[c][n]) = EpochsOf(wcoverage[c][n])
      BY <2>2
    <3>7. EpochsFollow(c, n)'
      BY <3>2, <3>4, <3>5, <3>6 DEF CycleSound, EpochsFollow, SameClaim
    <3> QED
      BY <2>2, <3>2, <3>3, <3>5, <3>7 DEF CycleSound, SameClaim
  <2> QED
    BY <1>1, <1>3, <2>1, <2>2, StandingStep
<1> QED
  BY <1>2, <1>3 DEF Standing

THEOREM CyclesInvHolds == Spec => []CyclesInv
<1>1. Init => CyclesInv
  <2> SUFFICES ASSUME Init, NEW c \in Challenges PROVE CycleOrder(c) /\ Standing(c) = {}
    BY DEF CyclesInv
  <2>1. counter[c].cycle = -1 /\ \A n \in Cycles : withdrawal[c][n].status = "None"
    BY DEF Init, WithdrawalInit, NoCounter, NoWithdrawal
  <2>2. \A n \in Cycles : n \in Nat
    BY DEF Cycles
  <2> QED
    BY <2>1, <2>2 DEF CycleOrder, Standing
<1> QED
  BY <1>1, CyclesInvStep, TypeCorrect, EvidenceInvHolds, CoverageStaysBound, PTL DEF Spec

(* The same of every false withdrawal and its five fault proofs; here a    *)
(* final state that is no leaf of the transcript is refuted like any other *)
(* lie (prove_withdrawal_genesis_fault, _amount_fault, _transition_fault,  *)
(* _input_fault, _provenance_fault).                                       *)
THEOREM CycleLiesAreRefutable == Spec => []CycleLieIsRefutable
<1>1. TypeOK /\ RootTable /\ EvidenceInv /\ CoverageIsBound /\ CyclesInv => CycleLieIsRefutable
  <2> SUFFICES ASSUME TypeOK, RootTable, EvidenceInv, CoverageIsBound, CyclesInv,
                      NEW c \in Challenges, NEW n \in Cycles,
                      InCycleWindow(c, n), Primary(c, wcoverage[c][n]), ~ FaithfulWithdrawal(c, n),
                      Coherent(withdrawal[c][n].transcript)
               PROVE  LET w == withdrawal[c][n]
                          t == w.transcript
                      IN  \/ CycleGenesisFault(w, t.genesis)
                          \/ CycleAmountFault(w, t.last)
                          \/ TransitionFault(t, t.genesis, t.last)
                          \/ InputProvable(t, c, wcoverage[c][n])
                          \/ ProvenanceProvable(t, wcoverage[c][n])
    BY DEF CycleLieIsRefutable
  <2> DEFINE w == withdrawal[c][n]
             t == w.transcript
  <2>1. n \in Standing(c)
    BY DEF InCycleWindow, Standing
  <2>2. /\ t \in Transcript /\ wcoverage[c][n] \in CoverageType /\ wcoverage[c][n].covered = t.len - 1
        /\ Coherent(t) /\ w.genesis = CycleGenesis(c, n)
        /\ Contiguous(wcoverage[c][n]) /\ \A run \in Runs(wcoverage[c][n]) : RunCommitted(c, run)
    BY <2>1 DEF TypeOK, WithdrawalType, CoverageIsBound, CyclesInv, CycleSound, EvidenceInv
  <2>3. t.genesis # w.genesis \/ t.final # t.last \/ FalseReplay(t, wcoverage[c][n])
    BY <2>2 DEF FaithfulWithdrawal, FaithfulReplay, FalseReplay
  <2> HIDE DEF w, t
  <2>4. CASE t.genesis # w.genesis
    BY <2>4 DEF CycleGenesisFault, t, w
  <2>5. CASE t.final # t.last
    BY <2>5 DEF CycleAmountFault, t, w
  <2>6. CASE FalseReplay(t, wcoverage[c][n])
    BY <2>2, <2>6, FalseReplayShows DEF t, w
  <2> QED
    BY <2>3, <2>4, <2>5, <2>6
<1> QED
  BY <1>1, TypeCorrect, RootTableHolds, EvidenceInvHolds, CoverageStaysBound, CyclesInvHolds, PTL

----------------------------------------------------------------------------
(* A settlement that stands was proposed against decided withdrawals only, *)
(* and above the watermark of the last of them; none is proposed beside it.*)
SettledApart ==
    \A c \in Challenges : SettlementStands(c) =>
        \A n \in Cycles :
            /\ withdrawal[c][n].status # "Provisional"
            /\ withdrawal[c][n].status = "Final" =>
                  \A e \in EpochsOf(coverage[c]) : withdrawal[c][n].watermark < e

LEMMA ProposedApart ==
    ASSUME "Keeper" \notin MayOmit, TypeOK, EvidenceInv, NEW c \in Challenges,
           CycleOrder(c), \A n \in Standing(c) : CycleSound(c, n), SettlementProposed(c),
           NEW n \in Cycles
    PROVE  /\ withdrawal'[c][n] = withdrawal[c][n] /\ withdrawal[c][n].status # "Provisional"
           /\ withdrawal[c][n].status = "Final" =>
                 \A e \in EpochsOf(coverage'[c]) : withdrawal[c][n].watermark < e
<1> PICK k \in Keys, owed \in {0, 1}, withCounter \in BOOLEAN :
          \E claim : ProposeSettlement(c, k, claim, owed, withCounter)
  BY DEF SettlementProposed
<1>1. PICK claim : ProposeSettlement(c, k, claim, owed, withCounter)
  OBVIOUS
<1>2. /\ coverage \in [Challenges -> CoverageType] /\ coverage[c] \in CoverageType
      /\ Contiguous(coverage[c])
      /\ counter[c].cycle \in Int /\ n \in Nat /\ \A m \in Cycles : withdrawal[c][m].watermark \in Nat
      /\ counter[c].cycle > 0 => counter[c].cycle - 1 \in Cycles
  <2>1. counter[c].cycle \in -1..MaxCycles /\ MaxCycles \in Nat
    BY ChallengeAssumption DEF TypeOK
  <2>2. counter[c].cycle > 0 => counter[c].cycle - 1 \in Cycles
    BY <2>1 DEF Cycles
  <2>3. /\ coverage \in [Challenges -> CoverageType] /\ coverage[c] \in CoverageType
        /\ \A m \in Cycles : withdrawal[c][m].watermark \in Nat
    BY DEF TypeOK, WithdrawalType
  <2> QED
    BY <2>1, <2>2, <2>3, CycleNumbers DEF EvidenceInv
<1>3. /\ withdrawal' = withdrawal /\ coverage'[c].entries = coverage[c].entries
      /\ counter[c].cycle >= 0 => withCounter
      /\ withCounter => OpenCycleSettled(c)
      /\ StartsAboveWatermark(c, withCounter)
  BY <1>1, <1>2 DEF ProposeSettlement, withdrawalVars, FinalizeCoverage, CoverageType, SuppliesCounter
<1>4. withdrawal[c][n].status # "Provisional"
  <2> SUFFICES ASSUME withdrawal[c][n].status = "Provisional" PROVE FALSE
    OBVIOUS
  <2>1. counter[c].cycle = n
    BY CurrentCycle
  <2> QED
    BY <1>2, <1>3, <2>1 DEF OpenCycleSettled
<1>5. ASSUME withdrawal[c][n].status = "Final", NEW e \in EpochsOf(coverage'[c])
      PROVE  withdrawal[c][n].watermark < e
  <2> DEFINE last == counter[c].cycle - 1
  <2>1. n < counter[c].cycle
    BY <1>5 DEF CycleOrder
  <2>2. last \in Cycles /\ last \in Int /\ (n = last \/ n < last) /\ last < counter[c].cycle
    BY <1>2, <2>1
  <2>3. last \in Standing(c)
    BY <2>2 DEF CycleOrder, Standing
  <2>4. withdrawal[c][n].watermark <= withdrawal[c][last].watermark
    BY <1>2, <2>2, <2>3 DEF CycleSound, EpochsFollow
  <2>5. /\ e \in Nat \ {0} /\ coverage[c].entries # <<>> /\ coverage[c].entries[1].epoch <= e
        /\ coverage[c].entries[1].epoch \in Nat
    <3>1. e \in EpochsOf(coverage[c])
      BY <1>3, <1>5 DEF EpochsOf
    <3> QED
      BY <1>2, <3>1, EpochsOfContiguous
  <2>6. withdrawal[c][last].watermark > 0 => coverage[c].entries[1].epoch > withdrawal[c][last].watermark
    <3>1. counter[c].cycle > 0 /\ withCounter
      BY <1>2, <1>3, <2>1
    <3> QED
      BY <1>3, <2>5, <3>1 DEF StartsAboveWatermark, LastFinal
  <2>7. withdrawal[c][last].watermark \in Nat
    BY <1>2, <2>2
  <2> HIDE DEF last
  <2> QED
    BY <1>2, <2>4, <2>5, <2>6, <2>7
<1> QED
  BY <1>3, <1>4, <1>5

LEMMA SettledApartStep ==
    ASSUME "Keeper" \notin MayOmit, TypeOK, SettlementInv, EvidenceInv, CoverageIsBound, CyclesInv,
           SettledApart, [Next]_vars
    PROVE  SettledApart'
<1> SUFFICES ASSUME NEW c \in Challenges, SettlementStands(c)', NEW n \in Cycles
             PROVE  /\ withdrawal'[c][n].status # "Provisional"
                    /\ withdrawal'[c][n].status = "Final" =>
                          \A e \in EpochsOf(coverage'[c]) : withdrawal'[c][n].watermark < e
  BY DEF SettledApart
<1>1. CASE SettlementStands(c)
  <2>1. coverage'[c] = coverage[c]
    BY <1>1, BoundCoverageStays
  <2>2. \A m \in Cycles : withdrawal[c][m].status # "Provisional"
    BY <1>1 DEF SettledApart
  <2>3. \A m \in Cycles : ~ WithdrawalMoved(c, m)
    BY <1>1, <2>2 DEF WithdrawalMoved, WithdrawalProposed, ProposeFundedWithdrawal, NotSettling,
       SettlementStands, InCycleWindow, FinalizeFundedWithdrawal, CycleOver
  <2>4. withdrawal'[c] = withdrawal[c]
    BY <2>3, AccountCycleStep DEF CounterOpened
  <2> QED
    BY <1>1, <2>1, <2>4 DEF SettledApart
<1>2. CASE SettlementProposed(c)
  BY <1>2, ProposedApart DEF CyclesInv
<1> QED
  BY <1>1, <1>2, ClaimStep

THEOREM SettledApartHolds == "Keeper" \notin MayOmit /\ Spec => []SettledApart
<1>1. Init => SettledApart
  BY DEF Init, SettlementInit, NoChallenge, SettledApart, SettlementStands
<1>2. "Keeper" \notin MayOmit =>
        (TypeOK /\ SettlementInv /\ EvidenceInv /\ CoverageIsBound /\ CyclesInv /\ SettledApart
            /\ [Next]_vars => SettledApart')
  BY SettledApartStep
<1>3. CASE "Keeper" \notin MayOmit
  BY <1>1, <1>2, <1>3, TypeCorrect, SettlementInvHolds, EvidenceInvHolds, CoverageStaysBound,
     CyclesInvHolds, PTL DEF Spec
<1>4. CASE "Keeper" \in MayOmit
  BY <1>4
<1> QED
  BY <1>3, <1>4

(* Provided that the keeper hands in the withdrawal counter when there is  *)
(* one, no trade is paid by two withdrawals, nor by a withdrawal and the   *)
(* settlement (propose_funded_withdrawal's and propose_settlement's        *)
(* watermark guards).                                                      *)
THEOREM TradesPaidOnce == "Keeper" \notin MayOmit /\ Spec => []NoTradePaidTwice
<1>1. TypeOK /\ EvidenceInv /\ CyclesInv /\ SettledApart => NoTradePaidTwice
  <2> SUFFICES ASSUME TypeOK, EvidenceInv, CyclesInv, SettledApart, NEW c \in Challenges
               PROVE  /\ \A m, n \in Standing(c) : m # n =>
                            EpochsOf(wcoverage[c][m]) \cap EpochsOf(wcoverage[c][n]) = {}
                      /\ SettlementStands(c) =>
                            \A n \in Paid(c) : EpochsOf(coverage[c]) \cap EpochsOf(wcoverage[c][n]) = {}
    BY DEF NoTradePaidTwice
  <2>1. ASSUME NEW n \in Standing(c)
        PROVE  /\ n \in Cycles /\ n \in Nat /\ EpochsFollow(c, n) /\ withdrawal[c][n].watermark \in Nat
               /\ \A e \in EpochsOf(wcoverage[c][n]) : e \in Nat
    BY CycleNumbers, EpochsOfContiguous
    DEF CyclesInv, CycleSound, Standing, TypeOK, WithdrawalType, EvidenceInv
  <2>2. ASSUME NEW m \in Standing(c), NEW n \in Standing(c), m < n,
               NEW e \in EpochsOf(wcoverage[c][m]), e \in EpochsOf(wcoverage[c][n])
        PROVE  FALSE
    <3>1. e <= withdrawal[c][m].watermark /\ withdrawal[c][m].watermark < e
      BY <2>1, <2>2 DEF EpochsFollow
    <3> QED
      BY <2>1, <3>1
  <2>3. \A m, n \in Standing(c) : m # n =>
           EpochsOf(wcoverage[c][m]) \cap EpochsOf(wcoverage[c][n]) = {}
    <3> SUFFICES ASSUME NEW m \in Standing(c), NEW n \in Standing(c), m # n,
                        NEW e \in EpochsOf(wcoverage[c][m]), e \in EpochsOf(wcoverage[c][n])
                 PROVE  FALSE
      OBVIOUS
    <3>1. m < n \/ n < m
      BY <2>1
    <3> QED
      BY <2>2, <3>1
  <2>4. ASSUME SettlementStands(c), NEW n \in Paid(c), NEW e \in EpochsOf(coverage[c]),
               e \in EpochsOf(wcoverage[c][n])
        PROVE  FALSE
    <3>1. n \in Standing(c) /\ n \in Cycles /\ withdrawal[c][n].status = "Final"
      BY DEF Paid, Standing
    <3>2. e <= withdrawal[c][n].watermark /\ withdrawal[c][n].watermark < e
      BY <2>1, <2>4, <3>1 DEF EpochsFollow, SettledApart
    <3> QED
      BY <2>1, <2>4, <3>1, <3>2
  <2> QED
    BY <2>3, <2>4
<1>2. CASE "Keeper" \notin MayOmit
  BY <1>1, <1>2, TypeCorrect, EvidenceInvHolds, CyclesInvHolds, SettledApartHolds, PTL
<1>3. CASE "Keeper" \in MayOmit
  BY <1>3
<1> QED
  BY <1>2, <1>3

----------------------------------------------------------------------------
(* Over the withdrawals that stand, what was earned less what was paid is  *)
(* what the next cycle opens with.                                         *)
THEOREM EarnedCoversPaid == Spec => []PaidWithinEarned
<1>1. TypeOK /\ CyclesInv => PaidWithinEarned
  <2> SUFFICES ASSUME TypeOK, CyclesInv, NEW c \in Challenges,
                      \A n \in Standing(c) : FaithfulWithdrawal(c, n)
               PROVE  OverStanding(c, [n \in Cycles |-> withdrawal[c][n].gross])
                         <= OverStanding(c, [n \in Cycles |-> wcoverage[c][n].pnl])
    BY DEF PaidWithinEarned
  <2> DEFINE gross == [n \in Cycles |-> withdrawal[c][n].gross]
             pnl == [n \in Cycles |-> wcoverage[c][n].pnl]
             g == [i \in 1..MaxCycles |-> IF i - 1 \in Standing(c) THEN gross[i - 1] ELSE 0]
             p == [i \in 1..MaxCycles |-> IF i - 1 \in Standing(c) THEN pnl[i - 1] ELSE 0]
             rest(n) == withdrawal[c][n].transcript.final - withdrawal[c][n].gross
  <2>1. /\ MaxCycles \in Nat /\ Standing(c) \subseteq Cycles
        /\ \A n \in Cycles : /\ n \in Nat /\ (n # 0 => n - 1 \in Cycles)
                             /\ withdrawal[c][n].gross \in Int /\ wcoverage[c][n].pnl \in Int
                             /\ withdrawal[c][n].transcript.final \in Int
    <3>1. MaxCycles \in Nat /\ Standing(c) \subseteq Cycles
      BY ChallengeAssumption DEF Standing
    <3>2. \A n \in Cycles : n \in Nat /\ (n # 0 => n - 1 \in Cycles)
      BY <3>1 DEF Cycles
    <3>3. ASSUME NEW n \in Cycles
          PROVE  withdrawal[c][n] \in WithdrawalType /\ wcoverage[c][n] \in CoverageType
      BY <3>3 DEF TypeOK
    <3>4. ASSUME NEW n \in Cycles
          PROVE  /\ withdrawal[c][n].gross \in Int /\ wcoverage[c][n].pnl \in Int
                 /\ withdrawal[c][n].transcript.final \in Int
      BY <3>3 DEF WithdrawalType, Transcript, CoverageType
    <3> QED
      BY <3>1, <3>2, <3>4
  <2>2. g \in [1..MaxCycles -> Int] /\ p \in [1..MaxCycles -> Int]
    BY <2>1
  <2>3. PICK s : PartialSums(s, g, MaxCycles) /\ SumTo(g, MaxCycles) = s[MaxCycles]
    BY <2>1, <2>2, SumIsPartial
  <2>4. PICK t : PartialSums(t, p, MaxCycles) /\ SumTo(p, MaxCycles) = t[MaxCycles]
    BY <2>1, <2>2, SumIsPartial
  <2> DEFINE Covered(i) == /\ s[i] <= t[i]
                           /\ (i = 0 => t[i] - s[i] = 0)
                           /\ (i # 0 /\ i - 1 \in Standing(c) => t[i] - s[i] = rest(i - 1))
             G == {i \in 0..MaxCycles : Covered(i)}
  <2>5. ASSUME NEW n \in Standing(c)
        PROVE  /\ rest(n) = CycleGenesis(c, n) + pnl[n] - gross[n] /\ rest(n) >= 0
               /\ n # 0 => n - 1 \in Standing(c) /\ CycleGenesis(c, n) = rest(n - 1)
               /\ n = 0 => CycleGenesis(c, n) = 0
    <3>1. n \in Cycles /\ withdrawal[c][n].status # "None" /\ CycleGenesis(c, n) \in Int
      BY GenesisTypes DEF Standing
    <3>2. withdrawal[c][n].transcript.final = CycleGenesis(c, n) + wcoverage[c][n].pnl
      BY DEF FaithfulWithdrawal, FaithfulReplay
    <3>3. withdrawal[c][n].gross <= withdrawal[c][n].transcript.final
      BY DEF CyclesInv, CycleSound
    <3>4. n # 0 => n - 1 \in Standing(c)
      <4> SUFFICES ASSUME n # 0 PROVE n - 1 \in Standing(c)
        OBVIOUS
      <4>1. n - 1 \in Cycles /\ n - 1 < n
        BY <2>1, <3>1
      <4>2. withdrawal[c][n - 1].status = "Final"
        BY <3>1, <4>1, CurrentCycle DEF CyclesInv
      <4> QED
        BY <4>1, <4>2 DEF Standing
    <3> QED
      BY <2>1, <3>1, <3>2, <3>3, <3>4 DEF CycleGenesis, Rebaseline, GenesisState
  <2>6. 0 \in G
    BY <2>1, <2>3, <2>4 DEF PartialSums
  <2>7. ASSUME NEW i \in 0..MaxCycles - 1, i \in G PROVE i + 1 \in G
    <3>1. /\ i \in Cycles /\ i \in Nat /\ i + 1 \in 1..MaxCycles /\ (i + 1) - 1 = i
      BY <2>1 DEF Cycles
    <3>2. /\ s[i + 1] = s[i] + g[i + 1] /\ t[i + 1] = t[i] + p[i + 1]
          /\ s[i] \in Int /\ t[i] \in Int
      <4>1. i + 1 \in 1..MaxCycles /\ (i + 1) - 1 = i /\ i \in 0..MaxCycles
        BY <2>1, <3>1
      <4> HIDE DEF g, p
      <4>2. PartialSums(s, g, MaxCycles) /\ PartialSums(t, p, MaxCycles)
        BY <2>3, <2>4
      <4>3. s[i + 1] = s[(i + 1) - 1] + g[i + 1] /\ t[i + 1] = t[(i + 1) - 1] + p[i + 1]
        BY <4>1, <4>2 DEF PartialSums
      <4>4. s[i] \in Int /\ t[i] \in Int
        BY <4>1, <4>2 DEF PartialSums
      <4> QED
        BY <4>1, <4>3, <4>4
    <3>3. CASE i \in Standing(c)
      <4>1. g[i + 1] = gross[i] /\ p[i + 1] = pnl[i] /\ gross[i] \in Int /\ pnl[i] \in Int
        BY <2>1, <3>1, <3>3
      <4>2. t[i] - s[i] = CycleGenesis(c, i) /\ CycleGenesis(c, i) \in Int
        BY <2>5, <2>7, <3>1, <3>3, GenesisTypes
      <4>3. rest(i) = CycleGenesis(c, i) + pnl[i] - gross[i] /\ rest(i) >= 0
        BY <2>5, <3>3
      <4> HIDE DEF rest, gross, pnl, g, p
      <4>4. t[i + 1] - s[i + 1] = rest(i) /\ s[i + 1] <= t[i + 1]
        BY <3>2, <4>1, <4>2, <4>3
      <4> QED
        BY <3>1, <4>4
    <3>4. CASE i \notin Standing(c)
      <4>1. g[i + 1] = 0 /\ p[i + 1] = 0
        BY <3>1, <3>4
      <4>2. s[i + 1] = s[i] /\ t[i + 1] = t[i]
        BY <3>2, <4>1
      <4> QED
        BY <2>7, <3>1, <3>4, <4>2
    <3> QED
      BY <3>3, <3>4
  <2>8. MaxCycles \in G
    <3>1. G \in SUBSET (0..MaxCycles)
      OBVIOUS
    <3> HIDE DEF G
    <3> QED
      BY <2>1, <2>6, <2>7, <3>1, Reaches
  <2>9. OverStanding(c, gross) = SumTo(g, MaxCycles) /\ OverStanding(c, pnl) = SumTo(p, MaxCycles)
    BY DEF OverStanding
  <2> QED
    BY <2>3, <2>4, <2>8, <2>9
<1> QED
  BY <1>1, TypeCorrect, CyclesInvHolds, PTL
=============================================================================
