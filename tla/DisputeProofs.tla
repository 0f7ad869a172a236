---------------------------- MODULE DisputeProofs ----------------------------
(***************************************************************************)
(* Theorems about disputes, the operator's stake and what the firm pays on *)
(* a dispute, beside the challenge program, for any finite set of          *)
(* challenges and all windows, stakes, caps and balances.                  *)
(***************************************************************************)
EXTENDS DisputePayout, ChallengeProofs, FiniteSetTheorems

(* An account that was never opened has no verdict, and what was recorded  *)
(* as funded is a size some keeper may record.                             *)
KindMarksDispute ==
    \A c \in Challenges : dispute[c].kind = "None" <=> dispute[c].status = "None"
SizesAreRecorded == \A c \in Challenges : fundedSize[c] \in FundedSizes \cup {0}

DisputeInv == DisputeTypeOK /\ KindMarksDispute /\ SizesAreRecorded /\ StakeIsBacked

----------------------------------------------------------------------------
(* The composition takes no step of the challenge program that the         *)
(* challenge program does not take by itself: its theorems carry over.     *)
LEMMA SystemTakesOwnSteps == [SystemNext]_systemVars => [Next]_vars
BY DEF SystemNext, systemVars, ForceVerdict

LEMMA SystemIsSpec == SystemSpec => Spec
<1>1. SystemInit => Init
  BY DEF SystemInit
<1> QED
  BY <1>1, SystemTakesOwnSteps, PTL DEF SystemSpec, Spec

LEMMA SystemIsTyped == SystemSpec => []TypeOK
BY SystemIsSpec, TypeCorrect, PTL

----------------------------------------------------------------------------
LEMMA Inputs ==
    /\ GraceWindow \in Nat /\ ResolutionWindow \in Nat /\ UnlimitedCap \in Nat
    /\ MinStake \in Nat /\ Rent \in Nat /\ \A c \in Challenges : TradingPeriod[c] \in Nat
    /\ LegacyCap \in Nat /\ Insurance \in Nat /\ PoolBalance \in Nat /\ DailyDrawCap \in Nat
    /\ Day \in Nat \ {0} /\ FundedSizes \subseteq Nat /\ Amounts \subseteq Nat
    /\ Deposits \subseteq Nat
BY DisputeAssumption, DisputePayoutAssumption

LEMMA NowType == TypeOK => now \in Nat
BY BatchAssumption DEF TypeOK

LEMMA Accounts ==
    ASSUME DisputeTypeOK
    PROVE  /\ dispute \in [Challenges -> DisputeType] /\ stake \in StakeType
           /\ stake.exists \in BOOLEAN /\ stake.staked \in Nat /\ stake.lamports \in Nat
           /\ stake.slash_count \in Nat /\ stake.suspended \in BOOLEAN
           /\ \A c \in Challenges : /\ dispute[c] \in DisputeType /\ dispute[c].deadline \in Nat
                                    /\ slashed[c] \in Nat /\ paidOut[c] \in Nat
                                    /\ fundedSize[c] \in Nat
           /\ slashed \in [Challenges -> Nat]
           /\ fundedSize \in [Challenges -> Nat] /\ paidOut \in [Challenges -> Nat]
           /\ insurance \in 0..Insurance
           /\ pool \in [vault: 0..PoolBalance, day: Nat, drawn: Nat]
           /\ pool.vault \in 0..PoolBalance /\ pool.day \in Nat /\ pool.drawn \in Nat
           /\ ulp \in [drawn: Nat, bankrupt: BOOLEAN]
           /\ ulp.drawn \in Nat /\ ulp.bankrupt \in BOOLEAN
BY DEF DisputeTypeOK, DisputeType, StakeType

(* What keeps one of the two parts keeps its half of the invariant.        *)
LEMMA PayoutVarsKept ==
    ASSUME DisputeInv, UNCHANGED payoutVars,
           dispute' \in [Challenges -> DisputeType], stake' \in StakeType,
           slashed' \in [Challenges -> Nat], KindMarksDispute', StakeIsBacked'
    PROVE  DisputeInv'
BY DEF DisputeInv, DisputeTypeOK, SizesAreRecorded, payoutVars

LEMMA DisputeVarsKept ==
    ASSUME DisputeInv, UNCHANGED disputeVars,
           fundedSize' \in [Challenges -> Nat], paidOut' \in [Challenges -> Nat],
           insurance' \in 0..Insurance, pool' \in [vault: 0..PoolBalance, day: Nat, drawn: Nat],
           ulp' \in [drawn: Nat, bankrupt: BOOLEAN], SizesAreRecorded'
    PROVE  DisputeInv'
BY DEF DisputeInv, DisputeTypeOK, KindMarksDispute, StakeIsBacked, disputeVars

----------------------------------------------------------------------------
(* The stake: deposits, syncs, top-ups and the slash.                      *)
LEMMA SlashedFacts ==
    ASSUME DisputeTypeOK, StakeIsBacked, stake.exists, stake' = Slashed
    PROVE  /\ stake' \in StakeType /\ StakeIsBacked' /\ stake'.exists
           /\ stake'.slash_count = stake.slash_count + 1
<1>1. /\ stake.lamports - stake.staked \in Nat /\ 0 + Rent <= stake.lamports - stake.staked
      /\ stake.slash_count + 1 \in Nat /\ 0 \in Nat
  BY Accounts, Inputs, SMT DEF StakeIsBacked
<1>2. /\ stake' \in StakeType /\ stake'.staked = 0
      /\ stake'.lamports = stake.lamports - stake.staked
      /\ stake'.exists /\ stake'.slash_count = stake.slash_count + 1
  BY <1>1, Accounts DEF Slashed, StakeType
<1> QED
  BY <1>1, <1>2 DEF StakeIsBacked

LEMMA StakeStepFacts ==
    ASSUME DisputeTypeOK, StakeIsBacked, StakeStep
    PROVE  /\ stake' \in StakeType /\ StakeIsBacked' /\ UNCHANGED <<dispute, slashed>>
           /\ stake'.exists
           /\ stake'.slash_count = (IF stake.exists THEN stake.slash_count ELSE 0)
<1>1. ASSUME NEW amount \in Nat, OpenStake(amount)
      PROVE  /\ stake' \in StakeType /\ StakeIsBacked' /\ UNCHANGED <<dispute, slashed>>
             /\ ~ stake.exists /\ stake'.exists /\ stake'.slash_count = 0
  <2>1. Rent + amount \in Nat /\ amount + Rent <= Rent + amount /\ 0 \in Nat
    BY Inputs, SMT
  <2> QED
    BY <1>1, <2>1 DEF OpenStake, StakeIsBacked, StakeType
<1>2. CASE InitBondShell
  <2>1. 0 \in Nat
    BY SMT
  <2> QED
    BY <1>1, <1>2, <2>1 DEF InitBondShell
<1>3. CASE SyncBond
  <2>1. Synced \in Nat /\ (stake.exists => Synced + Rent <= stake.lamports)
    BY Accounts, Inputs, SMT DEF Synced, StakeIsBacked
  <2>2. stake.exists /\ stake' = [stake EXCEPT !.staked = Synced] /\ UNCHANGED <<dispute, slashed>>
    BY <1>3 DEF SyncBond
  <2>3. /\ stake' \in StakeType /\ stake'.staked = Synced /\ stake'.lamports = stake.lamports
        /\ stake'.exists /\ stake'.slash_count = stake.slash_count
    BY <2>1, <2>2, Accounts DEF StakeType
  <2> QED
    BY <2>1, <2>2, <2>3 DEF StakeIsBacked
<1>4. ASSUME NEW amount \in Deposits, DepositLamports(amount)
      PROVE  /\ stake' \in StakeType /\ StakeIsBacked' /\ UNCHANGED <<dispute, slashed>>
             /\ stake.exists /\ stake'.exists /\ stake'.slash_count = stake.slash_count
  <2>1. stake.exists /\ stake' = [stake EXCEPT !.lamports = @ + amount] /\ UNCHANGED <<dispute, slashed>>
    BY <1>4 DEF DepositLamports
  <2>2. /\ stake.lamports + amount \in Nat
        /\ stake.staked + Rent <= stake.lamports + amount
    BY <2>1, Accounts, Inputs, SMT DEF StakeIsBacked
  <2>3. /\ stake' \in StakeType /\ stake'.staked = stake.staked
        /\ stake'.lamports = stake.lamports + amount
        /\ stake'.exists /\ stake'.slash_count = stake.slash_count
    BY <2>1, <2>2, Accounts DEF StakeType
  <2> QED
    BY <2>1, <2>2, <2>3 DEF StakeIsBacked
<1>5. ASSUME NEW amount \in Deposits, AddStake(amount) \/ ReinstateOperatorStake(amount)
      PROVE  /\ stake' \in StakeType /\ StakeIsBacked' /\ UNCHANGED <<dispute, slashed>>
             /\ stake.exists /\ stake'.exists /\ stake'.slash_count = stake.slash_count
  <2>1. /\ stake.exists /\ UNCHANGED <<dispute, slashed>>
        /\ \/ stake' = [stake EXCEPT !.staked = @ + amount, !.lamports = @ + amount]
           \/ stake' = [stake EXCEPT !.staked = @ + amount, !.lamports = @ + amount,
                                     !.suspended = FALSE]
    BY <1>5 DEF AddStake, ReinstateOperatorStake
  <2>2. /\ stake.lamports + amount \in Nat /\ stake.staked + amount \in Nat
        /\ stake.staked + amount + Rent <= stake.lamports + amount
    BY <2>1, Accounts, Inputs, SMT DEF StakeIsBacked
  <2>3. /\ stake' \in StakeType /\ stake'.staked = stake.staked + amount
        /\ stake'.lamports = stake.lamports + amount
        /\ stake'.exists /\ stake'.slash_count = stake.slash_count
    BY <2>1, <2>2, Accounts DEF StakeType
  <2> QED
    BY <2>1, <2>2, <2>3 DEF StakeIsBacked
<1>6. ASSUME NEW amount \in Deposits, InitOperatorStake(amount)
      PROVE  OpenStake(amount) /\ amount \in Nat
  BY <1>6, Inputs DEF InitOperatorStake
<1> QED
  BY <1>1, <1>2, <1>3, <1>4, <1>5, <1>6 DEF StakeStep

----------------------------------------------------------------------------
(* The steps of one dispute write the dispute account, and the stake only  *)
(* by slashing it.                                                         *)
LEMMA DisputeWritten ==
    ASSUME DisputeInv, NEW c \in Challenges, NEW x \in DisputeType,
           x.kind = "None" <=> x.status = "None", dispute' = [dispute EXCEPT ![c] = x]
    PROVE  dispute' \in [Challenges -> DisputeType] /\ KindMarksDispute'
BY DEF DisputeInv, DisputeTypeOK, KindMarksDispute

LEMMA StatusWritten ==
    ASSUME DisputeInv, NEW c \in Challenges, dispute[c].status = "Open",
           NEW status \in {"ResolvedUpheld", "ResolvedRejected", "ForceResolved"},
           dispute' = [dispute EXCEPT ![c].status = status]
    PROVE  dispute' \in [Challenges -> DisputeType] /\ KindMarksDispute'
<1> DEFINE x == [dispute[c] EXCEPT !.status = status]
<1>1. dispute[c] \in DisputeType /\ dispute[c].kind # "None"
  BY Accounts DEF DisputeInv, KindMarksDispute
<1>2. dispute' = [dispute EXCEPT ![c] = x]
  BY Accounts DEF DisputeInv
<1>3. x \in DisputeType /\ x.kind = dispute[c].kind /\ x.status = status
  BY <1>1 DEF DisputeType
<1> HIDE DEF x
<1> QED
  BY <1>1, <1>2, <1>3, DisputeWritten

LEMMA OpenedFacts ==
    ASSUME TypeOK, DisputeInv, NEW c \in Challenges,
           NEW kind \in {"TradeInclusion", "UnsettledTimeout"}, OpenAs(c, kind)
    PROVE  /\ dispute' \in [Challenges -> DisputeType] /\ KindMarksDispute'
           /\ dispute[c].status = "None" /\ UNCHANGED <<stake, slashed>>
<1> DEFINE x == [kind |-> kind, status |-> "Open", deadline |-> now + ResolutionWindow]
<1>1. now + ResolutionWindow \in Nat
  BY NowType, Inputs, SMT
<1>2. x \in DisputeType /\ x.kind # "None" /\ x.status # "None"
  BY <1>1 DEF DisputeType
<1>3. dispute' = [dispute EXCEPT ![c] = x] /\ dispute[c].kind = "None" /\ UNCHANGED <<stake, slashed>>
  BY DEF OpenAs, NoDispute
<1> HIDE DEF x
<1> QED
  BY <1>2, <1>3, DisputeWritten DEF DisputeInv, KindMarksDispute

LEMMA StakeUntouched == StakeIsBacked /\ UNCHANGED stake => StakeIsBacked'
BY DEF StakeIsBacked

LEMMA DisputeStepInv ==
    ASSUME TypeOK, DisputeInv, NEW c \in Challenges, DisputeStep(c), UNCHANGED payoutVars
    PROVE  DisputeInv'
<1>0. DisputeTypeOK /\ StakeIsBacked /\ KindMarksDispute
  BY DEF DisputeInv
<1>1. ASSUME NEW kind \in {"TradeInclusion", "UnsettledTimeout"}, OpenAs(c, kind) PROVE DisputeInv'
  BY <1>0, <1>1, OpenedFacts, StakeUntouched, PayoutVarsKept, Accounts
<1>2. CASE OpenUnsettledTimeoutDispute(c)
  BY <1>1, <1>2 DEF OpenUnsettledTimeoutDispute
<1>3. ASSUME NEW e \in Epochs, OpenDispute(c, e) PROVE DisputeInv'
  BY <1>1, <1>3 DEF OpenDispute
<1>4. ASSUME NEW k \in Keys, NEW upheld \in BOOLEAN, ResolveDispute(c, k, upheld) PROVE DisputeInv'
  <2> DEFINE verdict == IF upheld THEN "ResolvedUpheld" ELSE "ResolvedRejected"
  <2>1. /\ stake.exists /\ dispute[c].status = "Open"
        /\ stake' = (IF upheld THEN Slashed ELSE stake)
        /\ dispute' = [dispute EXCEPT ![c].status = verdict] /\ slashed' = slashed
    BY <1>4 DEF ResolveDispute, Pending
  <2>2. dispute' \in [Challenges -> DisputeType] /\ KindMarksDispute'
    BY <2>1, StatusWritten
  <2>3. stake' \in StakeType /\ StakeIsBacked'
    BY <1>0, <2>1, SlashedFacts, StakeUntouched, Accounts
  <2> QED
    BY <1>0, <2>1, <2>2, <2>3, PayoutVarsKept, Accounts
<1>5. CASE SlashSettlementFault(c)
  <2>1. /\ stake.exists /\ stake' = Slashed /\ slashed' = [slashed EXCEPT ![c] = stake.staked]
        /\ dispute' = dispute
    BY <1>5 DEF SlashSettlementFault
  <2>2. stake' \in StakeType /\ StakeIsBacked' /\ slashed' \in [Challenges -> Nat]
    BY <1>0, <2>1, SlashedFacts, Accounts
  <2>3. KindMarksDispute'
    BY <1>0, <2>1 DEF KindMarksDispute
  <2> QED
    BY <1>0, <2>1, <2>2, <2>3, PayoutVarsKept, Accounts
<1> QED
  BY <1>2, <1>3, <1>4, <1>5 DEF DisputeStep

LEMMA ForceStepInv ==
    ASSUME DisputeInv, NEW c \in Challenges, ForceVerdict(c)
    PROVE  DisputeInv'
<1>1. /\ dispute[c].status = "Open" /\ dispute' = [dispute EXCEPT ![c].status = "ForceResolved"]
      /\ UNCHANGED <<stake, slashed, payoutVars>>
  BY DEF ForceVerdict, ForceDisputeResolution, ForceUnsettledTimeoutResolution, PastDeadline
<1> QED
  BY <1>1, StatusWritten, StakeUntouched, PayoutVarsKept, Accounts DEF DisputeInv

----------------------------------------------------------------------------
(* What one call of settle_dispute_payout pays, and out of which vault.    *)
LEMMA LeastOf ==
    ASSUME NEW a \in Nat, NEW b \in Nat
    PROVE  Min({a, b}) \in Nat /\ Min({a, b}) <= a /\ Min({a, b}) <= b
<1>1. \E x \in {a, b} : \A y \in {a, b} : x <= y
  <2>1. CASE a <= b
    BY <2>1, SMT
  <2>2. CASE b <= a
    BY <2>2, SMT
  <2> QED
    BY <2>1, <2>2, SMT
<1>2. Min({a, b}) \in {a, b} /\ \A y \in {a, b} : Min({a, b}) <= y
  BY <1>1 DEF Min
<1> QED
  BY <1>2

PaidCall(c, fromInsurance, fromPool, cap) ==
    /\ fromInsurance \in Nat /\ fromInsurance <= insurance
    /\ fromPool \in Nat /\ fromPool <= pool.vault
    /\ cap \in {LegacyCap} \cup FundedSizes
    /\ paidOut[c] + fromInsurance + fromPool <= cap
    /\ StillOwed(c)
    /\ DrawnToday \in Nat
    /\ fromPool > 0 => DrawnToday + fromPool <= DailyDrawCap
    /\ insurance' = insurance - fromInsurance
    /\ paidOut' = [paidOut EXCEPT ![c] = @ + fromInsurance + fromPool]
    /\ \/ fromPool = 0 /\ UNCHANGED <<pool, ulp>>
       \/ /\ fromPool > 0
          /\ pool' = [vault |-> pool.vault - fromPool, day |-> now \div Day,
                      drawn |-> DrawnToday + fromPool]
          /\ ulp' \in [drawn : Nat, bankrupt : BOOLEAN]
    /\ fundedSize' = fundedSize

LEMMA PaymentFacts ==
    ASSUME TypeOK, DisputeInv, NEW c \in Challenges, NEW amount \in Amounts,
           NEW guardian \in BOOLEAN, NEW withSize \in BOOLEAN,
           SettleDisputePayout(c, amount, guardian, withSize)
    PROVE  \E fromInsurance, fromPool, cap : PaidCall(c, fromInsurance, fromPool, cap)
<1> DEFINE cap == PayoutCap(c, withSize)
           owed == OwedInAll(c, cap)
           target == Min({amount, owed})
           fromInsurance == InsuranceShare(target)
           fromPool == Min({target - fromInsurance, pool.vault})
           broke == ulp.bankrupt \/ ulp.drawn + fromPool >= pool.vault \div Divisor
<1>1. /\ DisputeTypeOK /\ insurance \in Nat /\ pool.vault \in Nat /\ amount \in Nat
      /\ paidOut[c] \in Nat /\ ulp.drawn \in Nat
  BY Inputs, Accounts, SMT DEF DisputeInv
<1>2. cap \in {LegacyCap} \cup FundedSizes /\ cap \in Nat
  <2>1. withSize => fundedSize[c] > 0
    BY DEF SettleDisputePayout
  <2>2. fundedSize[c] \in FundedSizes \cup {0}
    BY DEF DisputeInv, SizesAreRecorded
  <2>3. cap \in {LegacyCap} \cup FundedSizes
    BY <2>1, <2>2, SMT DEF PayoutCap
  <2> QED
    BY <2>3, Inputs
<1> HIDE DEF cap
<1>3. owed > 0 /\ owed \in Nat /\ owed = cap - paidOut[c]
  <2>1. owed > 0
    BY DEF SettleDisputePayout, cap
  <2> QED
    BY <1>1, <1>2, <2>1, SMT DEF OwedInAll
<1> HIDE DEF owed
<1>4. target \in Nat /\ target <= owed
  BY <1>1, <1>3, LeastOf
<1> HIDE DEF target
<1>5. fromInsurance \in Nat /\ fromInsurance <= target /\ fromInsurance <= insurance
  BY <1>1, <1>4, LeastOf DEF InsuranceShare
<1> HIDE DEF fromInsurance
<1>6. target - fromInsurance \in Nat
  BY <1>4, <1>5, SMT
<1>7. fromPool \in Nat /\ fromPool <= target - fromInsurance /\ fromPool <= pool.vault
  BY <1>1, <1>6, LeastOf
<1> HIDE DEF fromPool
<1>8. paidOut[c] + fromInsurance + fromPool <= cap
  BY <1>1, <1>2, <1>3, <1>4, <1>5, <1>6, <1>7, SMT
<1>9. now \div Day \in Nat /\ DrawnToday \in Nat
  <2>1. now \in Nat /\ Day \in Nat \ {0} /\ pool.drawn \in Nat
    BY <1>1, NowType, Inputs, Accounts
  <2>2. now \div Day \in Nat
    BY <2>1, SMT
  <2> QED
    BY <2>1, <2>2 DEF DrawnToday
<1>10. ulp.drawn + fromPool \in Nat
  BY <1>1, <1>7, SMT
<1>11. /\ StillOwed(c)
       /\ fromPool > 0 => DrawnToday + fromPool <= DailyDrawCap
       /\ insurance' = insurance - fromInsurance
       /\ paidOut' = [paidOut EXCEPT ![c] = @ + fromInsurance + fromPool]
       /\ IF fromPool = 0
          THEN UNCHANGED <<pool, ulp>>
          ELSE /\ pool' = [vault |-> pool.vault - fromPool, day |-> now \div Day,
                           drawn |-> DrawnToday + fromPool]
               /\ ulp' = [drawn |-> ulp.drawn + fromPool, bankrupt |-> broke]
       /\ fundedSize' = fundedSize
  BY DEF SettleDisputePayout, fromPool, fromInsurance, target, owed, cap
<1>12. fromPool # 0 => fromPool > 0
  BY <1>7, SMT
<1>13. fromPool # 0 => ulp' \in [drawn : Nat, bankrupt : BOOLEAN]
  <2>1. broke \in BOOLEAN
    BY Zenon
  <2> HIDE DEF broke
  <2> QED
    BY <1>10, <1>11, <2>1
<1>14. PaidCall(c, fromInsurance, fromPool, cap)
  BY <1>2, <1>5, <1>7, <1>8, <1>9, <1>11, <1>12, <1>13 DEF PaidCall
<1> QED
  BY <1>14

LEMMA PayoutStepInv ==
    ASSUME TypeOK, DisputeInv, NEW c \in Challenges, PayoutStep(c), UNCHANGED disputeVars
    PROVE  DisputeInv'
<1>0. DisputeTypeOK /\ SizesAreRecorded
  BY DEF DisputeInv
<1>1. ASSUME NEW k \in Keys, NEW size \in FundedSizes, SetChallengeFundedSize(c, k, size)
      PROVE  DisputeInv'
  <2>1. /\ fundedSize' = [fundedSize EXCEPT ![c] = size] /\ size \in Nat
        /\ UNCHANGED <<paidOut, insurance, pool, ulp>>
    BY <1>1, Inputs DEF SetChallengeFundedSize
  <2>2. fundedSize' \in [Challenges -> Nat] /\ SizesAreRecorded'
    BY <1>0, <2>1, Accounts DEF SizesAreRecorded
  <2> QED
    BY <1>0, <2>1, <2>2, DisputeVarsKept, Accounts
<1>2. ASSUME NEW amount \in Amounts, NEW guardian \in BOOLEAN, NEW withSize \in BOOLEAN,
             SettleDisputePayout(c, amount, guardian, withSize)
      PROVE  DisputeInv'
  <2>1. PICK fromInsurance, fromPool, cap : PaidCall(c, fromInsurance, fromPool, cap)
    BY <1>2, PaymentFacts
  <2>2. /\ fromInsurance \in Nat /\ fromInsurance <= insurance
        /\ fromPool \in Nat /\ fromPool <= pool.vault /\ DrawnToday \in Nat
        /\ insurance' = insurance - fromInsurance
        /\ paidOut' = [paidOut EXCEPT ![c] = @ + fromInsurance + fromPool]
        /\ \/ UNCHANGED <<pool, ulp>>
           \/ /\ pool' = [vault |-> pool.vault - fromPool, day |-> now \div Day,
                          drawn |-> DrawnToday + fromPool]
              /\ ulp' \in [drawn : Nat, bankrupt : BOOLEAN]
        /\ fundedSize' = fundedSize
    BY <2>1 DEF PaidCall
  <2>3. /\ insurance' \in 0..Insurance /\ paidOut[c] + fromInsurance + fromPool \in Nat
        /\ pool.vault - fromPool \in 0..PoolBalance /\ DrawnToday + fromPool \in Nat
    BY <1>0, <2>2, Accounts, Inputs, SMT
  <2>4. now \div Day \in Nat
    BY NowType, Inputs, SMT
  <2>5. paidOut' \in [Challenges -> Nat] /\ SizesAreRecorded'
    BY <1>0, <2>2, <2>3, Accounts DEF SizesAreRecorded
  <2>6. /\ pool' \in [vault: 0..PoolBalance, day: Nat, drawn: Nat]
        /\ ulp' \in [drawn: Nat, bankrupt: BOOLEAN]
    BY <1>0, <2>2, <2>3, <2>4, Accounts
  <2> QED
    BY <1>0, <2>2, <2>3, <2>5, <2>6, DisputeVarsKept, Accounts
<1> QED
  BY <1>1, <1>2 DEF PayoutStep

----------------------------------------------------------------------------
LEMMA SystemStarts == SystemInit => DisputeInv
<1>1. /\ 0 \in Nat /\ Insurance \in 0..Insurance /\ PoolBalance \in 0..PoolBalance
  BY Inputs, SMT
<1> QED
  BY <1>1 DEF SystemInit, DisputeInit, PayoutInit, DisputeInv, DisputeTypeOK, DisputeType,
              StakeType, KindMarksDispute, SizesAreRecorded, StakeIsBacked

LEMMA SystemStepInv == TypeOK /\ DisputeInv /\ [SystemNext]_systemVars => DisputeInv'
<1> SUFFICES ASSUME TypeOK, DisputeInv, [SystemNext]_systemVars PROVE DisputeInv'
  OBVIOUS
<1>1. ASSUME UNCHANGED <<disputeVars, payoutVars>> PROVE DisputeInv'
  BY <1>1 DEF DisputeInv, DisputeTypeOK, KindMarksDispute, SizesAreRecorded, StakeIsBacked,
              disputeVars, payoutVars
<1>2. CASE UNCHANGED systemVars
  BY <1>1, <1>2 DEF systemVars
<1>3. ASSUME StakeStep, UNCHANGED payoutVars PROVE DisputeInv'
  <2>1. stake' \in StakeType /\ StakeIsBacked' /\ UNCHANGED <<dispute, slashed>>
    BY <1>3, StakeStepFacts DEF DisputeInv
  <2>2. KindMarksDispute'
    BY <2>1 DEF DisputeInv, KindMarksDispute
  <2> QED
    BY <1>3, <2>1, <2>2, PayoutVarsKept, Accounts DEF DisputeInv
<1> QED
  BY <1>1, <1>2, <1>3, DisputeStepInv, ForceStepInv, PayoutStepInv DEF SystemNext

LEMMA SystemIsSound == SystemSpec => []DisputeInv
BY SystemStarts, SystemStepInv, SystemIsTyped, PTL DEF SystemSpec

(* Every account of the dispute program and of the payout has its type,    *)
(* and no vault is overdrawn by a payment (settle_dispute_payout).         *)
THEOREM DisputeTypesHold == SystemSpec => []DisputeTypeOK
<1>1. DisputeInv => DisputeTypeOK
  BY DEF DisputeInv
<1> QED
  BY <1>1, SystemIsSound, PTL

(* In whatever order deposits, syncs, top-ups and slashes come, the stake  *)
(* is there to be slashed, and a slash leaves the account rent-exempt      *)
(* (sync_bond, distribute_slash).                                          *)
THEOREM StakeStaysBacked == SystemSpec => []StakeIsBacked
<1>1. DisputeInv => StakeIsBacked
  BY DEF DisputeInv
<1> QED
  BY <1>1, SystemIsSound, PTL

----------------------------------------------------------------------------
(* Who writes what: the stake's own steps write the stake, a payment the   *)
(* vaults, and a dispute's steps one dispute, with at most one slash.      *)
Settled == {"ResolvedUpheld", "ResolvedRejected", "ForceResolved"}

Opened(c) ==
    /\ dispute[c].status = "None"
    /\ UNCHANGED <<stake, slashed>>
    /\ \E kind \in {"TradeInclusion", "UnsettledTimeout"} :
          OpenAs(c, kind) /\ (kind = "UnsettledTimeout" => Overdue(c))

Judged(c, status) ==
    /\ dispute[c].status = "Open"
    /\ dispute' = [dispute EXCEPT ![c].status = status]
    /\ slashed' = slashed
    /\ IF status = "ResolvedUpheld" THEN stake.exists /\ stake' = Slashed ELSE stake' = stake
    /\ status = "ForceResolved" => now > dispute[c].deadline

LEMMA DisputeEffects ==
    ASSUME TypeOK, DisputeInv, [SystemNext]_systemVars
    PROVE  \/ UNCHANGED disputeVars
           \/ StakeStep
           \/ \E c \in Challenges :
                 \/ Opened(c)
                 \/ \E status \in Settled : Judged(c, status)
                 \/ SlashSettlementFault(c)
<1>1. CASE UNCHANGED systemVars
  BY <1>1 DEF systemVars
<1>2. ASSUME NEW c \in Challenges, DisputeStep(c)
      PROVE  \/ Opened(c)
             \/ \E status \in Settled : Judged(c, status)
             \/ SlashSettlementFault(c)
  <2>1. ASSUME NEW e \in Epochs, OpenDispute(c, e) PROVE Opened(c)
    <3>1. OpenAs(c, "TradeInclusion")
      BY <2>1 DEF OpenDispute
    <3> QED
      BY <3>1, OpenedFacts DEF Opened
  <2>2. CASE OpenUnsettledTimeoutDispute(c)
    <3>1. Overdue(c) /\ OpenAs(c, "UnsettledTimeout")
      BY <2>2 DEF OpenUnsettledTimeoutDispute
    <3> QED
      BY <3>1, OpenedFacts DEF Opened
  <2>3. ASSUME NEW k \in Keys, NEW upheld \in BOOLEAN, ResolveDispute(c, k, upheld)
        PROVE  \E status \in Settled : Judged(c, status)
    <3>1. CASE upheld
      <4>1. Judged(c, "ResolvedUpheld")
        BY <2>3, <3>1 DEF ResolveDispute, Pending, Judged
      <4> QED
        BY <4>1 DEF Settled
    <3>2. CASE ~ upheld
      <4>1. Judged(c, "ResolvedRejected")
        BY <2>3, <3>2 DEF ResolveDispute, Pending, Judged
      <4> QED
        BY <4>1 DEF Settled
    <3> QED
      BY <3>1, <3>2
  <2> QED
    BY <1>2, <2>1, <2>2, <2>3 DEF DisputeStep
<1>3. ASSUME NEW c \in Challenges, ForceVerdict(c) PROVE Judged(c, "ForceResolved")
  BY <1>3 DEF ForceVerdict, ForceDisputeResolution, ForceUnsettledTimeoutResolution, PastDeadline,
              Judged
<1> QED
  BY <1>1, <1>2, <1>3 DEF SystemNext, Settled

(* A verdict stands: a late answer never replaces one that was given       *)
(* (resolve_dispute against force_dispute_resolution).                     *)
THEOREM VerdictsStand == SystemSpec => VerdictStands
<1>1. TypeOK /\ DisputeInv /\ [SystemNext]_systemVars =>
        [\A c \in Challenges : dispute[c].status \in Settled => dispute'[c] = dispute[c]]_systemVars
  <2> SUFFICES ASSUME TypeOK, DisputeInv, [SystemNext]_systemVars, NEW c \in Challenges,
                      dispute[c].status \in Settled
               PROVE  dispute'[c] = dispute[c]
    OBVIOUS
  <2>0. dispute \in [Challenges -> DisputeType]
    BY Accounts DEF DisputeInv
  <2>1. CASE UNCHANGED disputeVars \/ StakeStep
    BY <2>1, StakeStepFacts DEF disputeVars, DisputeInv
  <2>2. ASSUME NEW d \in Challenges, Opened(d) PROVE dispute'[c] = dispute[c]
    BY <2>0, <2>2 DEF Opened, OpenAs, Settled
  <2>3. ASSUME NEW d \in Challenges, NEW status, Judged(d, status) PROVE dispute'[c] = dispute[c]
    BY <2>0, <2>3 DEF Judged, Settled
  <2>4. ASSUME NEW d \in Challenges, SlashSettlementFault(d) PROVE dispute'[c] = dispute[c]
    BY <2>4 DEF SlashSettlementFault
  <2> QED
    BY <2>1, <2>2, <2>3, <2>4, DisputeEffects
<1> QED
  BY <1>1, SystemIsSound, SystemIsTyped, PTL DEF SystemSpec, VerdictStands, Settled

----------------------------------------------------------------------------
(* Slashes and their causes.                                               *)
Upheld == {c \in Challenges : dispute[c].status = "ResolvedUpheld"}
FaultsPaid == {c \in Challenges : slashed[c] > 0}
CauseInv ==
    /\ stake.slash_count = Cardinality(Upheld) + Cardinality(FaultsPaid)
    /\ ~ stake.exists => stake.slash_count = 0

LEMMA CausesAreFinite ==
    /\ IsFiniteSet(Upheld) /\ Cardinality(Upheld) \in Nat
    /\ IsFiniteSet(FaultsPaid) /\ Cardinality(FaultsPaid) \in Nat
<1>1. IsFiniteSet(Challenges) /\ Upheld \subseteq Challenges /\ FaultsPaid \subseteq Challenges
  BY DisputePayoutAssumption DEF Upheld, FaultsPaid
<1> QED
  BY <1>1, FS_Subset, FS_CardinalityType

LEMMA CauseStep == TypeOK /\ DisputeInv /\ CauseInv /\ [SystemNext]_systemVars => CauseInv'
<1> SUFFICES ASSUME TypeOK, DisputeInv, CauseInv, [SystemNext]_systemVars PROVE CauseInv'
  OBVIOUS
<1>0. /\ DisputeTypeOK /\ StakeIsBacked /\ dispute \in [Challenges -> DisputeType]
      /\ slashed \in [Challenges -> Nat]
  BY Accounts DEF DisputeInv
<1>1. CASE UNCHANGED disputeVars
  BY <1>1 DEF CauseInv, Upheld, FaultsPaid, disputeVars
<1>2. CASE StakeStep
  <2>1. /\ UNCHANGED <<dispute, slashed>> /\ stake'.exists
        /\ stake'.slash_count = (IF stake.exists THEN stake.slash_count ELSE 0)
    BY <1>0, <1>2, StakeStepFacts
  <2>2. Upheld' = Upheld /\ FaultsPaid' = FaultsPaid
    BY <2>1 DEF Upheld, FaultsPaid
  <2> QED
    BY <2>1, <2>2 DEF CauseInv
<1>3. ASSUME NEW c \in Challenges, Opened(c) PROVE CauseInv'
  <2>1. PICK kind : OpenAs(c, kind) /\ dispute[c].status = "None" /\ UNCHANGED <<stake, slashed>>
    BY <1>3 DEF Opened
  <2> DEFINE x == [kind |-> kind, status |-> "Open", deadline |-> now + ResolutionWindow]
  <2>3. dispute' = [dispute EXCEPT ![c] = x] /\ x.status = "Open"
    BY <2>1 DEF OpenAs
  <2> HIDE DEF x
  <2>4. Upheld' = Upheld /\ FaultsPaid' = FaultsPaid
    BY <1>0, <2>1, <2>3 DEF Upheld, FaultsPaid
  <2> QED
    BY <2>1, <2>4 DEF CauseInv
<1>4. ASSUME NEW c \in Challenges, Judged(c, "ResolvedUpheld") PROVE CauseInv'
  <2>1. /\ dispute[c].status = "Open" /\ dispute' = [dispute EXCEPT ![c].status = "ResolvedUpheld"]
        /\ slashed' = slashed /\ stake.exists /\ stake' = Slashed
    BY <1>4 DEF Judged
  <2>2. Upheld' = Upheld \cup {c} /\ c \notin Upheld /\ FaultsPaid' = FaultsPaid
    BY <1>0, <2>1 DEF Upheld, FaultsPaid, DisputeType
  <2>3. stake'.exists /\ stake'.slash_count = stake.slash_count + 1
    BY <1>0, <2>1, SlashedFacts
  <2>4. Cardinality(Upheld') = Cardinality(Upheld) + 1
    BY <2>2, CausesAreFinite, FS_AddElement
  <2>5. stake'.slash_count = Cardinality(Upheld') + Cardinality(FaultsPaid')
    BY <2>2, <2>3, <2>4, CausesAreFinite, SMT DEF CauseInv
  <2> QED
    BY <2>3, <2>5 DEF CauseInv
<1>5. ASSUME NEW c \in Challenges, NEW status \in Settled \ {"ResolvedUpheld"}, Judged(c, status)
      PROVE  CauseInv'
  <2>1. /\ dispute[c].status = "Open" /\ dispute' = [dispute EXCEPT ![c].status = status]
        /\ UNCHANGED <<stake, slashed>>
    BY <1>5 DEF Judged
  <2>2. Upheld' = Upheld /\ FaultsPaid' = FaultsPaid
    BY <1>0, <2>1 DEF Upheld, FaultsPaid, DisputeType
  <2> QED
    BY <2>1, <2>2 DEF CauseInv
<1>6. ASSUME NEW c \in Challenges, SlashSettlementFault(c) PROVE CauseInv'
  <2>1. /\ slashed[c] = 0 /\ stake.exists /\ stake.staked > 0 /\ stake' = Slashed
        /\ slashed' = [slashed EXCEPT ![c] = stake.staked] /\ dispute' = dispute
    BY <1>6 DEF SlashSettlementFault, SlashDue
  <2>2. FaultsPaid' = FaultsPaid \cup {c} /\ c \notin FaultsPaid /\ Upheld' = Upheld
    <3>1. c \notin FaultsPaid
      BY <2>1, SMT DEF FaultsPaid
    <3> QED
      BY <1>0, <2>1, <3>1 DEF Upheld, FaultsPaid
  <2>3. stake'.exists /\ stake'.slash_count = stake.slash_count + 1
    BY <1>0, <2>1, SlashedFacts
  <2>4. Cardinality(FaultsPaid') = Cardinality(FaultsPaid) + 1
    BY <2>2, CausesAreFinite, FS_AddElement
  <2>5. stake'.slash_count = Cardinality(Upheld') + Cardinality(FaultsPaid')
    BY <2>2, <2>3, <2>4, CausesAreFinite, SMT DEF CauseInv
  <2> QED
    BY <2>3, <2>5 DEF CauseInv
<1> QED
  BY <1>1, <1>2, <1>3, <1>4, <1>5, <1>6, DisputeEffects

(* The operator is slashed once for each upheld dispute and once for each  *)
(* proven settlement fault, and for nothing else (resolve_dispute,         *)
(* slash_settlement_fault).                                                *)
THEOREM SlashesHaveCauses == SystemSpec => []EachSlashHasItsCause
<1>1. SystemInit => CauseInv
  <2> SUFFICES ASSUME SystemInit PROVE CauseInv
    OBVIOUS
  <2>1. Upheld = {} /\ FaultsPaid = {}
    BY SMT DEF SystemInit, DisputeInit, Upheld, FaultsPaid
  <2>2. stake.slash_count = 0
    BY DEF SystemInit, DisputeInit
  <2> QED
    BY <2>1, <2>2, FS_EmptySet, SMT DEF CauseInv
<1>2. CauseInv => EachSlashHasItsCause
  BY DEF CauseInv, EachSlashHasItsCause, Upheld, FaultsPaid
<1> QED
  BY <1>1, <1>2, CauseStep, SystemIsSound, SystemIsTyped, PTL DEF SystemSpec

----------------------------------------------------------------------------
(* Payments: every one is the one settle_dispute_payout describes.         *)
LEMMA PaymentEffects ==
    ASSUME TypeOK, DisputeInv, [SystemNext]_systemVars
    PROVE  \/ UNCHANGED <<paidOut, pool>>
           \/ \E c \in Challenges : \E fromInsurance, fromPool, cap :
                 PaidCall(c, fromInsurance, fromPool, cap)
<1>1. CASE UNCHANGED systemVars \/ UNCHANGED payoutVars
  BY <1>1 DEF systemVars, payoutVars
<1>2. ASSUME NEW c \in Challenges, PayoutStep(c)
      PROVE  \/ UNCHANGED <<paidOut, pool>>
             \/ \E fromInsurance, fromPool, cap : PaidCall(c, fromInsurance, fromPool, cap)
  BY <1>2, PaymentFacts DEF PayoutStep, SetChallengeFundedSize
<1> QED
  BY <1>1, <1>2 DEF SystemNext, ForceVerdict

LEMMA CapStep ==
    TypeOK /\ DisputeInv /\ PayoutWithinFundedSize /\ [SystemNext]_systemVars
       => PayoutWithinFundedSize'
<1> SUFFICES ASSUME TypeOK, DisputeInv, PayoutWithinFundedSize, [SystemNext]_systemVars
             PROVE  PayoutWithinFundedSize'
  OBVIOUS
<1>1. CASE UNCHANGED paidOut
  BY <1>1 DEF PayoutWithinFundedSize
<1>2. ASSUME NEW c \in Challenges, NEW fromInsurance, NEW fromPool, NEW cap,
             PaidCall(c, fromInsurance, fromPool, cap)
      PROVE  PayoutWithinFundedSize'
  <2>1. /\ paidOut' = [paidOut EXCEPT ![c] = @ + fromInsurance + fromPool]
        /\ cap \in {LegacyCap} \cup FundedSizes
        /\ paidOut[c] + fromInsurance + fromPool <= cap
    BY <1>2 DEF PaidCall
  <2>2. /\ paidOut'[c] = paidOut[c] + fromInsurance + fromPool
        /\ \A d \in Challenges : d # c => paidOut'[d] = paidOut[d]
    BY <2>1, Accounts DEF DisputeInv
  <2> QED
    BY <2>1, <2>2, Zenon DEF PayoutWithinFundedSize
<1> QED
  BY <1>1, <1>2, PaymentEffects

(* Over all its calls, from both vaults and under whichever cap each call  *)
(* is judged by, a dispute never pays more than one cap                    *)
(* (settle_dispute_payout's record).                                       *)
THEOREM PayoutStaysCapped == SystemSpec => []PayoutWithinFundedSize
<1>1. SystemInit => PayoutWithinFundedSize
  <2>1. 0 <= LegacyCap
    BY Inputs, SMT
  <2> QED
    BY <2>1 DEF SystemInit, PayoutInit, PayoutWithinFundedSize
<1> QED
  BY <1>1, CapStep, SystemIsSound, SystemIsTyped, PTL DEF SystemSpec

(* What leaves the Universal Pool's vault on a day is what its counter     *)
(* says, over however many calls, and never above the cap                  *)
(* (draw_universal_for_dispute).                                           *)
THEOREM PoolDrawsAreCapped == SystemSpec => PoolDrawIsCapped
<1> DEFINE A == pool'.vault < pool.vault =>
                /\ pool'.drawn <= DailyDrawCap
                /\ pool'.drawn = pool.vault - pool'.vault
                                 + (IF pool'.day = pool.day THEN pool.drawn ELSE 0)
<1>1. TypeOK /\ DisputeInv /\ [SystemNext]_systemVars => [A]_systemVars
  <2> SUFFICES ASSUME TypeOK, DisputeInv, [SystemNext]_systemVars, pool'.vault < pool.vault
               PROVE  /\ pool'.drawn <= DailyDrawCap
                      /\ pool'.drawn = pool.vault - pool'.vault
                                       + (IF pool'.day = pool.day THEN pool.drawn ELSE 0)
    OBVIOUS
  <2>0. /\ pool.vault \in Nat /\ pool.drawn \in Nat /\ pool.day \in Nat
        /\ DailyDrawCap \in Nat /\ ~ (pool.vault < pool.vault)
    BY Accounts, Inputs, SMT DEF DisputeInv
  <2>c. PICK c \in Challenges : \E fromInsurance, fromPool, cap :
                                   PaidCall(c, fromInsurance, fromPool, cap)
    BY <2>0, PaymentEffects
  <2>1. PICK fromInsurance, fromPool, cap : PaidCall(c, fromInsurance, fromPool, cap)
    BY <2>c
  <2>2. /\ fromPool \in Nat /\ fromPool > 0 /\ DrawnToday + fromPool <= DailyDrawCap
        /\ pool' = [vault |-> pool.vault - fromPool, day |-> now \div Day,
                    drawn |-> DrawnToday + fromPool]
    BY <2>0, <2>1 DEF PaidCall
  <2>3. /\ pool'.vault = pool.vault - fromPool /\ pool'.day = now \div Day
        /\ pool'.drawn = DrawnToday + fromPool
    BY <2>2
  <2>4. DrawnToday = IF pool'.day = pool.day THEN pool.drawn ELSE 0
    BY <2>3 DEF DrawnToday
  <2>5. DrawnToday \in Nat
    BY <2>0, <2>4
  <2> QED
    <3>1. pool'.drawn <= DailyDrawCap
      BY <2>2, <2>3
    <3>2. DrawnToday + fromPool = pool.vault - (pool.vault - fromPool) + DrawnToday
      BY <2>0, <2>2, <2>5, SMT
    <3> QED
      BY <2>3, <2>4, <3>1, <3>2
<1> QED
  BY <1>1, SystemIsSound, SystemIsTyped, PTL DEF SystemSpec, PoolDrawIsCapped

(* Insurance never pays a timeout of a challenge that was settled after    *)
(* all, even when the settlement came between the verdict and the payout.  *)
THEOREM SettledTimeoutsUnpaid == SystemSpec => NoTimeoutPaymentOnceSettled
<1> DEFINE A == \A c \in Challenges :
                   dispute[c].kind = "UnsettledTimeout" /\ challenge[c].settlement # "Unsettled"
                      => paidOut'[c] = paidOut[c]
<1>1. TypeOK /\ DisputeInv /\ [SystemNext]_systemVars => [A]_systemVars
  <2> SUFFICES ASSUME TypeOK, DisputeInv, [SystemNext]_systemVars, NEW c \in Challenges,
                      dispute[c].kind = "UnsettledTimeout", challenge[c].settlement # "Unsettled"
               PROVE  paidOut'[c] = paidOut[c]
    OBVIOUS
  <2>1. ASSUME NEW d \in Challenges, NEW fromInsurance, NEW fromPool, NEW cap,
               PaidCall(d, fromInsurance, fromPool, cap)
        PROVE  paidOut'[c] = paidOut[c]
    <3>1. d # c
      BY <2>1 DEF PaidCall, StillOwed
    <3> QED
      BY <2>1, <3>1, Accounts DEF PaidCall, DisputeInv
  <2> QED
    BY <2>1, PaymentEffects
<1> QED
  BY <1>1, SystemIsSound, SystemIsTyped, PTL DEF SystemSpec, NoTimeoutPaymentOnceSettled

----------------------------------------------------------------------------
(* How long a timeout waits. With fresh nonces a slot is used once, so     *)
(* that a dispute's account is always the same one and its start stands.   *)
Allowance(c) == IF TradingPeriod[c] = 0 THEN UnlimitedCap ELSE TradingPeriod[c]
Waited(c) == challenge[c].started_at + GraceWindow + ResolutionWindow + Allowance(c)

TimeoutInv ==
    \A c \in Challenges :
        /\ Exists(c) \/ dispute[c].kind # "None" => c \in used
        /\ dispute[c].kind = "UnsettledTimeout" =>
              /\ Exists(c) => dispute[c].deadline > Waited(c)
              /\ dispute[c].status = "ForceResolved" => now > dispute[c].deadline

LEMMA StartedType ==
    ASSUME TypeOK, NEW c \in Challenges
    PROVE  challenge[c].started_at \in Nat /\ challenge[c] \in ChallengeType
BY DEF TypeOK, ChallengeType

(* A challenge's life: its start does not move, and what is gone does not  *)
(* come back.                                                              *)
LifeKept(c) ==
    /\ Exists(c)' => Exists(c) /\ challenge'[c].started_at = challenge[c].started_at
    /\ used' = used

LEMMA LifeStep ==
    ASSUME TypeOK, [Next]_vars
    PROVE  \/ \A c \in Challenges : LifeKept(c)
           \/ \E d \in Challenges :
                 /\ FreshNonces => d \notin used
                 /\ used' = used \cup {d}
                 /\ ~ Exists(d)
                 /\ \A c \in Challenges : c # d => challenge'[c] = challenge[c]
<1>0. challenge \in [Challenges -> ChallengeType]
  BY DEF TypeOK
<1>1. ASSUME UNCHANGED challengeVars PROVE \A c \in Challenges : LifeKept(c)
  BY <1>1 DEF LifeKept, Exists, challengeVars
<1>2. ASSUME NEW d \in Challenges, UNCHANGED used,
             challenge' = [challenge EXCEPT ![d] = challenge'[d]],
             challenge'[d].status # "None" =>
                challenge[d].status # "None" /\ challenge'[d].started_at = challenge[d].started_at
      PROVE  \A c \in Challenges : LifeKept(c)
  BY <1>0, <1>2 DEF LifeKept, Exists
<1>3. CASE UNCHANGED vars
  BY <1>1, <1>3 DEF vars, challengeVars
<1>4. CASE TickStep \/ BatchStep \/ RotateStep
  BY <1>1, <1>4, SystemFrame
<1>5. ASSUME NEW c \in Challenges,
             \/ \E k \in Keys : InitWithdrawalCounter(c, k)
             \/ \E n \in Cycles : CycleStep(c, n) \/ CycleFaultStep(c, n)
                                  \/ FinalizeFundedWithdrawal(c, n)
      PROVE  \A b \in Challenges : LifeKept(b)
  BY <1>1, <1>5, CycleFrame
<1>6. ASSUME NEW d \in Challenges, NEW a, OpenSlot(d, a)
      PROVE  /\ FreshNonces => d \notin used
             /\ used' = used \cup {d} /\ ~ Exists(d)
             /\ \A c \in Challenges : c # d => challenge'[c] = challenge[c]
  BY <1>0, <1>6 DEF OpenSlot
<1>7. ASSUME NEW d \in Challenges,
             \/ \E k \in Keys : RepairSettlementAuthority(d, k)
             \/ CloseChallenge(d)
             \/ HoldStep(d)
      PROVE  \A c \in Challenges : LifeKept(c)
  <2>1. \A c \in Challenges : challenge[c] \in ChallengeType
    BY <1>0
  <2>2. CASE CloseChallenge(d)
    BY <1>0, <1>2, <2>2 DEF CloseChallenge, NoChallenge
  <2>3. ASSUME NEW k \in Keys, RepairSettlementAuthority(d, k) PROVE \A c \in Challenges : LifeKept(c)
    BY <1>0, <1>2, <2>1, <2>3 DEF RepairSettlementAuthority, ChallengeType, Exists
  <2>4. ASSUME NEW k \in Keys, NEW h, SetIntegrityHold(d, k, h)
        PROVE  \A c \in Challenges : LifeKept(c)
    BY <1>0, <1>2, <2>1, <2>4 DEF SetIntegrityHold, SignedByAuthority, ChallengeType, Exists
  <2>5. CASE ProveIntegrityFault(d)
    BY <1>0, <1>2, <2>1, <2>5 DEF ProveIntegrityFault, ChallengeType, Exists
  <2> QED
    BY <1>7, <2>2, <2>3, <2>4, <2>5 DEF HoldStep
<1>8. ASSUME NEW d \in Challenges, CoverageStep(d) PROVE \A c \in Challenges : LifeKept(c)
  <2>1. UNCHANGED <<challenge, used>>
    BY <1>8 DEF CoverageStep, InitSettlementCoverage, AddCoverageEpoch,
                AddCoverageEpochSupplemental, CommitSupplementalSegment
  <2> QED
    BY <2>1 DEF LifeKept, Exists
<1>9. ASSUME NEW d \in Challenges, SettleStep(d) \/ DisproveStep(d) \/ FinalizeSettlement(d)
      PROVE  \A c \in Challenges : LifeKept(c)
  <2>1. challenge[d] \in ChallengeType
    BY <1>0
  <2>2. ASSUME NEW k, NEW passed, NEW owed, SettleChallenge(d, k, passed, owed)
        PROVE  \A c \in Challenges : LifeKept(c)
    <3>1. challenge'[d].started_at = challenge[d].started_at /\ challenge[d].status # "None"
      BY <1>0, <2>1, <2>2 DEF SettleChallenge, SignedByAuthority, Exists, ChallengeType
    <3> QED
      BY <1>0, <1>2, <2>2, <3>1 DEF SettleChallenge
  <2>3. ASSUME NEW k, NEW claim, NEW owed, NEW withCounter,
               ProposeSettlement(d, k, claim, owed, withCounter)
        PROVE  \A c \in Challenges : LifeKept(c)
    <3>1. challenge'[d].started_at = challenge[d].started_at /\ challenge[d].status # "None"
      BY <1>0, <2>1, <2>3 DEF ProposeSettlement, SignedByAuthority, Exists, ChallengeType
    <3> QED
      BY <1>0, <1>2, <2>3, <3>1 DEF ProposeSettlement
  <2>4. CASE DisproveStep(d)
    <3>1. InWindow(d) /\ \E w \in Challengers : FaultOut(d, w)
      BY <2>4, DisproveFaultsOut
    <3>2. challenge'[d].started_at = challenge[d].started_at /\ challenge[d].status # "None"
      BY <1>0, <2>1, <3>1 DEF FaultOut, InWindow, Exists, ChallengeType
    <3> QED
      BY <1>0, <1>2, <3>1, <3>2 DEF FaultOut
  <2>5. CASE FinalizeSettlement(d)
    <3>1. challenge'[d].started_at = challenge[d].started_at /\ challenge[d].status # "None"
      BY <1>0, <2>1, <2>5 DEF FinalizeSettlement, WindowOver, Exists, ChallengeType
    <3> QED
      BY <1>0, <1>2, <2>5, <3>1 DEF FinalizeSettlement
  <2> QED
    BY <1>9, <2>2, <2>3, <2>4, <2>5 DEF SettleStep
<1>10. ASSUME NEW c \in Challenges, MintStep(c)
       PROVE  \/ \E a : OpenSlot(c, a)
              \/ \E k \in Keys : RepairSettlementAuthority(c, k)
              \/ CloseChallenge(c)
  BY <1>10, MintOpens
<1> QED
  BY <1>3, <1>4, <1>5, <1>6, <1>7, <1>8, <1>9, <1>10 DEF Next

LEMMA ClockStep ==
    ASSUME TypeOK, [Next]_vars
    PROVE  now' \in Nat /\ now' >= now
<1>1. now \in Nat
  BY NowType
<1>2. CASE UNCHANGED batchVars
  BY <1>1, <1>2, SMT DEF batchVars
<1>3. CASE TickStep
  BY <1>1, <1>3, SMT DEF TickStep, Tick
<1>4. CASE BatchStep
  BY <1>1, <1>4, SMT DEF BatchStep, SetBatchCommitter, CommitBatchRoot
<1> QED
  BY <1>2, <1>3, <1>4, BatchFrame

(* While the disputes stand still, the challenge program may move.         *)
LEMMA TimeoutKept ==
    ASSUME TypeOK, DisputeInv, TimeoutInv, FreshNonces, [Next]_vars, UNCHANGED dispute
    PROVE  TimeoutInv'
<1>1. now \in Nat /\ now' \in Nat /\ now' >= now
  BY NowType, ClockStep
<1>2. \A c \in Challenges : dispute[c].deadline \in Nat
  BY Accounts DEF DisputeInv
<1>3. \A c \in Challenges : dispute[c].status = "ForceResolved" /\ now > dispute[c].deadline
                               => now' > dispute[c].deadline
  BY <1>1, <1>2, SMT
<1>4. CASE \A c \in Challenges : LifeKept(c)
  <2>1. \A c \in Challenges : Exists(c)' => Exists(c) /\ Waited(c)' = Waited(c)
    BY <1>4 DEF LifeKept, Waited, Allowance
  <2>2. \A c \in Challenges : c \in used => c \in used'
    BY <1>4 DEF LifeKept
  <2> QED
    BY <1>3, <2>1, <2>2 DEF TimeoutInv
<1>5. ASSUME NEW d \in Challenges, d \notin used, used' = used \cup {d},
             \A c \in Challenges : c # d => challenge'[c] = challenge[c]
      PROVE  TimeoutInv'
  <2>1. dispute[d].kind = "None"
    BY <1>5 DEF TimeoutInv
  <2>2. \A c \in Challenges : c # d => /\ Exists(c)' = Exists(c) /\ Waited(c)' = Waited(c)
                                       /\ c \in used' <=> c \in used
    BY <1>5 DEF Exists, Waited, Allowance
  <2>3. d \in used'
    BY <1>5
  <2> QED
    BY <1>3, <2>1, <2>2, <2>3 DEF TimeoutInv
<1> QED
  BY <1>4, <1>5, LifeStep

LEMMA OverdueWaits ==
    ASSUME TypeOK, NEW c \in Challenges, Overdue(c)
    PROVE  now + ResolutionWindow > Waited(c)
<1>1. /\ challenge[c].started_at \in Nat /\ now \in Nat /\ TradingPeriod[c] \in Nat
      /\ GraceWindow \in Nat /\ ResolutionWindow \in Nat /\ UnlimitedCap \in Nat
  BY StartedType, NowType, Inputs
<1>2. EffectiveExpiry(c) = challenge[c].started_at + Allowance(c)
  BY <1>1, SMT DEF EffectiveExpiry, ExpiresAt, Allowance
<1>3. now > EffectiveExpiry(c) + GraceWindow
  BY DEF Overdue
<1>4. Allowance(c) \in Nat
  BY <1>1 DEF Allowance
<1> QED
  BY <1>1, <1>2, <1>3, <1>4, SMT DEF Waited

LEMMA TimeoutStep ==
    TypeOK /\ DisputeInv /\ TimeoutInv /\ FreshNonces /\ [SystemNext]_systemVars => TimeoutInv'
<1> SUFFICES ASSUME TypeOK, DisputeInv, TimeoutInv, FreshNonces, [SystemNext]_systemVars
             PROVE  TimeoutInv'
  OBVIOUS
<1>0. dispute \in [Challenges -> DisputeType] /\ \A c \in Challenges : dispute[c] \in DisputeType
  BY Accounts DEF DisputeInv
<1>1. CASE UNCHANGED dispute
  BY <1>1, TimeoutKept, SystemTakesOwnSteps
<1>2. UNCHANGED dispute \/ UNCHANGED vars
  BY StakeStepFacts DEF SystemNext, systemVars, disputeVars, ForceVerdict, DisputeInv
<1>3. ASSUME UNCHANGED vars, NEW c \in Challenges, Opened(c) PROVE TimeoutInv'
  <2>1. PICK kind \in {"TradeInclusion", "UnsettledTimeout"} :
           OpenAs(c, kind) /\ (kind = "UnsettledTimeout" => Overdue(c))
    BY <1>3 DEF Opened
  <2> DEFINE x == [kind |-> kind, status |-> "Open", deadline |-> now + ResolutionWindow]
  <2>2. dispute' = [dispute EXCEPT ![c] = x] /\ Exists(c) /\ x.kind = kind /\ x.status = "Open"
        /\ x.deadline = now + ResolutionWindow
    BY <2>1 DEF OpenAs
  <2>3. kind = "UnsettledTimeout" => now + ResolutionWindow > Waited(c)
    BY <2>1, OverdueWaits
  <2> HIDE DEF x
  <2>4. dispute'[c] = x /\ \A d \in Challenges : d # c => dispute'[d] = dispute[d]
    BY <1>0, <2>2
  <2>5. /\ UNCHANGED <<used, now>>
        /\ \A d \in Challenges : Exists(d)' = Exists(d) /\ Waited(d)' = Waited(d)
    BY <1>3 DEF vars, Exists, Waited, Allowance
  <2>6. c \in used
    BY <2>2 DEF TimeoutInv
  <2> QED
    BY <2>2, <2>3, <2>4, <2>5, <2>6 DEF TimeoutInv
<1>4. ASSUME UNCHANGED vars, NEW c \in Challenges, NEW status \in Settled, Judged(c, status)
      PROVE  TimeoutInv'
  <2>1. /\ dispute' = [dispute EXCEPT ![c].status = status]
        /\ status = "ForceResolved" => now > dispute[c].deadline
    BY <1>4 DEF Judged
  <2>2. /\ dispute'[c].kind = dispute[c].kind /\ dispute'[c].deadline = dispute[c].deadline
        /\ dispute'[c].status = status
        /\ \A d \in Challenges : d # c => dispute'[d] = dispute[d]
    BY <1>0, <2>1 DEF DisputeType
  <2>3. /\ UNCHANGED <<used, now>>
        /\ \A d \in Challenges : Exists(d)' = Exists(d) /\ Waited(d)' = Waited(d)
    BY <1>4 DEF vars, Exists, Waited, Allowance
  <2> QED
    BY <2>1, <2>2, <2>3 DEF TimeoutInv
<1>5. CASE UNCHANGED disputeVars \/ StakeStep \/ \E c \in Challenges : SlashSettlementFault(c)
  BY <1>1, <1>5, StakeStepFacts DEF disputeVars, SlashSettlementFault, DisputeInv
<1> QED
  BY <1>1, <1>2, <1>3, <1>4, <1>5, DisputeEffects

(* A trader wins a timeout only after the account's whole term, the whole  *)
(* grace and the whole resolution window, provided that purchases use      *)
(* fresh nonces: a second challenge in the slot of a disputed one would    *)
(* inherit its deadline (open_unsettled_timeout_dispute, close_challenge). *)
THEOREM TimeoutsWait == FreshNonces /\ SystemSpec => []TimeoutWaited
<1>1. SystemInit => TimeoutInv
  BY DEF SystemInit, Init, SettlementInit, DisputeInit, TimeoutInv, Exists, NoChallenge
<1>2. TypeOK /\ DisputeInv /\ TimeoutInv => TimeoutWaited
  <2> SUFFICES ASSUME TypeOK, DisputeInv, TimeoutInv, NEW c \in Challenges, Exists(c),
                      dispute[c].kind = "UnsettledTimeout", dispute[c].status = "ForceResolved"
               PROVE  now > Waited(c)
    BY DEF TimeoutWaited, Waited, Allowance
  <2>1. dispute[c].deadline > Waited(c) /\ now > dispute[c].deadline
    BY DEF TimeoutInv
  <2>2. now \in Nat /\ dispute[c].deadline \in Nat /\ Waited(c) \in Nat
    <3>1. Allowance(c) \in Nat
      BY Inputs DEF Allowance
    <3> QED
      BY <3>1, NowType, Accounts, StartedType, Inputs, SMT DEF Waited, DisputeInv
  <2> QED
    BY <2>1, <2>2, SMT
<1>3. FreshNonces => (TypeOK /\ DisputeInv /\ TimeoutInv /\ [SystemNext]_systemVars => TimeoutInv')
  BY TimeoutStep
<1>4. CASE FreshNonces
  BY <1>1, <1>2, <1>3, <1>4, SystemIsSound, SystemIsTyped, PTL DEF SystemSpec
<1>5. CASE ~ FreshNonces
  BY <1>5
<1> QED
  BY <1>4, <1>5
=============================================================================
