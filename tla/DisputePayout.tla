---------------------------- MODULE DisputePayout ----------------------------
(***************************************************************************)
(* What the firm pays on a dispute (settle_dispute_payout): from the       *)
(* firm's insurance, then from the Universal Pool under its daily cap,     *)
(* cumulatively up to the funded size; and the dispute and challenge       *)
(* programs composed with it.                                              *)
(***************************************************************************)
EXTENDS Dispute, FiniteSetsExt

CONSTANTS
    LegacyCap,      \* rules_snapshot.starting_balance
    FundedSizes,    \* sizes a keeper may record for a challenge
    Amounts,        \* amounts a caller may ask for in one call
    Insurance,      \* opening balance of the insurance vault
    PoolBalance,    \* opening balance of the universal vault
    DailyDrawCap,   \* UNIVERSAL_DAILY_DRAW_CAP_SOL
    Day,            \* 86_400
    Divisor,        \* BANKRUPTCY_ULP_DEPLETION_DIVISOR
    Deposits,       \* amounts that may reach the stake account
    MaxLamports,    \* bound on the stake account of the instance
    DisputeKinds    \* ways in which traders open disputes

ASSUME DisputePayoutAssumption ==
    /\ LegacyCap \in Nat /\ Insurance \in Nat /\ PoolBalance \in Nat /\ DailyDrawCap \in Nat
    /\ Day \in Nat \ {0} /\ Divisor \in Nat \ {0}
    /\ FundedSizes \subseteq Nat \ {0} /\ Amounts \subseteq Nat /\ Deposits \subseteq Nat \ {0}
    /\ MaxLamports \in Nat /\ IsFiniteSet(Challenges)
    /\ DisputeKinds \subseteq {"TradeInclusion", "UnsettledTimeout"}

VARIABLES
    fundedSize,  \* ChallengeFundedSize ["funded_size", challenge], 0 if absent
    paidOut,     \* DisputePayoutRecord ["dispute_payout", dispute]: its amount
    insurance,   \* the insurance vault
    pool,        \* the Universal Pool and its vault
    ulp          \* FirmState.ulp_drawn and whether it made the firm bankrupt

disputeVars == <<dispute, stake, slashed>>
payoutVars == <<fundedSize, paidOut, insurance, pool, ulp>>
systemVars == <<vars, disputeVars, payoutVars>>

PayoutInit ==
    /\ fundedSize = [c \in Challenges |-> 0]
    /\ paidOut = [c \in Challenges |-> 0]
    /\ insurance = Insurance
    /\ pool = [vault |-> PoolBalance, day |-> 0, drawn |-> 0]
    /\ ulp = [drawn |-> 0, bankrupt |-> FALSE]

(* set_challenge_funded_size: the keeper may refresh it at any time.       *)
SetChallengeFundedSize(c, signer, size) ==
    /\ SignedByAuthority(c, signer)
    /\ size > 0
    /\ fundedSize' = [fundedSize EXCEPT ![c] = size]
    /\ UNCHANGED <<paidOut, insurance, pool, ulp>>

(* A timeout dispute pays only while the challenge is still unsettled.     *)
AnySettlement(c) == TRUE
StillOwed(c) == dispute[c].kind = "UnsettledTimeout" => challenge[c].settlement = "Unsettled"

(* The funded size caps the guarded path, if its account is handed in.     *)
PayoutCap(c, withSize) ==
    IF challenge[c].settlement # "Faulted" /\ withSize THEN fundedSize[c] ELSE LegacyCap

(* What is still owed under the cap, over all the calls so far.            *)
OwedPerCall(c, cap) == cap
OwedInAll(c, cap) == IF cap > paidOut[c] THEN cap - paidOut[c] ELSE 0

(* The firm's insurance pays first, as far as it reaches.                  *)
WholeTarget(target) == target
InsuranceShare(target) == Min({target, insurance})

(* draw_universal_for_dispute: the day's counter accumulates, and restarts *)
(* on a new day.                                                           *)
DrawnThisTime == 0
DrawnToday == IF pool.day = now \div Day THEN pool.drawn ELSE 0

SettleDisputePayout(c, amount, guardian, withSize) ==
    LET target == Min({amount, OwedInAll(c, PayoutCap(c, withSize))})
        fromInsurance == InsuranceShare(target)
        fromPool == Min({target - fromInsurance, pool.vault})
        drawn == ulp.drawn + fromPool
    IN  /\ Exists(c)
        /\ dispute[c].status \in {"ResolvedUpheld", "ForceResolved"}
        /\ StillOwed(c)
        /\ challenge[c].settlement = "Faulted" \/ guardian
        /\ withSize => fundedSize[c] > 0
        /\ OwedInAll(c, PayoutCap(c, withSize)) > 0
        /\ fromPool > 0 => DrawnToday + fromPool <= DailyDrawCap
        /\ insurance' = insurance - fromInsurance
        /\ paidOut' = [paidOut EXCEPT ![c] = @ + fromInsurance + fromPool]
        /\ IF fromPool = 0
           THEN UNCHANGED <<pool, ulp>>
           ELSE /\ pool' = [vault |-> pool.vault - fromPool, day |-> now \div Day,
                            drawn |-> DrawnToday + fromPool]
                /\ ulp' = [drawn |-> drawn,
                           bankrupt |-> ulp.bankrupt \/ drawn >= pool.vault \div Divisor]
        /\ UNCHANGED fundedSize

----------------------------------------------------------------------------
SystemInit == Init /\ DisputeInit /\ PayoutInit

StakeStep ==
    \/ InitBondShell
    \/ SyncBond
    \/ \E amount \in Deposits :
          /\ stake.lamports + amount <= MaxLamports
          /\ InitOperatorStake(amount) \/ DepositLamports(amount) \/ AddStake(amount)
             \/ ReinstateOperatorStake(amount)

DisputeStep(c) ==
    \/ /\ Room(ResolutionWindow)
       /\ \/ "UnsettledTimeout" \in DisputeKinds /\ OpenUnsettledTimeoutDispute(c)
          \/ \E e \in Epochs : "TradeInclusion" \in DisputeKinds /\ OpenDispute(c, e)
    \/ \E k \in Keys, upheld \in BOOLEAN : ResolveDispute(c, k, upheld)
    \/ SlashSettlementFault(c)

ForceVerdict(c) ==
    /\ ForceDisputeResolution(c) \/ ForceUnsettledTimeoutResolution(c)
    /\ UNCHANGED <<vars, payoutVars>>

PayoutStep(c) ==
    \/ \E k \in Keys, size \in FundedSizes : SetChallengeFundedSize(c, k, size)
    \/ \E amount \in Amounts, guardian, withSize \in BOOLEAN :
          SettleDisputePayout(c, amount, guardian, withSize)

SystemNext ==
    \/ Next /\ UNCHANGED <<disputeVars, payoutVars>>
    \/ StakeStep /\ UNCHANGED <<vars, payoutVars>>
    \/ \E c \in Challenges :
          \/ DisputeStep(c) /\ UNCHANGED <<vars, payoutVars>>
          \/ ForceVerdict(c)
          \/ PayoutStep(c) /\ UNCHANGED <<vars, disputeVars>>

SystemSpec == SystemInit /\ [][SystemNext]_systemVars

(* The clock advances, and a trader whose deadline passed asks for his     *)
(* verdict.                                                                *)
FairSystemSpec ==
    /\ SystemSpec
    /\ WF_systemVars(TickStep /\ UNCHANGED <<disputeVars, payoutVars>>)
    /\ \A c \in Challenges : WF_systemVars(ForceVerdict(c))

----------------------------------------------------------------------------
(* Every account of the dispute program and of the payout has its type,    *)
(* and no lamport that was never there is staked or drawn.                 *)
DisputeTypeOK ==
    /\ dispute \in [Challenges -> DisputeType]
    /\ stake \in StakeType
    /\ slashed \in [Challenges -> Nat]
    /\ fundedSize \in [Challenges -> Nat]
    /\ paidOut \in [Challenges -> Nat]
    /\ insurance \in 0..Insurance
    /\ pool \in [vault: 0..PoolBalance, day: Nat, drawn: Nat]
    /\ ulp \in [drawn: Nat, bankrupt: BOOLEAN]

(* Whatever order deposits, syncs, top-ups and slashes come in, the stake  *)
(* is there to be slashed and a slash leaves the account rent-exempt       *)
(* (sync_bond's subtraction, distribute_slash's debit).                    *)
StakeIsBacked == stake.exists => stake.staked + Rent <= stake.lamports

(* Every slash has its cause: an upheld dispute or a faulted settlement,   *)
(* and no cause slashes twice (the dispute's status, the slash record).    *)
EachSlashHasItsCause ==
    stake.slash_count =
        Cardinality({c \in Challenges : dispute[c].status = "ResolvedUpheld"})
        + Cardinality({c \in Challenges : slashed[c] > 0})

(* A verdict stands: an answer that comes late, from the operator or from  *)
(* the trader, never replaces one that was given.                          *)
VerdictStands ==
    [][\A c \in Challenges :
          dispute[c].status \in {"ResolvedUpheld", "ResolvedRejected", "ForceResolved"}
              => dispute'[c] = dispute[c]]_systemVars

(* A trader wins a timeout only after the operator had the whole grace     *)
(* after the account's expiry, limited or not, and the whole resolution    *)
(* window after that.                                                      *)
TimeoutWaited ==
    \A c \in Challenges :
        Exists(c) /\ dispute[c].kind = "UnsettledTimeout" /\ dispute[c].status = "ForceResolved" =>
              now > challenge[c].started_at + GraceWindow + ResolutionWindow
                    + (IF TradingPeriod[c] = 0 THEN UnlimitedCap ELSE TradingPeriod[c])

(* Insurance never pays a timeout of a challenge that was settled after    *)
(* all, even when the settlement came between the verdict and the payout.  *)
NoTimeoutPaymentOnceSettled ==
    [][\A c \in Challenges :
          dispute[c].kind = "UnsettledTimeout" /\ challenge[c].settlement # "Unsettled"
              => paidOut'[c] = paidOut[c]]_systemVars

(* Over all its calls a dispute never pays more than one cap.              *)
PayoutWithinFundedSize ==
    \A c \in Challenges : \E cap \in {LegacyCap} \cup FundedSizes : paidOut[c] <= cap

(* The pool's daily counter is the lamports that really left its vault on  *)
(* that day, over however many calls, and never exceeds the cap.           *)
PoolDrawIsCapped ==
    [][pool'.vault < pool.vault =>
          /\ pool'.drawn <= DailyDrawCap
          /\ pool'.drawn = pool.vault - pool'.vault + (IF pool'.day = pool.day THEN pool.drawn ELSE 0)
      ]_systemVars

(* No dispute is left open: the trader's own force ends it, unless the     *)
(* operator cured it by settling or the account is gone.                   *)
DisputesConclude ==
    \A c \in Challenges :
        dispute[c].status = "Open" ~>
            \/ dispute[c].status # "Open"
            \/ dispute[c].kind = "UnsettledTimeout"
               /\ (~ Exists(c) \/ challenge[c].settlement # "Unsettled")

(* "The lever that makes indefinite stall impossible": a trader whose      *)
(* settlement is overdue has a timeout dispute or can open one.            *)
StallCanBeDisputed ==
    \A c \in Challenges :
        Overdue(c) => NoDispute(c) \/ dispute[c].kind = "UnsettledTimeout"
                      \/ dispute[c].status \in {"Open", "ResolvedUpheld", "ForceResolved"}
=============================================================================
