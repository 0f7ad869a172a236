------------------------------- MODULE Dispute -------------------------------
(***************************************************************************)
(* The dispute program beside the challenge program: one dispute account   *)
(* per challenge, opened by a Merkle inclusion proof or by a settlement    *)
(* that is overdue; the operator's stake that backs honest settlement; and *)
(* the slash of a proven settlement fault.                                 *)
(***************************************************************************)
EXTENDS ChallengeProperties

CONSTANTS
    TradingPeriod,     \* max_trading_days of each slot, in clock units; 0 is unlimited
    GraceWindow,       \* SETTLEMENT_GRACE_WINDOW
    ResolutionWindow,  \* DISPUTE_RESOLUTION_WINDOW
    UnlimitedCap,      \* UNLIMITED_EVAL_SETTLEMENT_CAP
    MinStake,          \* MIN_OPERATOR_STAKE_LAMPORTS
    Rent               \* rent-exempt minimum of the stake account

ASSUME DisputeAssumption ==
    /\ TradingPeriod \in [Challenges -> Nat]
    /\ GraceWindow \in Nat /\ ResolutionWindow \in Nat /\ UnlimitedCap \in Nat
    /\ MinStake \in Nat \ {0} /\ Rent \in Nat

VARIABLES
    dispute,   \* DisputeState ["dispute", challenge]
    stake,     \* OperatorStake ["operator_stake", firm] and the lamports it holds
    slashed    \* SettlementSlashRecord ["settlement_slash", challenge]: its amount, 0 if absent

DisputeType ==
    [kind: {"None", "TradeInclusion", "UnsettledTimeout"},
     status: {"None", "Open", "ResolvedUpheld", "ResolvedRejected", "ForceResolved"},
     deadline: Nat]
StakeType ==
    [exists: BOOLEAN, staked: Nat, lamports: Nat, slash_count: Nat, suspended: BOOLEAN]

DisputeInit ==
    /\ dispute = [c \in Challenges |-> [kind |-> "None", status |-> "None", deadline |-> 0]]
    /\ stake = [exists |-> FALSE, staked |-> 0, lamports |-> 0, slash_count |-> 0,
                suspended |-> FALSE]
    /\ slashed = [c \in Challenges |-> 0]

----------------------------------------------------------------------------
(* The operator's stake: opened with a minimum, or empty by anybody.       *)
OpenStake(amount) ==
    /\ ~ stake.exists
    /\ stake' = [exists |-> TRUE, staked |-> amount, lamports |-> Rent + amount,
                 slash_count |-> 0, suspended |-> FALSE]
    /\ UNCHANGED <<dispute, slashed>>

InitOperatorStake(amount) == amount >= MinStake /\ OpenStake(amount)
InitBondShell == OpenStake(0)

(* Lamports reach the account past the program: fund_operator_bond and     *)
(* plain transfers.                                                        *)
DepositLamports(amount) ==
    /\ stake.exists
    /\ stake' = [stake EXCEPT !.lamports = @ + amount]
    /\ UNCHANGED <<dispute, slashed>>

(* sync_bond: everything above the rent is stake.                          *)
SyncedWithRent == stake.lamports
Synced == IF stake.lamports > Rent THEN stake.lamports - Rent ELSE 0
SyncBond ==
    /\ stake.exists
    /\ stake' = [stake EXCEPT !.staked = Synced]
    /\ UNCHANGED <<dispute, slashed>>

AddStake(amount) ==
    /\ stake.exists /\ amount > 0
    /\ stake' = [stake EXCEPT !.staked = @ + amount, !.lamports = @ + amount]
    /\ UNCHANGED <<dispute, slashed>>

ReinstateOperatorStake(amount) ==
    /\ stake.exists /\ stake.suspended
    /\ amount >= MinStake
    /\ stake' = [stake EXCEPT !.staked = @ + amount, !.lamports = @ + amount, !.suspended = FALSE]
    /\ UNCHANGED <<dispute, slashed>>

(* distribute_slash and what both slashes write: the whole stake goes, and *)
(* the operator is suspended.                                              *)
Slashed ==
    [stake EXCEPT !.staked = 0, !.lamports = @ - stake.staked, !.slash_count = @ + 1,
                  !.suspended = TRUE]

----------------------------------------------------------------------------
(* `init` of the one dispute account a challenge can have.                 *)
NoDispute(c) == dispute[c].kind = "None"

OpenAs(c, kind) ==
    /\ Exists(c)
    /\ NoDispute(c)
    /\ dispute' = [dispute EXCEPT ![c] =
                     [kind |-> kind, status |-> "Open", deadline |-> now + ResolutionWindow]]
    /\ UNCHANGED <<stake, slashed>>

(* open_dispute: some tick is a member of the epoch's root.                *)
OpenDispute(c, e) ==
    /\ batchRoot[e] # NoRoot
    /\ batchRoot[e].trade_count > 0
    /\ OpenAs(c, "TradeInclusion")

(* open_unsettled_timeout_dispute. expires_at 0 means an unlimited account,*)
(* whose settlement is due a fixed time after its start.                   *)
ExpiresAt(c) == IF TradingPeriod[c] = 0 THEN 0 ELSE challenge[c].started_at + TradingPeriod[c]
ExpiryWithoutSentinel(c) == ExpiresAt(c)
EffectiveExpiry(c) ==
    IF ExpiresAt(c) # 0 THEN ExpiresAt(c) ELSE challenge[c].started_at + UnlimitedCap

Overdue(c) ==
    /\ Exists(c)
    /\ challenge[c].settlement = "Unsettled"
    /\ Phase[c] = "Funded"
    /\ now > EffectiveExpiry(c) + GraceWindow

OpenUnsettledTimeoutDispute(c) == Overdue(c) /\ OpenAs(c, "UnsettledTimeout")

(* The verdicts.  The operator can answer an inclusion dispute as long as  *)
(* it is open, its deadline notwithstanding.                               *)
NotYetForced(c) == dispute[c].status \in {"Open", "ForceResolved"}
Pending(c) == dispute[c].status = "Open"

ResolveDispute(c, signer, upheld) ==
    /\ SignedByAuthority(c, signer)
    /\ stake.exists
    /\ Pending(c)
    /\ dispute[c].kind = "TradeInclusion"
    /\ stake' = IF upheld THEN Slashed ELSE stake
    /\ dispute' = [dispute EXCEPT ![c].status =
                     IF upheld THEN "ResolvedUpheld" ELSE "ResolvedRejected"]
    /\ UNCHANGED slashed

PastDeadlineUnsettled(c) ==
    /\ dispute[c].status = "Open" /\ now > dispute[c].deadline
    /\ Exists(c) /\ challenge[c].settlement = "Unsettled"
PastDeadline(c) == dispute[c].status = "Open" /\ now > dispute[c].deadline

ForceDisputeResolution(c) ==
    /\ PastDeadline(c)
    /\ dispute[c].kind = "TradeInclusion"
    /\ dispute' = [dispute EXCEPT ![c].status = "ForceResolved"]
    /\ UNCHANGED <<stake, slashed>>

ForceUnsettledTimeoutResolution(c) ==
    /\ PastDeadline(c)
    /\ dispute[c].kind = "UnsettledTimeout"
    /\ Exists(c)
    /\ challenge[c].settlement = "Unsettled"
    /\ dispute' = [dispute EXCEPT ![c].status = "ForceResolved"]
    /\ UNCHANGED <<stake, slashed>>

(* slash_settlement_fault: once per challenge, on its faulted settlement.  *)
SlashedAgain(c) == challenge[c].settlement = "Faulted"
SlashDue(c) == challenge[c].settlement = "Faulted" /\ slashed[c] = 0

SlashSettlementFault(c) ==
    /\ Exists(c) /\ SlashDue(c)
    /\ stake.exists /\ stake.staked > 0
    /\ stake' = Slashed
    /\ slashed' = [slashed EXCEPT ![c] = stake.staked]
    /\ UNCHANGED dispute
=============================================================================
