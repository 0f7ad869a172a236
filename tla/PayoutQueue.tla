----------------------------- MODULE PayoutQueue -----------------------------
(***************************************************************************)
(* What the firm owes its traders and how it delivers: a claim that stood  *)
(* its fraud window is queued as a quantity of the firm's token, held if   *)
(* it is large, and filled in parts from four tiers: the treasury, the     *)
(* token reserve, the backstop pool and the Universal Pool. How a claim is *)
(* settled is left to the promise the challenge program keeps              *)
(* (OptimisticClaim): a settlement or a funded withdrawal is one slot.     *)
(***************************************************************************)
EXTENDS BackstopPool, FiniteSets

CONSTANTS
    Challenges,        \* challenges of one firm
    Cycles,            \* withdrawal cycles, and the cycles a keeper may name
    Settlement,        \* names the settlement among a challenge's claims
    Claims,            \* the settlements and withdrawals of the instance
    SolOwed,           \* what each of them is worth, in SOL
    Quotes,            \* tokens such a claim may buy at the curve's reserves
    Spends,            \* SOL amounts a keeper may spend in one call
    Draws,             \* token amounts a keeper may draw in one call
    Times,             \* the moments at which the instance calls
    Window,            \* the fraud window of a claim
    Hold,              \* CONCENTRATION_HOLD_SECONDS
    DischargeTimeout,  \* FORCE_DISCHARGE_TIMEOUT
    ConcentrationBps,  \* CONCENTRATION_GUARD_BPS
    Backings,          \* what reserve and bond may be worth in SOL at a call
    CarveBps,          \* share of a spend that goes to the Universal Pool
    FeeBps,            \* share of a buy the curve pays back to the treasury
    RewardBps,         \* what the backstop's stakers get of what the trader gets
    Dust,              \* INSOLVENCY_RESIDUAL_DUST_SOL
    Divisor,           \* BANKRUPTCY_ULP_DEPLETION_DIVISOR
    DailyDrawCap,      \* UNIVERSAL_DAILY_DRAW_CAP_SOL
    Starts,            \* what the firm, the pool and the stakers may start with
    Credits,           \* SOL the curve's fees may bring the treasury
    MaxSol,            \* bound on the SOL in the vaults of the instance
    MaxReward          \* bound on the tokens in the reward vault

Entries == Challenges \X Cycles

ASSUME PayoutQueueAssumption ==
    /\ IsFiniteSet(Challenges) /\ IsFiniteSet(Cycles)
    /\ Cycles \subseteq Nat /\ 0 \in Cycles
    /\ Claims \subseteq Challenges \X (Cycles \cup {Settlement})
    /\ SolOwed \in [Claims -> Nat \ {0}] /\ Quotes \subseteq Nat \ {0}
    /\ Spends \subseteq Nat \ {0} /\ Draws \subseteq Nat /\ Credits \subseteq Nat
    /\ Times \subseteq Nat \ {0} /\ Times # {}
    /\ Window \in Nat \ {0} /\ Hold \in Nat \ {0} /\ DischargeTimeout \in Nat \ {0}
    /\ ConcentrationBps \in 0..10000 /\ Backings \subseteq Nat /\ CarveBps \in 0..10000
    /\ FeeBps \in 0..10000 /\ RewardBps \in Nat
    /\ Dust \in Nat /\ Divisor \in Nat \ {0} /\ DailyDrawCap \in Nat
    /\ Starts \subseteq [claims : SUBSET Claims, wallet : [Holders -> Nat], treasury : Nat,
                        reserve : Nat, insurance : Nat, universal : Nat,
                        funds : Nat, reward : Nat]
    /\ MaxSol \in Nat /\ MaxReward \in Nat

VARIABLES
    phase, deadline,  \* the claims (OptimisticClaim)
    entry,            \* QueuedPayout or PayoutRecord ["payout", challenge, cycle]
    firm,             \* the fields of FirmState the payouts use
    treasury,         \* SOL in the treasury vault
    reserve,          \* tokens in the treasury's token vault
    insurance,        \* SOL in the insurance vault
    universal,        \* UniversalPool and its vault
    advancePool       \* AdvancePool ["advance_pool", firm]

claimVars == <<phase, deadline>>
tierVars == <<treasury, reserve, insurance, universal>>
queueVars == <<claimVars, entry, firm, tierVars, advancePool>>
payoutVars == <<now, backstopVars, queueVars>>

Claim == INSTANCE OptimisticClaim WITH Slots <- Claims, Reusable <- {}

EntryType ==
    [kind : {"None", "Record", "Queued"}, owed : Nat, delivered : Nat, sol : Nat,
     queued_at : Nat, hold_until : Nat, advanced : Nat]

NoEntry == [kind |-> "None", owed |-> 0, delivered |-> 0, sol |-> 0, queued_at |-> 0,
            hold_until |-> 0, advanced |-> 0]

FirmType ==
    [bankrupt : BOOLEAN, velocity_break : BOOLEAN, open_payouts : Nat, treasury_sol : Nat,
     ulp_drawn : Nat]

(* A start names the claims still to come; the others fell before.         *)
QueueInit(start) ==
    /\ now \in Times /\ \A t \in Times : now <= t
    /\ phase = [s \in Claims |-> IF s \in start.claims THEN "None" ELSE "Refuted"]
    /\ deadline = [s \in Claims |-> 0]
    /\ entry = [e \in Entries |-> NoEntry]
    /\ firm = [bankrupt |-> FALSE, velocity_break |-> FALSE, open_payouts |-> 0,
               treasury_sol |-> start.treasury, ulp_drawn |-> 0]
    /\ treasury = start.treasury /\ reserve = start.reserve /\ insurance = start.insurance
    /\ universal = [vault |-> start.universal, drawn |-> 0, day |-> 0]
    /\ advancePool = [sol_outstanding |-> 0, daily |-> 0, day |-> 0]

Bps(amount, rate) == (amount * rate) \div 10000

Outstanding(e) == entry[e].delivered < entry[e].owed
WholeOwed(e) == entry[e].owed
Remaining(e) == entry[e].owed - entry[e].delivered

----------------------------------------------------------------------------
(* The gates. A claim pays once it was upheld; a queued payout is paid     *)
(* under its withdrawal if that account is handed in, and under the        *)
(* challenge's settlement if not. Who may sign is FirmAuthority's matter.  *)
Final(claim) == claim \in Claims /\ phase[claim] = "Upheld"
ClaimOf(e, asWithdrawal) == IF asWithdrawal THEN e ELSE <<e[1], Settlement>>
Deliverable(e, asWithdrawal) == Final(ClaimOf(e, asWithdrawal))

(* The concentration guard: a claim above its share of treasury, reserve   *)
(* and bond waits for review.                                              *)
ConcentrationLimit(backing) == Bps(firm.treasury_sol + backing, ConcentrationBps)
HoldFor(sol, backing) == IF sol > ConcentrationLimit(backing) THEN now + Hold ELSE 0

(* A spend leaves the treasury for the Universal Pool and for the curve,   *)
(* which pays part of its fee back. The cache is then set to what the      *)
(* vault really holds.                                                     *)
Carve(sol) == Bps(sol, CarveBps)
SpentFromTreasury(sol, carve) ==
    /\ sol <= firm.treasury_sol
    /\ treasury >= firm.treasury_sol
    /\ treasury' = treasury - sol + Bps(sol - carve, FeeBps)
    /\ universal' = [universal EXCEPT !.vault = @ + carve]

(* What the firm records as spent: the fall of its cache, which misses     *)
(* what the vault gained meanwhile.                                        *)
RecordedSpend == SatSub(firm.treasury_sol, treasury')

(* The stakers' part of a delivery, if the firm has a backstop pool.       *)
Rewarded(fill) ==
    /\ rewardVault' = rewardVault + (IF backstop.exists THEN Bps(fill, RewardBps) ELSE 0)
    /\ rewardVault' <= MaxReward

(* An entry that is filled up is discharged, whichever tier filled it.     *)
UncountedFill(e, amount) == firm.open_payouts
OpenAfterFill(e, amount) ==
    IF amount >= Remaining(e) THEN SatSub(firm.open_payouts, 1) ELSE firm.open_payouts
Filled(e, amount) == entry' = [entry EXCEPT ![e].delivered = @ + amount]

----------------------------------------------------------------------------
(* execute_payout_buy: a settlement is paid at once; the record takes the  *)
(* entry's place for good.                                                 *)
ExecutePayoutBuy(e, sol) ==
    /\ Final(<<e[1], Settlement>>)
    /\ entry[e].kind = "None"
    /\ SpentFromTreasury(sol, 0)
    /\ firm' = [firm EXCEPT !.treasury_sol = treasury']
    /\ entry' = [entry EXCEPT ![e] = [NoEntry EXCEPT !.kind = "Record"]]
    /\ UNCHANGED <<now, claimVars, reserve, insurance, advancePool, backstopVars>>

(* enqueue_payout: of a withdrawal under its own cycle, of a settlement    *)
(* under any. The tokens owed are struck here, once.                       *)
EnqueuePayout(e, asWithdrawal, owed, backing) ==
    LET sol == SolOwed[ClaimOf(e, asWithdrawal)]
    IN  /\ Deliverable(e, asWithdrawal)
        /\ entry[e].kind = "None"
        /\ entry' = [entry EXCEPT ![e] =
                        [NoEntry EXCEPT !.kind = "Queued", !.owed = owed, !.sol = sol,
                                        !.queued_at = now, !.hold_until = HoldFor(sol, backing)]]
        /\ firm' = [firm EXCEPT !.open_payouts = @ + 1]
        /\ UNCHANGED <<now, claimVars, tierVars, advancePool, backstopVars>>

(* reconcile_payout_hold: anybody, and only ever to an earlier time.       *)
ReconcilePayoutHold(e, backing) ==
    /\ entry[e].kind = "Queued"
    /\ entry' = [entry EXCEPT ![e].hold_until = Min({@, HoldFor(entry[e].sol, backing)})]
    /\ UNCHANGED <<now, claimVars, firm, tierVars, advancePool, backstopVars>>

(* process_queued_payout: the treasury buys tokens on the curve, out of    *)
(* which the trader gets his part (fill) and the backstop's stakers        *)
(* theirs. A short fill that empties the treasury trips the breaker, a   *)
(* full one resets it.                                                     *)
ProcessQueuedPayout(e, asWithdrawal, sol, fill) ==
    LET full == fill = Remaining(e)
        exhausted == treasury' <= Dust
    IN  /\ Deliverable(e, asWithdrawal)
        /\ now >= entry[e].hold_until
        /\ Outstanding(e)
        /\ fill <= Remaining(e)
        /\ SpentFromTreasury(sol, Carve(sol))
        /\ Filled(e, fill)
        /\ Rewarded(fill)
        /\ firm' = [firm EXCEPT !.treasury_sol = treasury',
                                !.open_payouts = OpenAfterFill(e, fill),
                                !.velocity_break = ~ full /\ (@ \/ exhausted)]
        /\ UNCHANGED <<now, claimVars, reserve, insurance, advancePool, backstop, position,
                       escrow, premiumVault, wallet, funds>>

(* close_queued_payout: the trader takes the rent of a filled entry.       *)
CloseQueuedPayout(e) ==
    /\ entry[e].kind = "Queued"
    /\ ~ Outstanding(e)
    /\ entry' = [entry EXCEPT ![e] = NoEntry]
    /\ UNCHANGED <<now, claimVars, firm, tierVars, advancePool, backstopVars>>

----------------------------------------------------------------------------
(* draw_treasury_firma: out of the token reserve.                          *)
DrawTreasuryFirma(e, asWithdrawal, amount) ==
    LET draw == Min({amount, Remaining(e), reserve})
    IN  /\ Deliverable(e, asWithdrawal)
        /\ Outstanding(e)
        /\ draw > 0
        /\ reserve' = reserve - draw
        /\ Filled(e, draw)
        /\ firm' = [firm EXCEPT !.open_payouts = OpenAfterFill(e, draw)]
        /\ UNCHANGED <<now, claimVars, treasury, insurance, universal, advancePool,
                       backstopVars>>

(* draw_backstop: out of the stakers' escrow, while the breaker is on.     *)
DrawBackstop(e, asWithdrawal, amount) ==
    LET draw == Min({amount, Remaining(e), backstop.total_staked})
    IN  /\ Deliverable(e, asWithdrawal)
        /\ firm.velocity_break
        /\ Outstanding(e)
        /\ DrawnFromStakers(draw)
        /\ Filled(e, draw)
        /\ firm' = [firm EXCEPT !.open_payouts = OpenAfterFill(e, draw)]
        /\ UNCHANGED <<now, rewardVault, claimVars, tierVars, advancePool>>

DrawnToday == IF universal.day = now \div Day THEN universal.drawn ELSE 0

(* draw_universal: the last resort, credited with the caller's least       *)
(* output. A firm that has drawn its share of the pool is bankrupt.        *)
DrawUniversal(e, asWithdrawal, sol, minOut) ==
    LET fill == Min({minOut, Remaining(e)})
        drawn == firm.ulp_drawn + sol
    IN  /\ Deliverable(e, asWithdrawal)
        /\ sol > 0
        /\ firm.treasury_sol < sol /\ reserve = 0 /\ firm.velocity_break
        /\ Outstanding(e)
        /\ DrawnToday + sol <= DailyDrawCap
        /\ sol <= universal.vault
        /\ universal' = [vault |-> universal.vault - sol, drawn |-> DrawnToday + sol,
                         day |-> now \div Day]
        /\ Filled(e, fill)
        /\ firm' = [firm EXCEPT !.open_payouts = OpenAfterFill(e, fill),
                                !.ulp_drawn = drawn,
                                !.bankrupt = @ \/ drawn >= universal.vault \div Divisor]
        /\ UNCHANGED <<now, claimVars, treasury, reserve, insurance, advancePool, backstopVars>>

----------------------------------------------------------------------------
(* set_velocity_break: the risk engine says so.                            *)
SetVelocityBreak(active) ==
    /\ firm' = [firm EXCEPT !.velocity_break = active]
    /\ UNCHANGED <<now, claimVars, entry, tierVars, advancePool, backstopVars>>

(* clear_velocity_break_permissionless: nothing is owed, and the treasury  *)
(* is there.                                                               *)
ClearVelocityBreakPermissionless ==
    /\ firm.velocity_break
    /\ firm.open_payouts = 0
    /\ treasury > Dust
    /\ firm' = [firm EXCEPT !.velocity_break = FALSE]
    /\ UNCHANGED <<now, claimVars, entry, tierVars, advancePool, backstopVars>>

(* Fees of the firm's curve reach the treasury vault past the cache.       *)
CurveFees(amount) ==
    /\ treasury + insurance + universal.vault + amount <= MaxSol
    /\ treasury' = treasury + amount
    /\ UNCHANGED <<now, claimVars, entry, firm, reserve, insurance, universal, advancePool,
                   backstopVars>>
=============================================================================
