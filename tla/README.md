# Verification of the on-chain programs

TLA+ models of the five Solana programs under `src/programs/`, the TLC
configurations that check them on small instances, and theorems about them
that TLAPS proves for every value of the constants. File and line references
are to the repository under `src/`.

## 1. The system

A *firm* sells trading *challenges*. A challenge is traded off-chain; its fills
reach the chain as one Merkle root per firm and hour. From those roots a
keeper claims a result, anybody may refute the claim inside a window, and the
firm pays what survives. Operators stake against misbehaviour, traders have a
dispute court when the operator stalls or leaves a fill out, and each firm's
token trades on a bonding curve. What a firm owes is delivered in its own
token, from four tiers in turn: bought with the treasury's SOL, out of the
treasury's token reserve, out of a pool of stakers at risk (the backstop), and
out of the Universal Pool all firms feed. A second pool of stakers funds
markets on the outcome of challenges.

| Program | State (accounts) | Operations | Talks to |
|---|---|---|---|
| `batch` | `BatchCommitter`, one `BatchRoot` per firm-hour | `set_batch_committer`, `commit_batch_root` | roots are read by `challenge` and `dispute` |
| `challenge` | `ChallengeState`, `SettlementCoverage`, `SupplementalSegment`, `WithdrawalCounter`, `FundedWithdrawal` per cycle, `ChallengeIntegrity` | purchase, giveaway, coverage building, proposal, five settlement proofs, five withdrawal proofs, finalization, integrity hold, close, the trusted `settle_challenge` | reads `FirmState` (keeper key) and batch roots; read by `firm` and `dispute` |
| `firm` | `FirmState`, treasuries, `QueuedPayout`, advances, insurance vault, Universal Pool, market pools and curves, vesting streams, staking pools | deployment, fees, payout queue, advances, dispute payout, bankruptcy, backstop, prediction markets, drips, migrations | gates on challenge accounts; CPI to `bonding_curve`; reads disputes |
| `dispute` | `DisputeState`, `OperatorStake`, `SettlementSlashRecord` | open by inclusion or by timeout, operator's verdict, forced verdict, stake, slash | reads challenge and batch accounts; a verdict is paid by `firm` |
| `bonding_curve` | `BondingCurve`, its SOL and token vaults | create, open, buy, sell, add reserve, graduate | supply comes from `firm` |

There is no shared memory and no callback: an instruction is atomic, and the
programs interact by reading each other's accounts and by CPI. What is hard is
therefore **the order of instructions that anybody may send**, and **time**:

* a claim, its five kinds of refutation, its finalization and the trusted
  settlement path race over a window;
* evidence arrives late, or never, and an account may be younger than the root
  that should carry its fills;
* a settlement and several withdrawal cycles claim parts of one history, and
  no epoch may be counted in two of them;
* the keeper's key rotates while challenges are frozen to the old one;
* a verdict on a stalled settlement races the settlement it complains about,
  and is paid over several calls, days and sources;
* integer division on the curve must never pay a trader for a round trip;
* one payout is filled in parts by different callers from different tiers, may
  have been advanced before its claim was final, and may end as a fill, a
  write-off or a discharge, while a counter must know how many are open;
* pools spread yields and losses by integer division over stakes that come and
  go, and collateral leaves a market by six instructions in any order.

### What makes each component correct

| Component | Properties | Hard part |
|---|---|---|
| batch | evidence is append-only and timely | window edges, rotation of the committer |
| challenge: settlement | a claim is bound to its evidence; each false claim whose commitments agree is refutable; it is refuted only inside and upheld only after its window; it is decided in the end | five proofs, optional accounts, boundary seconds |
| challenge: withdrawals | no fill is paid twice; payouts stay within what was earned; a cycle and a settlement never race | watermark and rebaseline over cycles |
| dispute and stake | verdicts stand; each slash has one cause; the stake is really there | lamports arriving from four directions |
| firm: dispute payout | never above the funded size or the daily cap; no timeout payment for a settled account | verdict and payment are two transactions |
| firm: keeper | rotation strands nobody | grace window |
| bonding curve | vaults cover the books; sold tokens can be sold back; product never falls | rounding, caller-chosen fee accounts |
| firm: payout queue, advances | nothing is delivered beyond what is owed; the counter of open payouts is exact; no advance leaves the float it is capped by; what a bankrupt firm owes ends, and its residual is swept once nothing is owed | partial fills, holds, breaker, write-off and discharge in any order |
| firm: backstop pool | the escrow is what is staked; only rounding leaves the stakers with more than the escrow | loss accumulator with integer division |
| firm: liquidity pool | the escrow is explained by the books; promised yield is in the vault | allocation and return in different instructions, debts rounded per stake |
| firm: market curves | collateral covers the shares in every phase; the market's trader stays neutral | merging, swaps, redemption, voiding, gifts |

`PROJECT.json` lists every component with their status, and every hazard at
the line where it bites.

## 2. Modules

```
Batch --> FirmAuthority --> ChallengeAccounts --> Settlement --> Withdrawal
                                                                   |
       ChallengeProofs <-- ChallengeProperties <-- ChallengeProgram
          |        |            |          |
     ClaimProofs   |     OptimisticClaim  Dispute --> DisputePayout
          |        |                                       |
     SumsProofs    +-------------------------------> DisputeProofs

BondingCurve --> BondingCurveProofs

StakePool, Sums --> MarketPool --> MarketCurve --> MarketProofs
      |                                                  |
      |                                     StakePoolProofs, SumsProofs
      +---> BackstopPool --> PayoutQueue --> PayoutSystem --> PayoutProofs
                                  |                              |
                           OptimisticClaim                StakePoolProofs

WindDown
```

(An arrow points to the module that extends; `OptimisticClaim` is instantiated
by `ChallengeProperties`, which shows that settlements and withdrawals implement
it, and by `PayoutQueue`, which relies on just that. `WindDown` stands alone. The proof modules below or
beside another are extended by it.)

| Module | Models | Correspondence |
|---|---|---|
| `Batch` | `batch/src/lib.rs` | `batchRoot[e]` is the `BatchRoot` of hour `e`: its time, its fill count and the segment table it commits to. The clock lives here. |
| `FirmAuthority` | keeper rotation in `firm/src/lib.rs` | `keeper` holds the live key, the parked one and the grace deadline. |
| `ChallengeAccounts` | account structs and shared helpers of `challenge` | records with the fields the instructions read; coverage append and finalization; outcome and slot lookups; the verifiers of `settlement.rs` over abstract leaves. |
| `Settlement` | purchase, coverage, proposal, five proofs, finalization, holds, close | one action per instruction, in the order of the file. |
| `Withdrawal` | counter, cycle coverage, proposal, five cycle proofs, finalization | likewise. |
| `ChallengeProgram` | composition with the external parties | the hour's payload, what a keeper may propose, `Next`, `Spec`, `FairSpec`. |
| `ChallengeProperties` | the firm's payout gates over challenge accounts | and every property of the above. |
| `OptimisticClaim` | abstract: what an optimistic settlement promises | implemented by settlements and by withdrawal cycles. |
| `Dispute` | `dispute/src/lib.rs` | inclusion and timeout disputes, stake and slashes. |
| `DisputePayout` | `settle_dispute_payout` and the pool it draws on | composed with the challenge and dispute actions in `SystemNext`. |
| `BondingCurve` | `bonding_curve/src/lib.rs`, and the supply hand-over of `firm` | books, vaults and every trade. |
| `StakePool` | the arithmetic of the pools in `firm` | accumulator, debt, slice of a position, cooldown, daily cap: pure operators both pools use, as the code uses the same helpers. |
| `MarketPool` | `init_pm_lp_pool` to `claim_pm_lp_yield` | the liquidity pool, its positions, escrow and yield vault. |
| `MarketCurve` | `init_market_curve` to `sweep_curve_fees_to_pool` | one market: status, shares per side, inventory, collateral, fees; and what moves between it and the pool. |
| `BackstopPool` | `init_backstop_pool` to `fund_backstop_premium`, the backstop leg of `route_firma`, `sync_backstop_firma_yield` | the pool, its positions and its three vaults; `DrawnFromStakers` is what a draw does to it. |
| `PayoutQueue` | enqueue, holds, delivery from the four tiers, close, velocity break | `entry[<<c, n>>]` is the account `["payout", challenge, cycle]`, a `PayoutRecord` or a `QueuedPayout`; claims are slots of `OptimisticClaim`. |
| `PayoutSystem` | advances, reconciliation, write-off, discharge, bankruptcy | composed with the queue and the pool in `PayoutNext`. |
| `WindDown` | `enqueue_payout`, `force_discharge_undeliverable_payout` and `finalize_bankruptcy` of a bankrupt firm | what `PayoutSystem` says of the three, for one final settlement and over a clock that never ends: an entry is its age. |
| `Sums` | nothing in the code | the sum over all positions or cycles, for the invariants. |
| `ChallengeProofs`, `ClaimProofs`, `BondingCurveProofs`, `SumsProofs`, `StakePoolProofs`, `MarketProofs`, `PayoutProofs`, `DisputeProofs` | theorems | section 5. |

### Abstractions

* **A transcript is its commitments**, each stored as it is given, as
  `propose_settlement` (593-597) and `propose_funded_withdrawal` (1270-1275) store
  them: the first and last leaf of `transcript_root` (`genesis`, `last`), the set of
  steps under `step_root` (`steps`), the set of leaves under `bound_step_root`
  (`bound`: a tick, and whether it is bound to the slot the coverage assigns), the
  state behind `final_state_hash` (`final`) and `transcript_len` (`len`). Nothing ties
  one to another. A root made up of nothing, a zero root included, opens to no
  leaf. The covered trades are aggregated: the honest transcript has one step
  with their total, or none if nothing is covered, and a proof that needs two
  neighbouring leaves reveals the first and the last. A hash stands for the value
  it commits to. Transition proofs read `steps` alone, input and provenance proofs
  `bound` alone, as the code does.
* **State is equity**, measured from the locked starting balance, so the genesis
  state is 0 and the withdrawable profit of a state is the state. The breach
  flag, the daily reference and the trailing peak of the replay engine are not
  modelled; the rebaseline variants of older layouts differ only in those.
* **A slot** of the instance stands for a (trader, tier, phase, nonce) seed.
  `FreshNonces` says whether callers avoid a nonce they used before; all runs
  assume it, and the collision is listed as a hazard.
* **The parties are not in the repository.** A batch producer commits every fill
  of the hour grouped by account (`ProducerPayload`). A keeper proposes the
  honest replay or one with a deviation in `Lies` (settlement) or `CycleLies[n]`
  (cycle `n`): a wrong state (`Transition`), invented trades at the right slots
  (`Input`) or at others (`Provenance`), invented steps beside the real bound leaves
  (`Split`), beside none (`Unbound`), no leaf under either step root (`Unstepped`), a
  transcript of another length (`Padding`), a wrong opening (`Genesis`), a wrong
  verdict (`Result`), a final state that is no leaf (`Detached`). The theorems do not
  depend on this list. A challenger may send any fault proof that verifies. `MayOmit` names the parties that
  leave optional accounts out of their transactions.
* **Money.** The trader's split and the conversion of profit to lamports are
  left out; withdrawals are counted in profit. Lamports of the stake account
  are modelled with its rent; the balances of slash recipients are not. The
  slash counter of a stake is a `u8` that saturates; the model counts on, so
  `EachSlashHasItsCause` speaks of the first 255 slashes.
* **Disputes.** Merkle inclusion of a tick is "the root of the hour has ticks".
  Configuration accounts that only name recipients are left out.
* **Curve.** Fee counters nobody reads are left out, but the accounts that fees
  and payments go to are the caller's choice, the curve's own vault included.
  The Raydium calls of a graduation are external, and `outside` stands for
  every token that is not in the vault: tokens can be minted elsewhere.
* **Markets.** One market over one pool. The firm's risk tier and velocity break
  are inputs of the pool's calls, which covers any history of them. The start
  may have an account of the older design at the curve's address; that other
  instructions would fail to decode it is not modelled, since all of them are
  guarded by a status that account does not have.
* **Payouts.** A claim is a slot of `OptimisticClaim`, so that the queue is
  checked against everything the challenge program may do and nothing else; the
  five proofs behind a refutation are the other composition's. Who signs a
  delivery is left to `FirmAuthority`. What the curve gives for SOL, how much of
  it is the trader's, and what reserve and bond are worth are any of the
  instance's amounts: no property rests on a price. Closing a challenge's own
  account is left out here.
* **Dust.** An advance spends at most half of what is claimed, and the model takes
  it to fill less than the whole quote, and every quote to be at least one
  unit. For quotes so small that flooring makes the half the whole the code
  counts a payout that is never counted out (section 4); the theorem about the
  counter is for claims above that.
* **Telemetry.** Counters that are only reported (`total_paid_out`, contributions
  to the pool and the like) are left out.

## 3. Runs

| Run | Instance | What it shows |
|---|---|---|
| `settlement` | an evaluation account that shares two hours with another account; two batch committers, two keeper keys and a rotation; an advisory hold; minted before or after the first hour's root; all ten lies | claims are bound to evidence, each step is a distinct own fill, supplemental fills are not in the root, every lie whose commitments agree is refutable, evidence settles, rotation keeps bindings, settlement implements the optimistic claim and is always decided |
| `withdrawal` | a funded account, two profitable hours, two cycles, the second with every lie about a transcript, a settlement in between; or an account that joins late and lives on supplemental evidence | no epoch paid twice, payouts within earnings, no race, payable only after a window, a false cycle whose commitments agree is refutable, each cycle implements the optimistic claim and is always decided |
| `dispute` | an account of unlimited duration, settled, disputed, faulted, slashed for and paid in every order | stake backed, one slash per cause, timeouts waited for, verdicts stand, payouts within size and daily cap, disputes conclude |
| `curve` | amounts up to 12, a fee large enough to be visible, all rounding cases, planned and actual supply that differ | vaults cover books, holders can exit, product never falls |
| `market` | three holders, of whom two stake and two trade, one being the market's trader; amounts 1 to 4; a fee of nine tenths split three ways; a pool accumulator with precision 10 | collateral covers shares in every phase, the trader stays neutral, escrow and yield of the pool are accounted for |
| `payout` | two challenges; four situations to start from: two settlements that can be advanced, a settlement and a withdrawal of one challenge sharing an entry, a withdrawal only the backstop can pay, a pool with premium and yield | nothing delivered beyond what is owed, open payouts counted exactly, advances in the float, stakers backed, every obligation of a bankrupt firm that falls due ends, and the residual is swept once none is left or made |
| `faulted_cycle`, `honest_faulted`, `omitted_counter`, `split_roots`, `stall_blocked`, `wind_down` | one property each, expected to fail | section 4 |

The sizes are about 630 thousand distinct states for `settlement`, 520 thousand
for `withdrawal`, 300 thousand for `dispute`, 41 thousand for `curve`, 1.28
million for `market` and 620 thousand for `payout`; each finishes in one to three
minutes.

**Bounds and why they are enough.** `MaxTime` bounds the clock; `Room` of
`ChallengeProgram` keeps a claim from being proposed when its window could not pass, so every claim of an
instance can be refuted and can be upheld. `MaxCycles`, `MaxFills`,
`MintTimes`, `Rotations`, `SuppCounts` and `MaxLamports` bound what their names
say. One challenge is enough because the instructions of a challenge write only
accounts derived from it; what challenges share is the root of the hour (other
accounts' fills are in it, `OtherFills`, sorted first so that the base offset
is not zero), the keeper (in the instance), the stake and the pool. Two epochs
distinguish an order from a gap and a repetition; two cycles distinguish the
first from a later one, whose opening depends on the cycle before, so it is the
second that lies in `withdrawal`. Windows of
one or two units with a clock of five to seven make both edges of each window
reachable. One rotation is enough to park a key and let its grace pass; the theorem about
rotations covers any number.

In `market`, `Times` are two moments on different days, so that a cooldown and the
daily cap both pass; `MaxFunded` bounds what pool, outsiders and gifts bring in,
`MaxAcc` the yield accumulator and `MaxRoundings` the history variable that counts
debts rounded down. With amounts of one to four units every division of the
code rounds in some state, and a rounding that could pay out one unit too much
would show at once. In `payout`, three moments put a claim before, inside and
after its window, a hold before and after its end, and a discharge before and
after its time; `MaxSol` and `MaxReward` bound what fees and rewards may add.
Entries may be made at any moment, after the firm failed too, and made again
after they were discharged or closed; `ObligationsEnd` therefore speaks only of
those whose discharge falls into the instance's time (`FallsDue`). The starts
are separate because their situations do not meet: the queue's properties over
two challenges need no stakers, and the pool's over stakers need one entry. The
theorems hold for any start.

`CHECK_DEADLOCK` is off: the bounded clock stops, and a graduated curve has
nothing left to do.

**Fairness.** Safety runs use none. `FairSpec` and `FairSystemSpec` assume weak
fairness of

* the clock (`TickStep`), which the cluster advances;
* `FinalizeSettlement` and `FinalizeFundedWithdrawal`, which take no signer but
  the fee payer, so that the beneficiary can send them whatever the operator
  does;
* `ForceVerdict(c)`, sent by the trader whose dispute it decides.

`FairPayoutSpec` assumes the same of the clock and of `ForceDischarge(e)` and
`FinalizeBankruptcy`, which take no signer but the fee payer and which anybody
still owed something by a bankrupt firm, or holding a part in the Universal
Pool, has a reason to send. Nothing is assumed of the keeper who delivers.
Weak fairness is too little for the sweep when entries come and go, so
`ObligationsEnd` asks for it only if the firm is without open payouts from some
time on. `FairWindDown` of `WindDown` goes further and takes the sweep to be strongly
fair, sent whenever it can be again and again; its property is violated all the
same.

No fairness is assumed of the keeper, the producer, the operator or a
challenger: the code cannot make them act. That is also why "a false claim is
refuted" is stated as "can be refuted while its window is open"
(`LieIsRefutable`, `CycleLieIsRefutable`) and not as liveness.

**What refutability rests on.** Both properties have the premise `Coherent`: the two
step roots hold the same trades, and a transcript has a step unless it is of
length one, in which case it ends where it opens. No instruction checks this, and
a claim without it may escape every proof (`split_roots`); a settlement needs in
addition that its final state is its last leaf, which the amount proof of the
withdrawal path makes unnecessary there. A watcher who rebuilds the transcript
sees whether the premise holds; the chain does not. What the properties say is
that under it nothing falls between the five proofs.

Each property of a passing run has a mutant in `PROJECT.json`: an operator of
the model changed the way a plausible bug would change the code, under which
the same run finds the property violated.

## 4. Disagreements between code and comments

* `faulted_cycle`: a refuted withdrawal leaves its account occupied and the
  counter pointing at it, so the trader, who is said not to lose the account,
  can never withdraw again.
* `honest_faulted`: Merkle proofs do not show the index of a state leaf, so
  leaves that are members but not neighbours pass as a transition fault of an
  honest transcript.
* `omitted_counter`: the checks against the withdrawal history are made only
  when the transaction hands in the optional counter account.
* `split_roots`: `step_root` and `bound_step_root` are independent commitments.
  Transition proofs open the first, input and provenance proofs the second, so
  invented trades under `step_root`, with states to match, beside the real trades
  or nothing under `bound_step_root`, fail no proof. Comments call the settlement
  "fully trustless against fabrication" (864, 3114), while that on the argument
  (3123-3125) admits that a zero root is not faultable. The withdrawal path has the
  same two roots.
* `stall_blocked`: a decided inclusion dispute occupies the only dispute
  account of its challenge, so a later stall cannot be disputed.
* `wind_down`: a final settlement may be queued under any cycle number whatever
  the firm's status, and a discharge frees its account, so a keeper who queues it
  under two numbers in turn keeps `open_payouts` above zero, and a bankrupt firm is
  never finalized.

The passing runs state their properties with these cases excluded: the premises
of `LieIsRefutable` and `CycleLieIsRefutable`, an empty `MayOmit` in `withdrawal`,
`ObligationsEnd` in the place of `WindDownConcludes` in `payout`. The lies themselves
are in the instances.

### Observed while modelling

Behaviour that a reader of the models will meet. The models have it as the code
does; no run is about it. Lines are those of `firm/src/lib.rs` unless said
otherwise.

* **A detached final state.** `propose_settlement` does not tie `final_state_hash` to
  `transcript_root` either, and `prove_result_fault` wants a revealed state that is
  both (`challenge/src/lib.rs` 672-703): a hash that is no leaf fails no settlement
  proof. `prove_withdrawal_amount_fault` names and handles the case (1384-1385). The
  lie `Detached` is in the instances, `final = last` in the premise.
* **Leaf counts.** `transcript_len` is bound to the coverage's count and to nothing under
  the roots: a transcript of the right length may have no step leaf at all
  (`Unstepped`).

* **Spend recorded from a stale cache.** Advances and deliveries record as spent
  the fall of the cached `treasury_sol` (633, 1024, 1261), but curve fees reach the
  vault past the cache (7453-7457). A credit in between hides as much of an
  advance from `sol_outstanding`; if it hides all, reconciliation and write-off
  find nothing to release. `RecordedSpend` is that difference.
* **A routed stake earns past yield.** The backstop leg of `route_firma`
  (5352-5395) sets the premium and loss debts but not the debt of the token yield,
  unlike `stake_backstop`.
* **Yield lost between claim and sync.** Claims and withdrawals of the backstop pool
  pay out of the reward vault without lowering `firma_reward_accounted`, which
  `sync_backstop_firma_yield` (5119-5128) compares with the vault: what arrived in
  between is not folded in until the vault outgrows the old mark. The older
  staking pool lowers it (`claim_staking_yield`).
* **Draws overcharge, and round.** Each draw is charged to the nominal stakes but
  divided by the principal left after earlier draws (2049-2051), so repeated draws
  take more from the stakers together than was drawn, and the difference stays
  in the escrow. The division floors the other way: a draw leaves
  `draw * PRECISION mod total_staked` uncharged, so that what the stakers have left
  may exceed the escrow by up to `total_staked / PRECISION` tokens a draw, whatever
  their number. With an accumulator precision of 10 and stakes of 1 and 99, a
  draw of 9 charges nobody: the stakers keep 100 against an escrow of 91. An
  invariant with a tolerance of one unit per staker is therefore false in
  general; `BackstopIsBacked` states what holds, for every step.
* **A withdrawal can wait for rounding.** A premium vault short by one floored unit
  blocks the withdrawal of the principal with it, and the daily cap of a pool of
  a few units is zero.
* **Settlement and cycle share an account.** Beyond the wind-down (`wind_down`): the
  settlement's payout may be queued under any cycle number, several at a time, and
  closing or discharging it frees the account, so the
  same final settlement can be queued, or bought out at once, again; and which
  claim justifies a delivery is decided by whether the withdrawal account is
  handed in. Comment 657-659: "a challenge can be paid once, by exactly one path".
* **Advances and dust.** An entry that an advance fills completely is counted in and
  never out (1335 calls the case harmless for the float; `open_payouts`, which
  gates `finalize_bankruptcy`, is not mentioned). `close_queued_payout` and the
  discharge drop an entry's advance without releasing the float.
* **A timeout paid before a late settlement.** After `settle_dispute_payout` paid for a
  stall, the operator can still settle, and the settlement is payable too; the
  guard at 1576 closes the other order.
* **The liquidity pool has no losses.** `loss_acc` is never raised (12618-12624), and
  `allocation_cap_bps` (12645-12649) is read by no instruction. The firm's and the
  platform's fees of a market stay in its collateral, and the dust of a void
  market is not "swept to platform fees" (6706-6708).
* **The curve as holder.** `redeem_shares` (2700) accepts the curve's own address as
  the holder, `redeem_void_shares` (2738-2743) refuses it: the inventory is then
  paid to an account no instruction takes it from (`RedeemInventory`).

## 5. Proofs

TLAPS checks, for every value of the constants that satisfies the named
assumptions of the modules:

| Theorem | Statement | Argument |
|---|---|---|
| `TypeCorrect` | `Spec => []TypeOK` | inductive by itself; one lemma per account type (`ChallengeTypeStep`, `CoverageTypeStep`, `SettleTypeStep`, `CycleTypeStep`, `CounterTypeStep`, `SystemTypeStep`) over the typing lemmas of the operators |
| `EvidenceIsSettled` | `Spec => EvidenceSettles` | case split on the actions; only a commit writes a root |
| `SettlementInvHolds` | `Spec => []SettlementInv` | see below |
| `PaymentsWaited` | `Spec => []PayableOnlyAfterWindow` | from `SettlementInv` |
| `CoverageStaysBound` | `Spec => []CoverageIsBound` | inductive with `TypeOK`, one step lemma for settlements (`SettlementBoundStep`) and one for cycles (`CycleBoundStep`) |
| `ClaimsNeverRace` | no keeper omits accounts `/\ Spec => []ClaimsDoNotRace` | `UndecidedInv` |
| `RotationIsGraceful` | `Spec => RotationKeepsCurrentBound` | no constant bound on rotations; uses `TypeOK` |
| `SettlementsAreClaims`, `WithdrawalsAreClaims` | `Spec => SettlementIsOptimistic`, `Spec => WithdrawalIsOptimistic` | initial states map to initial states, each step to a step of `OptimisticClaim` or a stutter; see below |
| `EvidenceInvHolds`, `StepsAreOwnFills` | `Spec => []StepsAreDistinctOwnFills` | from `EvidenceInv`, see below |
| `SupplementsAreNew` | fresh nonces `/\ Spec => []SupplementalFillsAreAbsentFromRoot` | a root holds no fill of an account younger than itself |
| `LiesAreRefutable` | `Spec => []LieIsRefutable` | for every transcript of the type, whatever `Lies` is; see below |
| `CyclesInvHolds` | `Spec => []CyclesInv` | see below |
| `CycleLiesAreRefutable` | `Spec => []CycleLieIsRefutable` | as `LiesAreRefutable`; the amount proof takes the place of the premise on the final state |
| `TradesPaidOnce` | no keeper omits accounts `/\ Spec => []NoTradePaidTwice` | from `CyclesInv` and `SettledApart` |
| `EarnedCoversPaid` | `Spec => []PaidWithinEarned` | a sum over the cycles, from `CyclesInv` |
| `CurveIsTyped` | `CurveSpec => []CurveTypeOK` | one conjunct of `CurveInv` |
| `RoundTripNeverProfits` | buying and selling back what was bought never returns more | arithmetic of ceiling division |
| `CurveInvHolds` | `CurveSpec => []CurveInv` | see below |
| `MarketTypesHold` | `MarketSpec => []MarketTypeOK` | inductive with what rates and outcome are (`MarketTypes`); `InventoryCovers` is what keeps a swap from overdrawing the inventory |
| `TraderNeutral` | `MarketSpec => []TraderStaysNeutral` | every instruction open to the trader moves both sides alike |
| `MarketStaysSolvent` | `MarketSpec => []MarketIsSolvent` | see below |
| `PoolEscrowHolds` | `MarketSpec => []PoolEscrowIsAccounted` | see below |
| `YieldStaysBacked` | `MarketSpec => []YieldIsBacked` | from `YieldBooks`, see below |
| `PayoutTypesHold` | `PayoutSpec => []PayoutTypeOK` | inductive with: what is not there owes nothing |
| `OpenPayoutsCounted` | `PayoutSpec => []OpenPayoutsIsExact` | see below |
| `EscrowHoldsTheStakes` | `PayoutSpec => []EscrowIsStaked` | first conjunct of `BackstopIsBacked`; uses the types |
| `StakersStayBacked` | `PayoutSpec => BackstopIsBacked` | from `LossBooks`, see below |
| `FloatKeepsSight` | `PayoutSpec => []FloatCoversAdvances` | see below |
| `DisputeTypesHold` | `SystemSpec => []DisputeTypeOK` | inductive as `DisputeInv` |
| `StakeStaysBacked` | `SystemSpec => []StakeIsBacked` | one conjunct of `DisputeInv`; deposits, syncs, top-ups and slashes in any order |
| `VerdictsStand`, `PoolDrawsAreCapped`, `SettledTimeoutsUnpaid` | the action properties of run `dispute` | from `DisputeInv`; what one step does to a dispute, and what one payment takes from which vault |
| `SlashesHaveCauses` | `SystemSpec => []EachSlashHasItsCause` | `CauseInv`, see below |
| `PayoutStaysCapped` | `SystemSpec => []PayoutWithinFundedSize` | a payment leaves the record within the cap of its call |
| `TimeoutsWait` | fresh nonces `/\ SystemSpec => []TimeoutWaited` | `TimeoutInv`, see below |
| `CurveStaysSolvent`, `ExitIsAlwaysCovered`, `ProductIsMonotonic` | the properties of run `curve` | from `CurveInv`, `SwapKeepsProduct` |

**`SettlementInv`** strengthens `PayableOnlyAfterWindow`, which is not inductive:
the gate sees only a final settlement, and the proof must know what the steps
before it left behind. `WindowMarksProposal` says that a window end is set
exactly by a proposal, so that `settle_challenge`, which sets none, cannot make
an open claim final; `FinalIsLate` that a final claim with a window outlived
it; `OwedIsFunded` that an amount owed belongs to a funded account and, when
there was a window, to a passed claim.

**`UndecidedInv`** adds to `ClaimsDoNotRace` that the counter of an account points at
the only cycle that can be undecided. Without it a proposal, which looks at the
counter's slot alone, would tell nothing of the other slots. The premise
`"Keeper" \notin MayOmit` is needed: run `omitted_counter` shows a neighbour of
this property fail without it.

**Optimistic claims.** For a settlement the refinement needs that a slot without an
account holds no settlement (`VacantSlots`): otherwise a purchase could take a
verdict back. `SettlementSlotStep` says what an instruction may do to a slot
(keep, propose, decide, give back) and that it touches no other; the maps to the
actions of `OptimisticClaim` are then one step each (`SettlementSimulation`).
Withdrawals need no invariant beyond the types: a slot is proposed once, decided
once, and never given back, closing the account included.

**Evidence.** `EvidenceInv` says of every coverage that its entries reach every
step below `covered`, in strictly ascending epochs (`Contiguous`), and that each
entry is what the hour's root committed for the account or its supplemental
segment (`RunCommitted`). An append puts one run behind the others
(`AppendKeepsContiguous`), nothing else touches them, and what is committed stays
(`RunStaysCommitted`). Two steps of one entry then differ in their place, and two
of different entries in their epoch (`ContiguousIsDistinct`).

**Refutability.** The proof uses nothing of how the claim was made: it holds for
every transcript of the type, so the list of lies plays no part. `Contiguous` and
`CoverageIsBound` give what a claim is judged by: a coverage without a trade has no
profit, and the claim's length is one more than its covered trades. If the opening is wrong the
genesis proof shows it; if the states do not follow from a step, the transition
proof; if the bound leaves, which by `Coherent` are the steps, are not the
committed ticks, or not at their slots, the input or the provenance proof, where
`OwnSlot` of the primary segments says that the slot has a tick and that it is the
account's own; and if none of these, the last leaf is the honest one and only the
result can be wrong. Each verifier's own conditions are shown from the same facts
(`FalseReplayShows`). Without `Coherent` the argument breaks exactly where steps and
bound leaves meet, which is run `split_roots`.

**Cycles.** `CyclesInv` orders the withdrawals of an account: those before the
counter are final, those behind it do not exist (`CycleOrder`); and each that
stands (`CycleSound`) opened where the one before left off, paid no more than its
closing state, and covers epochs up to its watermark and above every earlier
one (`EpochsFollow`). Disjoint epochs follow for any two
cycles, and `SettledApart` says the same of the settlement and the cycles: it
needs that every party hands in the counter, which run `omitted_counter` shows.
For `PaidWithinEarned` the openings make the sum telescope: what was earned less
what was paid over the first `n` standing cycles is what cycle `n` opens with,
which is never negative. The induction over cycles is
`Reaches` of `SumsProofs`, below.

**`CurveInv`** joins the types, the solvency of both vaults and, while the curve
is open, `OpenBooks`: both sides of the books are positive and the product of
the effective reserves has not fallen below the one the curve was created with.
It also says that nothing counts as handed to a curve before both the curve and
the distribution exist, which the step that joins the two needs. The exit
property follows from the product (`InvImpliesExit`), and every trade keeps the
product because both quotes round up what the pool keeps (`SwapKeepsProduct`,
from `CeilDivBounds`). Solvency of the token vault is stated relative to the
supply that was handed over: a deployer may distribute less than the books of
the curve plan for, and then the vault is short by exactly that difference.

The curve theorems use only `CurveAssumption`, with fee, thresholds and supplies
arbitrary and amounts limited by `MaxAmount` where the code's checked arithmetic
fails.

**The market's books.** `MarketIsSolvent` is layered on the types: the totals are
the shares held, so that a holder's part cannot exceed them, and the collateral
follows the totals in each phase. A void market is the delicate one, since
every redemption floors: the collateral stays at least half of what is left
because two half payouts never exceed the shares they are for. Before a curve is
opened `NothingYet` says that nothing is held. `PoolEscrowHolds` needs in addition
that the stakes add up to the pool's principal (`StakesAddUp`) and that no loss was
ever charged (`NoLosses`), so that a withdrawal returns what it takes off the
books, and it needs the market's solvency: the return of a void inventory is
counted in full, which is right only while the collateral covers it.

**Bookkeeping of roundings.** Yield and loss are accumulators scaled by
`PRECISION`, and every claim, fold, partial withdrawal and draw divides. The proofs
weigh positions before the division: `Entitled` is what an accumulator holds for a
position in units of one part in `Precision`, and a sum over all stakers of it
moves by exact amounts. A stake adds the remainder its debt was rounded by
(`StakeEntitled`), a claim takes exactly what it pays (`ClaimEntitled`), a withdrawal
pays and leaves at most what was there, but for less than one unit when the debt
that stays is rounded (`WithdrawEntitled`), and a fold spreads no more than arrived
(`FoldEntitles`). `YieldBooks` carries the sum against the vault and the number of
roundings, and `PendingOfEntitled` turns it back into what is paid. `LossBooks` says
that no position is charged less than nothing, and `Spared` is what the losses
leave of one: a stake adds at most itself (`StakeSpared`), a draw takes at least its
share of what earlier draws left (`DrawSpared`), and a withdrawal pays and leaves
less than one unit more (`WithdrawSpared`). `UnbackedDraws` puts the draws together
with the escrow: all that is not charged is the remainder of one division, which
is what `Rounding` in `BackstopIsBacked` allows.

Sums over all holders are recursive functions, and their theorems would need
induction, which the prover cannot instantiate. `SumsProofs` goes through
cardinality instead: a set of numbers from 0 to `n` that has 0 and every
successor below `n` must reach `n`, for if it did not, the successor would map it
one to one into itself without 0, which has fewer elements. With that, a sum is
the last of a sequence of partial sums, from which come the change of one
summand, the bound each summand puts on the sum, and that sums add, scale and
keep an order.

**The counter of open payouts.** Each step writes at most one entry.
`LiveWritten` says what that does to the set of outstanding entries, and
`OneOpened`, `OneClosed`, `OpenFilled` and `OpenKept` turn it into the change of its
cardinality. They need the types, which say that a fill never exceeds what
remains and that a missing entry is not outstanding; without the first, a fill
could close an entry twice.

**The float of advances.** `FloatCoversAdvances` sums over the entries, which are
pairs and no interval: `Numbered` counts them off by a bijection, and `SumChange`
of `SumsProofs` says what writing one entry does to the sum. `FloatMoved` then asks
of each step only that the float falls by no more than what the written entry
stops to carry, which the saturating subtraction of a release meets whatever
the order of releases.

**Disputes beside the challenge program.** Every step of `SystemNext` is a step of
the challenge program or leaves it alone (`SystemIsSpec`), so the theorems about
`Spec` hold of the composition. `DisputeInv` adds to the types and to `StakeIsBacked`
that a dispute without a kind has no verdict, and that a recorded size is one a
keeper may record: without the latter the cap of a call could be anything.
`CauseInv` compares the slash counter with the number of upheld disputes and
slash records, as a cardinality: a step moves at most one challenge into either
set, and never one that was there, because a verdict stands and a record is
written once. `TimeoutInv` carries the deadline: a timeout dispute was opened
only when the account was overdue, its deadline lies a resolution window after
that, and it speaks of the same account as long as the slot is not purchased
again. Hence the premise `FreshNonces`: a second challenge in the slot of a
closed one would meet the dispute of the first, with a deadline that may long be
over.

The payout theorems assume finitely many challenges and cycles, which account
keys and 32-bit cycles are, claims worth more than nothing and quotes of at
least one unit (section 2, dust). They use only what `OptimisticClaim` promises of
a claim.

**Only model-checked.** Every invariant and every action property of the passing
runs, and both refinements, are theorems. Liveness (`SettlementConcludes`,
`WithdrawalConcludes`, `DisputesConclude`, `ObligationsEnd`) and whatever needs
`ENABLED` are beyond the prover and rest on the runs, as do the counterexamples of
section 4.

## 6. What remains

In the order of importance.

1. **Vesting and graduation**: `claim_vesting`, `clawback_vesting` and
   `graduate_firm` as actions of `PayoutSystem`. A batch is claimed or clawed back
   but not both, because one instruction asks for `unlocks_at <= now` and the
   other for `unlocks_at > now`.
2. **Both payment paths of one challenge**: `DisputePayout` composed with
   `PayoutQueue`, to state what the guard of a timeout payment does not close.
3. **Replay**: `step_pnl`, daily reference, trailing peak and breach as functions,
   refining the aggregated step.
4. **Treasury**: fee split and health boosts, with conservation of money.
5. **Vesting streams and drips**: schedules against the clock.

Proofs to add: that every claim of the payout composition is one of the challenge
composition's, so that the theorems of both join (today `PayoutQueue` assumes
`OptimisticClaim`, which settlements and withdrawals are proved to implement); a
bound on the sum of all roundings of the backstop pool in terms of its draws and
withdrawals; and invariants for the modules above as they are written.

**Not modelled, and why.** The rules envelope and platform setters are single
checks with no behaviour over several steps. Account migrations move bytes
between layouts, which the models do not have. The fee split of a sale is one
instruction that divides one amount; what it brings the treasury is the credit
of `CurveFees`. Reserve and owner streams live in a vesting program outside the
repository. The older staking pools share the accumulator of the modelled
pools and have less that can go wrong. Affiliates are counters. Vendored code, deployment
scripts and test harnesses were read for what they expect and not modelled.
