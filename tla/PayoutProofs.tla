---------------------------- MODULE PayoutProofs ----------------------------
(***************************************************************************)
(* Theorems about a firm's payouts, for any finite number of challenges,   *)
(* any stakers, amounts, rates and moments.                                *)
(***************************************************************************)
EXTENDS PayoutSystem, StakePoolProofs, SumsProofs

(* The types in two halves: the backstop pool's and the queue's. An entry  *)
(* that is not there owes nothing.                                         *)
PoolTypeOK ==
    /\ backstop \in BackstopType /\ position \in [Holders -> PositionType]
    /\ escrow \in Nat /\ premiumVault \in Nat /\ rewardVault \in Nat
    /\ wallet \in [Holders -> Nat] /\ funds \in Nat

ClaimTypeOK ==
    /\ phase \in [Claims -> {"None", "Pending", "Upheld", "Refuted"}]
    /\ deadline \in [Claims -> Nat]

EntryTypeOK ==
    /\ entry \in [Entries -> EntryType]
    /\ \A e \in Entries : /\ entry[e].delivered <= entry[e].owed
                          /\ entry[e].kind = "None" => entry[e].delivered = entry[e].owed

TierTypeOK ==
    /\ firm \in FirmType
    /\ treasury \in Nat /\ reserve \in Nat /\ insurance \in Nat
    /\ universal \in [vault : Nat, drawn : Nat, day : Nat]
    /\ advancePool \in [sol_outstanding : Nat, daily : Nat, day : Nat]

PayoutTypes == now \in Nat /\ PoolTypeOK /\ ClaimTypeOK /\ EntryTypeOK /\ TierTypeOK

LEMMA PayoutTypesImply == PayoutTypes => PayoutTypeOK
BY DEF PayoutTypes, PayoutTypeOK, PoolTypeOK, ClaimTypeOK, EntryTypeOK, TierTypeOK

LEMMA Joined ==
    ASSUME now' \in Nat, PoolTypeOK', ClaimTypeOK', EntryTypeOK', TierTypeOK'
    PROVE  PayoutTypes'
BY DEF PayoutTypes

LEMMA PoolKept == PoolTypeOK /\ UNCHANGED backstopVars => PoolTypeOK'
BY DEF PoolTypeOK, backstopVars

LEMMA ClaimsKept == ClaimTypeOK /\ UNCHANGED claimVars => ClaimTypeOK'
BY DEF ClaimTypeOK, claimVars

LEMMA EntriesKept == EntryTypeOK /\ UNCHANGED entry => EntryTypeOK'
BY DEF EntryTypeOK

LEMMA TiersKept == TierTypeOK /\ UNCHANGED <<firm, tierVars, advancePool>> => TierTypeOK'
BY DEF TierTypeOK, tierVars

LEMMA BpsType ==
    ASSUME NEW amount \in Nat, NEW rate \in Nat
    PROVE  Bps(amount, rate) \in Nat /\ (rate <= 10000 => Bps(amount, rate) <= amount)
<1>1. amount * rate \in Nat /\ (rate <= 10000 => amount * rate <= amount * 10000)
  <2>1. amount * rate \in Nat
    BY SMT
  <2>2. ASSUME rate <= 10000 PROVE amount * rate <= amount * 10000
    <3>1. 10000 - rate \in Nat /\ amount * 10000 = amount * rate + amount * (10000 - rate)
      BY <2>2, SMT
    <3>2. amount * (10000 - rate) \in Nat
      BY <3>1, SMT
    <3> QED
      BY <2>1, <3>1, <3>2, SMT
  <2> QED
    BY <2>1, <2>2
<1> QED
  BY <1>1, Quotient, QuotientAtMost DEF Bps

----------------------------------------------------------------------------
(* The backstop pool's own operations.                                     *)
LEMMA PoolFacts ==
    ASSUME PoolTypeOK
    PROVE  /\ backstop \in BackstopType /\ position \in [Holders -> PositionType]
           /\ escrow \in Nat /\ premiumVault \in Nat /\ rewardVault \in Nat
           /\ wallet \in [Holders -> Nat] /\ funds \in Nat
           /\ backstop.total_staked \in Nat /\ backstop.total_premium_weight \in Nat
           /\ backstop.premium_acc \in Nat /\ backstop.loss_acc \in Nat /\ backstop.acc_firma \in Nat
           /\ backstop.unallocated_premium \in Nat /\ backstop.unallocated_firma \in Nat
           /\ backstop.firma_reward_accounted \in Nat /\ backstop.total_drawn \in Nat
           /\ backstop.daily_withdrawn \in Nat /\ backstop.withdraw_day \in Nat
           /\ \A h \in Holders :
                 /\ position[h].staked \in Nat /\ position[h].premium_debt \in Nat
                 /\ position[h].loss_debt \in Nat /\ position[h].firma_debt \in Nat
                 /\ wallet[h] \in Nat /\ position[h] \in PositionType
BY DEF PoolTypeOK, BackstopType, PositionType

(* What enters the escrow, whichever instruction brings it.                *)
LEMMA EscrowedTypes ==
    ASSUME PoolTypeOK, NEW h \in Holders, NEW amount \in Nat, Escrowed(h, amount)
    PROVE  /\ backstop' \in BackstopType /\ escrow' \in Nat /\ wallet' \in [Holders -> Nat]
           /\ UNCHANGED <<premiumVault, rewardVault, funds, now>>
           /\ Shielded(position[h], amount) \in PositionType
<1>1. /\ backstop.total_staked + amount \in Nat /\ backstop.total_premium_weight + amount \in Nat
      /\ escrow + amount \in Nat /\ (wallet[h] >= amount => wallet[h] - amount \in Nat)
  BY PoolFacts, SMT
<1>2. backstop' \in BackstopType
  BY <1>1, PoolFacts DEF Escrowed, BackstopType
<1>3. wallet' \in [Holders -> Nat] /\ escrow' \in Nat
  BY <1>1, PoolFacts DEF Escrowed
<1>4. Debt(amount, backstop.premium_acc) \in Nat /\ Debt(amount, backstop.loss_acc) \in Nat
  BY PoolFacts, DebtType
<1>5. /\ position[h].staked + amount \in Nat
      /\ position[h].premium_debt + Debt(amount, backstop.premium_acc) \in Nat
      /\ position[h].loss_debt + Debt(amount, backstop.loss_acc) \in Nat
  BY <1>4, PoolFacts, SMT
<1>6. Shielded(position[h], amount) \in PositionType
  BY <1>5, PoolFacts DEF Shielded, PositionType
<1> QED
  BY <1>2, <1>3, <1>6 DEF Escrowed

LEMMA WithdrawTypes ==
    ASSUME PoolTypeOK, now \in Nat, NEW h \in Holders, NEW amount \in Nat, NEW tier \in Tiers,
           NEW frozen, WithdrawBackstop(h, amount, tier, frozen)
    PROVE  PoolTypeOK'
<1> DEFINE pos == position[h]
           principal == Slice(amount, Surviving(pos), pos.staked)
           premium == Slice(amount, Pending(pos.staked, backstop.premium_acc, pos.premium_debt),
                            pos.staked)
           yield == Slice(amount, Pending(pos.staked, backstop.acc_firma, pos.firma_debt), pos.staked)
<1>1. /\ pos.staked \in Nat /\ pos.premium_debt \in Nat /\ pos.loss_debt \in Nat
      /\ pos.firma_debt \in Nat /\ pos \in PositionType
  BY PoolFacts
<1>2. /\ 0 < amount /\ amount <= pos.staked
      /\ PrincipalPaid(principal) /\ PremiumPaid(premium) /\ YieldPaid(yield)
      /\ wallet' = [wallet EXCEPT ![h] = @ + principal + yield]
      /\ backstop' = [backstop EXCEPT !.daily_withdrawn = WithdrawnToday + principal,
                                      !.withdraw_day = now \div Day,
                                      !.total_staked = SatSub(@, principal),
                                      !.total_premium_weight = SatSub(@, amount)]
      /\ position' = [position EXCEPT ![h] = Remainder(@, amount)]
      /\ UNCHANGED <<funds, now>>
  BY <1>1, SMT DEF WithdrawBackstop
<1>3. /\ Surviving(pos) \in Nat
      /\ Pending(pos.staked, backstop.premium_acc, pos.premium_debt) \in Nat
      /\ Pending(pos.staked, backstop.acc_firma, pos.firma_debt) \in Nat
  <2>1. Pending(pos.staked, backstop.loss_acc, pos.loss_debt) \in Nat
    BY <1>1, PoolFacts, PendingType
  <2> QED
    BY <1>1, <2>1, PoolFacts, PendingType, SatSubFacts DEF Surviving
<1>4. principal \in Nat /\ premium \in Nat /\ yield \in Nat
  BY <1>1, <1>2, <1>3, SliceWithin
<1> HIDE DEF principal, premium, yield
<1>5. /\ escrow' \in Nat /\ premiumVault' \in Nat /\ rewardVault' \in Nat /\ wallet' \in [Holders -> Nat]
  <2>1. /\ escrow >= principal => escrow - principal \in Nat
        /\ premiumVault >= premium => premiumVault - premium \in Nat
        /\ rewardVault >= yield => rewardVault - yield \in Nat
        /\ wallet[h] + principal + yield \in Nat
    BY <1>4, PoolFacts, SMT
  <2> QED
    BY <1>2, <2>1, PoolFacts DEF PrincipalPaid, PremiumPaid, YieldPaid
<1>6. backstop' \in BackstopType
  <2>1. now \div Day \in Nat /\ WithdrawnToday \in Nat
    <3>1. Day \in Nat \ {0}
      BY StakePoolAssumption
    <3>2. now \div Day \in Nat
      BY <3>1, Quotient
    <3> QED
      BY <3>2, PoolFacts DEF WithdrawnToday
  <2>2. /\ SatSub(backstop.total_staked, principal) \in Nat
        /\ SatSub(backstop.total_premium_weight, amount) \in Nat
    BY <1>4, PoolFacts, SatSubFacts
  <2>3. WithdrawnToday + principal \in Nat
    BY <1>4, <2>1, SMT
  <2> QED
    BY <1>2, <2>1, <2>2, <2>3, PoolFacts DEF BackstopType
<1>7. Remainder(pos, amount) \in PositionType
  <2> DEFINE rest == pos.staked - amount
  <2>1. rest \in Nat /\ pos.staked \in Nat \ {0}
    BY <1>1, <1>2, SMT
  <2>2. /\ ScaledDebt(pos.premium_debt, rest, pos.staked) \in Nat
        /\ ScaledDebt(pos.loss_debt, rest, pos.staked) \in Nat
        /\ ScaledDebt(pos.firma_debt, rest, pos.staked) \in Nat
    BY <1>1, <2>1, ScaledDebtType
  <2>3. NoPosition \in PositionType
    BY DEF NoPosition, PositionType
  <2> QED
    BY <1>1, <2>1, <2>2, <2>3 DEF Remainder, PositionType
<1>8. position' \in [Holders -> PositionType]
  BY <1>2, <1>7, PoolFacts
<1> QED
  BY <1>2, <1>5, <1>6, <1>8, PoolFacts DEF PoolTypeOK

LEMMA BackstopStepTypes ==
    ASSUME PoolTypeOK, now \in Nat, NEW frozen, BackstopStep(frozen)
    PROVE  PoolTypeOK' /\ now' = now
<1>0. Stakes \subseteq Nat /\ Premiums \subseteq Nat /\ Tiers \subseteq 0..3
  BY BackstopPoolAssumption
<1>1. CASE InitBackstopPool
  <2>1. backstop' \in BackstopType
    BY <1>1, PoolFacts DEF InitBackstopPool, BackstopType
  <2> QED
    BY <1>1, <2>1 DEF InitBackstopPool, PoolTypeOK
<1>2. CASE SyncBackstopFirmaYield
  <2> DEFINE arrived == SatSub(rewardVault, backstop.firma_reward_accounted)
  <2>1. arrived \in Nat
    BY PoolFacts, SatSubFacts
  <2>2. /\ FoldedAcc(backstop.acc_firma, backstop.unallocated_firma, arrived,
                     backstop.total_premium_weight) \in Nat
        /\ FoldedRest(backstop.unallocated_firma, arrived, backstop.total_premium_weight) \in Nat
    BY <2>1, PoolFacts, FoldedTypes
  <2>3. backstop' \in BackstopType
    BY <1>2, <2>2, PoolFacts DEF SyncBackstopFirmaYield, BackstopType
  <2> QED
    BY <1>2, <2>3 DEF SyncBackstopFirmaYield, PoolTypeOK
<1>3. ASSUME NEW amount \in Premiums, FundBackstopPremium(amount) PROVE PoolTypeOK' /\ now' = now
  <2>1. /\ FoldedAcc(backstop.premium_acc, backstop.unallocated_premium, amount,
                     backstop.total_premium_weight) \in Nat
        /\ FoldedRest(backstop.unallocated_premium, amount, backstop.total_premium_weight) \in Nat
    BY <1>0, PoolFacts, FoldedTypes
  <2>2. backstop' \in BackstopType
    BY <1>3, <2>1, PoolFacts DEF FundBackstopPremium, BackstopType
  <2>3. premiumVault + amount \in Nat /\ (funds >= amount => funds - amount \in Nat)
    BY <1>0, PoolFacts, SMT
  <2> QED
    BY <1>3, <2>2, <2>3 DEF FundBackstopPremium, PoolTypeOK
<1>4. ASSUME NEW h \in Holders, NEW amount \in Stakes, StakeBackstop(h, amount)
      PROVE  PoolTypeOK' /\ now' = now
  <2> DEFINE pos == Shielded(position[h], amount)
  <2>1. /\ backstop' \in BackstopType /\ escrow' \in Nat /\ wallet' \in [Holders -> Nat]
        /\ UNCHANGED <<premiumVault, rewardVault, funds, now>> /\ pos \in PositionType
    BY <1>0, <1>4, EscrowedTypes DEF StakeBackstop
  <2>2. pos.firma_debt + Debt(amount, backstop.acc_firma) \in Nat
    <3>1. Debt(amount, backstop.acc_firma) \in Nat
      BY <1>0, PoolFacts, DebtType
    <3>2. pos.firma_debt \in Nat
      BY <2>1 DEF PositionType
    <3> QED
      BY <3>1, <3>2, SMT
  <2>3. position' = [position EXCEPT ![h] =
                        [pos EXCEPT !.firma_debt = @ + Debt(amount, backstop.acc_firma)]]
    BY <1>4 DEF StakeBackstop
  <2> HIDE DEF pos
  <2>4. position' \in [Holders -> PositionType]
    BY <2>1, <2>2, <2>3, PoolFacts DEF PositionType
  <2> QED
    BY <2>1, <2>4, PoolFacts DEF PoolTypeOK
<1>5. ASSUME NEW h \in Holders, NEW amount \in Stakes, RouteFirma(h, amount)
      PROVE  PoolTypeOK' /\ now' = now
  <2>1. /\ backstop' \in BackstopType /\ escrow' \in Nat /\ wallet' \in [Holders -> Nat]
        /\ UNCHANGED <<premiumVault, rewardVault, funds, now>>
        /\ Shielded(position[h], amount) \in PositionType
    BY <1>0, <1>5, EscrowedTypes DEF RouteFirma
  <2>2. position' \in [Holders -> PositionType]
    BY <1>5, <2>1, PoolFacts DEF RouteFirma
  <2> QED
    BY <2>1, <2>2, PoolFacts DEF PoolTypeOK
<1>6. ASSUME NEW h \in Holders, NEW tier \in Tiers, RequestUnstakeBackstop(h, tier)
      PROVE  PoolTypeOK' /\ now' = now
  <2> DEFINE wait == RequiredCooldown(tier, position[h].staked, backstop.total_staked)
             pos == [position[h] EXCEPT !.requested_at = now, !.ends_at = now + wait]
  <2>1. wait \in Nat /\ now + wait \in Nat
    <3>1. wait \in Nat
      BY <1>0, PoolFacts, CooldownType
    <3> QED
      BY <3>1, SMT
  <2>2. /\ position' = [position EXCEPT ![h] = pos]
        /\ UNCHANGED <<backstop, escrow, premiumVault, rewardVault, wallet, funds, now>>
    BY <1>6, PoolFacts DEF RequestUnstakeBackstop
  <2> HIDE DEF wait
  <2>3. pos \in PositionType
    BY <2>1, PoolFacts DEF PositionType
  <2> QED
    BY <2>2, <2>3, PoolFacts DEF PoolTypeOK
<1>7. ASSUME NEW h \in Holders, NEW amount \in Stakes, NEW tier \in Tiers,
             WithdrawBackstop(h, amount, tier, frozen)
      PROVE  PoolTypeOK' /\ now' = now
  BY <1>0, <1>7, WithdrawTypes DEF WithdrawBackstop
<1>8. ASSUME NEW h \in Holders, ClaimBackstopPremium(h) PROVE PoolTypeOK' /\ now' = now
  <2> DEFINE pos == position[h]
             premium == Pending(pos.staked, backstop.premium_acc, pos.premium_debt)
             yield == Pending(pos.staked, backstop.acc_firma, pos.firma_debt)
             paid == Debt(pos.staked, backstop.premium_acc)
             given == Debt(pos.staked, backstop.acc_firma)
  <2>1. premium \in Nat /\ yield \in Nat /\ paid \in Nat /\ given \in Nat
    BY PoolFacts, PendingType, DebtType
  <2>2. position' = [position EXCEPT ![h] = [pos EXCEPT !.premium_debt = paid, !.firma_debt = given]]
    BY <1>8, PoolFacts DEF ClaimBackstopPremium
  <2>6. /\ PremiumPaid(premium) /\ YieldPaid(yield) /\ wallet' = [wallet EXCEPT ![h] = @ + yield]
        /\ UNCHANGED <<backstop, escrow, funds, now>>
    BY <1>8 DEF ClaimBackstopPremium
  <2> HIDE DEF premium, yield, paid, given
  <2>3. /\ premiumVault >= premium => premiumVault - premium \in Nat
        /\ rewardVault >= yield => rewardVault - yield \in Nat /\ wallet[h] + yield \in Nat
    BY <2>1, PoolFacts, SMT
  <2>4. [pos EXCEPT !.premium_debt = paid, !.firma_debt = given] \in PositionType
    <3>1. pos \in PositionType
      BY PoolFacts
    <3> HIDE DEF pos
    <3> QED
      BY <2>1, <3>1 DEF PositionType
  <2>5. position' \in [Holders -> PositionType] /\ wallet' \in [Holders -> Nat]
    <3> HIDE DEF pos
    <3>1. position \in [Holders -> PositionType] /\ wallet \in [Holders -> Nat]
      BY PoolFacts
    <3>2. position' \in [Holders -> PositionType]
      BY <2>2, <2>4, <3>1
    <3>3. wallet' \in [Holders -> Nat]
      BY <2>6, <2>3, <3>1 DEF PremiumPaid, YieldPaid
    <3> QED
      BY <3>2, <3>3
  <2> QED
    BY <2>6, <2>3, <2>5, PoolFacts DEF PremiumPaid, YieldPaid, PoolTypeOK
<1> QED
  BY <1>1, <1>2, <1>3, <1>4, <1>5, <1>6, <1>7, <1>8 DEF BackstopStep

----------------------------------------------------------------------------
(* The queue: what the types say of an entry, the firm and the tiers.      *)
LEMMA EntryFacts ==
    ASSUME EntryTypeOK, NEW e \in Entries
    PROVE  /\ entry[e] \in EntryType
           /\ entry[e].kind \in {"None", "Record", "Queued"}
           /\ entry[e].owed \in Nat /\ entry[e].delivered \in Nat /\ entry[e].sol \in Nat
           /\ entry[e].queued_at \in Nat /\ entry[e].hold_until \in Nat
           /\ entry[e].advanced \in Nat
           /\ entry[e].delivered <= entry[e].owed
           /\ entry[e].kind = "None" => entry[e].delivered = entry[e].owed
BY DEF EntryTypeOK, EntryType

LEMMA TierFacts ==
    ASSUME TierTypeOK
    PROVE  /\ firm \in FirmType
           /\ firm.bankrupt \in BOOLEAN /\ firm.velocity_break \in BOOLEAN
           /\ firm.open_payouts \in Nat /\ firm.treasury_sol \in Nat /\ firm.ulp_drawn \in Nat
           /\ treasury \in Nat /\ reserve \in Nat /\ insurance \in Nat
           /\ universal \in [vault : Nat, drawn : Nat, day : Nat]
           /\ universal.vault \in Nat /\ universal.drawn \in Nat /\ universal.day \in Nat
           /\ advancePool \in [sol_outstanding : Nat, daily : Nat, day : Nat]
           /\ advancePool.sol_outstanding \in Nat /\ advancePool.daily \in Nat
           /\ advancePool.day \in Nat
BY DEF TierTypeOK, FirmType

(* One entry is written anew.                                              *)
LEMMA EntryWritten ==
    ASSUME EntryTypeOK, NEW e \in Entries, NEW x \in EntryType, x.delivered <= x.owed,
           x.kind = "None" => x.delivered = x.owed, entry' = [entry EXCEPT ![e] = x]
    PROVE  EntryTypeOK'
BY DEF EntryTypeOK

(* One entry is filled further.                                            *)
LEMMA FilledTypes ==
    ASSUME EntryTypeOK, NEW e \in Entries, NEW amount \in Nat, amount <= Remaining(e),
           Outstanding(e), Filled(e, amount)
    PROVE  EntryTypeOK'
<1> DEFINE x == [entry[e] EXCEPT !.delivered = @ + amount]
<1>1. /\ entry[e].delivered + amount \in Nat
      /\ entry[e].delivered + amount <= entry[e].owed
  BY EntryFacts, SMT DEF Remaining
<1>2. entry[e].kind # "None"
  BY EntryFacts, SMT DEF Outstanding
<1>3. /\ x \in EntryType /\ x.delivered = entry[e].delivered + amount
      /\ x.owed = entry[e].owed /\ x.kind = entry[e].kind
  BY <1>1, EntryFacts DEF EntryType
<1>4. entry' = [entry EXCEPT ![e] = x]
  BY EntryFacts DEF Filled, EntryTypeOK
<1> HIDE DEF x
<1> QED
  BY <1>1, <1>2, <1>3, <1>4, EntryWritten

LEMMA OpenAfterFillType ==
    ASSUME TierTypeOK, NEW e, NEW amount
    PROVE  OpenAfterFill(e, amount) \in Nat
BY TierFacts, SatSubFacts DEF OpenAfterFill

(* A spend out of the treasury, for a carve of no more than the spend.     *)
LEMMA SpentTypes ==
    ASSUME TierTypeOK, NEW sol \in Nat, NEW carve \in Nat, carve <= sol,
           SpentFromTreasury(sol, carve)
    PROVE  /\ treasury' \in Nat /\ universal' \in [vault : Nat, drawn : Nat, day : Nat]
           /\ RecordedSpend \in Nat
<1>1. sol - carve \in Nat /\ FeeBps \in Nat
  BY PayoutQueueAssumption, SMT
<1>2. Bps(sol - carve, FeeBps) \in Nat
  BY <1>1, BpsType
<1> DEFINE fee == Bps(sol - carve, FeeBps)
<1> HIDE DEF fee
<1>3. /\ sol <= firm.treasury_sol /\ treasury >= firm.treasury_sol
      /\ treasury' = treasury - sol + fee
      /\ universal' = [universal EXCEPT !.vault = @ + carve]
  BY DEF SpentFromTreasury, fee
<1>4. fee \in Nat
  BY <1>2 DEF fee
<1>5. treasury' \in Nat
  BY <1>3, <1>4, TierFacts, SMT
<1>6. universal.vault + carve \in Nat
  BY TierFacts, SMT
<1> QED
  BY <1>3, <1>5, <1>6, TierFacts, SatSubFacts DEF RecordedSpend

LEMMA CarveType ==
    ASSUME NEW sol \in Nat
    PROVE  Carve(sol) \in Nat /\ Carve(sol) <= sol
<1>1. CarveBps \in Nat /\ CarveBps <= 10000
  BY PayoutQueueAssumption, SMT
<1> QED
  BY <1>1, BpsType DEF Carve

LEMMA DrawnTypes ==
    ASSUME PoolTypeOK, NEW draw \in Nat, DrawnFromStakers(draw), UNCHANGED rewardVault
    PROVE  PoolTypeOK'
<1>1. /\ 0 < draw /\ draw <= backstop.total_staked
      /\ PrincipalPaid(draw)
      /\ backstop' = [backstop EXCEPT !.loss_acc = LossAfterDraw(draw),
                                      !.total_staked = @ - draw,
                                      !.total_drawn = @ + draw]
      /\ UNCHANGED <<position, premiumVault, wallet, funds>>
  BY SMT DEF DrawnFromStakers
<1>2. LossAfterDraw(draw) \in Nat
  <2>1. draw * Precision \in Nat /\ backstop.total_staked \in Nat \ {0}
    <3>1. Precision \in Nat
      BY StakePoolAssumption
    <3> QED
      BY <1>1, <3>1, PoolFacts, SMT
  <2>2. (draw * Precision) \div backstop.total_staked \in Nat
    BY <2>1, Quotient
  <2> QED
    BY <2>2, PoolFacts, SMT DEF LossAfterDraw
<1>3. /\ backstop.total_staked - draw \in Nat /\ backstop.total_drawn + draw \in Nat
      /\ escrow >= draw => escrow - draw \in Nat
  BY <1>1, PoolFacts, SMT
<1>4. backstop' \in BackstopType
  BY <1>1, <1>2, <1>3, PoolFacts DEF BackstopType
<1>5. escrow' \in Nat
  BY <1>1, <1>3 DEF PrincipalPaid
<1> QED
  BY <1>1, <1>4, <1>5, PoolFacts DEF PoolTypeOK

LEMMA RewardedTypes ==
    ASSUME PoolTypeOK, NEW fill \in Nat, Rewarded(fill),
           UNCHANGED <<backstop, position, escrow, premiumVault, wallet, funds>>
    PROVE  PoolTypeOK'
<1>1. Bps(fill, RewardBps) \in Nat
  <2>1. RewardBps \in Nat
    BY PayoutQueueAssumption
  <2> QED
    BY <2>1, BpsType
<1>2. rewardVault' \in Nat
  BY <1>1, PoolFacts, SMT DEF Rewarded
<1> QED
  BY <1>2 DEF PoolTypeOK

----------------------------------------------------------------------------
(* The instance's inputs, as the assumptions have them.                    *)
LEMMA QueueInputs ==
    /\ Spends \subseteq Nat /\ Draws \subseteq Nat /\ Credits \subseteq Nat /\ Backings \subseteq Nat
    /\ Quotes \subseteq Nat \ {0} /\ Times \subseteq Nat /\ SolOwed \in [Claims -> Nat]
    /\ Claims \subseteq Challenges \X (Cycles \cup {Settlement})
    /\ Hold \in Nat /\ Window \in Nat /\ DischargeTimeout \in Nat /\ ConcentrationBps \in Nat
    /\ Challenges \X {0} \subseteq Entries
BY PayoutQueueAssumption DEF Entries

LEMMA HoldType ==
    ASSUME TierTypeOK, now \in Nat, NEW sol \in Nat, NEW backing \in Nat
    PROVE  HoldFor(sol, backing) \in Nat
BY QueueInputs, SMT DEF HoldFor

(* The steps of one entry, and of the firm, keep the types.                *)
LEMMA EntryStepTypes ==
    ASSUME PayoutTypes, NEW e \in Entries, EntryStep(e)
    PROVE  PayoutTypes'
<1>0. /\ now \in Nat /\ PoolTypeOK /\ ClaimTypeOK /\ EntryTypeOK /\ TierTypeOK
  BY DEF PayoutTypes
<1> DEFINE Open(amount) == OpenAfterFill(e, amount)
<1>1. ASSUME NEW sol \in Spends, ExecutePayoutBuy(e, sol) PROVE PayoutTypes'
  <2>1. sol \in Nat /\ 0 \in Nat /\ 0 <= sol
    BY QueueInputs, SMT
  <2>2. treasury' \in Nat /\ universal' \in [vault : Nat, drawn : Nat, day : Nat]
    BY <1>0, <1>1, <2>1, SpentTypes DEF ExecutePayoutBuy
  <2>3. TierTypeOK'
    BY <1>0, <1>1, <2>2, TierFacts DEF ExecutePayoutBuy, TierTypeOK, FirmType
  <2>4. EntryTypeOK'
    <3> DEFINE x == [NoEntry EXCEPT !.kind = "Record"]
    <3>1. x \in EntryType /\ x.delivered <= x.owed /\ x.kind # "None"
      BY SMT DEF NoEntry, EntryType
    <3>2. entry' = [entry EXCEPT ![e] = x]
      BY <1>1 DEF ExecutePayoutBuy
    <3> HIDE DEF x
    <3> QED
      BY <1>0, <3>1, <3>2, EntryWritten
  <2>5. UNCHANGED <<now, claimVars, backstopVars>>
    BY <1>1 DEF ExecutePayoutBuy
  <2> QED
    BY <1>0, <2>3, <2>4, <2>5, PoolKept, ClaimsKept, Joined
<1>2. ASSUME NEW asWithdrawal \in BOOLEAN, NEW owed \in Quotes, NEW backing \in Backings,
             EnqueuePayout(e, asWithdrawal, owed, backing)
      PROVE  PayoutTypes'
  <2> DEFINE sol == SolOwed[ClaimOf(e, asWithdrawal)]
             hold == HoldFor(sol, backing)
             x == [NoEntry EXCEPT !.kind = "Queued", !.owed = owed, !.sol = sol,
                                  !.queued_at = now, !.hold_until = hold]
  <2>1. sol \in Nat /\ owed \in Nat /\ backing \in Nat
    BY <1>2, QueueInputs DEF EnqueuePayout, Deliverable, Final
  <2>2. hold \in Nat
    BY <1>0, <2>1, HoldType
  <2>3. /\ entry' = [entry EXCEPT ![e] = x]
        /\ firm' = [firm EXCEPT !.open_payouts = @ + 1]
        /\ UNCHANGED <<now, claimVars, tierVars, advancePool, backstopVars>>
    BY <1>2 DEF EnqueuePayout
  <2> HIDE DEF sol, hold
  <2>4. x \in EntryType /\ x.delivered <= x.owed /\ x.kind # "None"
    <3>1. NoEntry \in EntryType /\ NoEntry.delivered = 0
      BY DEF NoEntry, EntryType
    <3>2. 0 <= owed
      BY <2>1, SMT
    <3>3. x \in EntryType /\ x.delivered = NoEntry.delivered /\ x.owed = owed /\ x.kind = "Queued"
      BY <1>0, <2>1, <2>2, <3>1 DEF EntryType
    <3> HIDE DEF x
    <3> QED
      BY <3>1, <3>2, <3>3
  <2> HIDE DEF x
  <2>5. EntryTypeOK'
    BY <1>0, <2>3, <2>4, EntryWritten
  <2>6. firm.open_payouts + 1 \in Nat
    BY <1>0, TierFacts, SMT
  <2>7. TierTypeOK'
    BY <1>0, <2>3, <2>6, TierFacts DEF TierTypeOK, FirmType, tierVars
  <2> QED
    BY <1>0, <2>3, <2>5, <2>7, PoolKept, ClaimsKept, Joined
<1>3. ASSUME NEW backing \in Backings, ReconcilePayoutHold(e, backing) PROVE PayoutTypes'
  <2> DEFINE hold == HoldFor(entry[e].sol, backing)
             sooner == Min({entry[e].hold_until, hold})
             x == [entry[e] EXCEPT !.hold_until = sooner]
  <2>1. backing \in Nat
    BY QueueInputs
  <2>2. hold \in Nat
    BY <1>0, <2>1, EntryFacts, HoldType
  <2>3. sooner \in Nat
    BY <1>0, <2>2, EntryFacts, MinOfTwo
  <2>4. /\ entry' = [entry EXCEPT ![e] = x]
        /\ UNCHANGED <<now, claimVars, firm, tierVars, advancePool, backstopVars>>
    BY <1>3 DEF ReconcilePayoutHold
  <2> HIDE DEF hold, sooner
  <2>5. /\ x \in EntryType /\ x.delivered = entry[e].delivered /\ x.owed = entry[e].owed
        /\ x.kind = entry[e].kind
    BY <1>0, <2>3, EntryFacts DEF EntryType
  <2> HIDE DEF x
  <2>6. EntryTypeOK'
    BY <1>0, <2>4, <2>5, EntryFacts, EntryWritten
  <2> QED
    BY <1>0, <2>4, <2>6, PoolKept, ClaimsKept, TiersKept, Joined
<1>4. ASSUME NEW asWithdrawal \in BOOLEAN, NEW sol \in Spends, NEW fill \in Draws,
             ProcessQueuedPayout(e, asWithdrawal, sol, fill)
      PROVE  PayoutTypes'
  <2> DEFINE broken == ~ (fill = Remaining(e)) /\ (firm.velocity_break \/ treasury' <= Dust)
  <2>1. /\ Outstanding(e) /\ fill <= Remaining(e) /\ SpentFromTreasury(sol, Carve(sol))
        /\ Filled(e, fill) /\ Rewarded(fill)
        /\ UNCHANGED <<now, claimVars, reserve, insurance, advancePool, backstop, position,
                       escrow, premiumVault, wallet, funds>>
    BY <1>4 DEF ProcessQueuedPayout
  <2>2. firm' = [firm EXCEPT !.treasury_sol = treasury', !.open_payouts = Open(fill),
                             !.velocity_break = broken]
    BY <1>4 DEF ProcessQueuedPayout
  <2>3. sol \in Nat /\ fill \in Nat
    BY QueueInputs
  <2>4. treasury' \in Nat /\ universal' \in [vault : Nat, drawn : Nat, day : Nat]
    BY <1>0, <2>1, <2>3, CarveType, SpentTypes
  <2>5. Open(fill) \in Nat
    BY <1>0, OpenAfterFillType
  <2>6. broken \in BOOLEAN
    OBVIOUS
  <2> HIDE DEF broken, Open
  <2>7. TierTypeOK'
    BY <1>0, <2>1, <2>2, <2>4, <2>5, <2>6, TierFacts DEF TierTypeOK, FirmType
  <2> QED
    BY <1>0, <2>1, <2>3, <2>7, FilledTypes, RewardedTypes, ClaimsKept, Joined
<1>5. ASSUME NEW asWithdrawal \in BOOLEAN, NEW amount \in Draws,
             DrawTreasuryFirma(e, asWithdrawal, amount)
      PROVE  PayoutTypes'
  <2> DEFINE draw == Min({amount, Remaining(e), reserve})
  <2>1. /\ Outstanding(e) /\ Filled(e, draw) /\ reserve' = reserve - draw
        /\ firm' = [firm EXCEPT !.open_payouts = Open(draw)]
        /\ UNCHANGED <<now, claimVars, treasury, insurance, universal, advancePool, backstopVars>>
    BY <1>5 DEF DrawTreasuryFirma
  <2>2. amount \in Nat /\ Remaining(e) \in Nat /\ reserve \in Nat
    BY <1>0, <2>1, QueueInputs, EntryFacts, TierFacts, SMT DEF Remaining
  <2>3. draw \in Nat /\ draw <= Remaining(e) /\ draw <= reserve
    BY <2>2, MinOfThree
  <2> HIDE DEF draw
  <2>4. reserve' \in Nat
    BY <2>1, <2>2, <2>3, SMT
  <2>5. Open(draw) \in Nat
    BY <1>0, OpenAfterFillType
  <2> HIDE DEF Open
  <2>6. TierTypeOK'
    BY <1>0, <2>1, <2>4, <2>5, TierFacts DEF TierTypeOK, FirmType
  <2> QED
    BY <1>0, <2>1, <2>3, <2>6, FilledTypes, PoolKept, ClaimsKept, Joined
<1>6. ASSUME NEW asWithdrawal \in BOOLEAN, NEW amount \in Draws,
             DrawBackstop(e, asWithdrawal, amount)
      PROVE  PayoutTypes'
  <2> DEFINE draw == Min({amount, Remaining(e), backstop.total_staked})
  <2>1. /\ Outstanding(e) /\ Filled(e, draw) /\ DrawnFromStakers(draw)
        /\ firm' = [firm EXCEPT !.open_payouts = Open(draw)]
        /\ UNCHANGED <<now, rewardVault, claimVars, tierVars, advancePool>>
    BY <1>6 DEF DrawBackstop
  <2>2. amount \in Nat /\ Remaining(e) \in Nat /\ backstop.total_staked \in Nat
    BY <1>0, <2>1, QueueInputs, EntryFacts, PoolFacts, SMT DEF Remaining
  <2>3. draw \in Nat /\ draw <= Remaining(e) /\ draw <= backstop.total_staked
    BY <2>2, MinOfThree
  <2> HIDE DEF draw
  <2>4. PoolTypeOK'
    BY <1>0, <2>1, <2>3, DrawnTypes
  <2>5. Open(draw) \in Nat
    BY <1>0, OpenAfterFillType
  <2> HIDE DEF Open
  <2>6. TierTypeOK'
    BY <1>0, <2>1, <2>5, TierFacts DEF TierTypeOK, FirmType, tierVars
  <2> QED
    BY <1>0, <2>1, <2>3, <2>4, <2>6, FilledTypes, ClaimsKept, Joined
<1>7. ASSUME NEW asWithdrawal \in BOOLEAN, NEW sol \in Spends, NEW amount \in Draws,
             DrawUniversal(e, asWithdrawal, sol, amount)
      PROVE  PayoutTypes'
  <2> DEFINE fill == Min({amount, Remaining(e)})
             broke == firm.bankrupt \/ firm.ulp_drawn + sol >= universal.vault \div Divisor
  <2>1. /\ Outstanding(e) /\ Filled(e, fill) /\ sol <= universal.vault
        /\ universal' = [vault |-> universal.vault - sol, drawn |-> DrawnToday + sol,
                         day |-> now \div Day]
        /\ UNCHANGED <<now, claimVars, treasury, reserve, insurance, advancePool, backstopVars>>
    BY <1>7 DEF DrawUniversal
  <2>2. firm' = [firm EXCEPT !.open_payouts = Open(fill), !.ulp_drawn = @ + sol,
                             !.bankrupt = broke]
    BY <1>7 DEF DrawUniversal
  <2>3. sol \in Nat /\ amount \in Nat /\ Remaining(e) \in Nat
    BY <1>0, <2>1, QueueInputs, EntryFacts, SMT DEF Remaining
  <2>4. fill \in Nat /\ fill <= Remaining(e)
    BY <2>3, MinOfTwo
  <2>5. broke \in BOOLEAN
    OBVIOUS
  <2>6. now \div Day \in Nat /\ DrawnToday \in Nat
    <3>1. Day \in Nat \ {0}
      BY StakePoolAssumption
    <3>2. now \div Day \in Nat
      BY <1>0, <3>1, Quotient
    <3> QED
      BY <1>0, <3>2, TierFacts DEF DrawnToday
  <2>7. universal.vault - sol \in Nat /\ DrawnToday + sol \in Nat /\ firm.ulp_drawn + sol \in Nat
    BY <1>0, <2>1, <2>3, <2>6, TierFacts, SMT
  <2>8. Open(fill) \in Nat
    BY <1>0, OpenAfterFillType
  <2> HIDE DEF fill, broke, Open
  <2>9. firm' \in FirmType
    BY <1>0, <2>2, <2>5, <2>7, <2>8, TierFacts DEF FirmType
  <2>10. TierTypeOK'
    BY <1>0, <2>1, <2>6, <2>7, <2>9, TierFacts DEF TierTypeOK
  <2> QED
    BY <1>0, <2>1, <2>4, <2>10, FilledTypes, PoolKept, ClaimsKept, Joined
<1>8. ASSUME entry' = [entry EXCEPT ![e] = NoEntry], TierTypeOK',
             UNCHANGED <<now, claimVars, backstopVars>>
      PROVE  PayoutTypes'
  <2>1. NoEntry \in EntryType /\ NoEntry.delivered = NoEntry.owed /\ NoEntry.delivered <= NoEntry.owed
    BY SMT DEF NoEntry, EntryType
  <2> QED
    BY <1>0, <1>8, <2>1, EntryWritten, PoolKept, ClaimsKept, Joined
<1>9. CASE CloseQueuedPayout(e)
  BY <1>0, <1>8, <1>9, TiersKept DEF CloseQueuedPayout
<1>10. CASE ForceDischarge(e)
  <2>1. SatSub(firm.open_payouts, 1) \in Nat
    BY <1>0, TierFacts, SatSubFacts
  <2>2. TierTypeOK'
    BY <1>0, <1>10, <2>1, TierFacts DEF ForceDischarge, TierTypeOK, FirmType, tierVars
  <2> QED
    BY <1>8, <1>10, <2>2 DEF ForceDischarge
<1> QED
  BY <1>1, <1>2, <1>3, <1>4, <1>5, <1>6, <1>7, <1>9, <1>10 DEF EntryStep

LEMMA AdvanceStepTypes ==
    ASSUME PayoutTypes, NEW c \in Challenges, AdvanceStep(c)
    PROVE  PayoutTypes'
<1> DEFINE e == <<c, 0>>
<1>0. /\ now \in Nat /\ PoolTypeOK /\ ClaimTypeOK /\ EntryTypeOK /\ TierTypeOK
  BY DEF PayoutTypes
<1>e. e \in Entries
  BY QueueInputs
<1>1. ASSUME NEW sol \in Spends, NEW quote \in Quotes, NEW backing \in Backings,
             NEW fill \in 0..quote - 1, AdvanceFirstPayout(c, sol, quote, fill, backing)
      PROVE  PayoutTypes'
  <2> DEFINE owed == SolOwed[<<c, Settlement>>]
             x == [kind |-> "Queued", owed |-> quote, delivered |-> fill, sol |-> owed,
                   queued_at |-> now, hold_until |-> 0, advanced |-> RecordedSpend]
  <2>1. /\ SpentFromTreasury(sol, Carve(sol)) /\ Rewarded(fill)
        /\ UNCHANGED <<now, claimVars, reserve, insurance, backstop, position, escrow,
                       premiumVault, wallet, funds>>
    BY <1>1 DEF AdvanceFirstPayout
  <2>2. /\ firm' = [firm EXCEPT !.treasury_sol = treasury', !.open_payouts = @ + 1]
        /\ advancePool' = [sol_outstanding |-> advancePool.sol_outstanding + RecordedSpend,
                           daily |-> AdvancedToday + RecordedSpend, day |-> now \div Day]
        /\ entry' = [entry EXCEPT ![e] = x]
    BY <1>1 DEF AdvanceFirstPayout
  <2>3. /\ sol \in Nat /\ quote \in Nat /\ fill \in Nat /\ fill <= quote
    BY QueueInputs, SMT
  <2>4. owed \in Nat
    BY <1>1, QueueInputs DEF AdvanceFirstPayout, Advanceable
  <2>5. /\ treasury' \in Nat /\ universal' \in [vault : Nat, drawn : Nat, day : Nat]
        /\ RecordedSpend \in Nat
    BY <1>0, <2>1, <2>3, CarveType, SpentTypes
  <2>6. now \div Day \in Nat /\ AdvancedToday \in Nat
    <3>1. Day \in Nat \ {0}
      BY StakePoolAssumption
    <3>2. now \div Day \in Nat
      BY <1>0, <3>1, Quotient
    <3> QED
      BY <1>0, <3>2, TierFacts DEF AdvancedToday
  <2>7. /\ advancePool.sol_outstanding + RecordedSpend \in Nat
        /\ AdvancedToday + RecordedSpend \in Nat /\ firm.open_payouts + 1 \in Nat
    BY <1>0, <2>5, <2>6, TierFacts, SMT
  <2> HIDE DEF owed
  <2>8. x \in EntryType /\ x.delivered <= x.owed /\ x.kind # "None"
    BY <1>0, <2>3, <2>4, <2>5 DEF EntryType
  <2> HIDE DEF x, e
  <2>9. EntryTypeOK'
    BY <1>0, <1>e, <2>2, <2>8, EntryWritten
  <2>10. firm' \in FirmType
    BY <1>0, <2>2, <2>5, <2>7, TierFacts DEF FirmType
  <2>11. TierTypeOK'
    BY <1>0, <2>1, <2>2, <2>5, <2>6, <2>7, <2>10, TierFacts DEF TierTypeOK
  <2> QED
    BY <1>0, <2>1, <2>3, <2>9, <2>11, RewardedTypes, ClaimsKept, Joined
<1>2. /\ entry[e].advanced \in Nat
      /\ Released(e) \in EntryType /\ Released(e).delivered = entry[e].delivered
      /\ Released(e).owed = entry[e].owed /\ Released(e).kind = entry[e].kind
  <2> HIDE DEF e
  <2> QED
    BY <1>0, <1>e, EntryFacts DEF Released, EntryType
<1>3. ASSUME FloatReleased(e), UNCHANGED tierVars, firm' \in FirmType PROVE TierTypeOK'
  <2>1. SatSub(advancePool.sol_outstanding, entry[e].advanced) \in Nat
    BY <1>0, <1>2, TierFacts, SatSubFacts
  <2> QED
    BY <1>0, <1>3, <2>1, TierFacts DEF FloatReleased, TierTypeOK, tierVars
<1>4. CASE ReconcilePayoutAdvance(c)
  <2>1. /\ FloatReleased(e) /\ entry' = [entry EXCEPT ![e] = Released(e)]
        /\ UNCHANGED <<now, claimVars, firm, tierVars, backstopVars>>
    BY <1>4 DEF ReconcilePayoutAdvance
  <2> HIDE DEF e
  <2>2. EntryTypeOK'
    BY <1>0, <1>e, <1>2, <2>1, EntryFacts, EntryWritten
  <2>3. TierTypeOK'
    BY <1>0, <1>3, <2>1, TierFacts
  <2> QED
    BY <1>0, <2>1, <2>2, <2>3, PoolKept, ClaimsKept, Joined
<1>5. CASE WriteOffFaultedAdvance(c)
  <2> DEFINE x == [Released(e) EXCEPT !.owed = entry[e].delivered]
  <2>1. /\ FloatReleased(e) /\ Outstanding(e) /\ entry' = [entry EXCEPT ![e] = x]
        /\ firm' = [firm EXCEPT !.open_payouts = SatSub(@, 1)]
        /\ UNCHANGED <<now, claimVars, tierVars, backstopVars>>
    BY <1>5 DEF WriteOffFaultedAdvance
  <2> HIDE DEF e
  <2>2. x \in EntryType /\ x.owed = entry[e].delivered /\ x.delivered = entry[e].delivered
    BY <1>0, <1>e, <1>2, EntryFacts DEF EntryType
  <2>3. x.delivered <= x.owed
    BY <1>0, <1>e, <2>2, EntryFacts, SMT
  <2> HIDE DEF x
  <2>4. EntryTypeOK'
    BY <1>0, <1>e, <2>1, <2>2, <2>3, EntryWritten
  <2>5. SatSub(firm.open_payouts, 1) \in Nat
    BY <1>0, TierFacts, SatSubFacts
  <2>6. TierTypeOK'
    BY <1>0, <1>3, <2>1, <2>5, TierFacts DEF FirmType
  <2> QED
    BY <1>0, <2>1, <2>4, <2>6, PoolKept, ClaimsKept, Joined
<1> QED
  BY <1>1, <1>4, <1>5 DEF AdvanceStep

LEMMA ClaimStepTypes ==
    ASSUME PayoutTypes, NEW claim \in Claims, ClaimStep(claim)
    PROVE  PayoutTypes'
<1>0. /\ now \in Nat /\ PoolTypeOK /\ ClaimTypeOK /\ EntryTypeOK /\ TierTypeOK
  BY DEF PayoutTypes
<1>1. now + Window \in Nat
  BY <1>0, QueueInputs, SMT
<1>2. ClaimTypeOK' /\ now' = now
  BY <1>0, <1>1 DEF ClaimStep, ClaimTypeOK, Claim!Propose, Claim!Refute, Claim!Uphold
<1> QED
  BY <1>0, <1>2, PoolKept, EntriesKept, TiersKept, Joined DEF ClaimStep

LEMMA FirmStepTypes ==
    ASSUME PayoutTypes, FirmStep
    PROVE  PayoutTypes'
<1>0. /\ now \in Nat /\ PoolTypeOK /\ ClaimTypeOK /\ EntryTypeOK /\ TierTypeOK
  BY DEF PayoutTypes
<1>1. ASSUME NEW active \in BOOLEAN, SetVelocityBreak(active) PROVE PayoutTypes'
  <2>1. TierTypeOK'
    BY <1>0, <1>1, TierFacts DEF SetVelocityBreak, TierTypeOK, FirmType, tierVars
  <2> QED
    BY <1>0, <1>1, <2>1, PoolKept, ClaimsKept, EntriesKept, Joined DEF SetVelocityBreak
<1>2. CASE ClearVelocityBreakPermissionless
  <2>1. TierTypeOK'
    BY <1>0, <1>2, TierFacts DEF ClearVelocityBreakPermissionless, TierTypeOK, FirmType, tierVars
  <2> QED
    BY <1>0, <1>2, <2>1, PoolKept, ClaimsKept, EntriesKept, Joined
       DEF ClearVelocityBreakPermissionless
<1>3. ASSUME NEW amount \in Credits, CurveFees(amount) PROVE PayoutTypes'
  <2>1. treasury + amount \in Nat
    BY <1>0, QueueInputs, TierFacts, SMT
  <2>2. TierTypeOK'
    BY <1>0, <1>3, <2>1, TierFacts DEF CurveFees, TierTypeOK
  <2> QED
    BY <1>0, <1>3, <2>2, PoolKept, ClaimsKept, EntriesKept, Joined DEF CurveFees
<1>4. CASE FinalizeBankruptcy
  <2>1. universal.vault + treasury + insurance \in Nat /\ 0 \in Nat
    BY <1>0, TierFacts, SMT
  <2>2. firm' \in FirmType
    BY <1>0, <1>4, <2>1, TierFacts DEF FinalizeBankruptcy, FirmType
  <2>3. TierTypeOK'
    BY <1>0, <1>4, <2>1, <2>2, TierFacts DEF FinalizeBankruptcy, TierTypeOK
  <2> QED
    BY <1>0, <1>4, <2>3, PoolKept, ClaimsKept, EntriesKept, Joined DEF FinalizeBankruptcy
<1> QED
  BY <1>1, <1>2, <1>3, <1>4 DEF FirmStep

LEMMA PayoutStartTypes == PayoutInit => PayoutTypes
<1> SUFFICES ASSUME NEW start \in Starts, BackstopInit(start), QueueInit(start)
             PROVE  PayoutTypes
  BY DEF PayoutInit
<1>1. /\ start.wallet \in [Holders -> Nat] /\ start.treasury \in Nat /\ start.reserve \in Nat
      /\ start.insurance \in Nat /\ start.universal \in Nat /\ start.funds \in Nat
      /\ start.reward \in Nat
  BY PayoutQueueAssumption
<1>2. PoolTypeOK
  BY <1>1 DEF BackstopInit, PoolTypeOK, BackstopType, NoPosition, PositionType
<1>3. now \in Nat
  BY QueueInputs DEF QueueInit
<1>4. ClaimTypeOK
  BY DEF QueueInit, ClaimTypeOK
<1>5. EntryTypeOK
  <2>1. NoEntry \in EntryType /\ NoEntry.delivered = NoEntry.owed /\ NoEntry.delivered <= NoEntry.owed
    BY SMT DEF NoEntry, EntryType
  <2> QED
    BY <2>1 DEF QueueInit, EntryTypeOK
<1>6. TierTypeOK
  BY <1>1 DEF QueueInit, TierTypeOK, FirmType
<1> QED
  BY <1>2, <1>3, <1>4, <1>5, <1>6 DEF PayoutTypes

LEMMA PayoutStepTypes == PayoutTypes /\ [PayoutNext]_payoutVars => PayoutTypes'
<1> SUFFICES ASSUME PayoutTypes, [PayoutNext]_payoutVars PROVE PayoutTypes'
  OBVIOUS
<1>0. /\ now \in Nat /\ PoolTypeOK /\ ClaimTypeOK /\ EntryTypeOK /\ TierTypeOK
  BY DEF PayoutTypes
<1>1. ASSUME now' \in Nat, UNCHANGED <<backstopVars, queueVars>> PROVE PayoutTypes'
  BY <1>0, <1>1, PoolKept, ClaimsKept, EntriesKept, TiersKept, Joined DEF queueVars
<1>2. CASE Tick
  BY <1>1, <1>2, QueueInputs DEF Tick
<1>3. ASSUME BackstopStep(firm.velocity_break), UNCHANGED queueVars PROVE PayoutTypes'
  BY <1>0, <1>3, BackstopStepTypes, ClaimsKept, EntriesKept, TiersKept, Joined DEF queueVars
<1>4. CASE UNCHANGED payoutVars
  BY <1>0, <1>1, <1>4 DEF payoutVars
<1> QED
  BY <1>2, <1>3, <1>4, EntryStepTypes, AdvanceStepTypes, ClaimStepTypes, FirmStepTypes
     DEF PayoutNext

LEMMA PayoutIsTyped == PayoutSpec => []PayoutTypes
BY PayoutStartTypes, PayoutStepTypes, PTL DEF PayoutSpec

(* Nothing is delivered beyond what a claim was worth when it was queued,  *)
(* and no vault of the four tiers is overdrawn (process_queued_payout and  *)
(* the draws).                                                             *)
THEOREM PayoutTypesHold == PayoutSpec => []PayoutTypeOK
BY PayoutIsTyped, PayoutTypesImply, PTL

----------------------------------------------------------------------------
(* open_payouts counts the outstanding entries. Each step writes at most   *)
(* one entry, and moves the counter with it.                               *)
Live == {e \in Entries : Outstanding(e)}

LEMMA LiveIsFinite == IsFiniteSet(Live) /\ Cardinality(Live) \in Nat
<1>1. IsFiniteSet(Entries)
  BY PayoutQueueAssumption, FS_Product DEF Entries
<1>2. Live \subseteq Entries
  BY DEF Live
<1> QED
  BY <1>1, <1>2, FS_Subset, FS_CardinalityType

LEMMA LiveCounts == OpenPayoutsIsExact <=> firm.open_payouts = Cardinality(Live)
BY DEF OpenPayoutsIsExact, Live

LEMMA LiveCountsNext == OpenPayoutsIsExact' <=> firm'.open_payouts = Cardinality(Live')
BY DEF OpenPayoutsIsExact, Live

(* What writing one entry does to the set of those outstanding.            *)
LEMMA LiveWritten ==
    ASSUME EntryTypeOK, NEW e \in Entries, NEW x, entry' = [entry EXCEPT ![e] = x]
    PROVE  /\ x.delivered < x.owed => Live' = Live \cup {e}
           /\ ~ (x.delivered < x.owed) => Live' = Live \ {e}
<1>1. /\ entry'[e] = x /\ \A d \in Entries : d # e => entry'[d] = entry[d]
  BY DEF EntryTypeOK
<1> QED
  BY <1>1 DEF Live, Outstanding

LEMMA OpenKept ==
    ASSUME OpenPayoutsIsExact, EntryTypeOK, NEW e \in Entries, NEW x,
           entry' = [entry EXCEPT ![e] = x],
           x.delivered < x.owed <=> Outstanding(e),
           firm'.open_payouts = firm.open_payouts
    PROVE  OpenPayoutsIsExact'
<1>1. Live' = Live
  BY LiveWritten DEF Live
<1> QED
  BY <1>1, LiveCounts, LiveCountsNext

LEMMA OneOpened ==
    ASSUME OpenPayoutsIsExact, EntryTypeOK, NEW e \in Entries, NEW x,
           entry' = [entry EXCEPT ![e] = x],
           ~ Outstanding(e), x.delivered < x.owed,
           firm'.open_payouts = firm.open_payouts + 1
    PROVE  OpenPayoutsIsExact'
<1>1. Live' = Live \cup {e} /\ e \notin Live
  BY LiveWritten DEF Live
<1>2. Cardinality(Live') = Cardinality(Live) + 1
  BY <1>1, LiveIsFinite, FS_AddElement
<1> QED
  BY <1>2, LiveCounts, LiveCountsNext

LEMMA OneClosed ==
    ASSUME OpenPayoutsIsExact, EntryTypeOK, NEW e \in Entries, NEW x,
           entry' = [entry EXCEPT ![e] = x],
           Outstanding(e), ~ (x.delivered < x.owed),
           firm'.open_payouts = SatSub(firm.open_payouts, 1)
    PROVE  OpenPayoutsIsExact'
<1>1. Live' = Live \ {e} /\ e \in Live
  BY LiveWritten DEF Live
<1>2. Cardinality(Live') = Cardinality(Live) - 1
  BY <1>1, LiveIsFinite, FS_RemoveElement
<1>3. Cardinality(Live) # 0
  BY <1>1, LiveIsFinite, FS_EmptySet
<1>4. 1 <= Cardinality(Live)
  BY <1>3, LiveIsFinite, SMT
<1> QED
  BY <1>2, <1>4, LiveIsFinite, LiveCounts, LiveCountsNext, SatSubFacts

(* A fill closes the entry exactly if it fills it up.                      *)
LEMMA OpenFilled ==
    ASSUME OpenPayoutsIsExact, EntryTypeOK, NEW e \in Entries, NEW amount \in Nat,
           amount <= Remaining(e), Outstanding(e), Filled(e, amount),
           firm'.open_payouts = OpenAfterFill(e, amount)
    PROVE  OpenPayoutsIsExact'
<1> DEFINE x == [entry[e] EXCEPT !.delivered = @ + amount]
<1>1. entry' = [entry EXCEPT ![e] = x]
  BY EntryFacts DEF Filled, EntryTypeOK
<1>2. x.delivered = entry[e].delivered + amount /\ x.owed = entry[e].owed
  BY EntryFacts DEF EntryType
<1> HIDE DEF x
<1>3. /\ amount >= Remaining(e) => ~ (x.delivered < x.owed)
      /\ ~ (amount >= Remaining(e)) => x.delivered < x.owed
  BY <1>2, EntryFacts, SMT DEF Remaining
<1>4. CASE amount >= Remaining(e)
  BY <1>1, <1>3, <1>4, OneClosed DEF OpenAfterFill
<1>5. CASE ~ (amount >= Remaining(e))
  BY <1>1, <1>3, <1>5, OpenKept DEF OpenAfterFill
<1> QED
  BY <1>4, <1>5

LEMMA OpenUntouched ==
    ASSUME OpenPayoutsIsExact, UNCHANGED entry, firm'.open_payouts = firm.open_payouts
    PROVE  OpenPayoutsIsExact'
<1>1. Live' = Live
  BY DEF Live, Outstanding
<1> QED
  BY <1>1, LiveCounts, LiveCountsNext

(* An entry that is not there is not outstanding.                          *)
LEMMA NoneIsNotOutstanding ==
    ASSUME EntryTypeOK, NEW e \in Entries, entry[e].kind = "None"
    PROVE  ~ Outstanding(e)
BY EntryFacts, SMT DEF Outstanding

LEMMA EntryStepCounts ==
    ASSUME PayoutTypes, OpenPayoutsIsExact, NEW e \in Entries, EntryStep(e)
    PROVE  OpenPayoutsIsExact'
<1>0. EntryTypeOK /\ TierTypeOK /\ PoolTypeOK
  BY DEF PayoutTypes
<1>1. ASSUME NEW sol \in Spends, ExecutePayoutBuy(e, sol) PROVE OpenPayoutsIsExact'
  <2> DEFINE x == [NoEntry EXCEPT !.kind = "Record"]
  <2>1. /\ ~ Outstanding(e) /\ entry' = [entry EXCEPT ![e] = x]
        /\ firm' = [firm EXCEPT !.treasury_sol = treasury']
    BY <1>0, <1>1, NoneIsNotOutstanding DEF ExecutePayoutBuy
  <2>2. ~ (x.delivered < x.owed)
    BY SMT DEF NoEntry
  <2>3. firm'.open_payouts = firm.open_payouts
    BY <1>0, <2>1, TierFacts DEF FirmType
  <2> HIDE DEF x
  <2> QED
    BY <1>0, <2>1, <2>2, <2>3, OpenKept
<1>2. ASSUME NEW asWithdrawal \in BOOLEAN, NEW owed \in Quotes, NEW backing \in Backings,
             EnqueuePayout(e, asWithdrawal, owed, backing)
      PROVE  OpenPayoutsIsExact'
  <2> DEFINE sol == SolOwed[ClaimOf(e, asWithdrawal)]
             hold == HoldFor(sol, backing)
             x == [NoEntry EXCEPT !.kind = "Queued", !.owed = owed, !.sol = sol,
                                  !.queued_at = now, !.hold_until = hold]
  <2>1. /\ ~ Outstanding(e) /\ entry' = [entry EXCEPT ![e] = x]
        /\ firm' = [firm EXCEPT !.open_payouts = @ + 1]
    BY <1>0, <1>2, NoneIsNotOutstanding DEF EnqueuePayout
  <2>2. owed \in Nat \ {0}
    BY QueueInputs
  <2> HIDE DEF sol, hold
  <2>3. x.delivered = 0 /\ x.owed = owed
    BY DEF NoEntry
  <2>4. firm'.open_payouts = firm.open_payouts + 1
    BY <1>0, <2>1, TierFacts DEF FirmType
  <2> HIDE DEF x
  <2>5. x.delivered < x.owed
    BY <2>2, <2>3, SMT
  <2> QED
    BY <1>0, <2>1, <2>4, <2>5, OneOpened
<1>3. ASSUME NEW backing \in Backings, ReconcilePayoutHold(e, backing) PROVE OpenPayoutsIsExact'
  <2> DEFINE sooner == Min({entry[e].hold_until, HoldFor(entry[e].sol, backing)})
             x == [entry[e] EXCEPT !.hold_until = sooner]
  <2>1. entry' = [entry EXCEPT ![e] = x] /\ firm' = firm
    BY <1>3 DEF ReconcilePayoutHold
  <2> HIDE DEF sooner
  <2>2. x.delivered = entry[e].delivered /\ x.owed = entry[e].owed
    BY <1>0, EntryFacts DEF EntryType
  <2> HIDE DEF x
  <2> QED
    BY <1>0, <2>1, <2>2, OpenKept DEF Outstanding
<1>4. ASSUME NEW asWithdrawal \in BOOLEAN, NEW sol \in Spends, NEW fill \in Draws,
             ProcessQueuedPayout(e, asWithdrawal, sol, fill)
      PROVE  OpenPayoutsIsExact'
  <2> DEFINE broken == ~ (fill = Remaining(e)) /\ (firm.velocity_break \/ treasury' <= Dust)
             open == OpenAfterFill(e, fill)
  <2>1. fill \in Nat /\ Outstanding(e) /\ fill <= Remaining(e) /\ Filled(e, fill)
    BY <1>4, QueueInputs DEF ProcessQueuedPayout
  <2>2. firm' = [firm EXCEPT !.treasury_sol = treasury', !.open_payouts = open,
                             !.velocity_break = broken]
    BY <1>4 DEF ProcessQueuedPayout
  <2> HIDE DEF broken, open
  <2>3. firm'.open_payouts = open
    BY <1>0, <2>2, TierFacts DEF FirmType
  <2> QED
    BY <1>0, <2>1, <2>3, OpenFilled DEF open
<1>5. ASSUME NEW draw \in Nat, draw <= Remaining(e), Outstanding(e), Filled(e, draw),
             firm' = [firm EXCEPT !.open_payouts = OpenAfterFill(e, draw)]
      PROVE  OpenPayoutsIsExact'
  <2> DEFINE open == OpenAfterFill(e, draw)
  <2>1. firm' = [firm EXCEPT !.open_payouts = open]
    BY <1>5
  <2> HIDE DEF open
  <2>2. firm'.open_payouts = open
    BY <1>0, <2>1, TierFacts DEF FirmType
  <2> QED
    BY <1>0, <1>5, <2>2, OpenFilled DEF open
<1>6. ASSUME NEW asWithdrawal \in BOOLEAN, NEW amount \in Draws,
             DrawTreasuryFirma(e, asWithdrawal, amount)
      PROVE  OpenPayoutsIsExact'
  <2> DEFINE draw == Min({amount, Remaining(e), reserve})
  <2>1. /\ Outstanding(e) /\ Filled(e, draw)
        /\ firm' = [firm EXCEPT !.open_payouts = OpenAfterFill(e, draw)]
    BY <1>6 DEF DrawTreasuryFirma
  <2>2. amount \in Nat /\ Remaining(e) \in Nat /\ reserve \in Nat
    BY <1>0, <2>1, QueueInputs, EntryFacts, TierFacts, SMT DEF Remaining
  <2>3. draw \in Nat /\ draw <= Remaining(e)
    BY <2>2, MinOfThree
  <2> HIDE DEF draw
  <2> QED
    BY <1>5, <2>1, <2>3
<1>7. ASSUME NEW asWithdrawal \in BOOLEAN, NEW amount \in Draws,
             DrawBackstop(e, asWithdrawal, amount)
      PROVE  OpenPayoutsIsExact'
  <2> DEFINE draw == Min({amount, Remaining(e), backstop.total_staked})
  <2>1. /\ Outstanding(e) /\ Filled(e, draw)
        /\ firm' = [firm EXCEPT !.open_payouts = OpenAfterFill(e, draw)]
    BY <1>7 DEF DrawBackstop
  <2>2. amount \in Nat /\ Remaining(e) \in Nat /\ backstop.total_staked \in Nat
    BY <1>0, <2>1, QueueInputs, EntryFacts, PoolFacts, SMT DEF Remaining
  <2>3. draw \in Nat /\ draw <= Remaining(e)
    BY <2>2, MinOfThree
  <2> HIDE DEF draw
  <2> QED
    BY <1>5, <2>1, <2>3
<1>8. ASSUME NEW asWithdrawal \in BOOLEAN, NEW sol \in Spends, NEW amount \in Draws,
             DrawUniversal(e, asWithdrawal, sol, amount)
      PROVE  OpenPayoutsIsExact'
  <2> DEFINE fill == Min({amount, Remaining(e)})
             broke == firm.bankrupt \/ firm.ulp_drawn + sol >= universal.vault \div Divisor
             open == OpenAfterFill(e, fill)
  <2>1. /\ Outstanding(e) /\ Filled(e, fill)
        /\ firm' = [firm EXCEPT !.open_payouts = open, !.ulp_drawn = @ + sol, !.bankrupt = broke]
    BY <1>8 DEF DrawUniversal
  <2>2. amount \in Nat /\ Remaining(e) \in Nat
    BY <1>0, <2>1, QueueInputs, EntryFacts, SMT DEF Remaining
  <2>3. fill \in Nat /\ fill <= Remaining(e)
    BY <2>2, MinOfTwo
  <2> HIDE DEF fill, broke, open
  <2>4. firm'.open_payouts = open
    BY <1>0, <2>1, TierFacts DEF FirmType
  <2> QED
    BY <1>0, <2>1, <2>3, <2>4, OpenFilled DEF open
<1>9. ~ (NoEntry.delivered < NoEntry.owed)
  BY SMT DEF NoEntry
<1>10. CASE CloseQueuedPayout(e)
  BY <1>0, <1>9, <1>10, OpenKept DEF CloseQueuedPayout
<1>11. CASE ForceDischarge(e)
  <2>1. /\ Outstanding(e) /\ entry' = [entry EXCEPT ![e] = NoEntry]
        /\ firm' = [firm EXCEPT !.open_payouts = SatSub(@, 1)]
    BY <1>11 DEF ForceDischarge
  <2>2. firm'.open_payouts = SatSub(firm.open_payouts, 1)
    BY <1>0, <2>1, TierFacts DEF FirmType
  <2> QED
    BY <1>0, <1>9, <2>1, <2>2, OneClosed
<1> QED
  BY <1>1, <1>2, <1>3, <1>4, <1>6, <1>7, <1>8, <1>10, <1>11 DEF EntryStep

LEMMA AdvanceStepCounts ==
    ASSUME PayoutTypes, OpenPayoutsIsExact, NEW c \in Challenges, AdvanceStep(c)
    PROVE  OpenPayoutsIsExact'
<1> DEFINE e == <<c, 0>>
<1>0. EntryTypeOK /\ TierTypeOK
  BY DEF PayoutTypes
<1>e. e \in Entries
  BY QueueInputs
<1>1. ASSUME NEW sol \in Spends, NEW quote \in Quotes, NEW backing \in Backings,
             NEW fill \in 0..quote - 1, AdvanceFirstPayout(c, sol, quote, fill, backing)
      PROVE  OpenPayoutsIsExact'
  <2> DEFINE x == [kind |-> "Queued", owed |-> quote, delivered |-> fill,
                   sol |-> SolOwed[<<c, Settlement>>], queued_at |-> now,
                   hold_until |-> 0, advanced |-> RecordedSpend]
  <2>1. /\ entry[e].kind = "None" /\ entry' = [entry EXCEPT ![e] = x]
        /\ firm' = [firm EXCEPT !.treasury_sol = treasury', !.open_payouts = @ + 1]
    BY <1>1 DEF AdvanceFirstPayout
  <2>2. x.delivered < x.owed
    BY QueueInputs, SMT
  <2>3. firm'.open_payouts = firm.open_payouts + 1
    BY <1>0, <2>1, TierFacts DEF FirmType
  <2> HIDE DEF x, e
  <2> QED
    BY <1>0, <1>e, <2>1, <2>2, <2>3, NoneIsNotOutstanding, OneOpened
<1>2. /\ Released(e).delivered = entry[e].delivered /\ Released(e).owed = entry[e].owed
      /\ Released(e) \in EntryType
  <2> HIDE DEF e
  <2> QED
    BY <1>0, <1>e, EntryFacts DEF Released, EntryType
<1>3. CASE ReconcilePayoutAdvance(c)
  <2>1. entry' = [entry EXCEPT ![e] = Released(e)] /\ firm' = firm
    BY <1>3 DEF ReconcilePayoutAdvance
  <2> HIDE DEF e
  <2> QED
    BY <1>0, <1>e, <1>2, <2>1, OpenKept DEF Outstanding
<1>4. CASE WriteOffFaultedAdvance(c)
  <2> DEFINE x == [Released(e) EXCEPT !.owed = entry[e].delivered]
  <2>1. /\ Outstanding(e) /\ entry' = [entry EXCEPT ![e] = x]
        /\ firm' = [firm EXCEPT !.open_payouts = SatSub(@, 1)]
    BY <1>4 DEF WriteOffFaultedAdvance
  <2> HIDE DEF e
  <2>2. x.owed = entry[e].delivered /\ x.delivered = entry[e].delivered
    BY <1>2 DEF EntryType
  <2> HIDE DEF x
  <2>3. ~ (x.delivered < x.owed)
    BY <1>0, <1>e, <2>2, EntryFacts, SMT
  <2>4. firm'.open_payouts = SatSub(firm.open_payouts, 1)
    BY <1>0, <2>1, TierFacts DEF FirmType
  <2> QED
    BY <1>0, <1>e, <2>1, <2>3, <2>4, OneClosed
<1> QED
  BY <1>1, <1>3, <1>4 DEF AdvanceStep

(* What writes no entry leaves the counter alone.                          *)
LEMMA OtherStepCounts ==
    ASSUME PayoutTypes, OpenPayoutsIsExact,
           \/ Tick \/ (\E claim \in Claims : ClaimStep(claim)) \/ FirmStep
           \/ UNCHANGED queueVars
    PROVE  OpenPayoutsIsExact'
<1>0. firm \in FirmType
  BY TierFacts DEF PayoutTypes
<1>1. UNCHANGED entry /\ firm'.open_payouts = firm.open_payouts
  <2>1. CASE Tick \/ UNCHANGED queueVars
    BY <2>1 DEF Tick, queueVars
  <2>2. CASE \E claim \in Claims : ClaimStep(claim)
    BY <2>2 DEF ClaimStep
  <2>3. CASE FirmStep
    BY <1>0, <2>3 DEF FirmStep, SetVelocityBreak, ClearVelocityBreakPermissionless, CurveFees,
                      FinalizeBankruptcy, FirmType
  <2> QED
    BY <2>1, <2>2, <2>3
<1> QED
  BY <1>1, OpenUntouched

LEMMA CountStarts == PayoutInit => OpenPayoutsIsExact
<1> SUFFICES ASSUME NEW start \in Starts, QueueInit(start) PROVE OpenPayoutsIsExact
  BY DEF PayoutInit
<1>1. ~ (NoEntry.delivered < NoEntry.owed)
  BY SMT DEF NoEntry
<1>2. Live = {}
  BY <1>1 DEF QueueInit, Live, Outstanding
<1>3. firm.open_payouts = 0
  BY DEF QueueInit
<1> QED
  BY <1>2, <1>3, FS_EmptySet, LiveCounts

LEMMA CountStep ==
    PayoutTypes /\ OpenPayoutsIsExact /\ [PayoutNext]_payoutVars => OpenPayoutsIsExact'
<1> SUFFICES ASSUME PayoutTypes, OpenPayoutsIsExact, [PayoutNext]_payoutVars
             PROVE  OpenPayoutsIsExact'
  OBVIOUS
<1>1. CASE UNCHANGED payoutVars
  BY <1>1, OtherStepCounts DEF payoutVars
<1> QED
  BY <1>1, EntryStepCounts, AdvanceStepCounts, OtherStepCounts DEF PayoutNext

(* open_payouts counts the entries still to be filled, exactly: whichever  *)
(* tier fills an entry up, and however it ends, it is counted out once     *)
(* (the gate of finalize_bankruptcy and of the breaker's release).         *)
THEOREM OpenPayoutsCounted == PayoutSpec => []OpenPayoutsIsExact
BY CountStarts, CountStep, PayoutIsTyped, PTL DEF PayoutSpec

----------------------------------------------------------------------------
(* The escrow of the backstop pool moves with what the pool says is        *)
(* staked.                                                                 *)
LEMMA EscrowStep ==
    PayoutTypes /\ EscrowIsStaked /\ [PayoutNext]_payoutVars => EscrowIsStaked'
<1> SUFFICES ASSUME PayoutTypes, EscrowIsStaked, [PayoutNext]_payoutVars
             PROVE  EscrowIsStaked'
  OBVIOUS
<1>0. PoolTypeOK /\ EntryTypeOK /\ now \in Nat
  BY DEF PayoutTypes
<1>1. ASSUME UNCHANGED <<escrow, backstop>> PROVE EscrowIsStaked'
  BY <1>1 DEF EscrowIsStaked
<1>2. CASE UNCHANGED payoutVars \/ Tick \/ (\E claim \in Claims : ClaimStep(claim)) \/ FirmStep
  BY <1>1, <1>2 DEF payoutVars, backstopVars, Tick, ClaimStep, FirmStep, SetVelocityBreak,
                    ClearVelocityBreakPermissionless, CurveFees, FinalizeBankruptcy
<1>3. CASE \E c \in Challenges : AdvanceStep(c)
  BY <1>1, <1>3 DEF AdvanceStep, AdvanceFirstPayout, ReconcilePayoutAdvance,
                    WriteOffFaultedAdvance, backstopVars
<1>4. ASSUME NEW draw \in Nat, DrawnFromStakers(draw) PROVE EscrowIsStaked'
  <2>1. escrow' = escrow - draw
    BY <1>4 DEF DrawnFromStakers, PrincipalPaid
  <2>2. backstop'.total_staked = backstop.total_staked - draw
    BY <1>0, <1>4, PoolFacts DEF DrawnFromStakers, BackstopType
  <2> QED
    BY <2>1, <2>2 DEF EscrowIsStaked
<1>5. ASSUME NEW e \in Entries, EntryStep(e) PROVE EscrowIsStaked'
  <2>1. ASSUME NEW asWithdrawal \in BOOLEAN, NEW amount \in Draws,
               DrawBackstop(e, asWithdrawal, amount)
        PROVE  EscrowIsStaked'
    <3> DEFINE draw == Min({amount, Remaining(e), backstop.total_staked})
    <3>1. DrawnFromStakers(draw) /\ Outstanding(e)
      BY <2>1 DEF DrawBackstop
    <3>2. amount \in Nat /\ Remaining(e) \in Nat /\ backstop.total_staked \in Nat
      BY <1>0, <3>1, QueueInputs, EntryFacts, PoolFacts, SMT DEF Remaining, Outstanding
    <3>3. draw \in Nat
      BY <3>2, MinOfThree
    <3> QED
      BY <1>4, <3>1, <3>3
  <2>2. ASSUME NEW asWithdrawal \in BOOLEAN, NEW sol \in Spends, NEW amount \in Draws,
               \/ ProcessQueuedPayout(e, asWithdrawal, sol, amount)
               \/ DrawTreasuryFirma(e, asWithdrawal, amount)
               \/ DrawUniversal(e, asWithdrawal, sol, amount)
        PROVE  EscrowIsStaked'
    BY <1>1, <2>2 DEF ProcessQueuedPayout, DrawTreasuryFirma, DrawUniversal, backstopVars
  <2>5. ASSUME NEW asWithdrawal \in BOOLEAN, NEW amount \in Draws,
               DrawTreasuryFirma(e, asWithdrawal, amount)
        PROVE  EscrowIsStaked'
    BY <1>1, <2>5 DEF DrawTreasuryFirma, backstopVars
  <2>3. CASE \/ \E sol \in Spends : ExecutePayoutBuy(e, sol)
             \/ \E asWithdrawal \in BOOLEAN, owed \in Quotes, backing \in Backings :
                   EnqueuePayout(e, asWithdrawal, owed, backing)
             \/ \E backing \in Backings : ReconcilePayoutHold(e, backing)
    BY <1>1, <2>3 DEF ExecutePayoutBuy, EnqueuePayout, ReconcilePayoutHold, backstopVars
  <2>4. CASE CloseQueuedPayout(e) \/ ForceDischarge(e)
    BY <1>1, <2>4 DEF CloseQueuedPayout, ForceDischarge, backstopVars
  <2> QED
    BY <1>5, <2>1, <2>2, <2>3, <2>4, <2>5 DEF EntryStep
<1>6. ASSUME BackstopStep(firm.velocity_break) PROVE EscrowIsStaked'
  <2>1. ASSUME NEW h \in Holders, NEW amount \in Stakes, Escrowed(h, amount)
        PROVE  EscrowIsStaked'
    <3>1. escrow' = escrow + amount
      BY <2>1 DEF Escrowed
    <3>2. backstop'.total_staked = backstop.total_staked + amount
      BY <1>0, <2>1, PoolFacts DEF Escrowed, BackstopType
    <3> QED
      BY <3>1, <3>2 DEF EscrowIsStaked
  <2>2. ASSUME NEW h \in Holders, NEW amount \in Stakes, NEW tier \in Tiers,
               WithdrawBackstop(h, amount, tier, firm.velocity_break)
        PROVE  EscrowIsStaked'
    <3> DEFINE principal == Slice(amount, Surviving(position[h]), position[h].staked)
    <3>1. /\ PrincipalPaid(principal)
          /\ backstop' = [backstop EXCEPT !.daily_withdrawn = WithdrawnToday + principal,
                                          !.withdraw_day = now \div Day,
                                          !.total_staked = SatSub(@, principal),
                                          !.total_premium_weight = SatSub(@, amount)]
          /\ 0 < amount /\ amount <= position[h].staked
      <4>1. amount > 0 <=> 0 < amount
        BY BackstopPoolAssumption, SMT
      <4> QED
        BY <2>2, <4>1 DEF WithdrawBackstop
    <3>2. principal \in Nat
      <4>1. /\ amount \in Nat /\ position[h].staked \in Nat /\ position[h].loss_debt \in Nat
            /\ backstop.loss_acc \in Nat
        BY <1>0, BackstopPoolAssumption, PoolFacts
      <4>2. Surviving(position[h]) \in Nat
        BY <4>1, PendingType, SatSubFacts DEF Surviving
      <4> QED
        BY <3>1, <4>1, <4>2, SliceWithin
    <3> HIDE DEF principal
    <3>3. principal <= escrow /\ escrow' = escrow - principal
      BY <1>0, <3>1, <3>2, PoolFacts, SMT DEF PrincipalPaid
    <3>4. backstop'.total_staked = SatSub(backstop.total_staked, principal)
      BY <1>0, <3>1, PoolFacts DEF BackstopType
    <3>5. SatSub(backstop.total_staked, principal) = backstop.total_staked - principal
      BY <1>0, <3>2, <3>3, PoolFacts, SatSubFacts DEF EscrowIsStaked
    <3> QED
      BY <3>3, <3>4, <3>5 DEF EscrowIsStaked
  <2>3. ASSUME NEW amount \in Premiums,
               InitBackstopPool \/ SyncBackstopFirmaYield \/ FundBackstopPremium(amount)
        PROVE  EscrowIsStaked'
    <3>1. escrow' = escrow /\ backstop'.total_staked = backstop.total_staked
      BY <1>0, <2>3, PoolFacts DEF InitBackstopPool, SyncBackstopFirmaYield, FundBackstopPremium,
                                   BackstopType
    <3> QED
      BY <3>1 DEF EscrowIsStaked
  <2>4. ASSUME InitBackstopPool \/ SyncBackstopFirmaYield PROVE EscrowIsStaked'
    <3>1. escrow' = escrow /\ backstop'.total_staked = backstop.total_staked
      BY <1>0, <2>4, PoolFacts DEF InitBackstopPool, SyncBackstopFirmaYield, BackstopType
    <3> QED
      BY <3>1 DEF EscrowIsStaked
  <2>5. ASSUME NEW h \in Holders, NEW tier \in Tiers,
               RequestUnstakeBackstop(h, tier) \/ ClaimBackstopPremium(h)
        PROVE  EscrowIsStaked'
    BY <1>1, <2>5 DEF RequestUnstakeBackstop, ClaimBackstopPremium
  <2>6. ASSUME NEW h \in Holders, ClaimBackstopPremium(h) PROVE EscrowIsStaked'
    BY <1>1, <2>6 DEF ClaimBackstopPremium
  <2> QED
    BY <1>6, <2>1, <2>2, <2>3, <2>4, <2>5, <2>6 DEF BackstopStep, StakeBackstop, RouteFirma
<1> QED
  BY <1>2, <1>3, <1>5, <1>6 DEF PayoutNext

(* The tokens in the backstop pool's escrow are the principal the pool     *)
(* says is staked, through stakes, routed yield, withdrawals and draws:    *)
(* no draw or withdrawal takes more than the pool accounts for             *)
(* (draw_backstop, withdraw_backstop).                                     *)
THEOREM EscrowHoldsTheStakes == PayoutSpec => []EscrowIsStaked
<1>1. PayoutInit => EscrowIsStaked
  BY DEF PayoutInit, BackstopInit, EscrowIsStaked
<1> QED
  BY <1>1, EscrowStep, PayoutIsTyped, PTL DEF PayoutSpec

----------------------------------------------------------------------------
(* The float and the advances it caps. A step writes at most one entry,    *)
(* and lowers the float by no more than what that entry stops to carry.    *)
LEMMA NumberedOnce ==
    /\ Cardinality(Entries) \in Nat
    /\ Numbered \in [1..Cardinality(Entries) -> Entries]
    /\ \A e \in Entries : \E i \in 1..Cardinality(Entries) :
          \A k \in 1..Cardinality(Entries) : Numbered[k] = e <=> k = i
<1> DEFINE n == Cardinality(Entries)
           Once(f) == \A e \in Entries : \E i \in DOMAIN f : \A k \in DOMAIN f : f[k] = e <=> k = i
<1>1. IsFiniteSet(Entries)
  BY PayoutQueueAssumption, FS_Product DEF Entries
<1>2. n \in Nat /\ ExistsBijection(1..n, Entries)
  BY <1>1, FS_CardinalityType
<1> HIDE DEF n
<1>3. PICK f : f \in Bijection(1..n, Entries)
  BY <1>2 DEF ExistsBijection
<1>4. /\ f \in [1..n -> Entries]
      /\ \A a, b \in 1..n : f[a] = f[b] => a = b
      /\ \A e \in Entries : \E i \in 1..n : f[i] = e
  BY <1>3, Zenon DEF Bijection, Injection, IsInjective, Surjection
<1>5. Once(f)
  <2> SUFFICES ASSUME NEW e \in Entries
               PROVE  \E i \in DOMAIN f : \A k \in DOMAIN f : f[k] = e <=> k = i
    OBVIOUS
  <2>1. PICK i \in 1..n : f[i] = e
    BY <1>4
  <2> QED
    BY <1>4, <2>1
<1>6. Numbered = CHOOSE g \in [1..n -> Entries] : Once(g)
  BY DEF Numbered, n
<1>7. Numbered \in [1..n -> Entries] /\ Once(Numbered)
  <2> HIDE DEF Once
  <2> QED
    BY <1>4, <1>5, <1>6
<1>8. DOMAIN Numbered = 1..n
  BY <1>7
<1> QED
  BY <1>2, <1>7, <1>8 DEF n

LEMMA FloatMoved ==
    ASSUME PayoutTypes, PayoutTypes', FloatCoversAdvances, NEW e \in Entries, NEW x,
           entry' = [entry EXCEPT ![e] = x],
           advancePool'.sol_outstanding >=
              advancePool.sol_outstanding + x.advanced - entry[e].advanced
    PROVE  FloatCoversAdvances'
<1> DEFINE n == Cardinality(Entries)
           f == AdvancesOf
           g == [i \in 1..n |-> entry'[Numbered[i]].advanced]
<1>1. /\ n \in Nat /\ \A i \in 1..n : Numbered[i] \in Entries
  BY NumberedOnce
<1>2. /\ \A d \in Entries : entry[d].advanced \in Nat /\ entry'[d].advanced \in Nat
      /\ advancePool.sol_outstanding \in Nat /\ advancePool'.sol_outstanding \in Nat
  BY EntryFacts, TierFacts DEF PayoutTypes, EntryTypeOK, EntryType, TierTypeOK
<1>3. entry'[e] = x /\ \A d \in Entries : d # e => entry'[d] = entry[d]
  BY DEF PayoutTypes, EntryTypeOK
<1>4. PICK h \in 1..n : \A k \in 1..n : Numbered[k] = e <=> k = h
  BY NumberedOnce
<1>5. f = [i \in 1..n |-> entry[Numbered[i]].advanced]
  BY DEF AdvancesOf
<1>6. f \in [1..n -> Int] /\ g \in [1..n -> Int]
  BY <1>1, <1>2, <1>5, SMT
<1>7. /\ \A i \in 1..n : i # h => g[i] = f[i]
      /\ g[h] = x.advanced /\ f[h] = entry[e].advanced
  BY <1>1, <1>3, <1>4, <1>5
<1>8. FloatCoversAdvances' <=> advancePool'.sol_outstanding >= SumTo(g, n)
  BY DEF FloatCoversAdvances, AdvancesOf
<1>9. advancePool.sol_outstanding >= SumTo(f, n)
  BY DEF FloatCoversAdvances
<1>10. x.advanced \in Nat /\ entry[e].advanced \in Nat
  BY <1>2, <1>3
<1> HIDE DEF f, g, n
<1>11. SumTo(f, n) \in Int /\ SumTo(g, n) = SumTo(f, n) + g[h] - f[h]
  BY <1>1, <1>6, <1>7, SumChange
<1> QED
  BY <1>2, <1>7, <1>8, <1>9, <1>10, <1>11, SMT

(* What neither writes an advance nor moves the float.                     *)
LEMMA FloatKept ==
    ASSUME PayoutTypes, PayoutTypes', FloatCoversAdvances, NEW e \in Entries, NEW x,
           entry' = [entry EXCEPT ![e] = x], x.advanced \in {0, entry[e].advanced},
           advancePool' = advancePool
    PROVE  FloatCoversAdvances'
<1>1. entry[e].advanced \in Nat /\ advancePool.sol_outstanding \in Nat
  BY EntryFacts, TierFacts DEF PayoutTypes
<1>2. advancePool'.sol_outstanding >= advancePool.sol_outstanding + x.advanced - entry[e].advanced
  BY <1>1, SMT
<1> QED
  BY <1>2, FloatMoved

LEMMA EntryStepFloat ==
    ASSUME PayoutTypes, PayoutTypes', FloatCoversAdvances, NEW e \in Entries, EntryStep(e)
    PROVE  FloatCoversAdvances'
<1>0. EntryTypeOK /\ entry[e] \in EntryType /\ NoEntry.advanced = 0
  BY EntryFacts DEF PayoutTypes, NoEntry
<1>1. ASSUME NEW amount, Filled(e, amount), advancePool' = advancePool
      PROVE  FloatCoversAdvances'
  <2> DEFINE x == [entry[e] EXCEPT !.delivered = @ + amount]
  <2>1. entry' = [entry EXCEPT ![e] = x]
    BY <1>0, <1>1 DEF Filled, EntryTypeOK
  <2>2. x.advanced = entry[e].advanced
    BY <1>0 DEF EntryType
  <2> HIDE DEF x
  <2> QED
    BY <1>1, <2>1, <2>2, FloatKept
<1>2. ASSUME NEW sol \in Spends, ExecutePayoutBuy(e, sol) PROVE FloatCoversAdvances'
  <2> DEFINE x == [NoEntry EXCEPT !.kind = "Record"]
  <2>1. entry' = [entry EXCEPT ![e] = x] /\ advancePool' = advancePool
    BY <1>2 DEF ExecutePayoutBuy
  <2>2. x.advanced = 0
    BY DEF NoEntry
  <2> HIDE DEF x
  <2> QED
    BY <2>1, <2>2, FloatKept
<1>3. ASSUME NEW asWithdrawal \in BOOLEAN, NEW owed \in Quotes, NEW backing \in Backings,
             EnqueuePayout(e, asWithdrawal, owed, backing)
      PROVE  FloatCoversAdvances'
  <2> DEFINE sol == SolOwed[ClaimOf(e, asWithdrawal)]
             hold == HoldFor(sol, backing)
             x == [NoEntry EXCEPT !.kind = "Queued", !.owed = owed, !.sol = sol,
                                  !.queued_at = now, !.hold_until = hold]
  <2>1. entry' = [entry EXCEPT ![e] = x] /\ advancePool' = advancePool
    BY <1>3 DEF EnqueuePayout
  <2> HIDE DEF sol, hold
  <2>2. x.advanced = 0
    BY DEF NoEntry
  <2> HIDE DEF x
  <2> QED
    BY <2>1, <2>2, FloatKept
<1>4. ASSUME NEW backing \in Backings, ReconcilePayoutHold(e, backing)
      PROVE  FloatCoversAdvances'
  <2> DEFINE held == Min({entry[e].hold_until, HoldFor(entry[e].sol, backing)})
             x == [entry[e] EXCEPT !.hold_until = held]
  <2>1. entry' = [entry EXCEPT ![e] = x] /\ advancePool' = advancePool
    BY <1>0, <1>4 DEF ReconcilePayoutHold, EntryTypeOK
  <2> HIDE DEF held
  <2>2. x.advanced = entry[e].advanced
    BY <1>0 DEF EntryType
  <2> HIDE DEF x
  <2> QED
    BY <2>1, <2>2, FloatKept
<1>5. ASSUME NEW asWithdrawal \in BOOLEAN, NEW sol \in Spends, NEW fill \in Draws,
             ProcessQueuedPayout(e, asWithdrawal, sol, fill)
      PROVE  FloatCoversAdvances'
  BY <1>1, <1>5 DEF ProcessQueuedPayout
<1>6. ASSUME NEW asWithdrawal \in BOOLEAN, NEW amount \in Draws,
             DrawTreasuryFirma(e, asWithdrawal, amount)
      PROVE  FloatCoversAdvances'
  BY <1>1, <1>6 DEF DrawTreasuryFirma
<1>7. ASSUME NEW asWithdrawal \in BOOLEAN, NEW amount \in Draws,
             DrawBackstop(e, asWithdrawal, amount)
      PROVE  FloatCoversAdvances'
  BY <1>1, <1>7 DEF DrawBackstop
<1>8. ASSUME NEW asWithdrawal \in BOOLEAN, NEW sol \in Spends, NEW amount \in Draws,
             DrawUniversal(e, asWithdrawal, sol, amount)
      PROVE  FloatCoversAdvances'
  BY <1>1, <1>8 DEF DrawUniversal
<1>9. CASE CloseQueuedPayout(e)
  BY <1>0, <1>9, FloatKept DEF CloseQueuedPayout
<1>10. CASE ForceDischarge(e)
  BY <1>0, <1>10, FloatKept DEF ForceDischarge
<1> QED
  BY <1>2, <1>3, <1>4, <1>5, <1>6, <1>7, <1>8, <1>9, <1>10 DEF EntryStep

LEMMA AdvanceStepFloat ==
    ASSUME PayoutTypes, PayoutTypes', FloatCoversAdvances, NEW c \in Challenges, AdvanceStep(c)
    PROVE  FloatCoversAdvances'
<1> DEFINE e == <<c, 0>>
           carried == entry[e].advanced
           float == advancePool.sol_outstanding
<1>e. e \in Entries
  BY QueueInputs
<1>0. /\ EntryTypeOK /\ TierTypeOK /\ entry[e] \in EntryType /\ carried \in Nat /\ float \in Nat
      /\ advancePool \in [sol_outstanding : Nat, daily : Nat, day : Nat]
  <2> HIDE DEF e
  <2> QED
    BY <1>e, EntryFacts, TierFacts DEF PayoutTypes
<1>1. ASSUME NEW sol \in Spends, NEW quote \in Quotes, NEW backing \in Backings,
             NEW fill \in 0..quote - 1, AdvanceFirstPayout(c, sol, quote, fill, backing)
      PROVE  FloatCoversAdvances'
  <2> DEFINE spend == RecordedSpend
             x == [kind |-> "Queued", owed |-> quote, delivered |-> fill,
                   sol |-> SolOwed[<<c, Settlement>>], queued_at |-> now,
                   hold_until |-> 0, advanced |-> spend]
  <2>1. /\ entry' = [entry EXCEPT ![e] = x]
        /\ advancePool'.sol_outstanding = float + spend
    BY <1>1 DEF AdvanceFirstPayout
  <2>2. x.advanced = spend
    OBVIOUS
  <2>3. spend \in Nat
    BY <1>0, TierFacts, SatSubFacts DEF RecordedSpend, PayoutTypes, TierTypeOK
  <2> HIDE DEF x, e, spend
  <2>4. advancePool'.sol_outstanding >= float + x.advanced - carried
    BY <1>0, <2>1, <2>2, <2>3, SMT
  <2> QED
    BY <1>e, <2>1, <2>4, FloatMoved
<1>2. Released(e) \in EntryType /\ Released(e).advanced = 0
  <2> HIDE DEF e
  <2> QED
    BY <1>0 DEF Released, EntryType
<1>3. ASSUME FloatReleased(e), NEW x, x.advanced = 0, entry' = [entry EXCEPT ![e] = x]
      PROVE  FloatCoversAdvances'
  <2>1. advancePool'.sol_outstanding = SatSub(float, carried)
    BY <1>0, <1>3 DEF FloatReleased
  <2>2. SatSub(float, carried) >= float - carried
    BY <1>0, SMT DEF SatSub
  <2> HIDE DEF e
  <2>3. advancePool'.sol_outstanding >= float + x.advanced - carried
    BY <1>0, <1>3, <2>1, <2>2, SMT
  <2> QED
    BY <1>e, <1>3, <2>3, FloatMoved
<1>4. CASE ReconcilePayoutAdvance(c)
  BY <1>2, <1>3, <1>4 DEF ReconcilePayoutAdvance
<1>5. CASE WriteOffFaultedAdvance(c)
  <2> DEFINE x == [Released(e) EXCEPT !.owed = entry[e].delivered]
  <2>1. FloatReleased(e) /\ entry' = [entry EXCEPT ![e] = x]
    BY <1>5 DEF WriteOffFaultedAdvance
  <2>2. x.advanced = 0
    BY <1>2 DEF EntryType
  <2> HIDE DEF x
  <2> QED
    BY <1>3, <2>1, <2>2
<1> QED
  BY <1>1, <1>4, <1>5 DEF AdvanceStep

(* What writes no entry leaves the float alone.                            *)
LEMMA OtherStepFloat ==
    ASSUME FloatCoversAdvances,
           \/ Tick \/ (\E claim \in Claims : ClaimStep(claim)) \/ FirmStep
           \/ UNCHANGED queueVars
    PROVE  FloatCoversAdvances'
<1>1. UNCHANGED <<entry, advancePool>>
  BY DEF Tick, ClaimStep, FirmStep, SetVelocityBreak, ClearVelocityBreakPermissionless, CurveFees,
         FinalizeBankruptcy, queueVars
<1> QED
  BY <1>1 DEF FloatCoversAdvances, AdvancesOf

LEMMA FloatStarts == PayoutInit => FloatCoversAdvances
<1> SUFFICES ASSUME NEW start \in Starts, QueueInit(start) PROVE FloatCoversAdvances
  BY DEF PayoutInit
<1> DEFINE n == Cardinality(Entries)
           f == AdvancesOf
<1>1. n \in Nat /\ \A i \in 1..n : Numbered[i] \in Entries
  BY NumberedOnce
<1>2. entry = [e \in Entries |-> NoEntry] /\ NoEntry.advanced = 0
  BY DEF QueueInit, NoEntry
<1>3. f = [i \in 1..n |-> 0]
  BY <1>1, <1>2 DEF AdvancesOf
<1>4. f \in [1..n -> Int] /\ \A i \in 1..n : f[i] = 0
  BY <1>3, SMT
<1>5. advancePool.sol_outstanding = 0
  BY DEF QueueInit
<1>6. FloatCoversAdvances <=> 0 >= SumTo(f, n)
  BY <1>5 DEF FloatCoversAdvances
<1> HIDE DEF f, n
<1>7. SumTo(f, n) = 0
  BY <1>1, <1>4, SumOfZeros
<1> QED
  BY <1>6, <1>7, SMT

LEMMA FloatStep ==
    PayoutTypes /\ FloatCoversAdvances /\ [PayoutNext]_payoutVars => FloatCoversAdvances'
<1> SUFFICES ASSUME PayoutTypes, FloatCoversAdvances, [PayoutNext]_payoutVars
             PROVE  FloatCoversAdvances'
  OBVIOUS
<1>1. PayoutTypes'
  BY PayoutStepTypes
<1>2. CASE UNCHANGED payoutVars
  BY <1>2, OtherStepFloat DEF payoutVars
<1> QED
  BY <1>1, <1>2, EntryStepFloat, AdvanceStepFloat, OtherStepFloat DEF PayoutNext

(* The float that caps the advances covers all that live entries carry:    *)
(* reconciliation, write-off, fills and discharges come in any order, and  *)
(* none releases more than its own entry's advance, nor releases it twice. *)
THEOREM FloatKeepsSight == PayoutSpec => []FloatCoversAdvances
BY FloatStarts, FloatStep, PayoutIsTyped, PTL DEF PayoutSpec

----------------------------------------------------------------------------
(* The losses, weighed exactly. No position is charged less than nothing.  *)
LossBooks ==
    \A h \in Holders :
        Entitled(position[h].staked, backstop.loss_acc, position[h].loss_debt) >= 0
SparedOf == [h \in Holders |->
                Spared(position[h].staked, backstop.loss_acc, position[h].loss_debt)]

LEMMA SparedTypes ==
    ASSUME PoolTypeOK
    PROVE  /\ SparedOf \in [Holders -> Nat]
           /\ \A h \in Holders :
                 SparedOf[h] = Spared(position[h].staked, backstop.loss_acc, position[h].loss_debt)
<1>1. ASSUME NEW h \in Holders
      PROVE  Spared(position[h].staked, backstop.loss_acc, position[h].loss_debt) \in Nat
  <2>1. /\ position[h].staked \in Nat /\ position[h].loss_debt \in Nat
        /\ backstop.loss_acc \in Nat
    BY PoolFacts
  <2> QED
    BY <2>1, SparedFacts
<1> QED
  BY <1>1 DEF SparedOf

LEMMA SparedTypesNext ==
    ASSUME PoolTypeOK'
    PROVE  SparedOf' \in [Holders -> Nat]
<1>1. ASSUME NEW h \in Holders
      PROVE  Spared(position'[h].staked, backstop'.loss_acc, position'[h].loss_debt) \in Nat
  <2>1. /\ position'[h].staked \in Nat /\ position'[h].loss_debt \in Nat
        /\ backstop'.loss_acc \in Nat
    BY DEF PoolTypeOK, BackstopType, PositionType
  <2> QED
    BY <2>1, SparedFacts
<1> QED
  BY <1>1 DEF SparedOf

LEMMA UnbackedIs ==
    /\ Unbacked = SatSub(SumTo(SparedOf, N), escrow * Precision)
    /\ Unbacked' = SatSub(SumTo(SparedOf', N), escrow' * Precision)
BY DEF Unbacked, SurvivingExactly, SparedOf, Spared

(* One position that moves, and the escrow with it.                        *)
LEMMA UnbackedMoves ==
    ASSUME NEW n \in Nat, NEW f \in [1..n -> Nat], NEW g \in [1..n -> Nat], NEW h \in 1..n,
           \A i \in 1..n : i # h => g[i] = f[i],
           NEW held \in Nat, NEW left \in Nat, NEW c \in Nat,
           g[h] + held * Precision <= f[h] + left * Precision + c
    PROVE  SatSub(SumTo(g, n), left * Precision) <= SatSub(SumTo(f, n), held * Precision) + c
<1>1. f \in [1..n -> Int] /\ g \in [1..n -> Int] /\ f[h] \in Nat /\ g[h] \in Nat
  OBVIOUS
<1>2. SumTo(g, n) = SumTo(f, n) + g[h] - f[h]
  BY <1>1, SumChange
<1>3. SumTo(f, n) \in Nat /\ SumTo(g, n) \in Nat
  BY SumCovers
<1>4. held * Precision \in Nat /\ left * Precision \in Nat
  BY StakePoolAssumption, SMT
<1> QED
  BY <1>1, <1>2, <1>3, <1>4 DEF SatSub

(* A draw that charges every position its part at least, from an escrow of *)
(* what is staked: only the remainder of the division stays uncharged.     *)
LEMMA UnbackedDraws ==
    ASSUME NEW n \in Nat, NEW f \in [1..n -> Nat], NEW g \in [1..n -> Nat],
           NEW total \in Nat \ {0}, NEW draw \in Nat, draw <= total,
           NEW d \in Nat, NEW r \in Nat, draw * Precision = total * d + r, d <= Precision,
           \A i \in 1..n : Precision * g[i] <= (Precision - d) * f[i]
    PROVE  SatSub(SumTo(g, n), (total - draw) * Precision)
             <= SatSub(SumTo(f, n), total * Precision) + r
<1> DEFINE sf == SumTo(f, n)
           sg == SumTo(g, n)
           held == total * Precision
           u == SatSub(sf, held)
           k == Precision - d
<1>1. sf \in Nat /\ sg \in Nat
  BY SumCovers
<1>2. Precision \in Nat \ {0} /\ k \in Nat /\ Precision \in Int /\ k \in Int
  BY StakePoolAssumption
<1>3. Precision * sg <= k * sf
  <2>1. f \in [1..n -> Int] /\ g \in [1..n -> Int]
    OBVIOUS
  <2>2. \A i \in 1..n : Precision * g[i] <= k * f[i]
    OBVIOUS
  <2> HIDE DEF k
  <2> QED
    BY <1>2, <2>1, <2>2, SumScales
<1>4. held \in Nat /\ draw * Precision \in Nat /\ total * d \in Nat
  BY <1>2, SMT
<1>5. u \in Nat /\ sf <= held + u
  BY <1>1, <1>4 DEF SatSub
<1>6. (total - draw) * Precision = held - draw * Precision /\ held - draw * Precision \in Nat
  <2>1. PICK w \in Nat : total = draw + w
    <3>1. total - draw \in Nat /\ total = draw + (total - draw)
      OBVIOUS
    <3> QED
      BY <3>1
  <2>2. (draw + w) * Precision = draw * Precision + w * Precision /\ w * Precision \in Nat
    BY <1>2, SMT
  <2>3. (total - draw) = w
    BY <2>1
  <2> QED
    BY <1>4, <2>1, <2>2, <2>3
<1> HIDE DEF sf, sg, u, k
<1> DEFINE top == held - draw * Precision + r + u
<1>7. top \in Nat
  BY <1>5, <1>6
<1>8. Precision * sg <= Precision * top
  <2>1. k * sf <= k * (held + u)
    <3> DEFINE y == held + u
    <3>1. y \in Nat /\ sf <= y
      BY <1>4, <1>5
    <3> HIDE DEF y
    <3>2. k * sf <= k * y
      BY <1>1, <1>2, <3>1, SMT
    <3> QED
      BY <3>2 DEF y
  <2>2. k * (held + u) = Precision * held - d * held + k * u
    <3> HIDE DEF held
    <3>1. k * (held + u) = k * held + k * u
      BY <1>2, <1>4, <1>5, SMT
    <3>2. k * held = Precision * held - d * held
      BY <1>2, <1>4, SMT DEF k
    <3> QED
      BY <3>1, <3>2
  <2>3. d * held = (total * d) * Precision
    BY <1>2, SMT
  <2>4. (total * d) * Precision = (draw * Precision) * Precision - r * Precision
    <3> DEFINE x == draw * Precision
               y == total * d
    <3>1. x \in Nat /\ y \in Nat /\ y = x - r
      BY <1>4
    <3> HIDE DEF x, y
    <3>2. y * Precision = x * Precision - r * Precision
      BY <1>2, <3>1, SMT
    <3> QED
      BY <3>2 DEF x, y
  <2>5. k * u <= Precision * u
    <3>1. k <= Precision
      BY <1>2 DEF k
    <3> QED
      BY <1>2, <1>5, <3>1, SMT
  <2>6. Precision * top = Precision * held - (draw * Precision) * Precision + r * Precision
                           + Precision * u
    <3> DEFINE x == draw * Precision
    <3>1. x \in Nat
      BY <1>4
    <3> HIDE DEF x, held
    <3>2. Precision * (held - x + r + u)
             = Precision * held - x * Precision + r * Precision + Precision * u
      BY <1>2, <1>4, <1>5, <3>1, SMT
    <3> QED
      BY <3>2 DEF x
  <2> HIDE DEF held, top
  <2>7. /\ Precision * held \in Int /\ d * held \in Int /\ k * u \in Int /\ Precision * u \in Int
        /\ r * Precision \in Int /\ k * sf \in Int /\ Precision * sg \in Int
        /\ k * (held + u) \in Int /\ Precision * top \in Int
    BY <1>1, <1>2, <1>4, <1>5, <1>7, SMT
  <2>8. (draw * Precision) * Precision \in Int
    BY <1>2, <1>4, SMT
  <2> DEFINE a1 == Precision * sg
             a2 == k * sf
             a3 == k * (held + u)
             a4 == Precision * held
             a5 == d * held
             a6 == k * u
             a7 == (total * d) * Precision
             a8 == (draw * Precision) * Precision
             a9 == r * Precision
             a10 == Precision * u
             a11 == Precision * top
  <2>9. /\ a1 <= a2 /\ a2 <= a3 /\ a3 = a4 - a5 + a6 /\ a5 = a7 /\ a7 = a8 - a9
        /\ a6 <= a10 /\ a11 = a4 - a8 + a9 + a10
        /\ a1 \in Int /\ a2 \in Int /\ a3 \in Int /\ a4 \in Int /\ a5 \in Int /\ a6 \in Int
        /\ a8 \in Int /\ a9 \in Int /\ a10 \in Int /\ a11 \in Int
    BY <1>3, <2>1, <2>2, <2>3, <2>4, <2>5, <2>6, <2>7, <2>8, Zenon
  <2>10. a1 <= a11
    <3> HIDE DEF a1, a2, a3, a4, a5, a6, a7, a8, a9, a10, a11
    <3> QED
      BY <2>9
  <2> QED
    BY <2>10
<1>9. sg <= top
  <2> HIDE DEF top
  <2> DEFINE x == top - sg
  <2>1. x \in Int
    BY <1>1, <1>7
  <2>2. Precision * x = Precision * top - Precision * sg
        /\ Precision * top \in Int /\ Precision * sg \in Int
    BY <1>1, <1>2, <1>7, SMT
  <2>3. Precision * x >= 0
    BY <1>8, <2>2
  <2>4. x >= 0
    <3> HIDE DEF x
    <3> QED
      BY <1>2, <2>1, <2>3, SignOfFactor
  <2> QED
    BY <1>1, <1>7, <2>4
<1>10. SatSub(sg, held - draw * Precision) <= u + r
  <2> HIDE DEF held
  <2> QED
    BY <1>1, <1>4, <1>5, <1>6, <1>9 DEF SatSub
<1> QED
  BY <1>6, <1>10 DEF sf, sg, u

(* Steps that leave the stakes, the losses and the escrow alone.           *)
LEMMA LossKept ==
    ASSUME PoolTypeOK, LossBooks, escrow' = escrow, backstop'.loss_acc = backstop.loss_acc,
           backstop'.total_drawn = backstop.total_drawn,
           \A h \in Holders : /\ position'[h].staked = position[h].staked
                              /\ position'[h].loss_debt = position[h].loss_debt
    PROVE  LossBooks' /\ Unbacked' <= Unbacked + Rounding
<1>1. LossBooks'
  BY DEF LossBooks
<1>2. SparedOf' = SparedOf
  BY DEF SparedOf
<1>3. Unbacked' = Unbacked
  BY <1>2, UnbackedIs
<1>4. Unbacked \in Nat
  <2>1. N \in Nat /\ SparedOf \in [1..N -> Nat]
    BY SparedTypes, BackstopPoolAssumption DEF Holders
  <2>2. SumTo(SparedOf, N) \in Nat
    BY <2>1, SumCovers
  <2>3. escrow * Precision \in Nat
    BY StakePoolAssumption, PoolFacts, SMT
  <2> QED
    BY <2>2, <2>3, UnbackedIs, SatSubFacts
<1>5. Rounding = 0
  <2>1. ~ (backstop'.total_drawn > backstop.total_drawn)
    BY PoolFacts
  <2>2. ~ \E h \in Holders : position'[h].staked < position[h].staked
    BY PoolFacts
  <2> QED
    BY <2>1, <2>2 DEF Rounding
<1> QED
  BY <1>1, <1>3, <1>4, <1>5

(* What a step rounds, when it draws nothing.                              *)
LEMMA RoundingIs ==
    ASSUME PoolTypeOK, backstop'.total_drawn = backstop.total_drawn
    PROVE  /\ Rounding \in Nat
           /\ (\E h \in Holders : position'[h].staked < position[h].staked)
                 => Rounding = Precision - 1
<1>1. ~ (backstop'.total_drawn > backstop.total_drawn) /\ Precision \in Nat \ {0}
  BY PoolFacts, StakePoolAssumption
<1>2. Precision - 1 \in Nat
  BY <1>1
<1> QED
  BY <1>1, <1>2 DEF Rounding

(* One position that moves as the arithmetic allows.                       *)
LEMMA LossMoved ==
    ASSUME PoolTypeOK, PoolTypeOK', LossBooks, backstop'.loss_acc = backstop.loss_acc,
           NEW h \in Holders, \A i \in Holders : i # h => position'[i] = position[i],
           Entitled(position'[h].staked, backstop.loss_acc, position'[h].loss_debt) >= 0,
           NEW c \in Nat, c <= Rounding, Rounding \in Int,
           Spared(position'[h].staked, backstop.loss_acc, position'[h].loss_debt)
             + escrow * Precision
             <= Spared(position[h].staked, backstop.loss_acc, position[h].loss_debt)
                  + escrow' * Precision + c
    PROVE  LossBooks' /\ Unbacked' <= Unbacked + Rounding
<1>1. LossBooks'
  BY DEF LossBooks
<1> DEFINE f == SparedOf
           g == SparedOf'
<1>2. N \in Nat /\ h \in 1..N /\ f \in [1..N -> Nat] /\ g \in [1..N -> Nat]
  BY SparedTypes, SparedTypesNext, BackstopPoolAssumption DEF Holders
<1>3. \A i \in 1..N : i # h => g[i] = f[i]
  BY DEF SparedOf, Holders
<1>4. /\ g[h] = Spared(position'[h].staked, backstop.loss_acc, position'[h].loss_debt)
      /\ f[h] = Spared(position[h].staked, backstop.loss_acc, position[h].loss_debt)
  BY DEF SparedOf
<1>5. escrow \in Nat /\ escrow' \in Nat
  BY DEF PoolTypeOK
<1>6. g[h] + escrow * Precision <= f[h] + escrow' * Precision + c
  BY <1>4
<1> HIDE DEF f, g
<1>7. SatSub(SumTo(g, N), escrow' * Precision) <= SatSub(SumTo(f, N), escrow * Precision) + c
  BY <1>2, <1>3, <1>5, <1>6, UnbackedMoves
<1>8. Unbacked' <= Unbacked + c
  BY <1>7, UnbackedIs DEF f, g
<1>9. Unbacked \in Int /\ Unbacked' \in Int
  <2>1. SumTo(f, N) \in Nat /\ SumTo(g, N) \in Nat
    BY <1>2, SumCovers
  <2>2. escrow * Precision \in Nat /\ escrow' * Precision \in Nat
    <3>1. \A x \in Nat : x * Precision \in Nat
      BY StakePoolAssumption, SMT
    <3> QED
      BY <1>5, <3>1
  <2>3. SatSub(SumTo(g, N), escrow' * Precision) \in Int
        /\ SatSub(SumTo(f, N), escrow * Precision) \in Int
    BY <2>1, <2>2, SatSubFacts
  <2> QED
    BY <2>3, UnbackedIs DEF f, g
<1> QED
  BY <1>1, <1>8, <1>9

LEMMA DrawLosses ==
    ASSUME PoolTypeOK, PoolTypeOK', EscrowIsStaked, LossBooks,
           NEW draw \in Nat, DrawnFromStakers(draw)
    PROVE  LossBooks' /\ Unbacked' <= Unbacked + Rounding
<1> DEFINE acc == backstop.loss_acc
           total == backstop.total_staked
           n == draw * Precision
           d == n \div total
           r == n % total
<1>1. /\ total \in Nat \ {0} /\ acc \in Nat /\ draw <= total /\ draw > 0
      /\ Precision \in Nat \ {0} /\ escrow = total /\ escrow' = total - draw
  BY PoolFacts, StakePoolAssumption DEF DrawnFromStakers, PrincipalPaid, EscrowIsStaked
<1>2. /\ backstop'.loss_acc = acc + d /\ backstop'.total_drawn = backstop.total_drawn + draw
      /\ position' = position
  BY PoolFacts DEF DrawnFromStakers, LossAfterDraw, BackstopType
<1>3. n \in Nat
  BY <1>1, SMT
<1>4. d \in Nat /\ r \in 0..total - 1 /\ n = total * d + r
  <2> HIDE DEF n, total
  <2> QED
    BY <1>1, <1>3, Division
<1>5. d <= Precision
  <2>1. n <= Precision * total
    <3>1. draw * Precision <= total * Precision /\ total * Precision = Precision * total
      BY <1>1, SMT
    <3> QED
      BY <3>1
  <2> HIDE DEF n, total
  <2> QED
    BY <1>1, <1>3, <2>1, QuotientAtMost
<1>6. Rounding = r
  <2>1. backstop'.total_drawn > backstop.total_drawn
        /\ backstop'.total_drawn - backstop.total_drawn = draw
    BY <1>1, <1>2, PoolFacts
  <2> QED
    BY <2>1 DEF Rounding
<1> HIDE DEF d, r, n
<1>7. ASSUME NEW h \in Holders
      PROVE  /\ Entitled(position[h].staked, acc + d, position[h].loss_debt) >= 0
             /\ Precision * Spared(position[h].staked, acc + d, position[h].loss_debt)
                  <= (Precision - d) * Spared(position[h].staked, acc, position[h].loss_debt)
  <2>1. /\ position[h].staked \in Nat /\ position[h].loss_debt \in Nat /\ d \in 0..Precision
        /\ Entitled(position[h].staked, acc, position[h].loss_debt) >= 0
    BY <1>1, <1>4, <1>5, PoolFacts DEF LossBooks
  <2> HIDE DEF acc
  <2> QED
    BY <1>1, <2>1, DrawSpared
<1>8. LossBooks'
  BY <1>2, <1>7 DEF LossBooks
<1> DEFINE f == SparedOf
           g == SparedOf'
<1>9. N \in Nat /\ f \in [1..N -> Nat] /\ g \in [1..N -> Nat]
  BY SparedTypes, SparedTypesNext, BackstopPoolAssumption DEF Holders
<1>10. \A i \in 1..N : Precision * g[i] <= (Precision - d) * f[i]
  <2>1. \A i \in 1..N :
            /\ g[i] = Spared(position[i].staked, acc + d, position[i].loss_debt)
            /\ f[i] = Spared(position[i].staked, acc, position[i].loss_debt)
    BY <1>2 DEF SparedOf, Holders
  <2> QED
    BY <1>7, <2>1 DEF Holders
<1> HIDE DEF f, g, total
<1>11. SatSub(SumTo(g, N), (total - draw) * Precision)
          <= SatSub(SumTo(f, N), total * Precision) + r
  <2>1. r \in Nat /\ draw * Precision = total * d + r
    BY <1>1, <1>4 DEF n
  <2> QED
    BY <1>1, <1>4, <1>5, <1>9, <1>10, <2>1, UnbackedDraws
<1>12. Unbacked' <= Unbacked + r
  BY <1>1, <1>11, UnbackedIs DEF f, g
<1> QED
  BY <1>6, <1>8, <1>12

LEMMA StakeLosses ==
    ASSUME PoolTypeOK, PoolTypeOK', LossBooks, NEW h \in Holders, NEW amount \in Nat,
           Escrowed(h, amount),
           position'[h].staked = position[h].staked + amount,
           position'[h].loss_debt = position[h].loss_debt + Debt(amount, backstop.loss_acc),
           \A i \in Holders : i # h => position'[i] = position[i]
    PROVE  LossBooks' /\ Unbacked' <= Unbacked + Rounding
<1> DEFINE staked == position[h].staked
           debt == position[h].loss_debt
           acc == backstop.loss_acc
           later == debt + Debt(amount, acc)
<1>1. staked \in Nat /\ debt \in Nat /\ acc \in Nat /\ Entitled(staked, acc, debt) >= 0
  BY PoolFacts DEF LossBooks
<1>2. /\ escrow' = escrow + amount /\ backstop'.loss_acc = acc
      /\ backstop'.total_drawn = backstop.total_drawn
  BY PoolFacts DEF Escrowed, BackstopType
<1>3. Rounding \in Nat
  BY <1>2, RoundingIs
<1>0. later \in Nat /\ staked + amount \in Nat
  <2>1. Debt(amount, acc) \in Nat
    <3> HIDE DEF acc
    <3> QED
      BY <1>1, DebtType
  <2> QED
    BY <1>1, <2>1
<1>4. /\ Entitled(staked + amount, acc, later) >= 0
      /\ Spared(staked + amount, acc, later) <= Spared(staked, acc, debt) + amount * Precision
  <2> HIDE DEF staked, debt, acc
  <2>1. /\ Spared(staked + amount, acc, debt + Debt(amount, acc))
              <= Spared(staked, acc, debt) + amount * Precision
        /\ Entitled(staked + amount, acc, debt + Debt(amount, acc)) >= Entitled(staked, acc, debt)
    BY <1>1, StakeSpared
  <2>3. Entitled(staked, acc, debt) \in Int
    BY <1>1, EntitledType
  <2> HIDE DEF later
  <2>4. Entitled(staked + amount, acc, later) \in Int
    BY <1>0, <1>1, EntitledType
  <2> QED
    BY <1>1, <2>1, <2>3, <2>4 DEF later
<1>5. /\ Spared(staked, acc, debt) \in Nat /\ Spared(staked + amount, acc, later) \in Nat
  <2> HIDE DEF staked, debt, acc, later
  <2> QED
    BY <1>0, <1>1, SparedFacts
<1>6. /\ escrow' * Precision = escrow * Precision + amount * Precision
      /\ escrow * Precision \in Nat /\ amount * Precision \in Nat
  <2>1. \A x \in Nat : /\ (x + amount) * Precision = x * Precision + amount * Precision
                       /\ x * Precision \in Nat
    BY StakePoolAssumption, SMT
  <2> QED
    BY <1>2, <2>1, PoolFacts
<1>7. Spared(staked + amount, acc, later) + escrow * Precision
        <= Spared(staked, acc, debt) + escrow' * Precision + 0
  <2> HIDE DEF staked, debt, acc, later
  <2> QED
    BY <1>4, <1>5, <1>6
<1>8. 0 <= Rounding /\ Rounding \in Int /\ 0 \in Nat
  BY <1>3
<1>9. /\ Entitled(position'[h].staked, acc, position'[h].loss_debt) >= 0
      /\ Spared(position'[h].staked, acc, position'[h].loss_debt) + escrow * Precision
           <= Spared(staked, acc, debt) + escrow' * Precision + 0
  BY <1>4, <1>7
<1> QED
  BY <1>2, <1>8, <1>9, LossMoved

LEMMA WithdrawLosses ==
    ASSUME PoolTypeOK, PoolTypeOK', EscrowIsStaked, LossBooks, NEW h \in Holders,
           NEW amount \in Nat, NEW tier, NEW frozen, WithdrawBackstop(h, amount, tier, frozen)
    PROVE  LossBooks' /\ Unbacked' <= Unbacked + Rounding
<1> DEFINE pos == position[h]
           staked == pos.staked
           debt == pos.loss_debt
           acc == backstop.loss_acc
           rest == staked - amount
           later == ScaledDebt(debt, rest, staked)
           surviving == SatSub(staked, Pending(staked, acc, debt))
           paid == Slice(amount, surviving, staked)
<1>1. /\ staked \in Nat /\ debt \in Nat /\ acc \in Nat /\ pos \in PositionType
      /\ Entitled(staked, acc, debt) >= 0
  BY PoolFacts DEF LossBooks
<1>2. /\ amount > 0 /\ amount <= staked
      /\ PrincipalPaid(paid)
      /\ position' = [position EXCEPT ![h] = Remainder(@, amount)]
      /\ backstop' = [backstop EXCEPT !.daily_withdrawn = WithdrawnToday + paid,
                                      !.withdraw_day = now \div Day,
                                      !.total_staked = SatSub(@, paid),
                                      !.total_premium_weight = SatSub(@, amount)]
  BY DEF WithdrawBackstop, Surviving
<1>3. backstop'.loss_acc = acc /\ backstop'.total_drawn = backstop.total_drawn
  BY <1>2, PoolFacts DEF BackstopType
<1>4. escrow' = escrow - paid /\ paid <= escrow
  BY <1>2, PoolFacts DEF PrincipalPaid
<1>5. 0 < amount /\ rest \in Nat /\ staked = rest + amount /\ staked \in Nat \ {0} /\ rest < staked
  BY <1>1, <1>2
<1>6. /\ paid \in Nat
      /\ paid * Precision + Spared(rest, acc, later) <= Spared(staked, acc, debt) + (Precision - 1)
      /\ Entitled(rest, acc, later) >= 0
  <2> HIDE DEF pos, staked, debt, acc
  <2> QED
    BY <1>1, <1>2, <1>5, WithdrawSpared, WithdrawEntitled
<1>7. position'[h].staked = rest /\ position'[h].loss_debt = later
  <2>1. position'[h] = Remainder(pos, amount)
    BY <1>1, <1>2, PoolFacts
  <2>2. CASE rest = 0
    <3>1. later = 0
      <4>1. debt * 0 = 0 /\ 0 \div staked = 0
        BY <1>1, <1>5, SMT
      <4> HIDE DEF staked, debt
      <4> QED
        BY <2>2, <4>1 DEF ScaledDebt
    <3> QED
      BY <2>1, <2>2, <3>1 DEF Remainder, NoPosition
  <2>3. CASE rest # 0
    BY <1>1, <2>1, <2>3 DEF Remainder, PositionType
  <2> QED
    BY <2>2, <2>3
<1>8. Rounding = Precision - 1 /\ Precision - 1 \in Nat
  <2>1. position'[h].staked < position[h].staked
    BY <1>5, <1>7
  <2> QED
    BY <1>3, <2>1, RoundingIs, StakePoolAssumption
<1>9. later \in Nat
  BY <1>7 DEF PoolTypeOK, PositionType
<1> HIDE DEF pos, staked, debt, acc, rest, later, surviving, paid
<1>10. Spared(staked, acc, debt) \in Nat /\ Spared(rest, acc, later) \in Nat
  BY <1>1, <1>5, <1>9, SparedFacts
<1>11. /\ escrow * Precision = escrow' * Precision + paid * Precision
       /\ escrow' * Precision \in Nat /\ paid * Precision \in Nat
  <2>1. \A x \in Nat : /\ (x + paid) * Precision = x * Precision + paid * Precision
                       /\ x * Precision \in Nat
    BY <1>6, StakePoolAssumption, SMT
  <2>2. escrow' \in Nat /\ escrow = escrow' + paid /\ paid * Precision \in Nat
    BY <1>4, <1>6, <2>1, PoolFacts DEF PoolTypeOK
  <2> QED
    BY <2>1, <2>2
<1>12. Spared(rest, acc, later) + escrow * Precision
         <= Spared(staked, acc, debt) + escrow' * Precision + (Precision - 1)
  BY <1>6, <1>8, <1>10, <1>11
<1>13. \A i \in Holders : i # h => position'[i] = position[i]
  BY <1>2, PoolFacts
<1>14. /\ Entitled(position'[h].staked, backstop.loss_acc, position'[h].loss_debt) >= 0
       /\ Spared(position'[h].staked, backstop.loss_acc, position'[h].loss_debt)
             + escrow * Precision
            <= Spared(position[h].staked, backstop.loss_acc, position[h].loss_debt)
                 + escrow' * Precision + (Precision - 1)
  BY <1>6, <1>7, <1>12 DEF acc, staked, debt, pos
<1>15. Precision - 1 <= Rounding /\ Rounding \in Int /\ backstop'.loss_acc = backstop.loss_acc
  BY <1>3, <1>8 DEF acc
<1> QED
  BY <1>8, <1>13, <1>14, <1>15, LossMoved

LEMMA PoolStepLosses ==
    ASSUME PoolTypeOK, PoolTypeOK', EscrowIsStaked, LossBooks, NEW frozen, BackstopStep(frozen)
    PROVE  LossBooks' /\ Unbacked' <= Unbacked + Rounding
<1>1. ASSUME NEW h \in Holders, NEW amount \in Stakes,
             StakeBackstop(h, amount) \/ RouteFirma(h, amount)
      PROVE  LossBooks' /\ Unbacked' <= Unbacked + Rounding
  <2>1. /\ Escrowed(h, amount) /\ amount \in Nat
        /\ position'[h].staked = position[h].staked + amount
        /\ position'[h].loss_debt = position[h].loss_debt + Debt(amount, backstop.loss_acc)
        /\ \A i \in Holders : i # h => position'[i] = position[i]
    BY <1>1, PoolFacts, BackstopPoolAssumption
       DEF StakeBackstop, RouteFirma, Shielded, PositionType
  <2> QED
    BY <2>1, StakeLosses
<1>2. ASSUME NEW h \in Holders, NEW amount \in Stakes, NEW tier \in Tiers,
             WithdrawBackstop(h, amount, tier, frozen)
      PROVE  LossBooks' /\ Unbacked' <= Unbacked + Rounding
  <2>1. amount \in Nat
    BY BackstopPoolAssumption
  <2> QED
    BY <1>2, <2>1, WithdrawLosses
<1>3. ASSUME NEW amount, FundBackstopPremium(amount)
      PROVE  LossBooks' /\ Unbacked' <= Unbacked + Rounding
  <2>1. /\ position' = position /\ escrow' = escrow
        /\ backstop'.loss_acc = backstop.loss_acc
        /\ backstop'.total_drawn = backstop.total_drawn
    BY <1>3, PoolFacts DEF FundBackstopPremium, BackstopType
  <2> QED
    BY <2>1, LossKept
<1>4. CASE InitBackstopPool \/ SyncBackstopFirmaYield
  <2>1. /\ position' = position /\ escrow' = escrow
        /\ backstop'.loss_acc = backstop.loss_acc
        /\ backstop'.total_drawn = backstop.total_drawn
    BY <1>4, PoolFacts DEF InitBackstopPool, SyncBackstopFirmaYield, BackstopType
  <2> QED
    BY <2>1, LossKept
<1>5. ASSUME NEW h \in Holders,
             (\E tier \in Tiers : RequestUnstakeBackstop(h, tier)) \/ ClaimBackstopPremium(h)
      PROVE  LossBooks' /\ Unbacked' <= Unbacked + Rounding
  <2>1. /\ backstop' = backstop /\ escrow' = escrow
        /\ \A i \in Holders : /\ position'[i].staked = position[i].staked
                              /\ position'[i].loss_debt = position[i].loss_debt
    BY <1>5, PoolFacts DEF RequestUnstakeBackstop, ClaimBackstopPremium, PositionType
  <2> QED
    BY <2>1, LossKept
<1> QED
  BY <1>1, <1>2, <1>3, <1>4, <1>5 DEF BackstopStep

LEMMA LossStep ==
    PayoutTypes /\ PayoutTypes' /\ EscrowIsStaked /\ LossBooks /\ [PayoutNext]_payoutVars
        => LossBooks' /\ Unbacked' <= Unbacked + Rounding
<1> SUFFICES ASSUME PayoutTypes, PayoutTypes', EscrowIsStaked, LossBooks, [PayoutNext]_payoutVars
             PROVE  LossBooks' /\ Unbacked' <= Unbacked + Rounding
  OBVIOUS
<1>0. PoolTypeOK /\ PoolTypeOK' /\ EntryTypeOK
  BY DEF PayoutTypes
<1>1. ASSUME UNCHANGED <<escrow, backstop, position>>
      PROVE  LossBooks' /\ Unbacked' <= Unbacked + Rounding
  BY <1>0, <1>1, LossKept
<1>2. CASE UNCHANGED payoutVars \/ Tick \/ (\E claim \in Claims : ClaimStep(claim)) \/ FirmStep
  BY <1>1, <1>2 DEF payoutVars, backstopVars, Tick, ClaimStep, FirmStep, SetVelocityBreak,
                    ClearVelocityBreakPermissionless, CurveFees, FinalizeBankruptcy
<1>3. CASE \E c \in Challenges : AdvanceStep(c)
  BY <1>1, <1>3 DEF AdvanceStep, AdvanceFirstPayout, ReconcilePayoutAdvance,
                    WriteOffFaultedAdvance, backstopVars
<1>4. ASSUME NEW e \in Entries, EntryStep(e)
      PROVE  LossBooks' /\ Unbacked' <= Unbacked + Rounding
  <2>1. ASSUME NEW asWithdrawal \in BOOLEAN, NEW amount \in Draws,
               DrawBackstop(e, asWithdrawal, amount)
        PROVE  LossBooks' /\ Unbacked' <= Unbacked + Rounding
    <3> DEFINE draw == Min({amount, Remaining(e), backstop.total_staked})
    <3>1. DrawnFromStakers(draw) /\ Outstanding(e)
      BY <2>1 DEF DrawBackstop
    <3>2. amount \in Nat /\ Remaining(e) \in Nat /\ backstop.total_staked \in Nat
      BY <1>0, <3>1, QueueInputs, EntryFacts, PoolFacts, SMT DEF Remaining, Outstanding
    <3>3. draw \in Nat
      BY <3>2, MinOfThree
    <3> HIDE DEF draw
    <3> QED
      BY <1>0, <3>1, <3>3, DrawLosses
  <2>2. ASSUME NEW asWithdrawal \in BOOLEAN, NEW sol \in Spends, NEW amount \in Draws,
               \/ ProcessQueuedPayout(e, asWithdrawal, sol, amount)
               \/ DrawUniversal(e, asWithdrawal, sol, amount)
        PROVE  LossBooks' /\ Unbacked' <= Unbacked + Rounding
    BY <1>1, <2>2 DEF ProcessQueuedPayout, DrawUniversal, backstopVars
  <2>3. ASSUME NEW asWithdrawal \in BOOLEAN, NEW amount \in Draws,
               DrawTreasuryFirma(e, asWithdrawal, amount)
        PROVE  LossBooks' /\ Unbacked' <= Unbacked + Rounding
    BY <1>1, <2>3 DEF DrawTreasuryFirma, backstopVars
  <2>4. CASE \/ \E sol \in Spends : ExecutePayoutBuy(e, sol)
             \/ \E asWithdrawal \in BOOLEAN, owed \in Quotes, backing \in Backings :
                   EnqueuePayout(e, asWithdrawal, owed, backing)
             \/ \E backing \in Backings : ReconcilePayoutHold(e, backing)
    BY <1>1, <2>4 DEF ExecutePayoutBuy, EnqueuePayout, ReconcilePayoutHold, backstopVars
  <2>5. CASE CloseQueuedPayout(e) \/ ForceDischarge(e)
    BY <1>1, <2>5 DEF CloseQueuedPayout, ForceDischarge, backstopVars
  <2> QED
    BY <1>4, <2>1, <2>2, <2>3, <2>4, <2>5 DEF EntryStep
<1>5. ASSUME BackstopStep(firm.velocity_break)
      PROVE  LossBooks' /\ Unbacked' <= Unbacked + Rounding
  BY <1>0, <1>5, PoolStepLosses
<1> QED
  BY <1>2, <1>3, <1>4, <1>5 DEF PayoutNext

LEMMA LossStarts == PayoutInit => LossBooks
<1> SUFFICES ASSUME PayoutInit PROVE LossBooks
  OBVIOUS
<1>1. backstop.loss_acc = 0 /\ \A h \in Holders : position[h] = NoPosition
  BY DEF PayoutInit, BackstopInit
<1>2. Entitled(0, 0, 0) >= 0
  BY StakePoolAssumption, SMT DEF Entitled
<1> QED
  BY <1>1, <1>2 DEF LossBooks, NoPosition

(* What is staked is in the escrow; and no step leaves the stakers with    *)
(* more, over the escrow, than they had, but for the remainder of a draw   *)
(* or one unit of a withdrawal (draw_backstop, withdraw_backstop): nobody  *)
(* leaves ahead of a loss with tokens that the others lose.                *)
THEOREM StakersStayBacked == PayoutSpec => BackstopIsBacked
<1>1. PayoutTypes /\ [PayoutNext]_payoutVars => PayoutTypes'
  BY PayoutStepTypes
<1>2. PayoutTypes /\ EscrowIsStaked /\ LossBooks /\ [PayoutNext]_payoutVars
         => LossBooks' /\ [Unbacked' <= Unbacked + Rounding]_payoutVars
  BY <1>1, LossStep
<1>3. PayoutSpec => []LossBooks
  BY <1>2, LossStarts, PayoutIsTyped, EscrowHoldsTheStakes, PTL DEF PayoutSpec
<1> QED
  BY <1>2, <1>3, PayoutIsTyped, EscrowHoldsTheStakes, PTL DEF PayoutSpec, BackstopIsBacked
=============================================================================
