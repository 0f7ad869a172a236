----------------------------- MODULE MarketCurve -----------------------------
(***************************************************************************)
(* The market on one challenge's outcome: collateral is split into equal   *)
(* PASS and FAIL shares, shares are swapped against the curve's own        *)
(* inventory, and redeemed when the keeper has settled or voided the       *)
(* market. The pool of MarketPool and outsiders fund the inventory; what   *)
(* the curve earns for the pool is swept into its yield.                   *)
(***************************************************************************)
EXTENDS MarketPool

CONSTANTS
    Trader,     \* the holder whose challenge the market is about
    Users,      \* the holders that use the market in the instance
    Seeds,      \* virtual seeds a keeper may open with, [Sides -> Nat]
    FeeRates,   \* fee rates a keeper may open with
    Trades,     \* amounts that may be split, merged, swapped or allocated
    MinOuts,    \* the least output a swapper accepts
    Gifts,      \* amounts anybody may send to a vault outright
    MaxFunded,  \* bound on what the pool, outsiders and donors put in
    MaxAcc      \* bound on the yield accumulator of the instance

Sides == {"Pass", "Fail"}
Other(side) == IF side = "Pass" THEN "Fail" ELSE "Pass"

ASSUME MarketCurveAssumption ==
    /\ Trader \in Holders /\ Users \subseteq Holders
    /\ Seeds \subseteq [Sides -> Nat]
    /\ FeeRates \subseteq [fee : Nat, firm : Nat, platform : Nat, pool : Nat]
    /\ Trades \subseteq Nat /\ MinOuts \subseteq Nat /\ Gifts \subseteq Nat /\ MaxFunded \in Nat /\ MaxAcc \in Nat

VARIABLES
    curve,      \* MarketCurve ["pm_curve", challenge]
    inventory,  \* its own MarketPosition, held by the curve's address
    shares,     \* MarketPosition ["pm_position", curve, holder]
    collateral, \* tokens in ["pm_curve_collateral", challenge]
    spare       \* history: tokens in a vault that no book accounts for

curveVars == <<curve, inventory, shares, collateral, spare>>
marketVars == <<poolVars, curveVars>>

Statuses == {"None", "Stale", "Open", "Locked", "Settled", "Void"}

CurveType ==
    [status : Statuses, valued : BOOLEAN, outcome : Sides \cup {"None"},
     virtual : [Sides -> Nat], total : [Sides -> Nat],
     rates : [fee : Nat, firm : Nat, platform : Nat, pool : Nat],
     pool_allocated : Nat, topup_deposited : Nat,
     firm_fees : Nat, platform_fees : Nat, pool_fees : Nat]

Pair(n) == [side \in Sides |-> n]
Plus(pair, n) == [side \in Sides |-> pair[side] + n]
Less(pair, n) == [side \in Sides |-> SatSub(pair[side], n)]

NoCurve ==
    [status |-> "None", valued |-> FALSE, outcome |-> "None", virtual |-> Pair(0),
     total |-> Pair(0), rates |-> [fee |-> 0, firm |-> 0, platform |-> 0, pool |-> 0],
     pool_allocated |-> 0, topup_deposited |-> 0,
     firm_fees |-> 0, platform_fees |-> 0, pool_fees |-> 0]

(* An account of the design before this one may lie at the address, with   *)
(* or without value in it.                                                 *)
CurveInit ==
    /\ curve \in {NoCurve, [NoCurve EXCEPT !.status = "Stale"],
                  [NoCurve EXCEPT !.status = "Stale", !.valued = TRUE]}
    /\ inventory = Pair(0)
    /\ shares = [h \in Holders |-> Pair(0)]
    /\ collateral = 0
    /\ spare = [collateral |-> 0, escrow |-> 0]

Live == curve.status \in {"Open", "Locked"}

----------------------------------------------------------------------------
(* The curve's life, each step signed by the challenge's keeper.           *)

(* close_stale_market_curve: the old account, only if it holds no value.   *)
pm_old_curve_has_real_value == curve.valued
CloseStaleMarketCurve ==
    /\ curve.status = "Stale"
    /\ ~ pm_old_curve_has_real_value
    /\ curve' = NoCurve
    /\ UNCHANGED <<poolVars, inventory, shares, collateral, spare>>

InitMarketCurve(seed, rates) ==
    /\ curve.status = "None"
    /\ \A side \in Sides : seed[side] > 0
    /\ rates.firm + rates.platform + rates.pool = rates.fee
    /\ curve' = [NoCurve EXCEPT !.status = "Open", !.virtual = seed, !.rates = rates]
    /\ inventory' = Pair(0)
    /\ UNCHANGED <<poolVars, shares, collateral, spare>>

LockMarket ==
    /\ curve.status = "Open"
    /\ curve' = [curve EXCEPT !.status = "Locked"]
    /\ UNCHANGED <<poolVars, inventory, shares, collateral, spare>>

SettleMarket(outcome) ==
    /\ Live
    /\ curve' = [curve EXCEPT !.status = "Settled", !.outcome = outcome]
    /\ UNCHANGED <<poolVars, inventory, shares, collateral, spare>>

VoidMarket ==
    /\ Live
    /\ curve' = [curve EXCEPT !.status = "Void"]
    /\ UNCHANGED <<poolVars, inventory, shares, collateral, spare>>

----------------------------------------------------------------------------
(* Collateral in and out against pairs of shares.                          *)
Deposited(h, amount) ==
    /\ wallet[h] >= amount
    /\ wallet' = [wallet EXCEPT ![h] = @ - amount]
    /\ collateral' = collateral + amount
    /\ UNCHANGED <<lpPool, lp, escrow, yieldVault, now, roundings>>

SplitCollateral(h, amount) ==
    /\ amount > 0
    /\ curve.status = "Open"
    /\ Deposited(h, amount)
    /\ curve' = [curve EXCEPT !.total = Plus(@, amount)]
    /\ shares' = [shares EXCEPT ![h] = Plus(@, amount)]
    /\ UNCHANGED <<inventory, spare>>

MergePaid(h, amount) ==
    /\ collateral >= amount
    /\ collateral' = collateral - amount
    /\ wallet' = [wallet EXCEPT ![h] = @ + amount]
    /\ UNCHANGED <<lpPool, lp, escrow, yieldVault, now, roundings>>

EitherSideHeld(h, amount) == \E side \in Sides : shares[h][side] >= amount
PairsHeld(h, amount) == \A side \in Sides : shares[h][side] >= amount

MergeShares(h, amount) ==
    /\ amount > 0
    /\ Live
    /\ PairsHeld(h, amount)
    /\ MergePaid(h, amount)
    /\ curve' = [curve EXCEPT !.total = Less(@, amount)]
    /\ shares' = [shares EXCEPT ![h] = Less(@, amount)]
    /\ UNCHANGED <<inventory, spare>>

----------------------------------------------------------------------------
(* Swaps: one side for the other against the inventory, which counts       *)
(* together with its virtual seed as the reserve. The fee is a pair of     *)
(* shares of the inventory, merged on the spot.                            *)
fee_amount(amount, bps) == (amount * bps) \div 10000
buy_output(x, y, net_in) == y - ((x * y + x + net_in - 1) \div (x + net_in))

FirmCut(fee) == IF curve.rates.fee = 0 THEN 0 ELSE (fee * curve.rates.firm) \div curve.rates.fee
PlatformCut(fee) ==
    IF curve.rates.fee = 0 THEN 0 ELSE (fee * curve.rates.platform) \div curve.rates.fee
PoolCut(fee) == fee - FirmCut(fee) - PlatformCut(fee)

(* The inventory keeps what the swap leaves of each side and the fee.      *)
CoversNet(from, to, amount, net, fee) == net <= inventory[to]
InventoryCovers(from, to, amount, net, fee) ==
    /\ net <= inventory[to]
    /\ inventory[from] + amount >= fee
    /\ inventory[to] - net >= fee

AnySwapper(h) == h \in Holders
MaySwap(h) == h # Trader

SwapCurveShares(h, from, amount, minOut) ==
    LET to == Other(from)
        gross == buy_output(curve.virtual[from] + inventory[from],
                            curve.virtual[to] + inventory[to], amount)
        fee == fee_amount(gross, curve.rates.fee)
        net == SatSub(gross, fee)
    IN  /\ amount > 0
        /\ curve.status = "Open"
        /\ MaySwap(h)
        /\ shares[h][from] >= amount
        /\ gross > 0
        /\ net >= minOut
        /\ InventoryCovers(from, to, amount, net, fee)
        /\ inventory' = [inventory EXCEPT ![from] = @ + amount - fee, ![to] = @ - net - fee]
        /\ curve' = [curve EXCEPT !.firm_fees = @ + FirmCut(fee),
                                  !.platform_fees = @ + PlatformCut(fee),
                                  !.pool_fees = @ + PoolCut(fee),
                                  !.total = Less(@, fee)]
        /\ shares' = [shares EXCEPT ![h][from] = @ - amount, ![h][to] = @ + net]
        /\ UNCHANGED <<poolVars, collateral, spare>>

----------------------------------------------------------------------------
(* The inventory is funded by outsiders for good, and by the pool, which   *)
(* may take the still matched part of its own back.                        *)
TopUpDeposited(h, amount) == Deposited(h, amount)

AddCurveTopup(h, amount) ==
    /\ h # Trader
    /\ amount > 0
    /\ curve.status = "Open"
    /\ curve.topup_deposited + amount <= MaxFunded
    /\ TopUpDeposited(h, amount)
    /\ curve' = [curve EXCEPT !.total = Plus(@, amount), !.topup_deposited = @ + amount]
    /\ inventory' = Plus(inventory, amount)
    /\ UNCHANGED <<shares, spare>>

(* Nothing but the escrow limits what the keeper may allocate: the pool's  *)
(* allocation_cap_bps is read by no instruction.                           *)
Disbursed(amount) ==
    /\ escrow >= amount
    /\ lpPool.total_drawn + amount <= MaxFunded
    /\ escrow' = escrow - amount
    /\ collateral' = collateral + amount
    /\ lpPool' = [lpPool EXCEPT !.total_drawn = @ + amount]
    /\ UNCHANGED <<lp, yieldVault, wallet, now, roundings>>

AllocatePoolToCurve(amount) ==
    /\ lpPool.exists
    /\ amount > 0
    /\ curve.status = "Open"
    /\ Disbursed(amount)
    /\ curve' = [curve EXCEPT !.total = Plus(@, amount), !.pool_allocated = @ + amount]
    /\ inventory' = Plus(inventory, amount)
    /\ UNCHANGED <<shares, spare>>

UncountedReturn(amount, counted) ==
    /\ collateral >= amount
    /\ collateral' = collateral - amount
    /\ escrow' = escrow + amount
    /\ UNCHANGED <<lpPool, lp, yieldVault, wallet, now, roundings>>
Returned(amount, counted) ==
    /\ collateral >= amount
    /\ collateral' = collateral - amount
    /\ escrow' = escrow + amount
    /\ lpPool' = [lpPool EXCEPT !.total_returned = @ + counted]
    /\ UNCHANGED <<lp, yieldVault, wallet, now, roundings>>

DeallocatePoolFromCurve(amount) ==
    /\ curve.status \notin {"None", "Stale"}
    /\ amount > 0
    /\ amount <= curve.pool_allocated
    /\ \A side \in Sides : amount <= inventory[side]
    /\ Returned(amount, amount)
    /\ curve' = [curve EXCEPT !.total = Less(@, amount), !.pool_allocated = SatSub(@, amount)]
    /\ inventory' = Less(inventory, amount)
    /\ UNCHANGED <<shares, spare>>

(* The curve's fees for the pool become its yield: a permissionless crank. *)
SweptToYield(amount) ==
    /\ collateral' = collateral - amount
    /\ yieldVault' = yieldVault + amount
    /\ lpPool' = [lpPool EXCEPT
          !.yield_acc = FoldedAcc(@, lpPool.unallocated_yield, amount, lpPool.total_yield_weight),
          !.unallocated_yield = FoldedRest(@, amount, lpPool.total_yield_weight)]
    /\ lpPool'.yield_acc <= MaxAcc
    /\ UNCHANGED <<lp, escrow, wallet, now, roundings>>

SweepCurveFeesToPool ==
    LET amount == Min({curve.pool_fees, collateral})
    IN  /\ lpPool.exists
        /\ curve.pool_fees > 0
        /\ SweptToYield(amount)
        /\ curve' = [curve EXCEPT !.pool_fees = SatSub(@, amount)]
        /\ UNCHANGED <<inventory, shares, spare>>

----------------------------------------------------------------------------
(* Redemption: anybody calls it, the holder's own account is paid.         *)
Redeemed(pair) == [side \in Sides |-> SatSub(curve.total[side], pair[side])]

RedemptionPaid(h, amount) ==
    /\ collateral' = collateral - Min({amount, collateral})
    /\ wallet' = [wallet EXCEPT ![h] = @ + Min({amount, collateral})]
    /\ UNCHANGED <<lpPool, lp, escrow, yieldVault, now, roundings>>

RedeemShares(h) ==
    /\ curve.status = "Settled"
    /\ shares[h][curve.outcome] > 0
    /\ RedemptionPaid(h, shares[h][curve.outcome])
    /\ curve' = [curve EXCEPT !.total = Redeemed(shares[h])]
    /\ shares' = [shares EXCEPT ![h] = Pair(0)]
    /\ UNCHANGED <<inventory, spare>>

(* Nothing keeps the caller from naming the curve itself as the holder:    *)
(* its inventory is then paid into an account the curve owns, the          *)
(* collateral vault or any other, from where no instruction takes it.      *)
InventoryLeft(amount, toVault) ==
    IF toVault
    THEN spare' = [spare EXCEPT !.collateral = @ + amount] /\ UNCHANGED collateral
    ELSE collateral' = collateral - amount /\ UNCHANGED spare

RedeemInventory(toVault) ==
    /\ curve.status = "Settled"
    /\ inventory[curve.outcome] > 0
    /\ InventoryLeft(Min({inventory[curve.outcome], collateral}), toVault)
    /\ curve' = [curve EXCEPT !.total = Redeemed(inventory)]
    /\ inventory' = Pair(0)
    /\ UNCHANGED <<poolVars, shares>>

(* Without a winner every position is worth half of its shares.            *)
pm_void_redeem_payout(pair) == (pair["Pass"] + pair["Fail"]) \div 2

VoidPaid(h, amount) == RedemptionPaid(h, amount)

RedeemVoidShares(h) ==
    /\ curve.status = "Void"
    /\ pm_void_redeem_payout(shares[h]) > 0
    /\ VoidPaid(h, pm_void_redeem_payout(shares[h]))
    /\ curve' = [curve EXCEPT !.total = Redeemed(shares[h])]
    /\ shares' = [shares EXCEPT ![h] = Pair(0)]
    /\ UNCHANGED <<inventory, spare>>

(* The inventory's half goes back to the pool's escrow.                    *)
RedeemVoidCurveInventory ==
    LET payout == pm_void_redeem_payout(inventory)
    IN  /\ lpPool.exists
        /\ curve.status = "Void"
        /\ payout > 0
        /\ Returned(Min({payout, collateral}), payout)
        /\ curve' = [curve EXCEPT !.total = Redeemed(inventory), !.pool_allocated = 0]
        /\ inventory' = Pair(0)
        /\ UNCHANGED <<shares, spare>>

(* A token account takes transfers from anybody.                           *)
Gift(h, amount, vault) ==
    /\ curve.status \notin {"None", "Stale"} /\ lpPool.exists
    /\ wallet[h] >= amount
    /\ spare.collateral + spare.escrow + amount <= MaxFunded
    /\ wallet' = [wallet EXCEPT ![h] = @ - amount]
    /\ spare' = [spare EXCEPT ![vault] = @ + amount]
    /\ \/ vault = "collateral" /\ collateral' = collateral + amount /\ UNCHANGED escrow
       \/ vault = "escrow" /\ escrow' = escrow + amount /\ UNCHANGED collateral
    /\ UNCHANGED <<lpPool, lp, yieldVault, now, roundings, curve, inventory, shares>>

----------------------------------------------------------------------------
MarketInit == PoolInit /\ CurveInit

KeeperStep ==
    \/ CloseStaleMarketCurve
    \/ \E seed \in Seeds, rates \in FeeRates : InitMarketCurve(seed, rates)
    \/ LockMarket
    \/ \E outcome \in Sides : SettleMarket(outcome)
    \/ VoidMarket
    \/ \E amount \in Trades : AllocatePoolToCurve(amount) \/ DeallocatePoolFromCurve(amount)

HolderStep(h) ==
    \/ \E amount \in Trades :
          SplitCollateral(h, amount) \/ MergeShares(h, amount) \/ AddCurveTopup(h, amount)
    \/ \E from \in Sides, amount \in Trades, minOut \in MinOuts :
          SwapCurveShares(h, from, amount, minOut)
    \/ RedeemShares(h)
    \/ RedeemVoidShares(h)
    \/ \E amount \in Gifts, vault \in {"collateral", "escrow"} : Gift(h, amount, vault)

CrankStep ==
    \/ SweepCurveFeesToPool
    \/ \E toVault \in BOOLEAN : RedeemInventory(toVault)
    \/ RedeemVoidCurveInventory

MarketNext ==
    \/ LpStep /\ UNCHANGED curveVars
    \/ KeeperStep
    \/ \E h \in Users : HolderStep(h)
    \/ CrankStep

MarketSpec == MarketInit /\ [][MarketNext]_marketVars

----------------------------------------------------------------------------
Fees == curve.firm_fees + curve.platform_fees + curve.pool_fees
HeldOutside(side) == SumTo([h \in Holders |-> shares[h][side]], N)

(* Every account of the pool and of the curve has its type: no balance and *)
(* no book goes below zero.                                                *)
MarketTypeOK ==
    /\ lpPool \in LpPoolType
    /\ lp \in [Holders -> LpPositionType]
    /\ escrow \in Nat /\ yieldVault \in Nat /\ collateral \in Nat
    /\ wallet \in [Holders -> Nat]
    /\ curve \in CurveType
    /\ inventory \in [Sides -> Nat]
    /\ shares \in [Holders -> [Sides -> Nat]]
    /\ spare \in [collateral : Nat, escrow : Nat]

(* The curve's totals are the shares everybody holds, the inventory's too. *)
TotalsAreHeld == \A side \in Sides : curve.total[side] = HeldOutside(side) + inventory[side]

(* What redeem_shares rests on, "no haircut": as long as pairs can be      *)
(* merged the collateral is one token per pair and the fees; once settled, *)
(* one per winning share; once void, at least half a token per share.      *)
MarketIsSolvent ==
    /\ TotalsAreHeld
    /\ Live => \A side \in Sides : collateral = curve.total[side] + Fees + spare.collateral
    /\ curve.status = "Settled" =>
          collateral = curve.total[curve.outcome] + Fees + spare.collateral
    /\ curve.status = "Void" =>
          2 * collateral >= curve.total["Pass"] + curve.total["Fail"]
                              + 2 * (Fees + spare.collateral)

(* "Harmless even for the market's own trader": whatever the trader does,  *)
(* and whatever anybody does to his position, it never leans to a side.    *)
TraderStaysNeutral == shares[Trader]["Pass"] = shares[Trader]["Fail"]

(* The pool's books explain its escrow to the token: what is staked, less  *)
(* what is out in curves, over any number of curves' losses and gains.     *)
PoolEscrowIsAccounted ==
    escrow + lpPool.total_drawn = lpPool.total_staked + lpPool.total_returned + spare.escrow

(* The yield promised to all the stakers lies in the yield vault, but for  *)
(* less than one unit each time a debt was rounded down (stake_pm_lp and   *)
(* the rest of a partial withdrawal both round in the staker's favour).    *)
YieldIsBacked ==
    SumTo([h \in Holders |-> Pending(lp[h].staked, lpPool.yield_acc, lp[h].yield_debt)], N)
        + lpPool.unallocated_yield <= yieldVault + SatSub(roundings, 1)
=============================================================================
