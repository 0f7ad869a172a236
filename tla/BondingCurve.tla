---------------------------- MODULE BondingCurve ----------------------------
(***************************************************************************)
(* The bonding curve of one firm: a constant-product market between SOL    *)
(* and the firm's token, with a virtual SOL seed nobody deposited. The     *)
(* account keeps books (real_sol, firma_reserve); the tokens themselves    *)
(* lie in two vaults the books must agree with.                            *)
(***************************************************************************)
EXTENDS Integers

CONSTANTS
    FeeBps,         \* DEFAULT_FEE_BPS
    MinThreshold,   \* MIN_GRADUATION_THRESHOLD_LAMPORTS
    MaxAmount,      \* the largest u64
    Graduation,     \* GRADUATION_ENABLED, a build feature
    Seeds,          \* virtual_sol and firma_reserve a deployer may ask for
    Thresholds,     \* graduation_threshold a deployer may ask for
    Supplies,       \* <<curve_amount, the rest>> an owner may mint
    Trades,         \* amounts an instruction may move
    MinOuts         \* the least output a trader accepts

ASSUME CurveAssumption ==
    /\ FeeBps \in 0 .. 10000
    /\ MinThreshold \in Nat /\ MaxAmount \in Nat
    /\ Graduation \in BOOLEAN
    /\ Seeds \subseteq [virtual_sol : Nat, firma_reserve : Nat]
    /\ Thresholds \subseteq Nat
    /\ Supplies \subseteq Nat \X Nat
    /\ Trades \subseteq Nat /\ MinOuts \subseteq Nat

VARIABLES
    curve,        \* BondingCurve ["bonding_curve", firm]
    solVault,     \* tokens in ["curve_sol", firm]
    firmaVault,   \* tokens in ["curve_firma", firm]
    outside,      \* tokens of the firm anywhere else
    launch,       \* FirmState.supply_distributed, and what went to the curve
    planned       \* history: the firma_reserve the curve was created with

curveVars == <<curve, solVault, firmaVault, outside, launch, planned>>

CurveType ==
    [exists : BOOLEAN, virtual_sol : Nat, real_sol : Nat, firma_reserve : Nat,
     graduation_threshold : Nat, graduated : BOOLEAN, trading_live : BOOLEAN]

CurveInit ==
    /\ curve = [exists |-> FALSE, virtual_sol |-> 0, real_sol |-> 0, firma_reserve |-> 0,
                graduation_threshold |-> 0, graduated |-> FALSE, trading_live |-> FALSE]
    /\ solVault = 0 /\ firmaVault = 0 /\ outside = 0
    /\ launch = [distributed |-> FALSE, to_curve |-> 0]
    /\ planned = 0

----------------------------------------------------------------------------
(* Quotes. What the pool keeps is rounded up, so what it pays rounds down. *)
FloorDiv(a, b) == a \div b
CeilDiv(a, b) == (a + b - 1) \div b

effective_sol == curve.real_sol + curve.virtual_sol
fee_amount(amount) == (amount * FeeBps) \div 10000
buy_output(x, y, net_in) == y - CeilDiv(x * y, x + net_in)
sell_output(x, y, firma_in) == x - CeilDiv(x * y, y + firma_in)

(* The accounts a fee or a payment goes to are the caller's choice, and    *)
(* nothing keeps the caller from naming the curve's own vault: each part   *)
(* may come back. split_fee halves the fee, the firm takes the odd unit.   *)
Returned(parts) == {0} \cup parts
FeeParts(fee) == {fee \div 2, fee - fee \div 2, fee}

NotGraduated == curve.exists /\ ~ curve.graduated

----------------------------------------------------------------------------
InitializeCurve(seed, threshold) ==
    /\ ~ curve.exists
    /\ seed.virtual_sol > 0 /\ seed.firma_reserve > 0
    /\ threshold >= MinThreshold
    /\ curve' = [exists |-> TRUE, virtual_sol |-> seed.virtual_sol, real_sol |-> 0,
                 firma_reserve |-> seed.firma_reserve, graduation_threshold |-> threshold,
                 graduated |-> FALSE, trading_live |-> FALSE]
    /\ planned' = seed.firma_reserve
    /\ UNCHANGED <<solVault, firmaVault, outside, launch>>

(* firm.distribute_supply: once, and the caller chooses the amounts.       *)
DistributeSupply(curve_amount, others) ==
    /\ ~ launch.distributed
    /\ curve_amount > 0 => curve.exists
    /\ launch' = [distributed |-> TRUE, to_curve |-> curve_amount]
    /\ firmaVault' = firmaVault + curve_amount
    /\ outside' = outside + others
    /\ UNCHANGED <<curve, solVault, planned>>

(* firm.finalize_token_launch and open_trading under it.                   *)
OpenTrading ==
    /\ curve.exists /\ launch.distributed
    /\ ~ curve.trading_live
    /\ curve' = [curve EXCEPT !.trading_live = TRUE]
    /\ UNCHANGED <<solVault, firmaVault, outside, launch, planned>>

NetOf(sol_in) == sol_in - fee_amount(sol_in)
CreditedWithFee(sol_in) == sol_in
Credited(sol_in) == NetOf(sol_in)
Buy(sol_in, min_firma_out) ==
    LET net == NetOf(sol_in)
        firma_out == buy_output(effective_sol, curve.firma_reserve, net)
    IN  /\ NotGraduated /\ curve.trading_live
        /\ firma_out >= min_firma_out
        /\ firma_out <= firmaVault
        /\ curve.real_sol + net <= MaxAmount
        /\ curve' = [curve EXCEPT !.real_sol = @ + Credited(sol_in), !.firma_reserve = @ - firma_out]
        /\ \E back \in Returned(FeeParts(sol_in - net)) : solVault' = solVault + net + back
        /\ solVault' <= MaxAmount
        /\ \E kept \in Returned({firma_out}) :
              /\ firmaVault' = firmaVault - firma_out + kept
              /\ outside' = outside + firma_out - kept
        /\ UNCHANGED <<launch, planned>>

AlwaysDrawable(gross) == TRUE
Drawable(gross) == gross <= curve.real_sol
Sell(firma_in, min_sol_out) ==
    LET gross == sell_output(effective_sol, curve.firma_reserve, firma_in)
        fee == fee_amount(gross)
    IN  /\ NotGraduated
        /\ Drawable(gross)
        /\ gross - fee >= min_sol_out
        /\ firma_in <= outside
        /\ gross <= solVault
        /\ curve.firma_reserve + firma_in <= MaxAmount
        /\ curve' = [curve EXCEPT !.real_sol = @ - gross, !.firma_reserve = @ + firma_in]
        /\ \E back \in Returned(FeeParts(fee)), paid \in Returned({gross - fee}) :
              solVault' = solVault - gross + back + paid
        /\ firmaVault' = firmaVault + firma_in
        /\ outside' = outside - firma_in
        /\ UNCHANGED <<launch, planned>>

AddCurveReserve(amount) ==
    /\ NotGraduated
    /\ curve.real_sol + amount <= MaxAmount
    /\ curve' = [curve EXCEPT !.real_sol = @ + amount]
    /\ solVault' = solVault + amount
    /\ solVault' <= MaxAmount
    /\ UNCHANGED <<firmaVault, outside, launch, planned>>

(* Everything in the vaults moves to the exchange's pool, the books are    *)
(* closed. The pool's own creation is external and may fail.               *)
ThresholdMet == curve.real_sol >= curve.graduation_threshold
Graduate ==
    /\ Graduation
    /\ NotGraduated /\ ThresholdMet
    /\ curve' = [curve EXCEPT !.graduated = TRUE, !.real_sol = 0, !.firma_reserve = 0]
    /\ solVault' = 0
    /\ firmaVault' = 0
    /\ outside' = outside + firmaVault
    /\ UNCHANGED <<launch, planned>>

(* Tokens sent to a vault past the program.                                *)
SendToVault(sol, firma) ==
    /\ curve.exists
    /\ firma <= outside
    /\ solVault' = solVault + sol
    /\ solVault' <= MaxAmount
    /\ firmaVault' = firmaVault + firma
    /\ outside' = outside - firma
    /\ UNCHANGED <<curve, launch, planned>>

CurveNext ==
    \/ \E seed \in Seeds, threshold \in Thresholds : InitializeCurve(seed, threshold)
    \/ \E supply \in Supplies : DistributeSupply(supply[1], supply[2])
    \/ OpenTrading
    \/ \E amount \in Trades :
          \/ \E least \in MinOuts : Buy(amount, least) \/ Sell(amount, least)
          \/ AddCurveReserve(amount)
          \/ SendToVault(amount, 0)
          \/ SendToVault(0, amount)
    \/ Graduate

CurveSpec == CurveInit /\ [][CurveNext]_curveVars

----------------------------------------------------------------------------
(* Types of the curve account, the vaults and the launch flag.             *)
CurveTypeOK ==
    /\ curve \in CurveType
    /\ solVault \in Nat /\ firmaVault \in Nat /\ outside \in Nat
    /\ launch \in [distributed : BOOLEAN, to_curve : Nat]
    /\ planned \in Nat

(* The books never promise more than the vaults hold, whatever accounts    *)
(* traders name for fees and proceeds and whatever the owner minted: every *)
(* SOL a sale may draw is in its vault, and of the tokens the curve quotes *)
(* none is missing but those the owner did not mint into it.               *)
CurveIsSolvent ==
    NotGraduated =>
        /\ solVault >= curve.real_sol
        /\ firmaVault + planned >= curve.firma_reserve + launch.to_curve

(* Whoever holds what the curve has sold can sell it all back: the gross   *)
(* proceeds fit in real_sol, so the virtual seed, which nobody deposited,  *)
(* is never what an exit depends on, after any sequence of purchases,      *)
(* sales and additions to the reserve.                                     *)
HoldersCanExit ==
    NotGraduated /\ curve.firma_reserve <= planned =>
        sell_output(effective_sol, curve.firma_reserve, planned - curve.firma_reserve)
            <= curve.real_sol

(* No trade lowers the constant product: rounding always favours the pool. *)
Product == effective_sol * curve.firma_reserve
ProductNeverFalls ==
    [][NotGraduated /\ ~ curve'.graduated => Product' >= Product]_curveVars
=============================================================================
