------------------------------ MODULE MCMarket ------------------------------
(***************************************************************************)
(* One market and the pool behind it, with amounts so small that every     *)
(* division rounds.                                                        *)
(***************************************************************************)
EXTENDS MarketCurve

MCWallets == <<2, 4, 1>>
MCCooldown == [t \in 0..3 |-> 1]
MCSeeds == {[side \in Sides |-> IF side = "Pass" THEN 1 ELSE n] : n \in {3, 6}}
MCFeeRates == {[fee |-> 9000, firm |-> 4500, platform |-> 3000, pool |-> 1500]}
=============================================================================
