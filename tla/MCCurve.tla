------------------------------- MODULE MCCurve -------------------------------
(***************************************************************************)
(* One curve, its amounts scaled so that a fee is visible on an amount of  *)
(* one digit and every rounding occurs.                                    *)
(***************************************************************************)
EXTENDS BondingCurve

MCSeeds == [virtual_sol : {2, 3}, firma_reserve : {5, 9}]
MCSupplies == {<<0, 2>>, <<4, 3>>, <<5, 1>>, <<9, 2>>}
=============================================================================
