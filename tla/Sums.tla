-------------------------------- MODULE Sums --------------------------------
(***************************************************************************)
(* The sum of f[1] .. f[n], as a recursive function a proof can use.       *)
(***************************************************************************)
EXTENDS Integers

SumTo(f, n) == LET s[i \in 0..n] == IF i = 0 THEN 0 ELSE s[i - 1] + f[i] IN s[n]
=============================================================================
