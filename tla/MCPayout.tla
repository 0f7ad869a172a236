------------------------------ MODULE MCPayout ------------------------------
(***************************************************************************)
(* Two challenges of one firm, and where its payouts may start from: two   *)
(* settlements that can be advanced; a settlement and a withdrawal of the  *)
(* same challenge, which share an entry; a withdrawal only the backstop    *)
(* pool can pay; and a pool with premium and yield to share out.           *)
(***************************************************************************)
EXTENDS PayoutSystem

CONSTANTS c1, c2

MCClaims == {<<c1, Settlement>>, <<c1, 0>>, <<c2, Settlement>>}
MCSolOwed == [claim \in MCClaims |-> 4]

MCStart(claims, wallets, sol, tokens, pool, gifts) ==
    [claims |-> claims, wallet |-> wallets, treasury |-> sol, reserve |-> tokens,
     insurance |-> 1, universal |-> pool, funds |-> gifts, reward |-> gifts]

MCStarts ==
    {MCStart({<<c1, Settlement>>, <<c2, Settlement>>}, <<0, 0>>, 3, 0, 2, 0),
     MCStart({<<c1, Settlement>>, <<c1, 0>>}, <<0, 0>>, 2, 1, 2, 0),
     MCStart({<<c1, 0>>}, <<2, 1>>, 0, 0, 0, 0),
     MCStart({}, <<2, 1>>, 4, 0, 2, 1)}

MCCooldown == [t \in 0..3 |-> 1]
=============================================================================
