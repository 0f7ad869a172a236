---------------------------- MODULE FirmAuthority ----------------------------
(***************************************************************************)
(* The part of the firm's account that decides who may settle its          *)
(* challenges: the live keeper key (risk_engine_authority), the outgoing   *)
(* key of a rotation, and the deadline until which the outgoing key is     *)
(* still honoured.                                                         *)
(***************************************************************************)
EXTENDS Batch

CONSTANTS
    Keys,           \* keys that may become the firm's keeper
    NoKey,          \* Pubkey::default()
    RotationGrace   \* AUTHORITY_ROTATION_GRACE

ASSUME FirmAuthorityAssumption == NoKey \notin Keys /\ RotationGrace \in Nat

VARIABLE keeper     \* risk_engine_authority and its rotation fields

KeeperType == [current: Keys, previous: Keys \cup {NoKey}, deadline: Nat]

KeeperInit ==
    \E k \in Keys : keeper = [current |-> k, previous |-> NoKey, deadline |-> 0]

(* A rotation that forgets to park the outgoing key.                       *)
RotatedWithoutGrace(k) == [current |-> k, previous |-> NoKey, deadline |-> now + RotationGrace]
Rotated(k) == [current |-> k, previous |-> keeper.current, deadline |-> now + RotationGrace]

(* set_risk_engine_authority, signed by the guardian.  A second rotation   *)
(* inside the grace overwrites the parked key.                             *)
SetRiskEngineAuthority(k) ==
    /\ keeper' = Rotated(k)
    /\ UNCHANGED batchVars

(* require_settlement_keeper_bound: the key frozen in a challenge is the   *)
(* live keeper, or the outgoing one while the grace lasts.                 *)
KeeperBound(authority) ==
    \/ authority = keeper.current
    \/ /\ now <= keeper.deadline
       /\ keeper.previous # NoKey
       /\ authority = keeper.previous
=============================================================================
