------------------------------- MODULE Batch -------------------------------
(***************************************************************************)
(* The batch program for one firm: an append-only table of hourly evidence *)
(* roots, written by the authorised committer inside a bounded window.     *)
(*                                                                         *)
(* A root stands for what it commits to, not for its hash.  merkle_root    *)
(* and segment_root together commit to the number of fills of the hour     *)
(* and to the contiguous run (segment) of each challenge that traded in    *)
(* it, so a payload is [trade_count, segments].                            *)
(***************************************************************************)
EXTENDS Integers

CONSTANTS
    Committers,      \* keys that may be configured as the batch committer
    Epochs,          \* hourly epochs of the instance; never 0, which is 1970
    EpochLength,     \* SECONDS_PER_HOUR
    MaxCommitDelay,  \* MAX_COMMIT_DELAY
    MaxTime,         \* bound on the clock of the instance
    NoRoot           \* an epoch's PDA before its root is committed

ASSUME BatchAssumption ==
    /\ Epochs \subseteq Nat \ {0}
    /\ EpochLength \in Nat \ {0}
    /\ MaxCommitDelay \in Nat
    /\ MaxTime \in Nat

VARIABLES
    now,        \* Clock::get()?.unix_timestamp
    committer,  \* BatchConfig.committer
    batchRoot   \* BatchRoot PDA of each epoch

batchVars == <<now, committer, batchRoot>>

EpochStart(e) == e * EpochLength
EpochEnd(e) == EpochStart(e) + EpochLength

(* The clock constraint of a commit: not before the hour begins, and not   *)
(* later than MAX_COMMIT_DELAY after it closed.                            *)
CommitWindowIgnored(e) == now >= EpochStart(e)
CommitWindowOpen(e) ==
    /\ now >= EpochStart(e)
    /\ now <= EpochEnd(e) + MaxCommitDelay

(* `init` on ["batch", firm, epoch]: the PDA must not exist yet.           *)
RootAbsent(e) == batchRoot[e] = NoRoot

BatchInit ==
    /\ now = 0
    /\ committer \in Committers
    /\ batchRoot = [e \in Epochs |-> NoRoot]

(* set_batch_committer: the admin rotates the committer.                   *)
SetBatchCommitter(k) ==
    /\ committer' = k
    /\ UNCHANGED <<now, batchRoot>>

(* commit_batch_root, signed by `signer`; trade_count is a u32 argument.   *)
CommitBatchRoot(signer, e, payload) ==
    /\ signer = committer
    /\ payload.trade_count \in Nat
    /\ CommitWindowOpen(e)
    /\ RootAbsent(e)
    /\ batchRoot' = [batchRoot EXCEPT ![e] =
                        [committed_at |-> now, trade_count |-> payload.trade_count,
                         segments |-> payload.segments]]
    /\ UNCHANGED <<now, committer>>

(* The cluster clock moves between instructions.                           *)
Tick ==
    /\ now < MaxTime
    /\ now' = now + 1
    /\ UNCHANGED <<committer, batchRoot>>

----------------------------------------------------------------------------
(* Evidence is append-only and timely: once an hour's commit window has    *)
(* elapsed its evidence is settled for ever - a root that is there never   *)
(* changes, and an hour without one never gets one, so no later actor can  *)
(* write the evidence it is about to rely on (commit_batch_root's `init`   *)
(* and MAX_COMMIT_DELAY).                                                  *)
EvidenceSettles ==
    [][\A e \in Epochs :
          (batchRoot[e] # NoRoot \/ now > EpochEnd(e) + MaxCommitDelay)
              => batchRoot'[e] = batchRoot[e]]_batchVars
=============================================================================
