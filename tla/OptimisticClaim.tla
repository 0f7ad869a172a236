--------------------------- MODULE OptimisticClaim ---------------------------
(***************************************************************************)
(* What an optimistic settlement promises, whatever is settled and however *)
(* a fault is proven: a claim stands for a window that its proposal fixes, *)
(* it can be refuted in that window and no later, it is upheld after that  *)
(* window and no earlier, and a verdict is final.  A slot whose claim has  *)
(* been decided may be given back, if it is one of Reusable.               *)
(***************************************************************************)
EXTENDS Integers

CONSTANTS Slots, Reusable
VARIABLES now, phase, deadline

claimVars == <<now, phase, deadline>>

Init ==
    /\ now = 0
    /\ phase = [s \in Slots |-> "None"]
    /\ deadline = [s \in Slots |-> 0]

Advance == now' = now + 1 /\ UNCHANGED <<phase, deadline>>

Propose(s) ==
    /\ phase[s] = "None"
    /\ phase' = [phase EXCEPT ![s] = "Pending"]
    /\ deadline'[s] > now
    /\ deadline' = [deadline EXCEPT ![s] = deadline'[s]]
    /\ UNCHANGED now

Refute(s) ==
    /\ phase[s] = "Pending" /\ now <= deadline[s]
    /\ phase' = [phase EXCEPT ![s] = "Refuted"]
    /\ UNCHANGED <<now, deadline>>

Uphold(s) ==
    /\ phase[s] = "Pending" /\ now > deadline[s]
    /\ phase' = [phase EXCEPT ![s] = "Upheld"]
    /\ UNCHANGED <<now, deadline>>

GiveBack(s) ==
    /\ s \in Reusable /\ phase[s] \in {"Upheld", "Refuted"}
    /\ phase' = [phase EXCEPT ![s] = "None"]
    /\ deadline' = [deadline EXCEPT ![s] = 0]
    /\ UNCHANGED now

Next == Advance \/ \E s \in Slots : Propose(s) \/ Refute(s) \/ Uphold(s) \/ GiveBack(s)

Spec == Init /\ [][Next]_claimVars
=============================================================================
