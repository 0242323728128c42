----------------------------- MODULE LockService -----------------------------
(***************************************************************************)
(* What the process-wide lock promises, whatever it is built from: every   *)
(* request for an id is idle, waiting or the owner, an id has at most one  *)
(* owner, and an id that somebody waits for is never left without one.     *)
(* ProcessLocker is shown to implement this specification.                 *)
(***************************************************************************)
CONSTANTS Id,      \* the names that can be locked
          Lock,    \* the lock requests
          IdOf     \* the name each request is for, a function [Lock -> Id]

VARIABLE state

Rivals(l) == {m \in Lock : IdOf[m] = IdOf[l] /\ m # l}
Owned(i)  == \E l \in Lock : IdOf[l] = i /\ state[l] = "owner"

Init == state = [l \in Lock |-> "idle"]

Request(l) ==
  /\ state[l] = "idle"
  /\ state' = [state EXCEPT ![l] = IF Owned(IdOf[l]) THEN "waiting" ELSE "owner"]

GiveUp(l) ==
  /\ state[l] = "waiting"
  /\ state' = [state EXCEPT ![l] = "idle"]

(* The owner leaves and nobody waits. *)
Free(l) ==
  /\ state[l] = "owner"
  /\ \A m \in Rivals(l) : state[m] # "waiting"
  /\ state' = [state EXCEPT ![l] = "idle"]

(* The owner leaves and a waiting request owns the id in the same step. *)
HandOver(l, m) ==
  /\ state[l] = "owner"
  /\ m \in Rivals(l)
  /\ state[m] = "waiting"
  /\ state' = [state EXCEPT ![l] = "idle", ![m] = "owner"]

Next ==
  \E l \in Lock :
    \/ Request(l)
    \/ GiveUp(l)
    \/ Free(l)
    \/ \E m \in Lock : HandOver(l, m)

Spec == Init /\ [][Next]_state
=============================================================================
