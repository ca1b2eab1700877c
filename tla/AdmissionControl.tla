-------------------------- MODULE AdmissionControl --------------------------
(***************************************************************************)
(* What lane admission promises, without permits, queues, callers or       *)
(* connections: calls ask for a lane, at most Capacity of them are inside  *)
(* a lane at a time, any of them may leave or give up, and no call is let  *)
(* into a lane that is closed.                                             *)
(***************************************************************************)
EXTENDS Naturals, FiniteSets

CONSTANTS Calls, Lanes, Capacity

VARIABLES state, lane, closed

vars == <<state, lane, closed>>

Inside(l) == { c \in Calls : state[c] = "inside" /\ lane[c] = l }

Init ==
  /\ state = [c \in Calls |-> "outside"]
  /\ lane \in [Calls -> Lanes]
  /\ closed = {}

Ask(c, l) ==
  /\ state[c] = "outside"
  /\ state' = [state EXCEPT ![c] = "waiting"]
  /\ lane' = [lane EXCEPT ![c] = l]
  /\ UNCHANGED closed

(* A call may be let in as it asks or after it has waited. *)
Enter(c, l) ==
  /\ l \notin closed
  /\ state[c] = "outside" \/ (state[c] = "waiting" /\ lane[c] = l)
  /\ Cardinality(Inside(l)) < Capacity[l]
  /\ state' = [state EXCEPT ![c] = "inside"]
  /\ lane' = [lane EXCEPT ![c] = l]
  /\ UNCHANGED closed

GiveUp(c) ==
  /\ state[c] = "waiting"
  /\ state' = [state EXCEPT ![c] = "outside"]
  /\ UNCHANGED <<lane, closed>>

Leave(c) ==
  /\ state[c] = "inside"
  /\ state' = [state EXCEPT ![c] = "outside"]
  /\ UNCHANGED <<lane, closed>>

Close(l) ==
  /\ closed' = closed \union {l}
  /\ UNCHANGED <<state, lane>>

Next ==
  \/ \E c \in Calls, l \in Lanes : Ask(c, l) \/ Enter(c, l)
  \/ \E c \in Calls : GiveUp(c) \/ Leave(c)
  \/ \E l \in Lanes : Close(l)

Spec == Init /\ [][Next]_vars

=============================================================================
