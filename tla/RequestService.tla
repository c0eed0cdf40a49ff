--------------------------- MODULE RequestService ---------------------------
(***************************************************************************)
(* What the request scheduler of the engine promises, without threads,     *)
(* locks or condition variables: at most Capacity requests wait, at most   *)
(* one is worked on per worker, they are started in the order they were    *)
(* admitted, each is completed exactly once, and after Close no request is *)
(* admitted and those that wait are completed without being started.       *)
(***************************************************************************)
EXTENDS Sequences, FiniteSets, Integers

CONSTANTS Requests, Capacity, Workers

VARIABLES waiting,    \* admitted and not started, oldest first
          active,     \* being worked on
          outcome,    \* "none", "refused" or "done"
          closed

vars == <<waiting, active, outcome, closed>>

Init ==
  /\ waiting = <<>>
  /\ active = {}
  /\ outcome = [r \in Requests |-> "none"]
  /\ closed = FALSE

Known(r) == r \in active \/ \E i \in 1 .. Len(waiting) : waiting[i] = r

Admit(r) ==
  /\ ~closed /\ Len(waiting) < Capacity
  /\ outcome[r] = "none" /\ ~Known(r)
  /\ waiting' = Append(waiting, r)
  /\ UNCHANGED <<active, outcome, closed>>

Refuse(r) ==
  /\ closed \/ Len(waiting) >= Capacity
  /\ outcome[r] = "none" /\ ~Known(r)
  /\ outcome' = [outcome EXCEPT ![r] = "refused"]
  /\ UNCHANGED <<waiting, active, closed>>

Start ==
  /\ waiting # <<>> /\ ~closed
  /\ Cardinality(active) < Workers
  /\ active' = active \cup {Head(waiting)}
  /\ waiting' = Tail(waiting)
  /\ UNCHANGED <<outcome, closed>>

Complete(r) ==
  /\ r \in active
  /\ active' = active \ {r}
  /\ outcome' = [outcome EXCEPT ![r] = "done"]
  /\ UNCHANGED <<waiting, closed>>

Close ==
  /\ ~closed /\ closed' = TRUE
  /\ UNCHANGED <<waiting, active, outcome>>

Withdraw ==
  /\ closed
  /\ outcome' = [r \in Requests |-> IF \E i \in 1 .. Len(waiting) : waiting[i] = r
                                    THEN "done" ELSE outcome[r]]
  /\ waiting' = <<>>
  /\ UNCHANGED <<active, closed>>

Next == \/ \E r \in Requests : Admit(r) \/ Refuse(r) \/ Complete(r)
        \/ Start \/ Close \/ Withdraw

Spec == Init /\ [][Next]_vars
=============================================================================
