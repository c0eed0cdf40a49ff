---------------------------- MODULE ChunkService ----------------------------
(***************************************************************************)
(* What the AMD region server promises of its pipelined prefill, without   *)
(* stages, threads or events: chunks are taken one at a time, at most      *)
(* Slots of them are outstanding, they are retired oldest first and each   *)
(* exactly once, and an operation that needs the four cards for itself     *)
(* (reset, fork, commit, decode) runs only while none is outstanding.      *)
(***************************************************************************)
EXTENDS Integers

CONSTANT Slots      \* chunks that may be outstanding at once

VARIABLES taken,      \* chunks taken so far
          retired,    \* chunks retired so far
          exclusive   \* an exclusive operation is running

vars == <<taken, retired, exclusive>>

TypeOK ==
  /\ taken \in Nat
  /\ retired \in Nat
  /\ exclusive \in BOOLEAN

Init ==
  /\ taken = 0
  /\ retired = 0
  /\ exclusive = FALSE

Take ==
  /\ ~exclusive
  /\ taken - retired < Slots
  /\ taken' = taken + 1
  /\ UNCHANGED <<retired, exclusive>>

Retire ==
  /\ ~exclusive
  /\ retired < taken
  /\ retired' = retired + 1
  /\ UNCHANGED <<taken, exclusive>>

BeginExclusive ==
  /\ ~exclusive
  /\ retired = taken
  /\ exclusive' = TRUE
  /\ UNCHANGED <<taken, retired>>

EndExclusive ==
  /\ exclusive
  /\ exclusive' = FALSE
  /\ UNCHANGED <<taken, retired>>

Next == Take \/ Retire \/ BeginExclusive \/ EndExclusive

Spec == Init /\ [][Next]_vars
=============================================================================
