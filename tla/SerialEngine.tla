---------------------------- MODULE SerialEngine ----------------------------
(***************************************************************************)
(* What the four-card engine promises the HTTP workers, without cards,     *)
(* threads or mailboxes: one request at a time has the engine; it shows    *)
(* the engine its tokens in order of position, and whenever it waits it    *)
(* gets the logits of the position it showed last, computed from exactly   *)
(* the tokens it has shown.  An engine that broke stays broken and answers *)
(* nobody.                                                                 *)
(***************************************************************************)
EXTENDS Integers

CONSTANTS Workers, Nobody, NoLogits

VARIABLES owner,      \* the worker that has the engine, or Nobody
          request,    \* number of the request it serves
          shown,      \* positions shown to the engine in this request
          logits,     \* what the owner's logits buffer holds: <<request, position>>
          broken

vars == <<owner, request, shown, logits, broken>>

Init == /\ owner = Nobody /\ request = 0 /\ shown = 0
        /\ logits = NoLogits /\ broken = FALSE

Take(w) == /\ owner = Nobody
           /\ owner' = w /\ request' = request + 1
           /\ shown' = 0 /\ logits' = NoLogits
           /\ UNCHANGED broken

Show == /\ owner # Nobody
        /\ shown' = shown + 1
        /\ UNCHANGED <<owner, request, logits, broken>>

Answer == /\ owner # Nobody /\ shown > 0
          /\ ~broken
          /\ logits # <<request, shown - 1>>
          /\ logits' = <<request, shown - 1>>
          /\ UNCHANGED <<owner, request, shown, broken>>

Break == /\ ~broken /\ broken' = TRUE
         /\ UNCHANGED <<owner, request, shown, logits>>

\* With an answer to all it has shown, or because the engine broke.
Give == /\ owner # Nobody /\ owner' = Nobody
        /\ broken \/ (shown > 0 /\ logits = <<request, shown - 1>>)
        /\ shown' = 0 /\ logits' = NoLogits
        /\ UNCHANGED <<request, broken>>

Next == (\E w \in Workers : Take(w)) \/ Show \/ Answer \/ Break \/ Give

Spec == Init /\ [][Next]_vars
=============================================================================
