--------------------------- MODULE MCExpertCache ---------------------------
(* Two or three slots for four experts, of which a token takes two, and a *)
(* slot for each of them.                                                 *)
EXTENDS ExpertCache
MCSlots == {2, 3, 4}
=============================================================================
