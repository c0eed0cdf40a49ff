----------------------------- MODULE MCRowState -----------------------------
(* Instances of RowState for TLC. *)
EXTENDS RowState
PromptSet    == {<<1>>, <<2, 1, 1, 2, 1, 1>>}
InjectionSet == {<<1>>, <<2, 1, 1, 2>>}
=============================================================================
