--------------------------- MODULE MCHipPipeline ---------------------------
(* Instances of HipPipeline for TLC. *)
EXTENDS HipPipeline, TLC
CONSTANTS w1, w2, none
TwoWorkers == {w1, w2}
\* In p2p mode prompts of two tokens: two tokens at most are under way.
Prompts    == [m \in Mode |-> IF m = "p2p" THEN 2 ELSE 3]
\* In p2p mode a prompt of four.
P2pPrompt  == [m \in {"p2p"} |-> 4]
=============================================================================
