---------------------------- MODULE MCChunkRing ----------------------------
(* Prompts of four chunks of up to three pieces, and an ingest whose first *)
(* chunk is the resident row alone.                                        *)
EXTENDS ChunkRing
PlanSet == {<<1, 1, 1, 2, 2, 2, 3, 3, 3, 4, 4>>, <<1, 2, 2, 3, 3, 3, 4>>, <<2, 2, 3>>, <<>>}
=============================================================================
