-------------------------- MODULE MCRegionPipeline --------------------------
(* Instances of RegionPipeline for TLC. *)
EXTENDS RegionPipeline
NoStage  == {}
AllStages == Stage
=============================================================================
