--------------------------- MODULE MCOrchestrator ---------------------------
(***************************************************************************)
(* Instances of Orchestrator for TLC: the trees.                           *)
(***************************************************************************)
EXTENDS Orchestrator

MCWidths == <<1, 1>>
=============================================================================
