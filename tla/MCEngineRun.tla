------------------------------ MODULE MCEngineRun ------------------------------
(* The loop hooks in the order of loop.Defaults.                           *)
EXTENDS EngineRun

MCLoopHooks == <<"logger", "convergence">>
=============================================================================
