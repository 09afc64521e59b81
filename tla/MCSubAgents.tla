---------------------------- MODULE MCSubAgents ----------------------------
(* Instances of SubAgents for TLC.  Handles, sessions and texts are         *)
(* interchangeable: no definition tells one from another.                   *)
EXTENDS SubAgents, TLC

Symmetry == Permutations(Tasks) \cup Permutations(Sessions)
              \cup Permutations(Texts) \cup Permutations(Mains)
              \cup Permutations(Profiles)

AllOutcomes == {"answered", "max_iterations", "failed"}
Exhaustion   == {"max_iterations", "failed"}
NoExhaustion == {"answered", "failed"}
=============================================================================
