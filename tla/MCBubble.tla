------------------------------ MODULE MCBubble ------------------------------
(* Instances of Bubble for TLC.                                            *)
EXTENDS Bubble, TLC

Symmetry == Permutations(Subs) \cup Permutations(Runs) \cup Permutations(Requests)
=============================================================================
