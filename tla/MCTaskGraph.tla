----------------------------- MODULE MCTaskGraph -----------------------------
(* Instances of TaskGraph for TLC, by the edges one TaskUpdate may add.     *)
EXTENDS TaskGraph, TLC

Symmetry == Permutations(Ids)

Edges    == {[kind |-> k, id |-> i] : k \in {"blocks", "blockedBy"}, i \in AllIds}
NoEdges  == {<<>>}
OneEdge  == NoEdges \cup {<<e>> : e \in Edges}
(* Two edges of the same kind in one call.                                  *)
OneSided == OneEdge \cup {<<p[1], p[2]>> : p \in {q \in Edges \X Edges :
                                                  q[1].kind = q[2].kind}}
(* addBlocks comes before addBlockedBy.                                     *)
BothSides == OneSided \cup {<<p[1], p[2]>> : p \in {q \in Edges \X Edges :
                               q[1].kind = "blocks" /\ q[2].kind = "blockedBy"}}
=============================================================================
