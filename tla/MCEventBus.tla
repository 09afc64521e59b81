----------------------------- MODULE MCEventBus -----------------------------
(* A run and a sub-agent of it, a goroutine that emits on each bus, and a  *)
(* host that reads from each.                                              *)
EXTENDS EventBus

CONSTANTS main, sub, k1, k2, c1, c2

MCParent == [b \in Buses |-> IF b = sub THEN main ELSE NoBus]
MCHome   == [e \in Emitters |-> IF e = k1 THEN main ELSE sub]
MCAt     == [c \in Channels |-> IF c = c1 THEN main ELSE sub]
MCMaxEvents == [e \in Emitters |-> IF e = k1 THEN 1 ELSE 2]
MCWants  == [c \in Channels |-> Kinds]
=============================================================================
