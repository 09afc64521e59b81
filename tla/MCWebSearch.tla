----------------------------- MODULE MCWebSearch -----------------------------
(* Two callers and two engines; the questions qa and qb are stored in one  *)
(* file, and qb has two parts.                                             *)
EXTENDS WebSearch

CONSTANTS qa, qb, qc, fileAB, fileC

MCPathOf == [q \in Keys |-> IF q = qc THEN fileC ELSE fileAB]
MCParts  == [q \in Keys |-> IF q = qb THEN 2 ELSE 1]
=============================================================================
