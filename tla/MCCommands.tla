----------------------------- MODULE MCCommands -----------------------------
(***************************************************************************)
(* Two Python calls in one directory, or one Bash call: a Bash call and a  *)
(* script call share no variable, so no behaviour needs both.              *)
(***************************************************************************)
EXTENDS Commands

CONSTANTS b1, p1, p2, r1

MCTool == [c \in Calls |-> IF c = b1 THEN "Bash" ELSE "Python"]
MCRootOf == [c \in Calls |-> r1]
MCTogether == SUBSET {p1, p2} \cup {{b1}}
\* The second script only exits; the first one may leave a process behind.
MCLeaves == [c \in Calls |-> IF c = b1 THEN Background ELSE IF c = p1 THEN {"group"} ELSE {}]
\* Bash's output passes the cap by more than a character; a script's is short.
MCMaxBytes == [c \in Calls |-> IF c = b1 THEN CapBytes + 2 ELSE IF c = p1 THEN 1 ELSE 0]
=============================================================================
