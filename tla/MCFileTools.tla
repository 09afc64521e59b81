----------------------------- MODULE MCFileTools -----------------------------
(* Instances of FileTools for TLC.  After a race the two histories promise  *)
(* nothing any more; what the files' owners do then is what they did        *)
(* before, and no run needs it.                                             *)
EXTENDS FileTools

UntilRaced == ~raced
=============================================================================
