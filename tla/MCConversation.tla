--------------------------- MODULE MCConversation ---------------------------
(* Instances of Conversation for TLC, by the iterations of the engine.      *)
EXTENDS Conversation

Round(calls, executed, says) ==
    [calls |-> calls, executed |-> executed, says |-> says]
Text(call)  == [role |-> "tool", call |-> call]
Image(call) == [role |-> "user", call |-> call]

(* One call, executed or not; two calls, with an image before the second,   *)
(* which is not executed in this turn.                                      *)
FewRounds == {Round(1, 0, <<>>), Round(1, 1, <<Text(1)>>),
              Round(2, 1, <<Text(1), Image(1)>>)}

(* Also an empty result, and both of two calls executed.                    *)
MoreRounds == FewRounds \cup {Round(1, 1, <<>>), Round(2, 2, <<Text(1), Text(2)>>),
                              Round(2, 2, <<Text(1), Image(1), Text(2)>>)}

(* Seconds of two messages each.                                            *)
Seconds == {n \in 1..40 : n % 2 = 0}

(* A summary is forced with a turn behind it, in the second turn or before  *)
(* the third, which reads what it left: it is over when the last begins.    *)
ForcedBetween == summary["host"] # {} => turns = MaxTurns - 1
=============================================================================
