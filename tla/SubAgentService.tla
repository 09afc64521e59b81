--------------------------- MODULE SubAgentService ---------------------------
(***************************************************************************)
(* What the sub-agent dispatcher promises its callers, without claims,     *)
(* slots or anchors: an accepted task is executed at most once, alone on   *)
(* its session, and its handle gets one verdict afterwards; a task that    *)
(* cannot be launched is failed without being executed; a process that     *)
(* dies forgets every task it had taken.                                   *)
(***************************************************************************)
CONSTANTS Tasks, Sessions, None

VARIABLES
    phase,    \* of each task
    serving,  \* the task executing on each session
    verdict   \* what the caller reads for the handle

vars == <<phase, serving, verdict>>

Init ==
    /\ phase = [t \in Tasks |-> "new"]
    /\ serving = [s \in Sessions |-> None]
    /\ verdict = [t \in Tasks |-> "none"]

Refuse(t) ==
    /\ phase[t] = "new"
    /\ phase' = [phase EXCEPT ![t] = "refused"]
    /\ UNCHANGED <<serving, verdict>>

Accept(t) ==
    /\ phase[t] = "new"
    /\ phase' = [phase EXCEPT ![t] = "accepted"]
    /\ verdict' = [verdict EXCEPT ![t] = "pending"]
    /\ UNCHANGED serving

Abort(t) ==
    /\ phase[t] = "accepted"
    /\ phase' = [phase EXCEPT ![t] = "settled"]
    /\ verdict' = [verdict EXCEPT ![t] = "failed"]
    /\ UNCHANGED serving

Start(t, s) ==
    /\ phase[t] = "accepted"
    /\ serving[s] = None
    /\ phase' = [phase EXCEPT ![t] = "executing"]
    /\ serving' = [serving EXCEPT ![s] = t]
    /\ UNCHANGED verdict

End(t, s) ==
    /\ serving[s] = t
    /\ phase' = [phase EXCEPT ![t] = "ended"]
    /\ serving' = [serving EXCEPT ![s] = None]
    /\ UNCHANGED verdict

Settle(t, v) ==
    /\ phase[t] = "ended"
    /\ phase' = [phase EXCEPT ![t] = "settled"]
    /\ verdict' = [verdict EXCEPT ![t] = v]
    /\ UNCHANGED serving

(* A submission under way may be lost with the process, too.               *)
Crash ==
    /\ \E gone \in SUBSET Tasks :
         phase' = [t \in Tasks |-> IF phase[t] = "new" /\ t \notin gone
                                  THEN "new" ELSE "lost"]
    /\ serving' = [s \in Sessions |-> None]
    /\ verdict' = [t \in Tasks |-> "none"]

TaskStep(t) ==
    \/ Abort(t)
    \/ \E s \in Sessions : Start(t, s) \/ End(t, s)
    \/ \E v \in {"completed", "failed"} : Settle(t, v)

Next ==
    \/ \E t \in Tasks : Refuse(t) \/ Accept(t) \/ TaskStep(t)
    \/ Crash

Spec == Init /\ [][Next]_vars
FairSpec == Spec /\ \A t \in Tasks : SF_vars(TaskStep(t))
=============================================================================
