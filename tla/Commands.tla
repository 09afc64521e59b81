------------------------------ MODULE Commands ------------------------------
(***************************************************************************)
(* The tools that run processes: Bash (src/tools/bash.go, bash_unix.go)    *)
(* and RunScript (src/tools/run_script.go).  A call starts a child, whose  *)
(* output is copied from a pipe by a goroutine of os/exec while the child, *)
(* and what it left in the background, may go on writing; the call's       *)
(* context may end first.  Bash kills the process group then, and waits    *)
(* for the pipe no longer than bashWaitDelay; RunScript does neither.      *)
(*                                                                         *)
(* os/exec and the system are external, modelled from how exec.Cmd is      *)
(* configured here.  Time is left out: a deadline, or a delay, may pass at *)
(* any moment at which it runs.  stdout stands for both of Bash's streams, *)
(* which are kept and shown alike; of a script's stderr only whether there *)
(* is some.                                                                *)
(***************************************************************************)
EXTENDS VirtualEnv, CappedOutput

CONSTANTS
    Tool,         \* of each call: "Bash", "Python" or "Script" (another language)
    Together,     \* bound: the sets of calls one behaviour may make
    MaxRuns,      \* bound: how often each call is made
    MaxBytes,     \* bound: bytes each call's processes write
    Leaves,       \* what each call's program may leave in the background
    MaxRestarts   \* bound

ASSUME CommandsAssumption ==
    /\ Tool \in [Calls -> {"Bash", "Python", "Script"}]
    /\ Leaves \in [Calls -> SUBSET {"group", "detached"}]
    /\ MaxRuns \in Nat /\ MaxRestarts \in Nat

VARIABLES
    call,      \* per call: its process, its pipe, its result
    runs,      \* per call: how often it was made
    restarts   \* restarts so far

vars == <<envVars, call, runs, restarts>>

Bash(c) == Tool[c] = "Bash"
\* Processes left behind: in the child's process group, or in one of their own.
Background == {"group", "detached"}
NoOutput == <<>>
Nothing == [kind |-> "none", exit |-> 0, interrupted |-> FALSE, text |-> NoOutput, truncated |-> FALSE]

\* A call before its process starts.
Fresh == [phase |-> "start", ctx |-> "live", child |-> "none", code |-> 0, bg |-> {}, killed |-> FALSE,
          out |-> NoOutput, errs |-> FALSE, taken |-> 0, buf |-> NoOutput, err |-> "nil", result |-> Nothing]

UnderWay(c) == call[c].phase # "returned"
Size(c) == Len(call[c].out)
Drained(c) == call[c].bg = {} /\ call[c].taken = Size(c)

Results ==
    [kind : {"none", "refused", "failed", "told"}, exit : {-1, 0, 1}, interrupted : BOOLEAN,
     text : Seq(Chars \cup ByteSet \cup {"?", "stderr"}), truncated : BOOLEAN]

CallRecords ==
    [phase : {"start", "run", "reaped", "closed", "returned"},
     ctx : {"live", "deadline", "cancelled"}, child : {"none", "alive", "exited"}, code : {-1, 0, 1},
     bg : SUBSET Background, killed : BOOLEAN, out : Seq(ByteSet), errs : BOOLEAN, taken : Nat,
     buf : Seq(ByteSet), err : {"nil", "exit", "ctx", "delay", "start"}, result : Results]

TypeOK ==
    /\ EnvTypeOK
    /\ call \in [Calls -> CallRecords]
    /\ \A c \in Calls : call[c].taken <= Size(c) /\ (Bash(c) => Len(call[c].buf) <= CapBytes)
    /\ runs \in [Calls -> 0..MaxRuns]
    /\ restarts \in 0..MaxRestarts

Init ==
    /\ EnvInit
    /\ call = [c \in Calls |-> [Fresh EXCEPT !.phase = "returned"]]
    /\ runs = [c \in Calls |-> 0]
    /\ restarts = 0

-----------------------------------------------------------------------------
(* Before the process                                                      *)

\* The engine runs the tool.
Invoke(c) ==
    /\ ~UnderWay(c)
    /\ runs[c] < MaxRuns
    /\ {d \in Calls : runs[d] > 0} \cup {c} \in Together
    /\ runs' = [runs EXCEPT ![c] = @ + 1]
    /\ call' = [call EXCEPT ![c] = Fresh]
    /\ UNCHANGED <<envVars, restarts>>

Return(c, result) ==
    /\ call' = [call EXCEPT ![c] = [@ EXCEPT !.phase = "returned", !.result = result]]
    /\ use' = [use EXCEPT ![c] = Unused]
    /\ UNCHANGED <<disk, managers, managerOf, removals, wiped, runs, restarts>>

(* Execute refuses: no command or one too long, no script, a script that   *)
(* is not there or not inside the directory, the sandbox, no interpreter.  *)
Refuse(c) ==
    /\ call[c].phase = "start"
    /\ use[c].at = "idle"
    /\ Return(c, [Nothing EXCEPT !.kind = "refused"])

\* platformScriptExecutor.Execute sends a .py file to executePython.
Prepare(c) ==
    /\ call[c].phase = "start" /\ Tool[c] = "Python"
    /\ use[c].at = "idle"
    /\ LookUp(c)
    /\ UNCHANGED <<call, runs, restarts>>

\* executePython: the environment could not be made.
PythonFails(c) ==
    /\ call[c].phase = "start"
    /\ use[c].at = "failed"
    /\ Return(c, [Nothing EXCEPT !.kind = "failed"])

\* What a call needs before cmd.Start: for Python, the environment.
MayStart(c) == call[c].phase = "start" /\ (Tool[c] = "Python" => use[c].at = "ready")

Begin(c, changed) ==
    /\ call' = [call EXCEPT ![c] = changed]
    /\ use' = [use EXCEPT ![c] = Unused]
    /\ UNCHANGED <<disk, managers, managerOf, removals, wiped, runs, restarts>>

\* cmd.Start, with the environment's own python for a Python script.
Start(c) ==
    /\ MayStart(c)
    /\ Tool[c] = "Python" => disk[RootOf[c]].venv = "made"
    /\ Begin(c, [call[c] EXCEPT !.phase = "run", !.child = "alive"])

\* cmd.Start fails: no such directory or interpreter, or the context was over.
StartFails(c) ==
    /\ MayStart(c)
    /\ Begin(c, [call[c] EXCEPT !.phase = "closed", !.err = "start"])

-----------------------------------------------------------------------------
(* The processes and the pipe                                              *)

Only(c, changed) ==
    /\ call' = [call EXCEPT ![c] = changed]
    /\ UNCHANGED <<envVars, runs, restarts>>

InRun(c) == call[c].phase \in {"run", "reaped"}

\* The child, or what it left in the background, writes.
Prints(c, ch) ==
    /\ InRun(c)
    /\ call[c].child = "alive" \/ call[c].bg # {}
    /\ Size(c) + Len(BytesOf(ch)) <= MaxBytes[c]
    /\ Only(c, [call[c] EXCEPT !.out = @ \o BytesOf(ch)])

Complains(c) ==
    /\ ~Bash(c) /\ call[c].child = "alive" /\ ~call[c].errs /\ MaxBytes[c] > 0
    /\ Only(c, [call[c] EXCEPT !.errs = TRUE])

\* It leaves a process behind that holds the pipe, in its group or not.
Forks(c, b) ==
    /\ call[c].child = "alive" /\ b \notin call[c].bg
    /\ Only(c, [call[c] EXCEPT !.bg = @ \cup {b}])

BackgroundEnds(c, b) ==
    /\ InRun(c) /\ b \in call[c].bg
    /\ Only(c, [call[c] EXCEPT !.bg = @ \ {b}])

Exits(c, code) ==
    /\ call[c].child = "alive"
    /\ Only(c, [call[c] EXCEPT !.child = "exited", !.code = code])

\* The copying goroutine of os/exec reads some bytes and calls Write.
Copy(c) ==
    /\ InRun(c)
    /\ \E n \in (call[c].taken + 1)..Size(c) :
         LET chunk == SubSeq(call[c].out, call[c].taken + 1, n) IN
         Only(c, [call[c] EXCEPT !.taken = n,
                                 !.buf = IF Bash(c) THEN Write(@, chunk) ELSE @ \o chunk])

-----------------------------------------------------------------------------
(* The context, and cmd.Wait                                               *)

\* performBash's timeout; RunScript has none.
Deadline(c) ==
    /\ Bash(c) /\ InRun(c) /\ call[c].ctx = "live"
    /\ Only(c, [call[c] EXCEPT !.ctx = "deadline"])

\* The run the call belongs to is stopped.
Cancelled(c) ==
    /\ InRun(c) /\ call[c].ctx = "live"
    /\ Only(c, [call[c] EXCEPT !.ctx = "cancelled"])

\* A plausible bug: only the child is killed.
KillChild(c) ==
    /\ call[c].phase = "run" /\ call[c].ctx # "live" /\ ~call[c].killed
    /\ Only(c, [call[c] EXCEPT !.killed = TRUE, !.child = "exited",
                               !.code = IF call[c].child = "alive" THEN -1 ELSE @])

(* cmd.Cancel once the context is over: Bash's kills the process group     *)
(* (configureBashProcess), the default one the child alone.  A child that  *)
(* exited but was not waited for is still there to be killed.              *)
Kill(c) ==
    /\ call[c].phase = "run" /\ call[c].ctx # "live" /\ ~call[c].killed
    /\ Only(c, [call[c] EXCEPT !.killed = TRUE, !.child = "exited",
                               !.code = IF call[c].child = "alive" THEN -1 ELSE @,
                               !.bg = IF Bash(c) THEN @ \ {"group"} ELSE @])

\* The child is waited for; its own failure hides that the context ended.
Reap(c) ==
    /\ call[c].phase = "run" /\ call[c].child = "exited"
    /\ Only(c, [call[c] EXCEPT !.phase = "reaped",
                               !.err = IF call[c].code # 0 THEN "exit"
                                       ELSE IF call[c].killed THEN "ctx" ELSE "nil"])

\* Plausible bugs: the delay's error is lost; the delay runs only after a kill.
GiveUpQuietly(c) ==
    /\ Bash(c) /\ call[c].phase = "reaped" /\ ~Drained(c)
    /\ Only(c, [call[c] EXCEPT !.phase = "closed"])
GiveUpKilled(c) ==
    /\ Bash(c) /\ call[c].phase = "reaped" /\ ~Drained(c) /\ call[c].killed
    /\ Only(c, [call[c] EXCEPT !.phase = "closed", !.err = IF @ = "nil" THEN "delay" ELSE @])

\* bashWaitDelay passed with the pipe still open: cmd.Wait closes it.
GiveUp(c) ==
    /\ Bash(c) /\ call[c].phase = "reaped" /\ ~Drained(c)
    /\ Only(c, [call[c] EXCEPT !.phase = "closed", !.err = IF @ = "nil" THEN "delay" ELSE @])

\* performBash's reading of cmd.Run's error, and what it shows.
BashResult(c) ==
    LET interrupted == call[c].err \notin {"nil", "exit"} /\ call[c].ctx = "deadline"
        shown == Shown(call[c].buf)
    IN  [kind |-> "told", interrupted |-> interrupted, text |-> shown.text, truncated |-> shown.truncated,
         exit |-> IF call[c].err = "exit" THEN call[c].code
                  ELSE IF call[c].err = "nil" \/ interrupted THEN 0 ELSE -1]

\* runScriptCommand and formatScriptResult: stderr only when stdout is empty.
ScriptResult(c) ==
    IF call[c].err \in {"nil", "exit"}
    THEN [Nothing EXCEPT !.kind = "told", !.exit = call[c].code,
                         !.text = IF call[c].buf = NoOutput /\ call[c].errs /\ call[c].err = "exit"
                                  THEN <<"stderr">> ELSE call[c].buf]
    ELSE [Nothing EXCEPT !.kind = "failed"]

\* cmd.Wait returns when nobody holds the pipe and all was read, or it gave up.
Report(c) ==
    /\ call[c].phase = "closed" \/ (call[c].phase = "reaped" /\ Drained(c))
    /\ Return(c, IF Bash(c) THEN BashResult(c) ELSE ScriptResult(c))

-----------------------------------------------------------------------------

Ensure(c) == EnsureStep(c) /\ UNCHANGED <<call, runs, restarts>>
TakeLock(c) == Lock(c) /\ UNCHANGED <<call, runs, restarts>>
Environment == Outside /\ UNCHANGED <<call, runs, restarts>>

\* The process ends with all its calls and starts again.
Restart ==
    /\ restarts < MaxRestarts
    /\ restarts' = restarts + 1
    /\ call' = [c \in Calls |-> [Fresh EXCEPT !.phase = "returned"]]
    /\ EnvRestart
    /\ UNCHANGED runs

Program(c) ==
    \/ \E ch \in Chars : Prints(c, ch)
    \/ Complains(c)
    \/ \E b \in Leaves[c] : Forks(c, b) \/ BackgroundEnds(c, b)
    \/ \E code \in {0, 1} : Exits(c, code)

\* What Go's runtime and this code do by themselves once a call is under way.
Proceed(c) ==
    \/ Refuse(c) \/ Prepare(c) \/ PythonFails(c) \/ Start(c) \/ StartFails(c)
    \/ Reap(c) \/ GiveUp(c) \/ Report(c)

Next ==
    \/ \E c \in Calls :
         \/ Invoke(c) \/ Proceed(c) \/ Ensure(c) \/ TakeLock(c)
         \/ Program(c) \/ Copy(c)
         \/ Deadline(c) \/ Cancelled(c) \/ Kill(c)
    \/ Environment
    \/ Restart

Spec == Init /\ [][Next]_vars

(* Timers fire, goroutines run, sync.Mutex is not unfair for ever, and     *)
(* python -m venv and pip end.  Nothing is asked of the program a call     *)
(* runs: it may never exit and never close its pipe.                       *)
Fairness ==
    \A c \in Calls :
        /\ WF_vars(Proceed(c)) /\ WF_vars(Ensure(c)) /\ SF_vars(TakeLock(c))
        /\ WF_vars(Copy(c)) /\ WF_vars(Deadline(c)) /\ WF_vars(Kill(c))

FairSpec == Spec /\ Fairness

-----------------------------------------------------------------------------

(* Whatever chunks the pipe came in and wherever the 128 KB cap cut, what  *)
(* Bash shows of a command whose output was read to its end is the first   *)
(* characters of it, and it says "truncated" exactly when there are more.  *)
(* The buffer itself may hold a gap (CutPoint); only the distance between  *)
(* the two caps hides it.                                                  *)
ShownFaithful ==
    \A c \in Calls :
        LET k == call[c] IN
        Bash(c) /\ k.phase = "returned" /\ k.result.kind = "told" /\ k.taken = Size(c) =>
            /\ k.result.truncated <=> Len(Runes(k.out)) > MaxRunes
            /\ k.result.text = SubSeq(Runes(k.out), 1, Len(k.result.text))
            /\ ~k.result.truncated => k.result.text = Runes(k.out)
            /\ k.result.text \in Seq(Chars)
            /\ k.result.truncated => Len(k.result.text) = MaxRunes

(* What is kept of a command's output, and what is shown of it.            *)
OutputSound == TypeOK /\ ShownFaithful

(* A call told as a success is one: the child exited with 0 on its own and *)
(* every byte written until the pipe was closed is in the result, although *)
(* the deadline, a stop and bashWaitDelay race the exit and the copying.   *)
SuccessIsComplete ==
    \A c \in Calls :
        LET k == call[c] IN
        k.phase = "returned" /\ k.result.kind = "told" /\ k.result.exit = 0 /\ ~k.result.interrupted =>
            k.child = "exited" /\ k.code = 0 /\ Drained(c)

(* When Bash's context ended while the child ran, nothing of its process   *)
(* group is left once the call returned (bash_unix.go:17-21).              *)
KilledWithGroup ==
    \A c \in Calls :
        Bash(c) /\ call[c].phase = "returned" /\ call[c].killed => "group" \notin call[c].bg

(* What is told of a process is what became of it, and of its group.       *)
ProcessesSound == SuccessIsComplete /\ KilledWithGroup

(* A Bash call returns, even when the program never exits, or left a       *)
(* process behind that never closes the pipe (bash.go:299-301).            *)
BashReturns == \A c \in Calls : Bash(c) => []<>(~UnderWay(c))

(* No call waits for the environment of a directory for ever: whatever     *)
(* fails under the manager's lock gives it back.                           *)
EnvironmentIsFree == \A c \in Calls : []<>(use[c].at = "idle")

(* Neither a program that never ends nor a failure in the making of an     *)
(* environment keeps other calls waiting.                                  *)
NobodyHangs == BashReturns /\ EnvironmentIsFree

(* What the result's fields mean by their names and texts (bash.go:364-376) *)
(* and a caller would expect; neither holds, see the README.               *)
TimeoutTold ==
    \A c \in Calls :
        Bash(c) /\ call[c].phase = "returned" /\ call[c].killed /\ call[c].ctx = "deadline" =>
            call[c].result.interrupted
=============================================================================
