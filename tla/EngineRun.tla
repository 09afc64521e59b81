------------------------------- MODULE EngineRun -------------------------------
(***************************************************************************)
(* One run of the Think-Act loop as this side of the engine sees it        *)
(* (agents/loop.go): the engine calls the model, then the tools it asked   *)
(* for, one after the other; hooks stand before and after both             *)
(* (loop_hook_adapter.go, tool_adapter.go, tools/executor.go), and the     *)
(* event bridge books the tokens and writes the new messages back into the *)
(* session after every round and at the end (event_bridge.go).  A run that *)
(* suspends for the user ends; that of a sub-agent waits for the answer    *)
(* and starts the engine again.                                            *)
(*                                                                         *)
(* Three counters must agree without ever being compared: the iterations   *)
(* the tokens are booked under, the assistant messages written, and the    *)
(* tool results with a record next to the tool messages written.           *)
(*                                                                         *)
(* The engine is a library that is not part of the repository: its steps   *)
(* are those the code here relies on.  Calls without an id, and the text   *)
(* of any message, are left out.                                           *)
(***************************************************************************)
EXTENDS Naturals, Sequences, FiniteSets

CONSTANTS
    MaxIterations,  \* MaxTurns of the model
    LoopHooks,      \* the loop hooks in the order they are called
    Visioning,      \* whether the model sees images
    MaxCalls,       \* bound: tool calls in one answer
    MaxResumes      \* bound: how often a sub-agent is resumed

ASSUME EngineAssumption ==
    /\ MaxIterations \in Nat \ {0} /\ MaxCalls \in Nat \ {0} /\ MaxResumes \in Nat
    /\ Visioning \in BOOLEAN
    /\ LoopHooks \in Seq({"logger", "convergence"}) /\ LoopHooks # <<>>

VARIABLES
    pc,       \* where the run is
    child,    \* whether it is a sub-agent's
    runs,     \* how often the engine was started
    iter,     \* the engine's iteration
    left,     \* the tool calls of this iteration not yet made
    msgs,     \* the messages the engine added to its context
    coord,    \* hookCoord
    bridge,   \* eventBridge
    at,       \* the message a write-back has got to
    held,     \* what the session holds open for the user
    log,      \* what was written into the session in this engine run
    ledger,   \* how often each model call was added to the total
    how,      \* how the engine stopped
    reason,   \* the termination reason of the run
    broken,   \* history: an Append failed in this engine run
    astray,   \* history: a tool call left no record in this engine run
    advised   \* history: how often the model was advised since a tool succeeded

runVars == <<pc, child, runs, iter, left, msgs, coord, bridge, at, held, log, ledger, how, reason,
          broken, astray, advised>>

(* An error of a tool: with advice, one nothing can recover from, another. *)
Errors == {"plain", "guided", "fatal"}

NoStreak == [last |-> "none", count |-> 0, guided |-> FALSE]

NewCoord == [seq |-> 0, images |-> {}, results |-> {}, abort |-> FALSE, error |-> FALSE,
             dup |-> NoStreak]

NewBridge == [complete |-> 0, len |-> 0, asst |-> 0, tool |-> 0, usage |-> {}, image |-> 0,
              suspend |-> "none", answer |-> FALSE]

RunInit ==
    /\ pc = "before" /\ child \in BOOLEAN /\ runs = 1
    /\ iter = 0 /\ left = 0 /\ msgs = <<>>
    /\ coord = NewCoord /\ bridge = NewBridge /\ at = 0 /\ held = "none"
    /\ log = <<>> /\ ledger = [i \in 0..MaxIterations - 1 |-> 0]
    /\ how = "none" /\ reason = "none"
    /\ broken = FALSE /\ astray = FALSE /\ advised = 0

Assistant == [role |-> "assistant", of |-> iter]
Tool      == [role |-> "tool", of |-> iter]

-----------------------------------------------------------------------------
(* The engine stops.  Its context reaches the bridge with the last event;  *)
(* after a failure that may be the one of the last round.                  *)
Stops(kind) ==
    /\ pc' = "ended"
    /\ how' = kind

Complete(b) == [b EXCEPT !.complete = Len(msgs)]

HookAborts == coord' = [coord EXCEPT !.abort = TRUE] /\ Stops("hook_abort")
HookFails  == coord' = [coord EXCEPT !.error = TRUE] /\ Stops("hook_error")

(* The next iteration, until there were as many as allowed; a hook of the  *)
(* host may stop the run.                                                  *)
BeforeLLM ==
    /\ pc = "before"
    /\ \/ iter < MaxIterations /\ pc' = "calling" /\ UNCHANGED <<coord, how, bridge>>
       \/ /\ iter < MaxIterations /\ (HookAborts \/ HookFails)
          /\ bridge' \in {bridge, Complete(bridge)}
       \/ /\ iter = MaxIterations /\ Stops("max_iterations")
          /\ bridge' = Complete(bridge) /\ UNCHANGED coord
    /\ UNCHANGED <<child, runs, iter, at, left, msgs, held, log, ledger, reason, broken, astray, advised>>

(* Mutant: a call without tokens is added like one with them.              *)
AlwaysAdded(exact) == 1

Added(exact) == IF exact THEN 1 ELSE 0

(* recordUsage: what the provider reports is added at once; when it        *)
(* reports nothing, the entry waits for the message to be estimated from.  *)
CallLLM ==
    /\ pc = "calling"
    /\ \E exact \in BOOLEAN :
          /\ bridge' = [bridge EXCEPT !.usage = @ \cup {[iter |-> iter, run |-> runs, exact |-> exact]}]
          /\ ledger' = [ledger EXCEPT ![iter] = @ + Added(exact)]
    /\ pc' = "after"
    /\ UNCHANGED <<child, runs, iter, at, left, msgs, coord, held, log, how, reason, broken,
                   astray, advised>>

LLMFails ==
    /\ pc = "calling"
    /\ \E kind \in {"cancelled", "timeout", "failed"} : Stops(kind)
    /\ bridge' \in {bridge, Complete(bridge)}
    /\ UNCHANGED <<child, runs, iter, at, left, msgs, coord, held, log, ledger, reason, broken,
                   astray, advised>>

(* AfterLLM: every hook asks for the results of the last round, and the    *)
(* first that asks takes them.                                             *)
Given(k) == IF k = 1 THEN coord.results ELSE {}

Convergence == \E k \in DOMAIN LoopHooks : LoopHooks[k] = "convergence" /\ "fatal" \in Given(k)

Snapshot(c) == [c EXCEPT !.results = {}]

(* The hooks after the model's answer; then the answer is final or tools   *)
(* are called.  Whether an answer that is not used stays in the context is *)
(* the engine's affair.                                                    *)
Unused ==
    /\ msgs' \in {msgs, Append(msgs, Assistant)}
    /\ bridge' \in {bridge, [bridge EXCEPT !.complete = Len(msgs')]}
    /\ UNCHANGED left

AfterLLM ==
    /\ pc = "after"
    /\ \/ coord' = [Snapshot(coord) EXCEPT !.abort = TRUE] /\ Stops("hook_abort") /\ Unused
       \/ ~Convergence /\ coord' = [Snapshot(coord) EXCEPT !.error = TRUE] /\ Stops("hook_error")
          /\ Unused
       \/ /\ ~Convergence /\ coord' = Snapshot(coord)
          /\ msgs' = Append(msgs, Assistant)
          /\ \/ /\ bridge' = [bridge EXCEPT !.complete = Len(msgs'), !.answer = TRUE]
                /\ Stops("finished")
                /\ UNCHANGED left
             \/ left' \in 1..MaxCalls /\ pc' = "tools" /\ UNCHANGED <<bridge, how>>
    /\ UNCHANGED <<child, runs, iter, at, held, log, ledger, reason, broken, astray, advised>>

-----------------------------------------------------------------------------
Plain(result) == result \in {"plain", "fatal"}

Again(d, result) == IF d.last = result THEN 2 ELSE 1

(* Mutant: that the advice was given is forgotten.                         *)
Unmarked(d, result) ==
    IF ~Plain(result) THEN NoStreak
    ELSE [last |-> result, count |-> Again(d, result), guided |-> d.guided]

(* maybeGuide: an error that repeats is answered with advice, once until   *)
(* the tool succeeds or its error brings advice of its own.                *)
Streak(d, result) ==
    IF ~Plain(result) THEN NoStreak
    ELSE [last |-> result, count |-> Again(d, result),
          guided |-> d.guided \/ Again(d, result) >= 2]

Advised(d, result) ==
    CASE ~Plain(result) -> 0
      [] Plain(result) /\ Again(d, result) >= 2 /\ ~d.guided -> advised + 1
      [] OTHER -> advised

(* Mutant: only results with an image are numbered.                        *)
NumberedImages(c, result, image) ==
    [c EXCEPT !.images = IF image THEN @ \cup {[seq |-> c.seq, at |-> Len(msgs) + 1]} ELSE @,
              !.seq = @ + (IF image THEN 1 ELSE 0),
              !.results = @ \cup {result}]

(* recordToolResult                                                        *)
Recorded(c, result, image) ==
    [c EXCEPT !.images = IF image THEN @ \cup {[seq |-> c.seq, at |-> Len(msgs) + 1]} ELSE @,
              !.seq = @ + 1,
              !.results = @ \cup {result}]

(* The engine adds the result to its context and goes on with the next.    *)
ResultGiven ==
    /\ msgs' = Append(msgs, Tool)
    /\ left' = left - 1
    /\ UNCHANGED <<pc, child, runs, iter, bridge, at, held, log, ledger, how, reason, broken>>

(* A tool that is excluded or not registered, or arguments that do not     *)
(* parse: an error that leaves no record.                                  *)
RefuseCall ==
    /\ pc = "tools" /\ left > 0
    /\ astray' = TRUE
    /\ ResultGiven
    /\ UNCHANGED <<coord, advised>>

(* A Before hook answers from a cache or refuses the call.                 *)
HookAnswers ==
    /\ pc = "tools" /\ left > 0
    /\ \E result \in {"ok", "plain", "fatal"} : coord' = Recorded(coord, result, FALSE)
    /\ ResultGiven
    /\ UNCHANGED <<astray, advised>>

(* What the executor makes of a tool: a panic is an error like any other,  *)
(* and an error may bring advice of its own.                               *)
ToolResults == {"ok"} \cup Errors

(* ImageHook takes the image out of a result, for a model that sees.       *)
MayCarry(result, image) == image => Visioning /\ result = "ok"

(* The tool runs and the After hooks see its result, which one of them may *)
(* turn into a failure without image.                                      *)
RunTool ==
    /\ pc = "tools" /\ left > 0
    /\ \E result \in ToolResults, image \in BOOLEAN :
          /\ MayCarry(result, image)
          /\ coord' = Recorded([coord EXCEPT !.dup = Streak(@, result)], result, image)
          /\ advised' = Advised(coord.dup, result)
    /\ ResultGiven
    /\ UNCHANGED astray

(* handleSuspend: the tool needs a permission, or it is AskUser.  The      *)
(* session keeps the request; a sub-agent's question is kept by the bridge *)
(* alone.                                                                  *)
Suspend(kind) ==
    /\ pc = "tools" /\ left > 0
    /\ bridge' = [Complete(bridge) EXCEPT !.suspend = kind]
    /\ held' = IF kind = "ask_user" /\ child THEN held ELSE kind
    /\ Stops("suspended")
    /\ UNCHANGED <<child, runs, iter, at, left, msgs, coord, log, ledger, reason, broken, astray, advised>>

-----------------------------------------------------------------------------
(* writeBackNewMessages: the messages past the mark, one after the other.  *)
Writing == pc \in {"round", "last"}

(* The run goes on after a round, or is over.                              *)
GoesOn ==
    /\ pc' = IF pc = "round" THEN "before" ELSE "closing"
    /\ iter' = IF pc = "round" THEN iter + 1 ELSE iter
    /\ at' = 0

(* An assistant message takes the booking with its own number among those  *)
(* written.                                                                *)
Booking(i) == {u \in bridge.usage : msgs[i].role = "assistant" /\ u.iter = bridge.asst}

(* A tool message takes the image with its own number; an image that a     *)
(* failed write still owes goes behind the first tool message without one. *)
OwnImage(i) ==
    {e.at : e \in {e \in coord.images : msgs[i].role = "tool" /\ e.seq = bridge.tool}}

ImageOf(i) == IF OwnImage(i) # {} THEN CHOOSE image \in OwnImage(i) : TRUE ELSE bridge.image

(* The counters move with every message met; a booking is used up.         *)
Met(i) ==
    [bridge EXCEPT !.asst  = @ + (IF msgs[i].role = "assistant" THEN 1 ELSE 0),
                   !.tool  = @ + (IF msgs[i].role = "tool" THEN 1 ELSE 0),
                   !.usage = @ \ Booking(i),
                   !.image = ImageOf(i)]

(* A call whose tokens nobody reported is estimated from its answer.       *)
Estimated(i) ==
    [k \in DOMAIN ledger |->
        ledger[k] + (IF \E u \in Booking(i) : u.iter = k /\ ~u.exact THEN 1 ELSE 0)]

Message(i)   == [what |-> "message", at |-> i, usage |-> Booking(i)]
Image(image) == [what |-> "image", at |-> image, usage |-> {}]

WithImage(i) == msgs[i].role = "tool" /\ ImageOf(i) # 0

(* The next message and the image behind it are stored; or the Append of   *)
(* either fails: the rest is not written and the mark stays, but the       *)
(* counters have moved.                                                    *)
WriteMessage ==
    LET i == at + 1
    IN  /\ Writing /\ at < bridge.complete
        /\ ledger' = Estimated(i)
        /\ \/ /\ bridge' = [Met(i) EXCEPT !.image = IF WithImage(i) THEN 0 ELSE @]
              /\ log' = log \o (IF WithImage(i) THEN <<Message(i), Image(ImageOf(i))>>
                                ELSE <<Message(i)>>)
              /\ at' = i
              /\ UNCHANGED <<pc, iter, broken>>
           \/ /\ bridge' = Met(i)
              /\ log' \in {log} \cup (IF WithImage(i) THEN {Append(log, Message(i))} ELSE {})
              /\ broken' = TRUE
              /\ GoesOn
        /\ UNCHANGED <<child, runs, left, msgs, coord, held, how, reason, astray, advised>>

(* Mutant: the mark is set one too far.                                    *)
OnePast(b) == [b EXCEPT !.len = at + 1]

(* Mutant: the mark stays where it is.                                     *)
SameMark(b) == b

Marked(b) == [b EXCEPT !.len = at]

(* All is written, and the mark moves.                                     *)
WriteEnds ==
    /\ Writing /\ at = bridge.complete
    /\ bridge' = Marked(bridge)
    /\ GoesOn
    /\ UNCHANGED <<child, runs, left, msgs, coord, held, log, ledger, how, reason, broken, astray,
                   advised>>

(* EvMessagesSnapshot, after the tools of an iteration.                    *)
Round ==
    /\ pc = "tools" /\ left = 0
    /\ bridge' = Complete(bridge)
    /\ at' = bridge.len
    /\ pc' = "round"
    /\ UNCHANGED <<child, runs, iter, left, msgs, coord, held, log, ledger, how, reason, broken,
                   astray, advised>>

(* The engine has returned: what is left is written.                       *)
LastWrite ==
    /\ pc = "ended"
    /\ at' = bridge.len
    /\ pc' = "last"
    /\ UNCHANGED <<child, runs, iter, left, msgs, coord, bridge, held, log, ledger, how, reason,
                   broken, astray, advised>>

-----------------------------------------------------------------------------
(* Mutant: the numbers of the run before go on.                            *)
BeginCounted(b) == [b EXCEPT !.complete = 0, !.len = 0, !.tool = 0, !.usage = {}, !.image = 0]

(* beginRun.  The context of the run before is no longer than the new      *)
(* base, for the session holds it and the user's answer.                   *)
BeginRun(b) == [b EXCEPT !.complete = 0, !.len = 0, !.asst = 0, !.tool = 0, !.usage = {}, !.image = 0]

(* Mutant: what the run before waited for is not forgotten.                *)
StillSuspended(b) == [b EXCEPT !.answer = FALSE]

ResumePrepare(b) == [b EXCEPT !.suspend = "none", !.answer = FALSE]

(* A sub-agent waits for the user's word (its session lends it the         *)
(* request).                                                               *)
Waits ==
    \/ child /\ bridge.suspend = "permission" /\ held = "permission"
    \/ child /\ bridge.suspend = "ask_user"

(* The word was written into the session: a new engine with new counters.  *)
Resume ==
    /\ pc = "closing" /\ Waits /\ runs <= MaxResumes
    /\ runs' = runs + 1
    /\ pc' = "before" /\ iter' = 0 /\ left' = 0 /\ msgs' = <<>> /\ at' = 0
    /\ coord' = NewCoord
    /\ bridge' = BeginRun(ResumePrepare(bridge))
    /\ held' = "none" /\ how' = "none"
    /\ log' = <<>> /\ ledger' = [i \in DOMAIN ledger |-> 0]
    /\ broken' = FALSE /\ astray' = FALSE /\ advised' = 0
    /\ UNCHANGED <<child, reason>>

Ends(why) ==
    /\ pc' = "done"
    /\ reason' = why
    /\ UNCHANGED <<child, runs, iter, at, left, msgs, coord, bridge, log, ledger, how, broken, astray,
                   advised>>

(* No word came in time, or the user stopped the run.                      *)
GivesUp ==
    /\ pc = "closing" /\ Waits
    /\ held' = "none"
    /\ \E why \in {"timeout of the user", "cancelled"} : Ends(why)

(* The termination reason, the first that applies.                         *)
Reason ==
    CASE coord.error -> "hook_error"
      [] ~coord.error /\ how = "max_iterations" -> "max_iterations"
      [] ~coord.error /\ how \in {"cancelled", "timeout", "failed"} -> how
      [] ~coord.error /\ how \notin {"max_iterations", "cancelled", "timeout", "failed"} ->
            CASE coord.abort -> "hook_abort"
              [] ~coord.abort /\ bridge.suspend = "permission" -> "permission_pending"
              [] ~coord.abort /\ bridge.suspend = "ask_user" -> "ask_user_pending"
              [] OTHER -> "completed"

Close ==
    /\ pc = "closing" /\ ~Waits
    /\ Ends(Reason)
    /\ UNCHANGED held

RunNext ==
    \/ BeforeLLM \/ CallLLM \/ LLMFails \/ AfterLLM
    \/ RefuseCall \/ HookAnswers \/ RunTool
    \/ \E kind \in {"permission", "ask_user"} : Suspend(kind)
    \/ Round \/ LastWrite \/ WriteMessage \/ WriteEnds
    \/ Resume \/ GivesUp \/ Close

RunSpec == RunInit /\ [][RunNext]_runVars

-----------------------------------------------------------------------------
RunTypeOK ==
    /\ pc \in {"before", "calling", "after", "tools", "round", "ended", "last", "closing",
              "done"}
    /\ child \in BOOLEAN /\ runs \in 1..MaxResumes + 1
    /\ iter \in 0..MaxIterations /\ left \in 0..MaxCalls
    /\ msgs \in Seq([role: {"assistant", "tool"}, of: 0..MaxIterations - 1])
    /\ coord.seq \in 0..Len(msgs) /\ coord.results \subseteq Errors \cup {"ok"}
    /\ \A e \in coord.images : e.at \in DOMAIN msgs /\ e.seq < coord.seq
    /\ bridge.len <= bridge.complete /\ bridge.complete <= Len(msgs)
    /\ IF Writing THEN at \in bridge.len..bridge.complete ELSE at = 0
    /\ bridge.image \in 0..Len(msgs)
    /\ bridge.suspend \in {"none", "permission", "ask_user"}
    /\ held \in {"none", "permission", "ask_user"}
    /\ \A k \in DOMAIN log : log[k].at \in DOMAIN msgs
    /\ broken \in BOOLEAN /\ astray \in BOOLEAN

Answers(k) == log[k].what = "message" /\ msgs[log[k].at].role = "assistant"

(* While no write failed, each answer of the model is written with the     *)
(* tokens of the very call it came from, in resumed runs too.              *)
UsageOfOwnCall ==
    ~broken => \A k \in DOMAIN log : Answers(k) =>
        /\ log[k].usage # {}
        /\ \A u \in log[k].usage : u.iter = msgs[log[k].at].of /\ u.run = runs

(* While no write failed and every call left a record, an image stands     *)
(* right behind the tool result it was taken from, and none is lost.       *)
ImageFollows ==
    ~broken /\ ~astray =>
        /\ \A k \in DOMAIN log : log[k].what = "image" =>
              k > 1 /\ log[k - 1].what = "message" /\ log[k - 1].at = log[k].at
        /\ \A e \in coord.images : \A k \in DOMAIN log :
              log[k].what = "message" /\ log[k].at = e.at =>
                  k < Len(log) /\ log[k + 1].what = "image" /\ log[k + 1].at = e.at

(* While no write failed, no message of the engine is written twice and    *)
(* they stand in the engine's order.                                       *)
WrittenOnce ==
    ~broken => \A j, k \in DOMAIN log :
        j < k /\ log[j].what = "message" /\ log[k].what = "message" => log[j].at < log[k].at

(* No call of the model is added to the total twice, whatever fails; and   *)
(* one whose answer was written was added, with the provider's tokens or   *)
(* with estimated ones.                                                    *)
AccountedOnce ==
    /\ \A i \in DOMAIN ledger : ledger[i] <= 1
    /\ ~broken => \A k \in DOMAIN log : Answers(k) => ledger[msgs[log[k].at].of] = 1

(* Messages and tokens are recorded once each.                             *)
RecordSound == RunTypeOK /\ WrittenOnce /\ AccountedOnce

(* A run that says it waits for the user has left the request in the       *)
(* session, and one that says it is completed had an answer.               *)
ReasonTrue ==
    /\ reason = "permission_pending" => held = "permission"
    /\ reason = "ask_user_pending" => held = "ask_user"
    /\ reason = "completed" => bridge.answer

(* The model is advised when a tool fails twice with the same words, and   *)
(* once only until the tool succeeds.                                      *)
AdvisedOnce == advised <= 1 /\ (coord.dup.count >= 2 => advised = 1)

(* What the host is told of the run's end, and the model of its failures,  *)
(* is so.                                                                  *)
OutcomeTrue == ReasonTrue /\ AdvisedOnce

(* After a round with an error nothing can recover from, the run is        *)
(* stopped.                                                                *)
FatalStops ==
    [][pc = "after" /\ "fatal" \in coord.results => coord'.abort \/ coord'.error]_runVars
=============================================================================
