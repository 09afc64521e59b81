---------------------------- MODULE Conversation ----------------------------
(***************************************************************************)
(* The message log of a main session (session/session.go, compaction.go)   *)
(* and the turns that read and extend it (agents/loop.go,                  *)
(* pairing_repair.go, event_bridge.go, permission.go).                     *)
(*                                                                         *)
(* The log is kept in memory and in a store; the part after the cursor is  *)
(* the window the LLM is shown.  A turn summarises a window that grew too  *)
(* large, takes the user's input, repairs tool calls that lack their       *)
(* answers, and runs the engine, whose messages are written back one by    *)
(* one.  A turn that needs the user's permission, or an answer, ends with  *)
(* a pending record; the next turn completes the call.  Meanwhile the host *)
(* may force a summary; between turns it may remove messages.  Writes may  *)
(* fail and the process may end at any moment.                             *)
(***************************************************************************)
EXTENDS Naturals, Sequences

CONSTANTS
    MaxTurns,         \* bound on the turns
    MaxSteps,         \* bound on the engine's iterations with tools in a turn
    MaxCalls,         \* bound on the calls of one assistant message
    Rounds,           \* what an iteration may be: its calls, their answers
    MaxDisturbances,  \* bound on failures, restarts, forced summaries, removals
    Disturbances,     \* which of these there are
    Summaries,        \* whether turns may summarise
    Ticks             \* the first messages of new seconds, by their numbers

(* An iteration makes some calls, of which the first few are executed; a   *)
(* call that is may say something in a tool message, which Append filters  *)
(* out when it is empty, and show an image in a user message after it.     *)
IsRound(r) ==
    /\ r.calls \in 1..MaxCalls /\ r.executed \in 0..r.calls
    /\ r.says \in Seq([role : {"tool", "user"}, call : 1..r.executed])
    /\ \A i, j \in DOMAIN r.says :
          /\ i < j => r.says[i].call <= r.says[j].call
          /\ i # j /\ r.says[i].call = r.says[j].call =>
                r.says[i].role # r.says[j].role
          /\ r.says[i].role = "user" =>
                /\ i - 1 \in DOMAIN r.says
                /\ r.says[i - 1] = [role |-> "tool", call |-> r.says[i].call]

AllDisturbances == {"fault", "restart", "force", "truncate", "delete", "reset"}

ASSUME ConstantsAssumption ==
    /\ {MaxTurns, MaxSteps, MaxCalls, MaxDisturbances} \subseteq Nat
    /\ \A r \in Rounds : IsRound(r)
    /\ Disturbances \subseteq AllDisturbances
    /\ Summaries \in BOOLEAN
    /\ Ticks \subseteq Nat

VARIABLES
    mem,          \* messages in memory
    cursor,       \* how many of them are before the window
    stored,       \* messages in the store
    storedCursor, \* the cursor in the store
    perm,         \* the call that waits for a permission (file and memory)
    ask,          \* the AskUser call that waits for an answer (likewise)
    pc,           \* where the turn is
    input,        \* what the user sent
    todo,         \* messages about to be appended, or deleted, in order
    out,          \* the engine's messages past the write-back mark; in
                  \* DeleteRound, the round
    then,         \* where the turn goes once they are written
    cut,          \* how much of the window, then of the log, a repair keeps;
                  \* in DeleteRound, where the round begins
    gone,         \* calls a repair rolled back
    summary,      \* the messages of each summary under way
    next,         \* number of the next message
    turns, steps, disturbed

(* History: messages in a delivered summary, messages appended while a     *)
(* summary was under way, user messages and answers to questions reported  *)
(* as saved, and what went wrong on the way.                               *)
VARIABLES summarised, late, said, replied, mishaps

logVars     == <<mem, cursor, stored, storedCursor>>
pendingVars == <<perm, ask>>
turnVars    == <<pc, input, todo, out, then, cut, gone>>
countVars   == <<next, turns, steps, disturbed>>
historyVars == <<summarised, late, said, replied, mishaps>>
vars == <<logVars, pendingVars, turnVars, summary, countVars, historyVars>>

-----------------------------------------------------------------------------
(* A message; its calls are <<n, 1>>, ..., <<n, calls>>, and a tool message *)
(* answers the call "of".                                                  *)
NoCall == <<0, 0>>
User(n)          == [n |-> n, role |-> "user", calls |-> 0, of |-> NoCall]
Assistant(n, k)  == [n |-> n, role |-> "assistant", calls |-> k, of |-> NoCall]
Tool(n, call)    == [n |-> n, role |-> "tool", calls |-> 0, of |-> call]
CallsOf(m)       == {<<m.n, i>> : i \in {c \in 1..m.calls : m.role = "assistant"}}
AllCalls(log)    == UNION {CallsOf(log[i]) : i \in DOMAIN log}
Numbers(log)     == {log[i].n : i \in DOMAIN log}

From(log, c) == SubSeq(log, c + 1, Len(log))
Window       == From(mem, cursor)

(* Whether two messages have the same time stamp, in seconds; a message    *)
(* written once more keeps that of the first time.                         *)
SameSecond(a, b) == \A t \in Ticks : t <= a <=> t <= b

(* The mishaps: the store may hold other messages than memory; a round was *)
(* deleted whose time stamps others share; a repair did not put all user   *)
(* messages back; a batch was written twice; the cursor went back in       *)
(* memory only; a pending record outlived its call.                        *)
Mishaps == {"apart", "shared", "dropped", "rewritten", "lowered", "stranded"}

Init ==
    /\ mem = <<>> /\ cursor = 0 /\ stored = <<>> /\ storedCursor = 0
    /\ perm = NoCall /\ ask = NoCall
    /\ pc = "idle" /\ input = "text" /\ todo = <<>> /\ out = <<>>
    /\ then = "idle" /\ cut = 0 /\ gone = {}
    /\ summary = [w \in {"turn", "host"} |-> {}]
    /\ next = 1 /\ turns = 0 /\ steps = 0 /\ disturbed = 0
    /\ summarised = {} /\ late = {} /\ said = {} /\ replied = {}
    /\ mishaps = {}

-----------------------------------------------------------------------------
(* Append of one message: first to the store, then to memory.              *)
Put(m) ==
    /\ stored' = Append(stored, m)
    /\ mem' = Append(mem, m)
    /\ late' = IF summary["turn"] \cup summary["host"] = {} THEN late
               ELSE late \cup {m.n}
    /\ UNCHANGED <<cursor, storedCursor, summarised>>

(* One thing the environment does.                                         *)
Disturb(kind) ==
    /\ kind \in Disturbances
    /\ disturbed < MaxDisturbances
    /\ disturbed' = disturbed + 1

Goto(at) == pc' = at

(* A pending record whose call is not in the log.                          *)
Stranded(log) ==
    IF {perm, ask} \ {NoCall} \subseteq AllCalls(log) THEN {} ELSE {"stranded"}

(* loadMessages                                                            *)
Load ==
    /\ mem' = stored
    /\ cursor' = storedCursor
    /\ UNCHANGED <<stored, storedCursor>>

(* A turn begins with a text or a magic word, on the session in memory or  *)
(* on one the host loads anew.                                             *)
Begin(what) ==
    /\ pc = "idle"
    /\ turns < MaxTurns
    /\ turns' = turns + 1
    /\ input' = what
    /\ Goto("compact")
    /\ \/ UNCHANGED <<logVars, mishaps>>
       \/ /\ summary["host"] = {}
          /\ Load
          /\ mishaps' = mishaps \cup Stranded(stored)
    /\ UNCHANGED <<pendingVars, todo, out, then, cut, gone, summary, next,
                   steps, disturbed, summarised, late, said, replied>>

-----------------------------------------------------------------------------
(* TryCompact.  captureState slices the log at the cursor, which panics    *)
(* past its end; the host sees the turn fail.                              *)
Panic ==
    /\ pc = "compact"
    /\ cursor > Len(mem)
    /\ Goto("idle")
    /\ input' = "text"
    /\ UNCHANGED <<logVars, pendingVars, todo, out, then, cut, gone,
                   summary, countVars, historyVars>>

(* The window is small, or a summary failed a short while ago.             *)
SkipSummary ==
    /\ pc = "compact"
    /\ cursor <= Len(mem)
    /\ Goto("input")
    /\ UNCHANGED <<logVars, pendingVars, input, todo, out, then, cut, gone,
                   summary, countVars, historyVars>>

StartSummary ==
    /\ pc = "compact"
    /\ Summaries
    /\ cursor < Len(mem)
    /\ summary' = [summary EXCEPT !["turn"] = Numbers(Window)]
    /\ Goto("summary")
    /\ UNCHANGED <<logVars, pendingVars, input, todo, out, then, cut, gone,
                   countVars, historyVars>>

(* ForceCompact, called by the host at any time.                           *)
ForceSummary ==
    /\ Disturb("force")
    /\ pc # "delete"
    /\ summary["host"] = {}
    /\ cursor < Len(mem)
    /\ summary' = [summary EXCEPT !["host"] = Numbers(Window)]
    /\ UNCHANGED <<logVars, pendingVars, turnVars, next, turns, steps,
                   historyVars>>

(* The summary is over, and with it TryCompact when it was the turn's.     *)
Summarised(w) ==
    /\ summary[w] # {}
    /\ summary' = [summary EXCEPT ![w] = {}]
    /\ pc' = IF w = "turn" THEN "input" ELSE pc
    /\ UNCHANGED <<mem, stored, pendingVars, input, todo, out, then, cut, gone,
                   next, turns, steps, late, said, replied, mishaps>>

(* executeFullCompaction, once the summary was delivered: the window       *)
(* becomes empty, also of what came in the meantime.  A failure to store   *)
(* the cursor is ignored.                                                  *)
Slide(w) ==
    /\ Summarised(w)
    /\ pc # "delete"
    /\ summarised' = summarised \cup summary[w]
    /\ cursor' = Len(mem)
    /\ \/ storedCursor' = Len(mem) /\ UNCHANGED disturbed
       \/ Disturb("fault") /\ UNCHANGED storedCursor

(* Mutant: the window is emptied although its summary was not delivered.   *)
SlideAnyway(w) ==
    /\ Summarised(w)
    /\ pc # "delete"
    /\ cursor' = Len(mem)
    /\ storedCursor' = Len(mem)
    /\ UNCHANGED <<summarised, disturbed>>

(* There is no summary: the LLM or its delivery failed, or had nothing.    *)
NoSummary(w) ==
    /\ Summarised(w)
    /\ UNCHANGED <<cursor, storedCursor, summarised, disturbed>>

-----------------------------------------------------------------------------
(* Mutant: the record is read but not taken.                               *)
StillThere == perm

Remaining == NoCall

(* resolvePermissionMagicWord takes the pending permission; the tool is    *)
(* executed, or refused, and its result is appended, with its images as a  *)
(* user message.                                                           *)
TakeWord ==
    /\ pc = "input"
    /\ input = "word"
    /\ perm # NoCall
    /\ perm' = Remaining
    /\ \/ todo' = <<Tool(next, perm)>> /\ next' = next + 1
       \/ todo' = <<Tool(next, perm), User(next + 1)>> /\ next' = next + 2
    /\ Goto("reply")
    /\ UNCHANGED <<logVars, ask, input, out, then, cut, gone, summary, turns,
                   steps, disturbed, historyVars>>

(* A word the session has no use for may be for a sub-agent.               *)
PassWord ==
    /\ pc = "input"
    /\ input = "word"
    /\ perm = NoCall
    /\ Goto("idle")
    /\ input' = "text"
    /\ UNCHANGED <<logVars, pendingVars, todo, out, then, cut, gone,
                   summary, countVars, historyVars>>

(* Else what the user sent is the answer to a pending question, or a       *)
(* message of the user.                                                    *)
TakeText ==
    /\ pc = "input"
    /\ input = "word" => perm = NoCall
    /\ ask' = NoCall
    /\ input' = "text"
    /\ todo' = IF ask = NoCall THEN <<User(next)>> ELSE <<Tool(next, ask)>>
    /\ next' = next + 1
    /\ Goto("reply")
    /\ UNCHANGED <<logVars, perm, out, then, cut, gone, summary, turns, steps,
                   disturbed, historyVars>>

(* A message of the user, or the answer, is reported as saved.             *)
Reported(role) ==
    IF input = "text" /\ Head(todo).role = role THEN {Head(todo).n} ELSE {}

Reply ==
    /\ pc = "reply"
    /\ Put(Head(todo))
    /\ said' = said \cup Reported("user")
    /\ replied' = replied \cup Reported("tool")
    /\ todo' = Tail(todo)
    /\ pc' = IF Len(todo) = 1 THEN "repair" ELSE "reply"
    /\ input' = IF Len(todo) = 1 THEN "text" ELSE input
    /\ UNCHANGED <<pendingVars, out, then, cut, gone, summary, countVars,
                   mishaps>>

(* A turn ends when the user's message cannot be stored; the result of a   *)
(* permitted tool is passed over.                                          *)
ReplyFails ==
    /\ pc = "reply"
    /\ Disturb("fault")
    /\ todo' = Tail(todo)
    /\ pc' = IF input = "text" THEN "idle"
             ELSE IF Len(todo) = 1 THEN "repair" ELSE "reply"
    /\ input' = IF Len(todo) = 1 THEN "text" ELSE input
    /\ UNCHANGED <<logVars, pendingVars, out, then, cut, gone, summary,
                   next, turns, steps, historyVars>>

-----------------------------------------------------------------------------
(* Mutant: the answers may be anywhere in the window.                      *)
AnsweredSomewhere(w, i) == CallsOf(w[i]) \subseteq {w[j].of : j \in DOMAIN w}

(* Whether every call of message i is answered in the tool messages that   *)
(* follow it.                                                              *)
AnsweredAt(w, i) ==
    LET Follow == {j \in i + 1..Len(w) : \A k \in i + 1..j : w[k].role = "tool"}
    IN  CallsOf(w[i]) \subseteq {w[j].of : j \in Follow}
Breaks(w) == {i \in DOMAIN w : ~AnsweredAt(w, i)}

(* findToolPairingBreak: keep up to the last user message before the first *)
(* break.                                                                  *)
FirstBreak(w, i) == i \in Breaks(w) /\ \A j \in Breaks(w) : i <= j

Keeps(w, keep) ==
    \E i \in DOMAIN w :
        /\ FirstBreak(w, i) /\ keep < i
        /\ keep > 0 => w[keep].role = "user"
        /\ \A k \in keep + 1..i - 1 : w[k].role # "user"

Intact ==
    /\ pc = "repair"
    /\ Breaks(Window) = {}
    /\ Goto("think")
    /\ UNCHANGED <<logVars, pendingVars, input, todo, out, then, cut, gone,
                   summary, countVars, historyVars>>

FindBreak ==
    /\ pc = "repair"
    /\ \E keep \in 0..Len(Window) :
          /\ Keeps(Window, keep)
          /\ cut' = keep
          /\ gone' = AllCalls(From(Window, keep))
          /\ todo' = From(Window, keep)
    /\ Goto("cursor")
    /\ UNCHANGED <<logVars, pendingVars, input, out, then, summary, countVars,
                   historyVars>>

(* The cursor is read again to turn the window's index into the log's.     *)
ReadCursor ==
    /\ pc = "cursor"
    /\ cut' = cursor + cut
    /\ Goto("truncate")
    /\ UNCHANGED <<logVars, pendingVars, input, todo, out, then, gone, summary,
                   countVars, historyVars>>

(* Mutant: the store is given the window's index.                          *)
InWindow(keep) == IF cursor <= keep THEN keep - cursor ELSE keep

InLog(keep) == keep

Upto(log, k) == SubSeq(log, 1, IF k < Len(log) THEN k ELSE Len(log))

(* Truncate: memory first, then the store; of the cursor only the one in   *)
(* memory.                                                                 *)
TruncateMemory(keep) ==
    /\ mem' = Upto(mem, keep)
    /\ cursor' = IF cursor > keep THEN keep ELSE cursor
    /\ UNCHANGED storedCursor

Lowered(keep) == IF cursor > keep /\ keep < Len(mem) THEN {"lowered"} ELSE {}

Truncate(keep) ==
    IF keep >= Len(mem) THEN UNCHANGED logVars
    ELSE TruncateMemory(keep) /\ stored' = Upto(stored, InLog(keep))

(* Answers past the cut whose questions are not before it in the window.   *)
Undone ==
    {mem[i].n : i \in {k \in cut + 1..Len(mem) :
                         mem[k].of \notin AllCalls(From(Upto(mem, cut), cursor))}}

RollBack ==
    /\ pc = "truncate"
    /\ Truncate(cut)
    /\ replied' = replied \ Undone
    /\ mishaps' = mishaps \cup Lowered(cut)
    /\ Goto("readd")
    /\ UNCHANGED <<pendingVars, input, todo, out, then, cut, gone, summary,
                   countVars, summarised, late, said>>

(* The store fails: the repair is given up, with memory truncated.         *)
RollBackFails ==
    /\ pc = "truncate"
    /\ cut < Len(mem)
    /\ Disturb("fault")
    /\ TruncateMemory(cut)
    /\ UNCHANGED stored
    /\ mishaps' = mishaps \cup {"apart", "dropped"} \cup Lowered(cut)
                        \cup Stranded(Upto(mem, cut))
    /\ todo' = <<>>
    /\ Goto("think")
    /\ UNCHANGED <<pendingVars, input, out, then, cut, gone, summary, next,
                   turns, steps, summarised, late, said, replied>>

Users(log) == {i \in DOMAIN log : log[i].role = "user"}

(* Mutant: one user message is taken to be all of them.                    *)
LastUser(log) == {i \in Users(log) : \A j \in Users(log) : j <= i}

FirstUser(log) == {i \in Users(log) : \A j \in Users(log) : i <= j}

(* The user messages of the truncated part are appended again, in order.   *)
ReAdd ==
    /\ pc = "readd"
    /\ \E i \in FirstUser(todo) : Put(User(todo[i].n)) /\ todo' = From(todo, i)
    /\ UNCHANGED <<pendingVars, pc, input, out, then, cut, gone, summary,
                   countVars, said, replied, mishaps>>

(* When the window does not end with a user message, one that explains.    *)
NeedsNotice == IF Window = <<>> THEN TRUE ELSE Window[Len(Window)].role # "user"

Explain ==
    /\ pc = "readd"
    /\ Users(todo) = {}
    /\ NeedsNotice
    /\ Put(User(next))
    /\ next' = next + 1
    /\ todo' = <<>>
    /\ Goto("invalidate")
    /\ UNCHANGED <<pendingVars, input, out, then, cut, gone, summary,
                   turns, steps, disturbed, said, replied, mishaps>>

NoNotice ==
    /\ pc = "readd"
    /\ Users(todo) = {}
    /\ ~NeedsNotice
    /\ todo' = <<>>
    /\ Goto("invalidate")
    /\ UNCHANGED <<logVars, pendingVars, input, out, then, cut, gone,
                   summary, countVars, historyVars>>

ReAddFails ==
    /\ pc = "readd"
    /\ Users(todo) # {} \/ NeedsNotice
    /\ Disturb("fault")
    /\ mishaps' = IF Users(todo) = {} THEN mishaps ELSE mishaps \cup {"dropped"}
    /\ todo' = <<>>
    /\ Goto("invalidate")
    /\ UNCHANGED <<logVars, pendingVars, input, out, then, cut, gone, summary,
                   next, turns, steps, summarised, late, said, replied>>

(* Mutant: pending records outlive the repair.                             *)
Remembered(p) == p

(* invalidatePendingsAfterRepair                                           *)
Surviving(p) == IF p \in gone THEN NoCall ELSE p

Invalidate ==
    /\ pc = "invalidate"
    /\ perm' = Surviving(perm)
    /\ ask' = Surviving(ask)
    /\ Goto("think")
    /\ UNCHANGED <<logVars, input, todo, out, then, cut, gone, summary,
                   countVars, historyVars>>

-----------------------------------------------------------------------------
(* The request is assembled from the window (and the user's question, when *)
(* a failed repair lost it) and the engine starts.                         *)
Think ==
    /\ pc = "think"
    /\ cut' = 0 /\ gone' = {}
    /\ Goto("run")
    /\ UNCHANGED <<logVars, pendingVars, input, todo, out, then, summary,
                   countVars, historyVars>>

(* The messages of one iteration.                                          *)
Iteration(r) ==
    <<Assistant(next, r.calls)>> \o
        [i \in 1..Len(r.says) |->
            IF r.says[i].role = "user" THEN User(next + i)
            ELSE Tool(next + i, <<next, r.says[i].call>>)]

Complete(r) == r.executed = r.calls

(* The engine hands messages to the bridge, which writes all that is past  *)
(* its mark.                                                               *)
Produce(new, goto) ==
    /\ pc = "run"
    /\ out' = out \o new
    /\ todo' = out \o new
    /\ then' = goto
    /\ next' = next + Len(new) + 1
    /\ Goto("write")
    /\ UNCHANGED <<logVars, input, cut, gone, summary, turns, disturbed,
                   historyVars>>

Iterate(r) ==
    /\ steps < MaxSteps
    /\ Complete(r)
    /\ steps' = steps + 1
    /\ Produce(Iteration(r), "run")
    /\ UNCHANGED pendingVars

(* A call needs a permission or is a question: the pending record is kept  *)
(* at once; calls after it are not executed.  (handleSuspend)              *)
Suspend(r, kind) ==
    /\ steps < MaxSteps
    /\ ~Complete(r)
    /\ LET call == <<next, r.executed + 1>>
       IN  \/ kind = "permission" /\ perm' = call /\ UNCHANGED ask
           \/ kind = "ask_user" /\ ask' = call /\ UNCHANGED perm
    /\ steps' = 0
    /\ Produce(Iteration(r), "idle")

(* The user stops the run between two calls.                               *)
Cancel(r) ==
    /\ steps < MaxSteps
    /\ ~Complete(r)
    /\ steps' = 0
    /\ Produce(Iteration(r), "idle")
    /\ UNCHANGED pendingVars

(* The final answer; or the run ends with an error, or at its last         *)
(* iteration, without one.                                                 *)
Finish(new) ==
    /\ new \in {<<>>, <<Assistant(next, 0)>>}
    /\ steps' = 0
    /\ Produce(new, "idle")
    /\ UNCHANGED pendingVars

(* writeBackNewMessages: an Append for each message ...                    *)
Write ==
    /\ pc = "write"
    /\ todo # <<>>
    /\ Put(Head(todo))
    /\ todo' = Tail(todo)
    /\ UNCHANGED <<pendingVars, pc, input, out, then, cut, gone, summary,
                   countVars, said, replied, mishaps>>

(* Mutant: the mark stays where it was.                                    *)
MarkKept == out

(* ... then the mark is moved.                                             *)
PastMark == <<>>

Written ==
    /\ pc = "write"
    /\ todo = <<>>
    /\ out' = IF then = "idle" THEN <<>> ELSE PastMark
    /\ then' = "idle"
    /\ Goto(then)
    /\ UNCHANGED <<logVars, pendingVars, input, todo, cut, gone, summary,
                   countVars, historyVars>>

(* Mutant: what could not be written is kept for the next write-back.      *)
Kept == todo

Rest == <<>>

(* A failure leaves the mark where it was, also past what was written.     *)
WriteFails ==
    /\ pc = "write"
    /\ todo # <<>>
    /\ Disturb("fault")
    /\ mishaps' = mishaps
         \cup (IF then = "run" /\ todo # out THEN {"rewritten"} ELSE {})
         \cup (IF then = "idle" THEN Stranded(mem) ELSE {})
    /\ out' = IF then = "idle" THEN <<>> ELSE out
    /\ todo' = Rest
    /\ then' = "idle"
    /\ Goto(then)
    /\ UNCHANGED <<logVars, pendingVars, input, cut, gone, summary, next,
                   turns, steps, summarised, late, said, replied>>

-----------------------------------------------------------------------------
(* What a host may remove between turns.                                   *)
Removal(kind) ==
    /\ pc = "idle"
    /\ Disturb(kind)
    /\ UNCHANGED <<pendingVars, turnVars, summary, next, turns, steps,
                   summarised, late>>

HostTruncate(keep) ==
    /\ Removal("truncate")
    /\ keep < Len(mem)
    /\ Truncate(keep)
    /\ said' = said \ Numbers(From(mem, keep))
    /\ replied' = replied \ Numbers(From(mem, keep))
    /\ mishaps' = mishaps \cup Lowered(keep) \cup Stranded(Upto(mem, keep))

(* The round of the message at i ends before the next user message.        *)
RoundEnd(w, i, j) ==
    /\ j < Len(w) => w[j + 1].role = "user"
    /\ \A k \in i + 1..j : w[k].role # "user"

Without(log, i, j) == SubSeq(log, 1, i - 1) \o From(log, j)

(* DeleteRound finds the last user message of a second and deletes the     *)
(* messages of its round from the store, one by one by their time stamps,  *)
(* then from memory by position, all under the lock; when the store fails  *)
(* it has lost the first ones.                                             *)
BeginDelete(i) ==
    /\ pc = "idle"
    /\ Disturb("delete")
    /\ cursor <= Len(mem)
    /\ i \in DOMAIN Window
    /\ Window[i].role = "user"
    /\ \A k \in i + 1..Len(Window) :
          Window[k].role = "user" => ~SameSecond(Window[k].n, Window[i].n)
    /\ \E j \in i..Len(Window) :
          /\ RoundEnd(Window, i, j)
          /\ out' = SubSeq(Window, i, j)
          /\ todo' = out'
          /\ said' = said \ Numbers(out')
          /\ replied' = replied \ Numbers(out')
    /\ cut' = cursor + i - 1
    /\ mishaps' = mishaps \cup
          (IF \E a \in Numbers(Without(mem, cut' + 1, cut' + Len(out'))),
                b \in Numbers(out') : SameSecond(a, b)
           THEN {"shared"} ELSE {})
    /\ Goto("delete")
    /\ UNCHANGED <<logVars, pendingVars, input, then, gone, summary, next,
                   turns, steps, summarised, late>>

(* The store deletes one message of that second, or more of them.          *)
DeleteStored ==
    /\ pc = "delete"
    /\ todo # <<>>
    /\ LET places == {p \in DOMAIN stored :
                         SameSecond(stored[p].n, Head(todo).n)}
       IN  IF places = {} THEN UNCHANGED stored /\ todo' = Tail(todo)
           ELSE /\ stored' \in {Without(stored, p, p) : p \in places}
                /\ todo' \in {todo, Tail(todo)}
    /\ UNCHANGED <<mem, cursor, storedCursor, pendingVars, pc, input, out,
                   then, cut, gone, summary, countVars, historyVars>>

DeleteFails ==
    /\ pc = "delete"
    /\ todo # <<>>
    /\ "fault" \in Disturbances
    /\ mishaps' = mishaps \cup {"apart"}
    /\ out' = <<>> /\ todo' = <<>> /\ cut' = 0
    /\ Goto("idle")
    /\ UNCHANGED <<logVars, pendingVars, input, then, gone, summary, countVars,
                   summarised, late, said, replied>>

DeleteFromMemory ==
    /\ pc = "delete"
    /\ todo = <<>>
    /\ mem' = Without(mem, cut + 1, cut + Len(out))
    /\ mishaps' = mishaps \cup Stranded(mem')
    /\ out' = <<>> /\ cut' = 0
    /\ Goto("idle")
    /\ UNCHANGED <<cursor, stored, storedCursor, pendingVars, input, todo, then,
                   gone, summary, countVars, summarised, late, said, replied>>

(* Reset clears the store, sets its cursor, then clears memory.            *)
Reset ==
    /\ Removal("reset")
    /\ stored' = <<>>
    /\ said' = {} /\ replied' = {}
    /\ \/ /\ storedCursor' = 0 /\ mem' = <<>> /\ cursor' = 0
          /\ mishaps' = mishaps \cup Stranded(<<>>)
       \/ /\ "fault" \in Disturbances
          /\ mishaps' = mishaps \cup {"apart"} \cup Stranded(<<>>)
          /\ UNCHANGED <<mem, cursor, storedCursor>>

(* The process ends and the session is loaded again.                       *)
Restart ==
    /\ Disturb("restart")
    /\ Load
    /\ mishaps' = mishaps \cup Stranded(stored)
                   \cup (IF pc = "readd" /\ Users(todo) # {} THEN {"dropped"} ELSE {})
    /\ summary' = [w \in {"turn", "host"} |-> {}]
    /\ Goto("idle") /\ input' = "text" /\ todo' = <<>> /\ out' = <<>>
    /\ then' = "idle" /\ cut' = 0 /\ gone' = {} /\ steps' = 0
    /\ UNCHANGED <<pendingVars, next, turns, summarised, late, said, replied>>

-----------------------------------------------------------------------------
EngineStep ==
    \/ \E r \in Rounds :
          \/ Iterate(r)
          \/ Cancel(r)
          \/ \E kind \in {"permission", "ask_user"} : Suspend(r, kind)
    \/ \E new \in {<<>>, <<Assistant(next, 0)>>} : Finish(new)

TurnStep ==
    \/ Panic \/ SkipSummary \/ StartSummary
    \/ TakeWord \/ PassWord \/ TakeText \/ Reply \/ ReplyFails
    \/ Intact \/ FindBreak \/ ReadCursor \/ RollBack \/ RollBackFails
    \/ ReAdd \/ Explain \/ NoNotice \/ ReAddFails \/ Invalidate
    \/ Think \/ EngineStep \/ Write \/ Written \/ WriteFails

Next ==
    \/ \E what \in {"text", "word"} : Begin(what)
    \/ TurnStep
    \/ \E w \in {"turn", "host"} : Slide(w) \/ NoSummary(w)
    \/ ForceSummary
    \/ \E keep \in 0..Len(mem) : HostTruncate(keep)
    \/ \E i \in DOMAIN mem : BeginDelete(i)
    \/ DeleteStored \/ DeleteFails \/ DeleteFromMemory
    \/ Reset
    \/ Restart

Spec == Init /\ [][Next]_vars

-----------------------------------------------------------------------------
Message == [n : Nat, role : {"user", "assistant", "tool"}, calls : Nat,
            of : Nat \X Nat]

Appending == {"reply", "cursor", "truncate", "readd", "write", "delete"}

(* Every variable has its type; only the steps that append or delete       *)
(* something have something left to do.  (runWithGoAgent)                  *)
TypeOK ==
    /\ mem \in Seq(Message) /\ stored \in Seq(Message)
    /\ cursor \in Nat /\ storedCursor \in Nat
    /\ perm \in Nat \X Nat /\ ask \in Nat \X Nat
    /\ pc \in {"idle", "compact", "summary", "input", "repair", "invalidate",
               "think", "run"} \cup Appending
    /\ input \in {"text", "word"} /\ then \in {"idle", "run"}
    /\ todo \in Seq(Message) /\ out \in Seq(Message)
    /\ pc \notin Appending => todo = <<>>
    /\ cut \in Nat /\ gone \subseteq Nat \X Nat
    /\ summary \in [{"turn", "host"} -> SUBSET Nat]
    /\ next \in Nat \ {0} /\ turns \in 0..MaxTurns /\ steps \in 0..MaxSteps
    /\ disturbed \in 0..MaxDisturbances
    /\ summarised \cup late \cup said \cup replied \subseteq Nat
    /\ mishaps \subseteq Mishaps

(* A call is answered right after the message that makes it: the tool      *)
(* messages in between answer its siblings.                                *)
CallAnswered(w, i, call) ==
    \E j \in i + 1..Len(w) :
        w[j].of = call /\ \A k \in i + 1..j : w[k].role = "tool"

CallsAnswered(w) ==
    \A i \in DOMAIN w : \A call \in CallsOf(w[i]) : CallAnswered(w, i, call)

(* Whatever failed, was stopped, crashed, was summarised or removed before *)
(* and during the turn: the request the LLM gets has no call without its   *)
(* answer.  (repairToolPairingBreak)                                       *)
RequestAnswered == pc = "think" => CallsAnswered(Window)

(* What the user was told is saved stays in the log until a host removes   *)
(* it: a message through every repair, an answer unless a repair rolls its *)
(* question back, or no longer sees it.  Exceptions are a repair whose     *)
(* store fails, or that a crash cuts off, and a store that lost messages   *)
(* memory has: the lengths a truncation cuts to are memory's; for answers  *)
(* also a write-back that failed in the middle.  (repairToolPairingBreak)  *)
UsersKept ==
    mishaps \cap {"dropped", "apart", "shared"} = {} /\ pc # "readd" =>
        /\ said \subseteq Numbers(mem)
        /\ "rewritten" \notin mishaps => replied \subseteq Numbers(mem)

(* A message that left the window is in a delivered summary, or came while *)
(* one was being written; the exceptions are a cursor that a truncation    *)
(* lowered in memory only, and a store that lost messages memory has.      *)
(* (doCompact, executeFullCompaction)                                      *)
HiddenSummarised ==
    mishaps \cap {"lowered", "apart", "shared"} = {} =>
        Numbers(Upto(mem, cursor)) \subseteq summarised \cup late

(* What the engine and its tools said is in the log once and in the order  *)
(* it was said, over iterations, suspensions, repairs and restarts, unless *)
(* a write-back failed in the middle.  (writeBackNewMessages)              *)
InOrder ==
    "rewritten" \notin mishaps =>
        \A i \in DOMAIN mem : mem[i].role # "user" =>
            \A j \in i + 1..Len(mem) :
                mem[j].role # "user" => mem[i].n < mem[j].n

(* One permission or answer completes a call once, also when the turn      *)
(* after it fails, is repaired or crashes.  (TakePendingPermission,        *)
(* TakePendingAskUser)                                                     *)
AnsweredOnce ==
    "rewritten" \notin mishaps =>
        \A i \in DOMAIN mem : mem[i].role = "tool" =>
            \A j \in i + 1..Len(mem) : mem[j].of # mem[i].of

(* The log holds what was said once, in order, and one result per call.    *)
LogSound == TypeOK /\ InOrder /\ AnsweredOnce

(* When the LLM is asked and between turns, a pending record belongs to a  *)
(* call in the log: the user is not asked about a call that was rolled     *)
(* back.  (invalidatePendingsAfterRepair)                                  *)
PendingLive ==
    "stranded" \notin mishaps /\ pc \in {"idle", "think"} =>
        {perm, ask} \ {NoCall} \subseteq AllCalls(mem)

(* Memory and store hold the same messages between any two steps, failed   *)
(* appends included, and the messages of a deleted round leave both,       *)
(* however many of a second the store deletes at a time; they part only    *)
(* where a truncation, a removal or a reset fails half-way in the store,   *)
(* or a message outside a deleted round was stamped in a second of it.     *)
(* (Append, Truncate, DeleteRound, Reset)                                  *)
StoreAgrees ==
    mishaps \cap {"apart", "shared"} = {} /\ pc # "delete" => mem = stored

(* The strict format of the API: also no tool message whose call is not in *)
(* the request.  (sanitizeMessagesForLLM, Append)                          *)
RequestPaired ==
    pc = "think" =>
        \A j \in DOMAIN Window : Window[j].role = "tool" =>
            \E i \in 1..j - 1 :
                /\ Window[j].of \in CallsOf(Window[i])
                /\ \A k \in i + 1..j : Window[k].role = "tool"

(* What the comments promise and the code does not keep; no run checks it. *)
(* "The user's questions and answers do not go with a bad turn": of what   *)
(* the repair cuts off it puts user messages back, and an answer is a tool *)
(* message.  (repairToolPairingBreak)                                      *)
AnswersStay == pc = "truncate" => replied \subseteq Numbers(Upto(mem, cut))

(* "messageID identifies the message": the stamp of a round's message may  *)
(* be that of another, which the store then loses.  (DeleteRound)          *)
StampsIdentify == "apart" \notin mishaps /\ pc # "delete" => mem = stored

(* The cursor never points past the last message.  (Truncate)              *)
CursorInRange == cursor <= Len(mem)
=============================================================================
