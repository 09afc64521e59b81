------------------------- MODULE ConversationProofs -------------------------
(***************************************************************************)
(* What holds of a main session for any number of turns, iterations, calls *)
(* and disturbances, whatever an iteration of the engine may be.           *)
(***************************************************************************)
EXTENDS Conversation, SequenceTheorems, TLAPS

-----------------------------------------------------------------------------
\* What the types need: a turn waits for its own summary only, a reply has
\* something to append, and no more than the message of the user when that is
\* what was sent, a round that is deleted begins in the log.

Placed ==
    /\ summary["turn"] # {} => pc = "summary"
    /\ pc = "reply" => todo # <<>> /\ (input = "text" => Len(todo) = 1)
    /\ pc = "delete" => cut <= Len(mem)

WellTyped == TypeOK /\ Placed

-----------------------------------------------------------------------------
\* Messages and logs.

LEMMA MessagesTyped ==
  ASSUME NEW n \in Nat
  PROVE  /\ User(n) \in Message
         /\ \A k \in Nat : Assistant(n, k) \in Message
         /\ \A call \in Nat \X Nat : Tool(n, call) \in Message
BY DEF Message, User, Assistant, Tool, NoCall

(* Cutting a log gives logs; its numbers and calls are numbers and calls.  *)
LEMMA LogsTyped ==
  ASSUME NEW log \in Seq(Message), NEW c \in Nat
  PROVE  /\ From(log, c) \in Seq(Message)
         /\ Upto(log, c) \in Seq(Message)
         /\ Numbers(log) \subseteq Nat
         /\ AllCalls(log) \subseteq Nat \X Nat
<1>1. From(log, c) \in Seq(Message)
  <2>1. \A i \in c + 1..Len(log) : log[i] \in Message
    OBVIOUS
  <2> QED BY <2>1, SubSeqProperties DEF From
<1>2. Upto(log, c) \in Seq(Message)
  <2> DEFINE k == IF c < Len(log) THEN c ELSE Len(log)
  <2>1. k \in Int /\ \A i \in 1..k : log[i] \in Message
    OBVIOUS
  <2> HIDE DEF k
  <2>2. SubSeq(log, 1, k) \in Seq(Message)
    BY <2>1, SubSeqProperties
  <2> QED BY <2>2 DEF Upto, k
<1>3. \A i \in DOMAIN log : log[i] \in Message
  OBVIOUS
<1>4. Numbers(log) \subseteq Nat
  BY <1>3 DEF Numbers, Message
<1>5. \A m \in Message : CallsOf(m) \subseteq Nat \X Nat
  BY DEF CallsOf, Message
<1>6. AllCalls(log) \subseteq Nat \X Nat
  BY <1>3, <1>5 DEF AllCalls
<1> QED BY <1>1, <1>2, <1>4, <1>6

LEMMA PutTyped ==
  ASSUME TypeOK, NEW m \in Message, Put(m)
  PROVE  /\ mem' \in Seq(Message) /\ stored' \in Seq(Message)
         /\ cursor' \in Nat /\ storedCursor' \in Nat
         /\ summarised' \subseteq Nat /\ late' \subseteq Nat
<1>1. m.n \in Nat
  BY DEF Message
<1>2. mem \in Seq(Message) /\ stored \in Seq(Message)
  BY DEF TypeOK
<1>3. Append(mem, m) \in Seq(Message) /\ Append(stored, m) \in Seq(Message)
  BY <1>2
<1> QED BY <1>1, <1>3 DEF Put, TypeOK

LEMMA TruncateTyped ==
  ASSUME TypeOK, NEW keep \in Nat, Truncate(keep)
  PROVE  /\ mem' \in Seq(Message) /\ stored' \in Seq(Message)
         /\ cursor' \in Nat /\ storedCursor' \in Nat
BY LogsTyped DEF Truncate, TruncateMemory, InLog, TypeOK, logVars

LEMMA IterationTyped ==
  ASSUME TypeOK, NEW r \in Rounds
  PROVE  Iteration(r) \in Seq(Message)
<1>1. r.calls \in Nat /\ IsRound(r)
  <2>1. IsRound(r) /\ MaxCalls \in Nat
    BY ConstantsAssumption
  <2>2. r.calls \in 1..MaxCalls
    BY <2>1, Zenon DEF IsRound
  <2> QED BY <2>1, <2>2
<1>2. r.says \in Seq([role : {"tool", "user"}, call : Nat])
  <2> DEFINE Some == [role : {"tool", "user"}, call : 1..r.executed]
             All  == [role : {"tool", "user"}, call : Nat]
  <2>1. r.executed \in 0..r.calls /\ r.says \in Seq(Some)
    BY <1>1, Zenon DEF IsRound
  <2>2. Some \subseteq All
    OBVIOUS
  <2> HIDE DEF Some, All
  <2>3. r.says \in Seq(All)
    BY <2>1, <2>2, SeqMonotonic
  <2> QED BY <2>3 DEF All
<1> DEFINE e(i) == IF r.says[i].role = "user" THEN User(next + i)
                   ELSE Tool(next + i, <<next, r.says[i].call>>)
<1>3. next \in Nat
  BY DEF TypeOK
<1>4. \A i \in 1..Len(r.says) : e(i) \in Message
  <2> SUFFICES ASSUME NEW i \in 1..Len(r.says) PROVE e(i) \in Message
    OBVIOUS
  <2>1. r.says[i] \in [role : {"tool", "user"}, call : Nat]
    BY <1>2, ElementOfSeq
  <2>2. r.says[i].call \in Nat /\ next + i \in Nat
    BY <2>1, <1>2, <1>3
  <2>3. <<next, r.says[i].call>> \in Nat \X Nat
    BY <2>2, <1>3
  <2> QED BY <2>2, <2>3, MessagesTyped
<1>5. [i \in 1..Len(r.says) |-> e(i)] \in Seq(Message)
  <2>1. Len(r.says) \in Nat
    BY <1>2
  <2> HIDE DEF e
  <2> QED BY <1>4, <2>1, IsASeq
<1>6. <<Assistant(next, r.calls)>> \in Seq(Message)
  BY <1>1, <1>3, MessagesTyped
<1> QED BY <1>5, <1>6, ConcatProperties DEF Iteration

-----------------------------------------------------------------------------
\* Every step preserves the types.

LEMMA Bounds == {MaxTurns, MaxSteps, MaxDisturbances} \subseteq Nat
BY ConstantsAssumption

LEMMA TypeInit == Init => TypeOK
BY Bounds DEF Init, TypeOK, NoCall, Message, Appending

(* What the environment does is counted.                                   *)
LEMMA DisturbTyped ==
  ASSUME TypeOK, NEW kind, Disturb(kind)
  PROVE  disturbed' \in 0..MaxDisturbances
<1>1. disturbed \in 0..MaxDisturbances /\ MaxDisturbances \in Nat
  BY Bounds DEF TypeOK
<1>2. disturbed < MaxDisturbances /\ disturbed' = disturbed + 1
  BY DEF Disturb
<1> QED BY <1>1, <1>2

LEMMA TypesAtTurnStart ==
  ASSUME WellTyped,
         \/ \E what \in {"text", "word"} : Begin(what)
         \/ Panic \/ SkipSummary \/ StartSummary
         \/ ForceSummary
         \/ \E w \in {"turn", "host"} : Slide(w) \/ NoSummary(w)
  PROVE  TypeOK'
<1> USE Bounds
<1> TypeOK /\ Placed
  BY DEF WellTyped
<1>1. ASSUME NEW what \in {"text", "word"}, Begin(what)
      PROVE  TypeOK'
  <2>1. Stranded(stored) \subseteq Mishaps
    BY DEF Stranded, Mishaps
  <2>2. /\ mem' \in Seq(Message) /\ stored' \in Seq(Message)
        /\ cursor' \in Nat /\ storedCursor' \in Nat
        /\ mishaps' \subseteq Mishaps
    BY <1>1, <2>1 DEF TypeOK, Begin, Load, logVars
  <2>3. turns' \in 0..MaxTurns /\ pc' = "compact" /\ todo = <<>>
    BY <1>1 DEF TypeOK, Begin, Goto, Appending
  <2> QED BY <1>1, <2>2, <2>3 DEF TypeOK, Begin, pendingVars
<1>2. CASE Panic
  BY <1>2 DEF TypeOK, Panic, Goto, Appending, logVars, pendingVars, countVars,
     historyVars
<1>3. CASE SkipSummary
  BY <1>3 DEF TypeOK, SkipSummary, Goto, Appending, logVars, pendingVars,
     countVars, historyVars
<1>4. Numbers(Window) \subseteq Nat
  BY LogsTyped DEF Window, TypeOK
<1>5. CASE StartSummary
  BY <1>4, <1>5 DEF TypeOK, StartSummary, Goto, Appending, logVars,
     pendingVars, countVars, historyVars
<1>6. CASE ForceSummary
  <2>1. disturbed' \in 0..MaxDisturbances
    BY <1>6, DisturbTyped DEF ForceSummary
  <2> QED BY <1>4, <1>6, <2>1 DEF TypeOK, ForceSummary, Appending, logVars,
        pendingVars, turnVars, historyVars
<1>7. ASSUME NEW w \in {"turn", "host"}, Slide(w) \/ NoSummary(w)
      PROVE  TypeOK'
  <2>1. disturbed' \in 0..MaxDisturbances
    BY <1>7, DisturbTyped DEF Slide, NoSummary, TypeOK
  <2>2. Len(mem) \in Nat /\ summary[w] \subseteq Nat
    <3>1. mem \in Seq(Message) /\ summary \in [{"turn", "host"} -> SUBSET Nat]
      BY DEF TypeOK
    <3> QED BY <3>1
  <2>3. cursor' \in Nat /\ storedCursor' \in Nat /\ summarised' \subseteq Nat
    BY <1>7, <2>2 DEF Slide, NoSummary, TypeOK
  <2>4. Summarised(w)
    BY <1>7 DEF Slide, NoSummary
  <2> QED BY <2>1, <2>3, <2>4 DEF TypeOK, Placed, Summarised, Appending,
        pendingVars
<1> QED BY <1>1, <1>2, <1>3, <1>5, <1>6, <1>7

LEMMA TypesAtReply ==
  ASSUME WellTyped,
         \/ TakeWord \/ PassWord \/ TakeText \/ Reply \/ ReplyFails
  PROVE  TypeOK'
<1> USE Bounds
<1> TypeOK /\ Placed
  BY DEF WellTyped
<1>n. next \in Nat /\ next + 1 \in Nat \ {0} /\ next + 2 \in Nat \ {0}
  <2>1. next \in Nat \ {0}
    BY DEF TypeOK
  <2> QED BY <2>1
<1>1. CASE TakeWord
  <2>1. perm \in Nat \X Nat
    BY DEF TypeOK
  <2>2. Tool(next, perm) \in Message /\ User(next + 1) \in Message
    BY <2>1, <1>n, MessagesTyped
  <2>3. /\ <<Tool(next, perm)>> \in Seq(Message)
        /\ <<Tool(next, perm), User(next + 1)>> \in Seq(Message)
    BY <2>2
  <2>4. todo' \in Seq(Message) /\ next' \in Nat \ {0}
    BY <1>1, <2>3, <1>n, Zenon DEF TakeWord
  <2> QED BY <1>1, <2>4 DEF TypeOK, TakeWord, Goto, Appending, Remaining,
        NoCall, logVars, historyVars
<1>2. CASE PassWord
  BY <1>2 DEF TypeOK, PassWord, Goto, Appending, logVars, pendingVars,
     countVars, historyVars
<1>3. CASE TakeText
  <2>1. ask \in Nat \X Nat
    BY DEF TypeOK
  <2>2. Tool(next, ask) \in Message /\ User(next) \in Message
    BY <2>1, <1>n, MessagesTyped
  <2>3. todo' \in Seq(Message) /\ next' \in Nat \ {0}
    BY <1>3, <2>2, <1>n DEF TakeText, TypeOK
  <2> QED BY <1>3, <2>3 DEF TypeOK, TakeText, Goto, Appending, NoCall,
        logVars, historyVars
<1>4. ASSUME pc = "reply"
      PROVE  /\ Head(todo) \in Message /\ Head(todo).n \in Nat
             /\ Tail(todo) \in Seq(Message)
             /\ Len(todo) = 1 => Tail(todo) = <<>>
             /\ input = "text" => Len(todo) = 1
  <2>1. /\ todo \in Seq(Message) /\ todo # <<>>
        /\ input = "text" => Len(todo) = 1
    BY <1>4 DEF TypeOK, Placed
  <2>2. Head(todo) \in Message /\ Tail(todo) \in Seq(Message)
        /\ Len(Tail(todo)) = Len(todo) - 1
    BY <2>1, HeadTailProperties
  <2>3. Head(todo).n \in Nat
    BY <2>2 DEF Message
  <2>4. Len(todo) = 1 => Tail(todo) = <<>>
    <3>1. Len(todo) = 1 => Len(Tail(todo)) = 0
      BY <2>2
    <3> QED BY <2>2, <3>1, EmptySeq
  <2> QED BY <2>1, <2>2, <2>3, <2>4
<1>5. CASE Reply
  <2>0. pc = "reply"
    BY <1>5 DEF Reply
  <2>1. /\ mem' \in Seq(Message) /\ stored' \in Seq(Message)
        /\ cursor' \in Nat /\ storedCursor' \in Nat
        /\ summarised' \subseteq Nat /\ late' \subseteq Nat
    BY <1>4, <1>5, <2>0, PutTyped DEF Reply
  <2>2. said' \subseteq Nat /\ replied' \subseteq Nat
    <3>1. Head(todo).n \in Nat
      BY <1>4, <2>0
    <3> QED BY <1>5, <3>1 DEF TypeOK, Reply, Reported
  <2> QED BY <1>4, <1>5, <2>0, <2>1, <2>2 DEF TypeOK, Reply, Appending,
        pendingVars, countVars
<1>6. CASE ReplyFails
  <2>0. pc = "reply"
    BY <1>6 DEF ReplyFails
  <2>1. disturbed' \in 0..MaxDisturbances
    BY <1>6, DisturbTyped DEF ReplyFails
  <2>2. /\ pc' \in {"idle", "repair", "reply"}
        /\ pc' # "reply" => todo' = <<>>
        /\ input' \in {"text", "word"} /\ todo' \in Seq(Message)
    BY <1>4, <1>6, <2>0 DEF TypeOK, ReplyFails
  <2> QED BY <1>6, <2>1, <2>2 DEF TypeOK, ReplyFails, Appending, logVars,
        pendingVars, historyVars
<1> QED BY <1>1, <1>2, <1>3, <1>5, <1>6

LEMMA TypesAtRepair ==
  ASSUME WellTyped,
         \/ Intact \/ FindBreak \/ ReadCursor \/ RollBack \/ RollBackFails
         \/ ReAdd \/ Explain \/ NoNotice \/ ReAddFails \/ Invalidate
  PROVE  TypeOK'
<1> USE Bounds
<1> TypeOK /\ Placed
  BY DEF WellTyped
<1>m. \A log : Stranded(log) \subseteq Mishaps
  BY DEF Stranded, Mishaps
<1>l. \A keep : Lowered(keep) \subseteq Mishaps
  BY DEF Lowered, Mishaps
<1>1. CASE Intact
  BY <1>1 DEF TypeOK, Intact, Goto, Appending, logVars, pendingVars, countVars,
     historyVars
<1>2. CASE FindBreak
  <2>1. Window \in Seq(Message)
    BY LogsTyped DEF Window, TypeOK
  <2>2. PICK keep \in 0..Len(Window) :
          /\ cut' = keep
          /\ gone' = AllCalls(From(Window, keep))
          /\ todo' = From(Window, keep)
    BY <1>2 DEF FindBreak
  <2>k. keep \in Nat
    BY <2>1
  <2>3. cut' \in Nat /\ todo' \in Seq(Message) /\ gone' \subseteq Nat \X Nat
    BY <2>1, <2>2, <2>k, LogsTyped
  <2> QED BY <1>2, <2>3 DEF TypeOK, FindBreak, Goto, Appending, logVars,
        pendingVars, countVars, historyVars
<1>3. CASE ReadCursor
  <2>1. cut' \in Nat /\ pc' = "truncate"
    <3>1. cut \in Nat /\ cursor \in Nat /\ cut' = cursor + cut /\ pc' = "truncate"
      BY <1>3 DEF ReadCursor, Goto, TypeOK
    <3> QED BY <3>1
  <2> QED BY <1>3, <2>1 DEF TypeOK, ReadCursor, Appending, logVars, pendingVars,
        countVars, historyVars
<1>4. CASE RollBack
  <2>1. /\ mem' \in Seq(Message) /\ stored' \in Seq(Message)
        /\ cursor' \in Nat /\ storedCursor' \in Nat
    BY <1>4, TruncateTyped DEF RollBack, TypeOK
  <2> QED BY <1>4, <1>l, <2>1 DEF TypeOK, RollBack, Goto, Appending,
        pendingVars, countVars
<1>5. CASE RollBackFails
  <2>1. disturbed' \in 0..MaxDisturbances
    BY <1>5, DisturbTyped DEF RollBackFails
  <2>2. mem' \in Seq(Message) /\ cursor' \in Nat /\ storedCursor' \in Nat
    BY <1>5, LogsTyped DEF RollBackFails, TruncateMemory, TypeOK
  <2>3. mishaps' \subseteq Mishaps
    BY <1>5, <1>l, <1>m DEF RollBackFails, TypeOK, Mishaps
  <2>4. pc' = "think" /\ todo' = <<>> /\ <<>> \in Seq(Message)
    BY <1>5 DEF RollBackFails, Goto
  <2> QED BY <1>5, <2>1, <2>2, <2>3, <2>4 DEF TypeOK, RollBackFails, pendingVars
<1>6. CASE ReAdd
  <2>1. PICK i \in FirstUser(todo) : Put(User(todo[i].n)) /\ todo' = From(todo, i)
    BY <1>6 DEF ReAdd
  <2>t. todo \in Seq(Message)
    BY DEF TypeOK
  <2>2. i \in 1..Len(todo) /\ todo[i] \in Message /\ i \in Nat
    BY <2>t, <2>1 DEF FirstUser, Users
  <2>n. todo[i].n \in Nat
    BY <2>2 DEF Message
  <2>3. User(todo[i].n) \in Message /\ i \in Nat
    BY <2>2, <2>n, MessagesTyped
  <2>4. /\ mem' \in Seq(Message) /\ stored' \in Seq(Message)
        /\ cursor' \in Nat /\ storedCursor' \in Nat
        /\ summarised' \subseteq Nat /\ late' \subseteq Nat
    BY <2>1, <2>3, PutTyped
  <2>5. todo' \in Seq(Message)
    BY <2>1, <2>3, LogsTyped DEF TypeOK
  <2> QED BY <1>6, <2>4, <2>5 DEF TypeOK, ReAdd, Appending, pendingVars,
        countVars
<1>7. CASE Explain
  <2>n. next \in Nat \ {0}
    BY DEF TypeOK
  <2>1. User(next) \in Message /\ next + 1 \in Nat \ {0}
    BY <2>n, MessagesTyped
  <2>2. /\ mem' \in Seq(Message) /\ stored' \in Seq(Message)
        /\ cursor' \in Nat /\ storedCursor' \in Nat
        /\ summarised' \subseteq Nat /\ late' \subseteq Nat
    BY <1>7, <2>1, PutTyped DEF Explain
  <2>3. /\ next' \in Nat \ {0} /\ pc' = "invalidate"
        /\ todo' = <<>> /\ <<>> \in Seq(Message)
    BY <1>7, <2>1 DEF Explain, Goto
  <2> QED BY <1>7, <2>2, <2>3 DEF TypeOK, Explain, pendingVars
<1>8. CASE NoNotice
  BY <1>8 DEF TypeOK, NoNotice, Goto, Appending, logVars, pendingVars,
     countVars, historyVars
<1>9. CASE ReAddFails
  <2>1. disturbed' \in 0..MaxDisturbances
    BY <1>9, DisturbTyped DEF ReAddFails
  <2>2. mishaps' \subseteq Mishaps
    BY <1>9 DEF ReAddFails, TypeOK, Mishaps
  <2>3. pc' = "invalidate" /\ todo' = <<>> /\ <<>> \in Seq(Message)
    BY <1>9 DEF ReAddFails, Goto
  <2> QED BY <1>9, <2>1, <2>2, <2>3 DEF TypeOK, ReAddFails, logVars, pendingVars
<1>10. CASE Invalidate
  <2>1. perm' \in Nat \X Nat /\ ask' \in Nat \X Nat
    BY <1>10 DEF Invalidate, Surviving, NoCall, TypeOK
  <2> QED BY <1>10, <2>1 DEF TypeOK, Invalidate, Goto, Appending, logVars,
        countVars, historyVars
<1> QED BY <1>1, <1>2, <1>3, <1>4, <1>5, <1>6, <1>7, <1>8, <1>9, <1>10

LEMMA TypesAtRun ==
  ASSUME WellTyped, Think \/ EngineStep \/ Write \/ Written \/ WriteFails
  PROVE  TypeOK'
<1> USE Bounds
<1> TypeOK /\ Placed
  BY DEF WellTyped
<1>1. CASE Think
  BY <1>1 DEF TypeOK, Think, Goto, Appending, logVars, pendingVars, countVars,
     historyVars
<1>2. ASSUME NEW new \in Seq(Message), NEW goto \in {"idle", "run"},
             Produce(new, goto), perm' \in Nat \X Nat, ask' \in Nat \X Nat,
             steps' \in 0..MaxSteps
      PROVE  TypeOK'
  <2>1. out \o new \in Seq(Message) /\ Len(new) \in Nat
    BY <1>2, ConcatProperties DEF TypeOK
  <2>n. next \in Nat \ {0}
    BY DEF TypeOK
  <2>2. next' \in Nat \ {0}
    BY <1>2, <2>1, <2>n DEF Produce
  <2>3. out' \in Seq(Message) /\ todo' \in Seq(Message) /\ pc' = "write"
    BY <1>2, <2>1 DEF Produce, Goto
  <2> QED BY <1>2, <2>2, <2>3 DEF TypeOK, Produce, Appending, logVars,
        historyVars
<1>3. ASSUME NEW r \in Rounds,
             \/ Iterate(r) \/ Cancel(r)
             \/ \E kind \in {"permission", "ask_user"} : Suspend(r, kind)
      PROVE  TypeOK'
  <2>1. Iteration(r) \in Seq(Message)
    BY IterationTyped
  <2>2. r.executed \in Nat
    <3>1. IsRound(r) /\ MaxCalls \in Nat
      BY ConstantsAssumption
    <3>2. r.calls \in 1..MaxCalls /\ r.executed \in 0..r.calls
      BY <3>1, Zenon DEF IsRound
    <3> QED BY <3>1, <3>2
  <2>n. next \in Nat /\ r.executed + 1 \in Nat
    <3>1. next \in Nat \ {0}
      BY DEF TypeOK
    <3> QED BY <2>2, <3>1
  <2>3. <<next, r.executed + 1>> \in Nat \X Nat
    BY <2>n
  <2>4. steps' \in 0..MaxSteps
    <3>1. steps \in 0..MaxSteps /\ MaxSteps \in Nat
      BY Bounds DEF TypeOK
    <3>2. steps < MaxSteps /\ (steps' = steps + 1 \/ steps' = 0)
      BY <1>3, Zenon DEF Iterate, Cancel, Suspend
    <3> QED BY <3>1, <3>2
  <2>5. perm' \in Nat \X Nat /\ ask' \in Nat \X Nat
    BY <1>3, <2>3 DEF Iterate, Cancel, Suspend, TypeOK, pendingVars
  <2>6. Produce(Iteration(r), "run") \/ Produce(Iteration(r), "idle")
    BY <1>3 DEF Iterate, Cancel, Suspend
  <2> QED BY <1>2, <2>1, <2>4, <2>5, <2>6
<1>4. ASSUME NEW new \in {<<>>, <<Assistant(next, 0)>>}, Finish(new)
      PROVE  TypeOK'
  <2>1. Assistant(next, 0) \in Message
    BY MessagesTyped DEF TypeOK
  <2>2. new \in Seq(Message)
    <3>1. <<>> \in Seq(Message) /\ <<Assistant(next, 0)>> \in Seq(Message)
      BY <2>1
    <3> QED BY <1>4, <3>1, Zenon
  <2>3. /\ Produce(new, "idle") /\ steps' = 0
        /\ perm' \in Nat \X Nat /\ ask' \in Nat \X Nat
    BY <1>4 DEF Finish, TypeOK, pendingVars
  <2> QED BY <1>2, <2>2, <2>3
<1>5. CASE Write
  <2>1. Head(todo) \in Message /\ Tail(todo) \in Seq(Message)
    BY <1>5, HeadTailProperties DEF Write, TypeOK
  <2>2. /\ mem' \in Seq(Message) /\ stored' \in Seq(Message)
        /\ cursor' \in Nat /\ storedCursor' \in Nat
        /\ summarised' \subseteq Nat /\ late' \subseteq Nat
    BY <1>5, <2>1, PutTyped DEF Write
  <2> QED BY <1>5, <2>1, <2>2 DEF TypeOK, Write, Appending, pendingVars,
        countVars
<1>6. CASE Written
  BY <1>6 DEF TypeOK, Written, PastMark, Goto, Appending, logVars, pendingVars,
     countVars, historyVars
<1>7. CASE WriteFails
  <2>1. disturbed' \in 0..MaxDisturbances
    BY <1>7, DisturbTyped DEF WriteFails
  <2>2. Stranded(mem) \subseteq Mishaps
    BY DEF Stranded, Mishaps
  <2>3. mishaps' \subseteq Mishaps
    BY <1>7, <2>2 DEF WriteFails, TypeOK, Mishaps
  <2>4. /\ pc' \in {"idle", "run"} /\ todo' = <<>> /\ <<>> \in Seq(Message)
        /\ out' \in Seq(Message)
    BY <1>7 DEF TypeOK, WriteFails, Rest, Goto
  <2> QED BY <1>7, <2>1, <2>3, <2>4 DEF TypeOK, WriteFails, Appending, logVars,
        pendingVars
<1> QED BY <1>1, <1>3, <1>4, <1>5, <1>6, <1>7 DEF EngineStep

LEMMA TypesAtRemoval ==
  ASSUME WellTyped,
         \/ \E keep \in 0..Len(mem) : HostTruncate(keep)
         \/ \E i \in DOMAIN mem : BeginDelete(i)
         \/ DeleteStored \/ DeleteFails \/ DeleteFromMemory
         \/ Reset \/ Restart
  PROVE  TypeOK'
<1> USE Bounds
<1> TypeOK /\ Placed
  BY DEF WellTyped
<1>m. \A log : Stranded(log) \subseteq Mishaps
  BY DEF Stranded, Mishaps
<1>l. \A keep : Lowered(keep) \subseteq Mishaps
  BY DEF Lowered, Mishaps
<1>1. ASSUME NEW keep \in 0..Len(mem), HostTruncate(keep)
      PROVE  TypeOK'
  <2>1. keep \in Nat
    BY DEF TypeOK
  <2>2. /\ mem' \in Seq(Message) /\ stored' \in Seq(Message)
        /\ cursor' \in Nat /\ storedCursor' \in Nat
    BY <1>1, <2>1, TruncateTyped DEF HostTruncate
  <2>3. disturbed' \in 0..MaxDisturbances
    BY <1>1, DisturbTyped DEF HostTruncate, Removal
  <2>4. mishaps' \subseteq Mishaps /\ said' \subseteq Nat
    BY <1>1, <1>l, <1>m DEF HostTruncate, TypeOK
  <2> QED BY <1>1, <2>2, <2>3, <2>4 DEF TypeOK, HostTruncate, Removal,
        Appending, pendingVars, turnVars
<1>2. ASSUME NEW i \in DOMAIN mem, BeginDelete(i)
      PROVE  TypeOK'
  <2>1. Window \in Seq(Message)
    BY LogsTyped DEF Window, TypeOK
  <2>2. PICK j \in i..Len(Window) :
          out' = SubSeq(Window, i, j) /\ todo' = out' /\ said' \subseteq said
    BY <1>2 DEF BeginDelete
  <2>3. i \in 1..Len(Window) /\ i \in Nat
    <3>1. i \in DOMAIN Window /\ i \in DOMAIN mem
      BY <1>2 DEF BeginDelete
    <3> QED BY <2>1, <3>1
  <2>4. \A k \in i..j : Window[k] \in Message
    BY <2>1, <2>2, <2>3
  <2>5. SubSeq(Window, i, j) \in Seq(Message)
    BY <2>2, <2>3, <2>4, SubSeqProperties
  <2>6. cut' \in Nat
    <3>1. cursor \in Nat /\ cut' = cursor + i - 1 /\ i >= 1
      BY <1>2, <2>3 DEF BeginDelete, TypeOK
    <3> QED BY <2>3, <3>1
  <2>7. disturbed' \in 0..MaxDisturbances
    BY <1>2, DisturbTyped DEF BeginDelete
  <2>8. mishaps' \subseteq Mishaps
    BY <1>2 DEF BeginDelete, TypeOK, Mishaps
  <2> QED BY <1>2, <2>2, <2>5, <2>6, <2>7, <2>8 DEF TypeOK, BeginDelete, Goto,
        Appending, logVars, pendingVars
<1>3. CASE DeleteStored
  <2>1. Tail(todo) \in Seq(Message)
    BY <1>3, HeadTailProperties DEF DeleteStored, TypeOK
  <2>2. ASSUME NEW p \in DOMAIN stored
        PROVE  Without(stored, p, p) \in Seq(Message)
    <3>s. stored \in Seq(Message)
      BY DEF TypeOK
    <3>1. p \in 1..Len(stored)
      BY <3>s
    <3>2. SubSeq(stored, 1, p - 1) \in Seq(Message)
      BY <3>s, <3>1, SubSeqProperties
    <3>3. From(stored, p) \in Seq(Message)
      BY <3>s, <3>1, LogsTyped
    <3> QED BY <3>2, <3>3, ConcatProperties DEF Without
  <2>3. stored' \in Seq(Message)
    BY <1>3, <2>2 DEF DeleteStored, TypeOK
  <2> QED BY <1>3, <2>1, <2>3 DEF TypeOK, DeleteStored, Appending, pendingVars,
        countVars, historyVars
<1>4. CASE DeleteFails
  <2>1. mishaps' \subseteq Mishaps
    BY <1>4 DEF DeleteFails, TypeOK, Mishaps
  <2> QED BY <1>4, <2>1 DEF TypeOK, DeleteFails, Goto, Appending, logVars,
        pendingVars, countVars
<1>5. CASE DeleteFromMemory
  <2>1. mem \in Seq(Message) /\ cut \in Nat /\ cut <= Len(mem) /\ Len(out) \in Nat
    BY <1>5 DEF DeleteFromMemory, TypeOK, Placed
  <2>2. SubSeq(mem, 1, cut) \in Seq(Message)
    <3>1. \A k \in 1..cut : mem[k] \in Message
      BY <2>1
    <3> QED BY <2>1, <3>1, SubSeqProperties
  <2>3. From(mem, cut + Len(out)) \in Seq(Message)
    BY <2>1, LogsTyped
  <2>4. (cut + 1) - 1 = cut
    BY <2>1
  <2>5. mem' \in Seq(Message)
    BY <1>5, <2>2, <2>3, <2>4, ConcatProperties DEF DeleteFromMemory, Without
  <2>6. mishaps' \subseteq Mishaps
    <3>1. Stranded(mem') \subseteq Mishaps /\ "apart" \in Mishaps
      BY <1>m DEF Mishaps
    <3> QED BY <1>5, <3>1 DEF DeleteFromMemory, TypeOK
  <2> QED BY <1>5, <2>5, <2>6 DEF TypeOK, DeleteFromMemory, Goto, Appending,
        pendingVars, countVars
<1>6. CASE Reset
  <2>1. disturbed' \in 0..MaxDisturbances
    BY <1>6, DisturbTyped DEF Reset, Removal
  <2>2. mishaps' \subseteq Mishaps
    <3>1. Stranded(<<>>) \subseteq Mishaps /\ "apart" \in Mishaps
      BY <1>m DEF Mishaps
    <3> QED BY <1>6, <3>1 DEF Reset, TypeOK
  <2>3. /\ mem' \in Seq(Message) /\ stored' \in Seq(Message)
        /\ cursor' \in Nat /\ storedCursor' \in Nat
        /\ said' = {}
    <3>1. <<>> \in Seq(Message)
      BY EmptySeq
    <3>2. /\ mem \in Seq(Message) /\ cursor \in Nat /\ storedCursor \in Nat
          /\ 0 \in Nat
      BY DEF TypeOK
    <3>3. /\ stored' = <<>> /\ said' = {}
          /\ \/ mem' = <<>> /\ cursor' = 0 /\ storedCursor' = 0
             \/ mem' = mem /\ cursor' = cursor /\ storedCursor' = storedCursor
      BY <1>6, Zenon DEF Reset
    <3> QED BY <3>1, <3>2, <3>3, Zenon
  <2> QED BY <1>6, <2>1, <2>2, <2>3 DEF TypeOK, Reset, Removal, Appending,
        pendingVars, turnVars
<1>7. CASE Restart
  <2>1. disturbed' \in 0..MaxDisturbances
    BY <1>7, DisturbTyped DEF Restart
  <2>2. mishaps' \subseteq Mishaps
    <3>1. Stranded(stored) \subseteq Mishaps /\ "dropped" \in Mishaps
      BY <1>m DEF Mishaps
    <3> QED BY <1>7, <3>1 DEF Restart, TypeOK
  <2>3. /\ mem' \in Seq(Message) /\ stored' \in Seq(Message)
        /\ cursor' \in Nat /\ storedCursor' \in Nat
    BY <1>7 DEF TypeOK, Restart, Load
  <2>4. /\ pc' = "idle" /\ todo' = <<>> /\ out' = <<>> /\ <<>> \in Seq(Message)
        /\ summary' \in [{"turn", "host"} -> SUBSET Nat]
        /\ steps' \in 0..MaxSteps
    BY <1>7 DEF Restart, Goto
  <2> QED BY <1>7, <2>1, <2>2, <2>3, <2>4 DEF TypeOK, Restart, pendingVars
<1> QED BY <1>1, <1>2, <1>3, <1>4, <1>5, <1>6, <1>7

LEMMA TypesKept == WellTyped /\ [Next]_vars => TypeOK'
<1> SUFFICES ASSUME WellTyped, [Next]_vars PROVE TypeOK'
  OBVIOUS
<1>1. CASE UNCHANGED vars
  BY <1>1 DEF WellTyped, TypeOK, vars, logVars, pendingVars, turnVars,
     countVars, historyVars, Appending
<1>2. CASE Next
  BY <1>2, TypesAtTurnStart, TypesAtReply, TypesAtRepair, TypesAtRun,
     TypesAtRemoval DEF Next, TurnStep
<1> QED BY <1>1, <1>2

-----------------------------------------------------------------------------
\* Every step preserves what the types need.

PlainStep ==
    \/ Panic \/ SkipSummary \/ PassWord \/ Intact \/ FindBreak \/ ReadCursor
    \/ RollBack \/ RollBackFails \/ ReAdd \/ Explain \/ NoNotice \/ ReAddFails
    \/ Invalidate \/ Think \/ EngineStep \/ Write \/ Written \/ WriteFails
    \/ \E what \in {"text", "word"} : Begin(what)
    \/ \E keep \in 0..Len(mem) : HostTruncate(keep)
    \/ DeleteFails \/ DeleteFromMemory \/ Reset

(* Most steps come and go elsewhere.                                       *)
LEMMA PlainSteps ==
  ASSUME WellTyped, PlainStep
  PROVE  /\ summary' = summary
         /\ pc # "summary" /\ pc' \notin {"summary", "reply", "delete"}
<1> DEFINE P == /\ summary' = summary
                /\ pc # "summary" /\ pc' \notin {"summary", "reply", "delete"}
<1> then \in {"idle", "run"}
  BY DEF WellTyped, TypeOK
<1>1. ASSUME Panic \/ SkipSummary \/ PassWord \/ Intact \/ FindBreak
             \/ ReadCursor \/ RollBack \/ RollBackFails
      PROVE  P
  BY <1>1 DEF Panic, SkipSummary, PassWord, Intact, FindBreak, ReadCursor,
     RollBack, RollBackFails, Goto
<1>2. ASSUME ReAdd \/ Explain \/ NoNotice \/ ReAddFails \/ Invalidate \/ Think
      PROVE  P
  BY <1>2 DEF ReAdd, Explain, NoNotice, ReAddFails, Invalidate, Think, Goto
<1>3. ASSUME Write \/ Written \/ WriteFails
      PROVE  P
  BY <1>3 DEF Write, Written, WriteFails, Goto
<1>4. ASSUME EngineStep
      PROVE  P
  <2>1. \E new, goto : Produce(new, goto)
    BY <1>4 DEF EngineStep, Iterate, Cancel, Suspend, Finish
  <2> QED BY <2>1 DEF Produce, Goto
<1>5. ASSUME \/ \E what \in {"text", "word"} : Begin(what)
             \/ \E keep \in 0..Len(mem) : HostTruncate(keep)
             \/ DeleteFails \/ DeleteFromMemory \/ Reset
      PROVE  P
  BY <1>5 DEF Begin, HostTruncate, Removal, DeleteFails, DeleteFromMemory,
     Reset, Goto, turnVars
<1> QED BY <1>1, <1>2, <1>3, <1>4, <1>5 DEF PlainStep

LEMMA PlacedKept == WellTyped /\ [Next]_vars => Placed'
<1> SUFFICES ASSUME WellTyped, [Next]_vars PROVE Placed'
  OBVIOUS
<1> TypeOK /\ Placed
  BY DEF WellTyped
<1>1. CASE PlainStep
  BY <1>1, PlainSteps DEF Placed
<1>2. CASE StartSummary
  BY <1>2 DEF StartSummary, Goto, Placed
<1>3. CASE ForceSummary
  BY <1>3 DEF ForceSummary, Placed, TypeOK, logVars, turnVars
<1>4. ASSUME NEW w \in {"turn", "host"}, Slide(w) \/ NoSummary(w)
      PROVE  Placed'
  <2>1. Summarised(w)
    BY <1>4 DEF Slide, NoSummary
  <2>2. CASE w = "turn"
    BY <2>1, <2>2 DEF Summarised, Placed, TypeOK
  <2>3. CASE w = "host"
    BY <2>1, <2>3 DEF Summarised, Placed, TypeOK
  <2> QED BY <2>2, <2>3
<1>5. CASE TakeWord
  <2>1. /\ summary' = summary /\ pc = "input" /\ pc' = "reply"
        /\ todo' # <<>> /\ input' = "word"
    BY <1>5 DEF TakeWord, Goto
  <2> QED BY <2>1 DEF Placed
<1>6. CASE TakeText
  <2>1. /\ summary' = summary /\ pc = "input" /\ pc' = "reply"
        /\ todo' # <<>> /\ Len(todo') = 1
    BY <1>6 DEF TakeText, Goto
  <2> QED BY <2>1 DEF Placed
<1>7. CASE Reply \/ ReplyFails
  <2>1. /\ summary' = summary /\ pc = "reply" /\ pc' \in {"idle", "repair", "reply"}
        /\ todo' = Tail(todo)
        /\ pc' = "reply" => Len(todo) # 1 /\ input' = input
    BY <1>7 DEF Reply, ReplyFails
  <2>2. todo \in Seq(Message) /\ todo # <<>> /\ (input = "text" => Len(todo) = 1)
    BY <2>1 DEF TypeOK, Placed
  <2>3. Len(todo) # 1 => Tail(todo) # <<>>
    <3>1. Len(Tail(todo)) = Len(todo) - 1 /\ Len(todo) \in Nat
      BY <2>2, HeadTailProperties
    <3>e. Len(<<>>) = 0
      OBVIOUS
    <3>2. Tail(todo) = <<>> => Len(Tail(todo)) = 0
      BY <3>e, Zenon
    <3> QED BY <3>1, <3>2
  <2> QED BY <2>1, <2>2, <2>3 DEF Placed
<1>8. ASSUME NEW i \in DOMAIN mem, BeginDelete(i)
      PROVE  Placed'
  <2>1. /\ summary' = summary /\ pc = "idle" /\ pc' = "delete" /\ mem' = mem
        /\ cursor <= Len(mem) /\ i \in DOMAIN Window /\ cut' = cursor + i - 1
    BY <1>8 DEF BeginDelete, Goto, logVars
  <2>2. mem \in Seq(Message) /\ cursor \in Nat
    BY DEF TypeOK
  <2>3. Window \in Seq(Message) /\ Len(Window) = Len(mem) - cursor
    <3>1. \A k \in cursor + 1..Len(mem) : mem[k] \in Message
      BY <2>2
    <3>2. cursor + 1 \in Int /\ Len(mem) \in Int
      BY <2>2
    <3> QED BY <2>1, <2>2, <3>1, <3>2, SubSeqProperties DEF Window, From
  <2>4. i \in 1..Len(Window)
    BY <2>1, <2>3
  <2>5. cut' <= Len(mem')
    BY <2>1, <2>2, <2>3, <2>4
  <2> QED BY <2>1, <2>5 DEF Placed
<1>9. CASE DeleteStored
  BY <1>9 DEF DeleteStored, Placed
<1>10. CASE Restart
  BY <1>10 DEF Restart, Goto, Placed
<1>11. CASE UNCHANGED vars
  BY <1>11 DEF vars, logVars, turnVars, Placed
<1> QED BY <1>1, <1>2, <1>3, <1>4, <1>5, <1>6, <1>7, <1>8, <1>9, <1>10, <1>11
        DEF Next, TurnStep, PlainStep

LEMMA PlacedInit == Init => Placed
BY DEF Init, Placed

(* Every variable keeps its type through any number of turns, failures,    *)
(* restarts and removals; only the steps that append or delete something   *)
(* have something left to do.  (runWithGoAgent, writeBackNewMessages)      *)
THEOREM TypeCorrect == Spec => []TypeOK
<1>1. Init => WellTyped
  BY TypeInit, PlacedInit DEF WellTyped
<1>2. WellTyped /\ [Next]_vars => WellTyped'
  BY TypesKept, PlacedKept DEF WellTyped
<1>3. WellTyped => TypeOK
  BY DEF WellTyped
<1> QED BY <1>1, <1>2, <1>3, PTL DEF Spec

-----------------------------------------------------------------------------
\* The messages c + 1 to n of a log, whose calls are answered among them.

AnsweredBy(log, i, call, n) ==
    \E j \in i + 1..n :
        log[j].of = call /\ \A k \in i + 1..j : log[k].role = "tool"

Answered(log, c, n) ==
    \A i \in c + 1..n : \A call \in CallsOf(log[i]) : AnsweredBy(log, i, call, n)

(* The window, message by message.                                         *)
LEMMA FromMessages ==
  ASSUME NEW log \in Seq(Message), NEW c \in Nat
  PROVE  /\ Len(From(log, c)) \in Nat
         /\ c <= Len(log) => Len(From(log, c)) = Len(log) - c
         /\ c > Len(log) => Len(From(log, c)) = 0
         /\ \A i \in 1..Len(From(log, c)) : From(log, c)[i] = log[c + i]
<1>1. \A i \in c + 1..Len(log) : log[i] \in Message
  OBVIOUS
<1>2. c + 1 \in Int /\ Len(log) \in Int /\ Len(log) \in Nat
  OBVIOUS
<1>3. /\ Len(SubSeq(log, c + 1, Len(log))) =
           IF c + 1 <= Len(log) THEN Len(log) - (c + 1) + 1 ELSE 0
      /\ \A i \in 1..Len(log) - (c + 1) + 1 :
            SubSeq(log, c + 1, Len(log))[i] = log[c + 1 + i - 1]
  BY <1>1, <1>2, SubSeqProperties
<1>4. \A i \in 1..Len(From(log, c)) : From(log, c)[i] = log[c + i]
  <2> SUFFICES ASSUME NEW i \in 1..Len(From(log, c))
               PROVE  From(log, c)[i] = log[c + i]
    OBVIOUS
  <2>1. i \in 1..Len(log) - (c + 1) + 1
    BY <1>2, <1>3 DEF From
  <2>2. c + 1 + i - 1 = c + i
    BY <2>1
  <2> QED BY <1>3, <2>1, <2>2 DEF From
<1> QED BY <1>2, <1>3, <1>4 DEF From

(* What is answered in the window is answered in the log.                  *)
LEMMA ShiftAnswered ==
  ASSUME NEW log \in Seq(Message), NEW c \in Nat, NEW n \in 0..Len(From(log, c))
  PROVE  Answered(From(log, c), 0, n) <=> Answered(log, c, c + n)
<1> DEFINE w == From(log, c)
<1>1. /\ n \in Nat /\ \A i \in 1..n : w[i] = log[c + i]
  BY FromMessages
<1> HIDE DEF w
<1>2. ASSUME Answered(w, 0, n), NEW i \in c + 1..c + n,
             NEW call \in CallsOf(log[i])
      PROVE  AnsweredBy(log, i, call, c + n)
  <2>1. i - c \in 0 + 1..n /\ w[i - c] = log[i]
    BY <1>1
  <2>2. AnsweredBy(w, i - c, call, n)
    BY <1>2, <2>1 DEF Answered
  <2>3. PICK j \in (i - c) + 1..n :
          w[j].of = call /\ \A k \in (i - c) + 1..j : w[k].role = "tool"
    BY <2>2 DEF AnsweredBy
  <2>4. c + j \in i + 1..c + n /\ log[c + j] = w[j]
    BY <1>1, <2>3
  <2>5. ASSUME NEW k \in i + 1..c + j PROVE log[k].role = "tool"
    <3>1. k - c \in (i - c) + 1..j /\ w[k - c] = log[k]
      BY <1>1, <2>3
    <3> QED BY <2>3, <3>1
  <2> QED BY <2>3, <2>4, <2>5 DEF AnsweredBy
<1>3. ASSUME Answered(log, c, c + n), NEW i \in 0 + 1..n,
             NEW call \in CallsOf(w[i])
      PROVE  AnsweredBy(w, i, call, n)
  <2>1. c + i \in c + 1..c + n /\ w[i] = log[c + i]
    BY <1>1
  <2>2. AnsweredBy(log, c + i, call, c + n)
    BY <1>3, <2>1 DEF Answered
  <2>3. PICK j \in (c + i) + 1..c + n :
          log[j].of = call /\ \A k \in (c + i) + 1..j : log[k].role = "tool"
    BY <2>2 DEF AnsweredBy
  <2>4. j - c \in i + 1..n /\ w[j - c] = log[j]
    BY <1>1, <2>3
  <2>5. ASSUME NEW k \in i + 1..j - c PROVE w[k].role = "tool"
    <3>1. c + k \in (c + i) + 1..j /\ log[c + k] = w[k]
      BY <1>1, <2>3
    <3> QED BY <2>3, <3>1
  <2> QED BY <2>3, <2>4, <2>5 DEF AnsweredBy
<1> QED BY <1>2, <1>3 DEF Answered, w

(* Only the first n messages matter.                                       *)
LEMMA SamePrefix ==
  ASSUME NEW log, NEW other, NEW c \in Nat, NEW n \in Nat,
         \A i \in 1..n : other[i] = log[i],
         Answered(log, c, n)
  PROVE  Answered(other, c, n)
<1> SUFFICES ASSUME NEW i \in c + 1..n, NEW call \in CallsOf(other[i])
             PROVE  AnsweredBy(other, i, call, n)
  BY DEF Answered
<1>1. other[i] = log[i]
  OBVIOUS
<1>2. AnsweredBy(log, i, call, n)
  BY <1>1 DEF Answered
<1>3. PICK j \in i + 1..n :
        log[j].of = call /\ \A k \in i + 1..j : log[k].role = "tool"
  BY <1>2 DEF AnsweredBy
<1>4. other[j].of = call /\ \A k \in i + 1..j : other[k].role = "tool"
  BY <1>3
<1> QED BY <1>4 DEF AnsweredBy

(* A user message makes no call.                                           *)
LEMMA UserAppended ==
  ASSUME NEW log \in Seq(Message), NEW c \in Nat, NEW m \in Message,
         m.role = "user",
         Answered(log, c, Len(log))
  PROVE  Answered(Append(log, m), c, Len(Append(log, m)))
<1> DEFINE new == Append(log, m)
           n   == Len(log)
<1>1. n \in Nat /\ Len(new) = n + 1 /\ new[n + 1] = m
  OBVIOUS
<1>2. \A i \in 1..n : new[i] = log[i]
  OBVIOUS
<1> HIDE DEF new, n
<1>3. Answered(new, c, n)
  BY <1>1, <1>2, SamePrefix DEF n
<1> SUFFICES ASSUME NEW i \in c + 1..n + 1, NEW call \in CallsOf(new[i])
             PROVE  AnsweredBy(new, i, call, n + 1)
  BY <1>1 DEF Answered, new
<1>4. i # n + 1
  BY <1>1 DEF CallsOf
<1>5. AnsweredBy(new, i, call, n)
  <2>1. i \in c + 1..n
    BY <1>1, <1>4
  <2> QED BY <1>3, <2>1 DEF Answered
<1>6. i + 1..n \subseteq i + 1..n + 1
  BY <1>1
<1> QED BY <1>5, <1>6 DEF AnsweredBy

(* What a repair keeps is answered: no answer lies past a user message.    *)
LEMMA KeptAnswered ==
  ASSUME NEW w \in Seq(Message), NEW keep \in 0..Len(w), Keeps(w, keep)
  PROVE  Answered(w, 0, keep)
<1>1. PICK b \in DOMAIN w :
        /\ FirstBreak(w, b) /\ keep < b
        /\ keep > 0 => w[keep].role = "user"
  BY DEF Keeps
<1>2. b \in 1..Len(w) /\ keep \in Nat
  OBVIOUS
<1> SUFFICES ASSUME NEW i \in 0 + 1..keep, NEW call \in CallsOf(w[i])
             PROVE  AnsweredBy(w, i, call, keep)
  BY DEF Answered
<1>3. i \in DOMAIN w /\ i < b /\ i \in 1..keep
  BY <1>1, <1>2
<1>4. i \notin Breaks(w)
  BY <1>1, <1>2, <1>3 DEF FirstBreak
<1>5. AnsweredAt(w, i)
  BY <1>3, <1>4 DEF Breaks
<1>6. PICK j \in i + 1..Len(w) :
        w[j].of = call /\ \A k \in i + 1..j : w[k].role = "tool"
  BY <1>5, Zenon DEF AnsweredAt
<1>7. w[keep].role = "user"
  BY <1>1, <1>2, <1>3
<1>8. i # keep
  BY <1>7 DEF CallsOf
<1>9. j < keep
  <2> SUFFICES ASSUME j >= keep PROVE FALSE
    BY <1>2, <1>6
  <2>1. keep \in i + 1..j
    BY <1>2, <1>3, <1>6, <1>8
  <2> QED BY <1>6, <1>7, <2>1
<1> QED BY <1>2, <1>3, <1>6, <1>9 DEF AnsweredBy

LEMMA NoBreak ==
  ASSUME NEW w \in Seq(Message), Breaks(w) = {}
  PROVE  Answered(w, 0, Len(w))
<1> SUFFICES ASSUME NEW i \in 0 + 1..Len(w), NEW call \in CallsOf(w[i])
             PROVE  AnsweredBy(w, i, call, Len(w))
  BY DEF Answered
<1>1. AnsweredAt(w, i)
  BY DEF Breaks
<1> QED BY <1>1, Zenon DEF AnsweredAt, AnsweredBy

-----------------------------------------------------------------------------
\* The invariant behind RequestAnswered.  While a repair works, a forced
\* summary may empty the window under it, so what the repair keeps is followed
\* from the index in the window to the one in the log, and past the end of it.

Upper(k) == IF k < Len(mem) THEN k ELSE Len(mem)

Sound ==
    /\ pc = "cursor" => Answered(mem, cursor, Upper(cursor + cut))
    /\ pc = "truncate" => Answered(mem, cursor, Upper(cut))
    /\ pc \in {"readd", "invalidate", "think"} => Answered(mem, cursor, Len(mem))

LEMMA EmptyAnswered ==
  ASSUME NEW log, NEW c \in Nat, NEW n \in Nat, n <= c
  PROVE  Answered(log, c, n)
BY DEF Answered

(* Truncating the log after what is answered leaves an answered window.    *)
LEMMA TruncateAnswered ==
  ASSUME TypeOK, cut < Len(mem), Answered(mem, cursor, Upper(cut)),
         TruncateMemory(cut)
  PROVE  Answered(mem', cursor', Len(mem'))
<1>1. mem \in Seq(Message) /\ cut \in Nat /\ cursor \in Nat /\ Len(mem) \in Nat
  BY DEF TypeOK
<1>2. mem' = SubSeq(mem, 1, cut) /\ cursor' = IF cursor > cut THEN cut ELSE cursor
  BY DEF TruncateMemory, Upto
<1>3. Len(mem') = cut /\ \A i \in 1..cut : mem'[i] = mem[i]
  BY <1>1, <1>2
<1>4. Answered(mem, cursor, cut)
  BY DEF Upper
<1>5. CASE cursor > cut
  BY <1>1, <1>2, <1>3, <1>5, EmptyAnswered
<1>6. CASE ~(cursor > cut)
  <2>1. Answered(mem', cursor, cut)
    BY <1>1, <1>3, <1>4, SamePrefix
  <2> QED BY <1>2, <1>3, <1>6, <2>1
<1> QED BY <1>5, <1>6

(* The steps of a repair.                                                  *)
LEMMA SoundAtRepair ==
  ASSUME WellTyped, Sound,
         \/ Intact \/ FindBreak \/ ReadCursor \/ RollBack \/ RollBackFails
         \/ ReAdd \/ Explain \/ NoNotice \/ ReAddFails \/ Invalidate
  PROVE  Sound'
<1> TypeOK
  BY DEF WellTyped
<1>t. /\ mem \in Seq(Message) /\ cursor \in Nat /\ Len(mem) \in Nat
      /\ cut \in Nat
  BY DEF TypeOK
<1>w. /\ Window = From(mem, cursor) /\ Window \in Seq(Message)
      /\ Len(Window) \in Nat
      /\ cursor <= Len(mem) => Len(Window) = Len(mem) - cursor
      /\ cursor > Len(mem) => Len(Window) = 0
  BY <1>t, LogsTyped, FromMessages DEF Window
<1>1. CASE Intact
  <2>1. Answered(Window, 0, Len(Window))
    BY <1>1, <1>w, NoBreak DEF Intact
  <2>2. Answered(mem, cursor, cursor + Len(Window))
    BY <1>t, <1>w, <2>1, ShiftAnswered
  <2>3. Answered(mem, cursor, Len(mem))
    <3>1. CASE cursor <= Len(mem)
      BY <1>t, <1>w, <2>2, <3>1
    <3>2. CASE cursor > Len(mem)
      BY <1>t, <3>2, EmptyAnswered
    <3> QED BY <1>t, <3>1, <3>2
  <2> QED BY <1>1, <2>3 DEF Intact, Goto, Sound, logVars
<1>2. CASE FindBreak
  <2>1. PICK keep \in 0..Len(Window) : Keeps(Window, keep) /\ cut' = keep
    BY <1>2 DEF FindBreak
  <2>2. Answered(mem, cursor, cursor + keep)
    BY <1>t, <1>w, <2>1, KeptAnswered, ShiftAnswered
  <2>3. Answered(mem, cursor, IF cursor + keep < Len(mem) THEN cursor + keep
                              ELSE Len(mem))
    <3>1. CASE cursor <= Len(mem)
      BY <1>t, <1>w, <2>1, <2>2, <3>1
    <3>2. CASE cursor > Len(mem)
      BY <1>t, <1>w, <2>1, <3>2, EmptyAnswered
    <3> QED BY <1>t, <3>1, <3>2
  <2> QED BY <1>2, <2>1, <2>3 DEF FindBreak, Goto, Sound, Upper, logVars
<1>3. CASE ReadCursor
  BY <1>3 DEF ReadCursor, Goto, Sound, Upper, logVars
<1>4. CASE RollBack
  <2>1. pc = "truncate" /\ pc' = "readd" /\ Truncate(cut)
    BY <1>4 DEF RollBack, Goto
  <2>2. Answered(mem, cursor, Upper(cut))
    BY <2>1 DEF Sound
  <2>3. Answered(mem', cursor', Len(mem'))
    <3>1. CASE cut >= Len(mem)
      BY <1>t, <2>1, <2>2, <3>1 DEF Truncate, Upper, logVars
    <3>2. CASE cut < Len(mem)
      BY <1>t, <2>1, <2>2, <3>2, TruncateAnswered DEF Truncate
    <3> QED BY <1>t, <3>1, <3>2
  <2> QED BY <2>1, <2>3 DEF Sound
<1>5. CASE RollBackFails
  <2>1. /\ pc = "truncate" /\ pc' = "think" /\ cut < Len(mem)
        /\ TruncateMemory(cut)
    BY <1>5 DEF RollBackFails, Goto
  <2>2. Answered(mem, cursor, Upper(cut))
    BY <2>1 DEF Sound
  <2> QED BY <2>1, <2>2, TruncateAnswered DEF Sound
<1>6. ASSUME NEW m \in Message, m.role = "user", Put(m),
             pc = "readd", pc' \in {"readd", "invalidate"}
      PROVE  Sound'
  <2>1. mem' = Append(mem, m) /\ cursor' = cursor
    BY <1>6 DEF Put
  <2>2. Answered(mem', cursor', Len(mem'))
    BY <1>t, <1>6, <2>1, UserAppended DEF Sound
  <2> QED BY <1>6, <2>2 DEF Sound
<1>7. CASE ReAdd
  <2>1. PICK i \in FirstUser(todo) : Put(User(todo[i].n))
    BY <1>7 DEF ReAdd
  <2>t. todo \in Seq(Message)
    BY DEF TypeOK
  <2>2. i \in 1..Len(todo) /\ todo[i] \in Message
    BY <2>t, <2>1 DEF FirstUser, Users
  <2>3. todo[i].n \in Nat
    BY <2>2 DEF Message
  <2>4. User(todo[i].n) \in Message /\ User(todo[i].n).role = "user"
    BY <2>3, MessagesTyped DEF User
  <2>5. pc = "readd" /\ pc' = "readd"
    BY <1>7 DEF ReAdd
  <2> QED BY <1>6, <2>1, <2>4, <2>5
<1>8. CASE Explain
  <2>1. User(next) \in Message /\ User(next).role = "user"
    BY MessagesTyped DEF User, TypeOK
  <2>2. Put(User(next)) /\ pc = "readd" /\ pc' = "invalidate"
    BY <1>8 DEF Explain, Goto
  <2> QED BY <1>6, <2>1, <2>2
<1>9. CASE NoNotice \/ ReAddFails \/ Invalidate
  <2>1. /\ pc \in {"readd", "invalidate"} /\ pc' \in {"invalidate", "think"}
        /\ mem' = mem /\ cursor' = cursor
    BY <1>9 DEF NoNotice, ReAddFails, Invalidate, Goto, logVars
  <2> QED BY <2>1 DEF Sound
<1> QED BY <1>1, <1>2, <1>3, <1>4, <1>5, <1>7, <1>8, <1>9

Elsewhere ==
    \/ Panic \/ SkipSummary \/ StartSummary \/ TakeWord \/ PassWord \/ TakeText
    \/ Reply \/ ReplyFails \/ Think \/ EngineStep \/ Write \/ Written
    \/ WriteFails
    \/ \E what \in {"text", "word"} : Begin(what)
    \/ \E keep \in 0..Len(mem) : HostTruncate(keep)
    \/ \E i \in DOMAIN mem : BeginDelete(i)
    \/ DeleteStored \/ DeleteFails \/ DeleteFromMemory \/ Reset \/ Restart

LEMMA SoundElsewhere ==
  ASSUME WellTyped, Elsewhere
  PROVE  pc' \notin {"cursor", "truncate", "readd", "invalidate", "think"}
<1> DEFINE P == pc' \notin {"cursor", "truncate", "readd", "invalidate", "think"}
<1> then \in {"idle", "run"}
  BY DEF WellTyped, TypeOK
<1>1. ASSUME Panic \/ SkipSummary \/ StartSummary \/ TakeWord \/ PassWord
             \/ TakeText
      PROVE  P
  BY <1>1 DEF Panic, SkipSummary, StartSummary, TakeWord, PassWord, TakeText, Goto
<1>2. ASSUME Reply \/ ReplyFails \/ Think \/ Write \/ Written \/ WriteFails
      PROVE  P
  BY <1>2 DEF Reply, ReplyFails, Think, Write, Written, WriteFails, Goto
<1>3. ASSUME EngineStep
      PROVE  P
  <2>1. \E new, goto : Produce(new, goto)
    BY <1>3 DEF EngineStep, Iterate, Cancel, Suspend, Finish
  <2> QED BY <2>1 DEF Produce, Goto
<1>4. ASSUME \/ \E what \in {"text", "word"} : Begin(what)
             \/ \E keep \in 0..Len(mem) : HostTruncate(keep)
             \/ \E i \in DOMAIN mem : BeginDelete(i)
      PROVE  P
  BY <1>4 DEF Begin, HostTruncate, Removal, BeginDelete, Goto, turnVars
<1>5. ASSUME \/ DeleteStored \/ DeleteFails \/ DeleteFromMemory \/ Reset
             \/ Restart
      PROVE  P
  BY <1>5 DEF DeleteStored, DeleteFails, DeleteFromMemory, Reset, Removal,
     Restart, Goto, turnVars
<1> QED BY <1>1, <1>2, <1>3, <1>4, <1>5 DEF Elsewhere

LEMMA SoundKept == WellTyped /\ Sound /\ [Next]_vars => Sound'
<1> SUFFICES ASSUME WellTyped, Sound, [Next]_vars PROVE Sound'
  OBVIOUS
<1>t. /\ mem \in Seq(Message) /\ cursor \in Nat /\ Len(mem) \in Nat
      /\ cut \in Nat
  BY DEF WellTyped, TypeOK
<1>1. CASE Elsewhere
  BY <1>1, SoundElsewhere DEF Sound
<1>2. CASE \/ Intact \/ FindBreak \/ ReadCursor \/ RollBack \/ RollBackFails
           \/ ReAdd \/ Explain \/ NoNotice \/ ReAddFails \/ Invalidate
  BY <1>2, SoundAtRepair
<1>3. CASE ForceSummary \/ UNCHANGED vars
  BY <1>3 DEF ForceSummary, vars, logVars, turnVars, Sound, Upper
<1>4. ASSUME NEW w \in {"turn", "host"}, Slide(w) \/ NoSummary(w)
      PROVE  Sound'
  <2>1. /\ mem' = mem /\ cut' = cut
        /\ pc' = pc \/ pc' = "input"
        /\ cursor' = cursor \/ cursor' = Len(mem)
    BY <1>4 DEF Slide, NoSummary, Summarised
  <2>2. CASE cursor' = cursor
    BY <2>1, <2>2 DEF Sound, Upper
  <2>3. CASE cursor' = Len(mem)
    <3>1. \A n \in Nat : n <= Len(mem) => Answered(mem', cursor', n)
      BY <1>t, <2>1, <2>3, EmptyAnswered
    <3> QED BY <1>t, <2>1, <2>3, <3>1 DEF Sound, Upper
  <2> QED BY <2>1, <2>2, <2>3
<1> QED BY <1>1, <1>2, <1>3, <1>4 DEF Next, TurnStep, Elsewhere

(* Whatever failed, was stopped, crashed, was summarised or removed before *)
(* and during the turn: the request the LLM gets has no call without its   *)
(* answer.  (repairToolPairingBreak)                                       *)
THEOREM RequestsAnswered == Spec => []RequestAnswered
<1>1. Init => WellTyped /\ Sound
  BY TypeInit, PlacedInit DEF WellTyped, Init, Sound
<1>2. WellTyped /\ Sound /\ [Next]_vars => WellTyped' /\ Sound'
  BY TypesKept, PlacedKept, SoundKept DEF WellTyped
<1>3. WellTyped /\ Sound => RequestAnswered
  <2> SUFFICES ASSUME WellTyped, Sound, pc = "think"
               PROVE  CallsAnswered(Window)
    BY DEF RequestAnswered
  <2>1. mem \in Seq(Message) /\ cursor \in Nat /\ Len(mem) \in Nat
    BY DEF WellTyped, TypeOK
  <2>2. /\ Window = From(mem, cursor) /\ Window \in Seq(Message)
        /\ Len(Window) \in Nat
        /\ cursor <= Len(mem) => Len(Window) = Len(mem) - cursor
        /\ cursor > Len(mem) => Len(Window) = 0
    BY <2>1, LogsTyped, FromMessages DEF Window
  <2>3. Answered(mem, cursor, Len(mem))
    BY DEF Sound
  <2>4. Answered(mem, cursor, cursor + Len(Window))
    <3>1. CASE cursor <= Len(mem)
      BY <2>1, <2>2, <2>3, <3>1
    <3>2. CASE cursor > Len(mem)
      BY <2>1, <2>2, <3>2, EmptyAnswered
    <3> QED BY <2>1, <3>1, <3>2
  <2>5. Answered(Window, 0, Len(Window))
    BY <2>1, <2>2, <2>4, ShiftAnswered
  <2> HIDE DEF Window
  <2>6. ASSUME NEW i \in DOMAIN Window, NEW call \in CallsOf(Window[i])
        PROVE  CallAnswered(Window, i, call)
    <3>1. i \in 0 + 1..Len(Window)
      BY <2>2
    <3> QED BY <2>5, <3>1 DEF Answered, AnsweredBy, CallAnswered
  <2> QED BY <2>6 DEF CallsAnswered
<1> QED BY <1>1, <1>2, <1>3, PTL DEF Spec

-----------------------------------------------------------------------------
\* While a round is deleted, messages of its seconds are missing in the store,
\* and there are no other messages of these seconds.  What the store still has
\* of the round can be paired with messages it is yet to be asked to delete.

(* The log without the k messages after the first c.                       *)
Skips(log, short, c, k) ==
    /\ Len(short) = Len(log) - k
    /\ \A p \in 1..Len(short) : short[p] = IF p <= c THEN log[p] ELSE log[p + k]

(* The log with l messages in the place of these k.                        *)
Replaces(log, short, c, k, l) ==
    /\ Len(short) = Len(log) - k + l
    /\ \A p \in 1..c : short[p] = log[p]
    /\ \A p \in 1..Len(short) : c + l < p => short[p] = log[p + k - l]

Pairing(f, l, n) ==
    /\ f \in [1..l -> 1..n]
    /\ \A i, j \in 1..l : f[i] = f[j] => i = j

Paired(log, c, l, list, f) ==
    /\ Pairing(f, l, Len(list))
    /\ \A i \in 1..l : SameSecond(log[c + i].n, list[f[i]].n)

(* No message outside the round shares a second with one of the list.      *)
OwnSeconds(list) ==
    \A p \in 1..Len(mem), i \in 1..Len(list) :
        p <= cut \/ cut + Len(out) < p => ~SameSecond(mem[p].n, list[i].n)

Deleting ==
    /\ cut + Len(out) <= Len(mem)
    /\ \A i \in 1..Len(out) : out[i] = mem[cut + i]
    /\ OwnSeconds(todo)
    /\ \A p \in 1..Len(stored) : stored[p].n \in Numbers(mem)
    /\ \E l \in 0..Len(out) :
          /\ Replaces(mem, stored, cut, Len(out), l)
          /\ \E f : Paired(stored, cut, l, todo, f)

Alike == mishaps \cap {"apart", "shared"} = {}

Agreeing ==
    Alike =>
        /\ pc # "delete" => mem = stored
        /\ pc = "delete" => Deleting

LEMMA InNumbers ==
  ASSUME NEW log \in Seq(Message), NEW n
  PROVE  n \in Numbers(log) <=> \E i \in 1..Len(log) : log[i].n = n
<1>1. DOMAIN log = 1..Len(log)
  OBVIOUS
<1> QED BY <1>1 DEF Numbers

(* Taking out messages a to b of a log.                                    *)
LEMMA WithoutMessages ==
  ASSUME NEW log \in Seq(Message), NEW c \in Nat, NEW k \in Nat, c + k <= Len(log)
  PROVE  /\ Without(log, c + 1, c + k) \in Seq(Message)
         /\ Skips(log, Without(log, c + 1, c + k), c, k)
<1> DEFINE head == SubSeq(log, 1, c)
           tail == From(log, c + k)
<1>1. /\ head \in Seq(Message) /\ Len(head) = c
      /\ \A p \in 1..c : head[p] = log[p]
  <2>1. \A p \in 1..c : log[p] \in Message
    OBVIOUS
  <2>2. /\ head \in Seq(Message) /\ Len(head) = IF 1 <= c THEN c - 1 + 1 ELSE 0
        /\ \A p \in 1..c - 1 + 1 : head[p] = log[1 + p - 1]
    BY <2>1, SubSeqProperties
  <2>3. c - 1 + 1 = c /\ \A p \in 1..c : 1 + p - 1 = p
    OBVIOUS
  <2> HIDE DEF head
  <2> QED BY <2>2, <2>3
<1>2. /\ tail \in Seq(Message) /\ Len(tail) = Len(log) - (c + k)
      /\ \A p \in 1..Len(tail) : tail[p] = log[c + k + p]
  <2>1. c + k \in Nat
    OBVIOUS
  <2> QED BY <2>1, LogsTyped, FromMessages
<1>3. Without(log, c + 1, c + k) = head \o tail
  <2>1. (c + 1) - 1 = c
    OBVIOUS
  <2> QED BY <2>1 DEF Without
<1>n. Len(log) \in Nat
  OBVIOUS
<1> HIDE DEF head, tail
<1>4. head \o tail \in Seq(Message) /\ Len(head \o tail) = Len(log) - k
  <2>1. /\ head \o tail \in Seq(Message)
        /\ Len(head \o tail) = Len(head) + Len(tail)
    BY <1>1, <1>2, ConcatProperties
  <2> QED BY <1>1, <1>2, <1>n, <2>1
<1>5. ASSUME NEW p \in 1..Len(head \o tail)
      PROVE  (head \o tail)[p] = IF p <= c THEN log[p] ELSE log[p + k]
  <2>1. (head \o tail)[p] = IF p <= Len(head) THEN head[p] ELSE tail[p - Len(head)]
    BY <1>1, <1>2, ConcatProperties
  <2>2. CASE p <= c
    BY <1>1, <2>1, <2>2
  <2>3. CASE p > c
    <3>1. p - c \in 1..Len(tail) /\ c + k + (p - c) = p + k
      BY <1>2, <1>4, <1>n, <2>3
    <3>2. tail[p - c] = log[c + k + (p - c)]
      BY <1>2, <3>1
    <3> QED BY <1>1, <2>1, <2>3, <3>1, <3>2
  <2> QED BY <2>2, <2>3
<1> QED BY <1>3, <1>4, <1>5 DEF Skips

LEMMA SkipsDetermine ==
  ASSUME NEW log, NEW a \in Seq(Message), NEW b \in Seq(Message), NEW c, NEW k,
         Skips(log, a, c, k), Skips(log, b, c, k)
  PROVE  a = b
<1>1. Len(a) = Len(b) /\ \A p \in 1..Len(a) : a[p] = b[p]
  BY DEF Skips
<1> QED BY <1>1, SeqEqual

-----------------------------------------------------------------------------
\* Deleting one message of a second from the store, and the round from memory.

LEMMA SecondsAlike ==
  ASSUME NEW a \in Nat, NEW b \in Nat, NEW c \in Nat, NEW d \in Nat
  PROVE  /\ SameSecond(a, a)
         /\ SameSecond(a, b) /\ SameSecond(c, b) /\ SameSecond(c, d) =>
                SameSecond(a, d)
BY Zenon DEF SameSecond

(* A pairing without what is paired with the first, or without one message. *)
LEMMA FirstUnpaired ==
  ASSUME NEW l \in Nat, NEW n \in Nat, NEW f, Pairing(f, l, n),
         \A i \in 1..l : f[i] # 1
  PROVE  \E g : Pairing(g, l, n - 1) /\ \A i \in 1..l : g[i] + 1 = f[i]
<1> DEFINE g == [i \in 1..l |-> f[i] - 1]
<1>f. f \in [1..l -> 1..n] /\ \A i, j \in 1..l : f[i] = f[j] => i = j
  BY DEF Pairing
<1>1. \A i \in 1..l : f[i] \in 1..n /\ f[i] # 1
  BY <1>f
<1>2. \A i \in 1..l : g[i] = f[i] - 1 /\ g[i] \in 1..n - 1 /\ g[i] + 1 = f[i]
  BY <1>1
<1>3. g \in [1..l -> 1..n - 1]
  BY <1>2
<1> HIDE DEF g
<1>4. \A i, j \in 1..l : g[i] = g[j] => i = j
  BY <1>f, <1>2
<1>5. Pairing(g, l, n - 1)
  BY <1>3, <1>4 DEF Pairing
<1> QED BY <1>2, <1>5

(* The places of what is left when place q of l is taken out.              *)
Past(q, i) == IF i < q THEN i ELSE i + 1

LEMMA OneUnpaired ==
  ASSUME NEW l \in Nat, NEW n \in Nat, NEW f, Pairing(f, l, n), NEW q \in 1..l
  PROVE  \E g : /\ Pairing(g, l - 1, n)
                /\ \A i \in 1..l - 1 : g[i] = f[Past(q, i)] /\ g[i] # f[q]
<1> DEFINE g == [i \in 1..l - 1 |-> f[Past(q, i)]]
<1>f. f \in [1..l -> 1..n] /\ \A i, j \in 1..l : f[i] = f[j] => i = j
  BY DEF Pairing
<1>1. \A i \in 1..l - 1 : Past(q, i) \in 1..l /\ Past(q, i) # q
  BY DEF Past
<1>2. \A i, j \in 1..l - 1 : Past(q, i) = Past(q, j) => i = j
  BY DEF Past
<1>3. \A i \in 1..l - 1 : g[i] = f[Past(q, i)]
  OBVIOUS
<1>4. g \in [1..l - 1 -> 1..n]
  BY <1>f, <1>1
<1> HIDE DEF g
<1>5. \A i, j \in 1..l - 1 : g[i] = g[j] => i = j
  BY <1>f, <1>1, <1>2, <1>3
<1>6. \A i \in 1..l - 1 : g[i] # f[q]
  BY <1>f, <1>1, <1>3
<1>7. Pairing(g, l - 1, n)
  BY <1>4, <1>5 DEF Pairing
<1> QED BY <1>3, <1>6, <1>7

(* The same when the first of the list goes too: what was paired with it   *)
(* gets what was paired with the message that is gone.                     *)
LEMMA BothUnpaired ==
  ASSUME NEW l \in Nat, NEW n \in Nat, NEW f, Pairing(f, l, n), NEW q \in 1..l
  PROVE  \E g :
            /\ Pairing(g, l - 1, n - 1)
            /\ \A i \in 1..l - 1 :
                  g[i] + 1 = IF f[Past(q, i)] = 1 THEN f[q] ELSE f[Past(q, i)]
<1>1. PICK h : /\ Pairing(h, l - 1, n)
               /\ \A i \in 1..l - 1 : h[i] = f[Past(q, i)] /\ h[i] # f[q]
  BY OneUnpaired
<1>h. h \in [1..l - 1 -> 1..n] /\ \A i, j \in 1..l - 1 : h[i] = h[j] => i = j
  BY <1>1 DEF Pairing
<1> DEFINE k == [i \in 1..l - 1 |-> IF h[i] = 1 THEN f[q] ELSE h[i]]
<1>2. f[q] \in 1..n
  BY DEF Pairing
<1>3. \A i \in 1..l - 1 : k[i] = IF h[i] = 1 THEN f[q] ELSE h[i]
  OBVIOUS
<1>4. k \in [1..l - 1 -> 1..n]
  BY <1>h, <1>2
<1> HIDE DEF k
<1>5. \A i, j \in 1..l - 1 : k[i] = k[j] => i = j
  BY <1>1, <1>h, <1>3
<1>6. \A i \in 1..l - 1 : k[i] # 1
  BY <1>1, <1>3
<1>7. l - 1 \in Nat /\ Pairing(k, l - 1, n)
  BY <1>4, <1>5 DEF Pairing
<1>8. PICK g : /\ Pairing(g, l - 1, n - 1)
               /\ \A i \in 1..l - 1 : g[i] + 1 = k[i]
  BY <1>6, <1>7, FirstUnpaired
<1> QED BY <1>1, <1>3, <1>8

(* Taking one of the l messages out.                                       *)
LEMMA ReplacesOneLess ==
  ASSUME NEW log \in Seq(Message), NEW short \in Seq(Message),
         NEW c \in Nat, NEW k \in Nat, NEW l \in Nat, l <= k,
         c + k <= Len(log), Replaces(log, short, c, k, l), NEW q \in 1..l
  PROVE  /\ Without(short, c + q, c + q) \in Seq(Message)
         /\ Replaces(log, Without(short, c + q, c + q), c, k, l - 1)
         /\ \A i \in 1..l - 1 :
               Without(short, c + q, c + q)[c + i] = short[c + Past(q, i)]
         /\ Numbers(Without(short, c + q, c + q)) \subseteq Numbers(short)
<1> DEFINE s == Without(short, c + q, c + q)
           b == c + q - 1
<1>1. /\ Len(log) \in Nat /\ Len(short) \in Nat
      /\ Len(short) = Len(log) - k + l
      /\ \A p \in 1..c : short[p] = log[p]
      /\ \A p \in 1..Len(short) : c + l < p => short[p] = log[p + k - l]
  BY DEF Replaces
<1>2. b \in Nat /\ b + 1 = c + q /\ b + 1 <= Len(short) /\ b < c + l /\ c <= b
  BY <1>1
<1> HIDE DEF b
<1>3. s \in Seq(Message) /\ Skips(short, s, b, 1)
  <2>1. Without(short, b + 1, b + 1) \in Seq(Message)
        /\ Skips(short, Without(short, b + 1, b + 1), b, 1)
    BY <1>2, WithoutMessages
  <2> QED BY <1>2, <2>1
<1>4. /\ Len(s) = Len(short) - 1
      /\ \A p \in 1..Len(s) : s[p] = IF p <= b THEN short[p] ELSE short[p + 1]
  BY <1>3 DEF Skips
<1> HIDE DEF s
<1>5. Replaces(log, s, c, k, l - 1)
  <2>1. Len(s) = Len(log) - k + (l - 1)
    BY <1>1, <1>4
  <2>2. ASSUME NEW p \in 1..c PROVE s[p] = log[p]
    <3>1. p \in 1..Len(s) /\ p <= b
      BY <1>1, <1>2, <1>4
    <3> QED BY <1>1, <1>4, <3>1
  <2>3. ASSUME NEW p \in 1..Len(s), c + (l - 1) < p PROVE s[p] = log[p + k - (l - 1)]
    <3>1. /\ ~(p <= b) /\ p + 1 \in 1..Len(short) /\ c + l < p + 1
          /\ (p + 1) + k - l = p + k - (l - 1)
      BY <1>1, <1>2, <1>4, <2>3
    <3>2. s[p] = short[p + 1] /\ short[p + 1] = log[(p + 1) + k - l]
      BY <1>1, <1>4, <3>1
    <3> QED BY <3>1, <3>2
  <2> QED BY <2>1, <2>2, <2>3 DEF Replaces
<1>6. ASSUME NEW i \in 1..l - 1 PROVE s[c + i] = short[c + Past(q, i)]
  <2>1. c + i \in 1..Len(s) /\ (c + i <= b <=> i < q)
    BY <1>1, <1>2, <1>4
  <2>2. (c + i) + 1 = c + (i + 1)
    OBVIOUS
  <2> QED BY <1>4, <2>1, <2>2 DEF Past
<1>7. ASSUME NEW n \in Numbers(s) PROVE n \in Numbers(short)
  <2>1. PICK p \in 1..Len(s) : s[p].n = n
    BY <1>3, InNumbers
  <2>2. p \in 1..Len(short) /\ p + 1 \in 1..Len(short)
    BY <1>1, <1>4
  <2>3. s[p] = short[p] \/ s[p] = short[p + 1]
    BY <1>4
  <2> QED BY <2>1, <2>2, <2>3, InNumbers
<1> QED BY <1>3, <1>5, <1>6, <1>7 DEF s

LEMMA DeletesOne ==
  ASSUME WellTyped, Deleting, DeleteStored
  PROVE  Deleting'
<1>t. /\ mem \in Seq(Message) /\ stored \in Seq(Message) /\ todo \in Seq(Message)
      /\ out \in Seq(Message) /\ cut \in Nat /\ todo # <<>>
  BY DEF WellTyped, TypeOK, DeleteStored
<1>1. mem' = mem /\ cut' = cut /\ out' = out
  BY DEF DeleteStored
<1>2. /\ Len(mem) \in Nat /\ Len(out) \in Nat /\ Len(todo) \in Nat \ {0}
      /\ Len(stored) \in Nat /\ Len(Tail(todo)) = Len(todo) - 1
      /\ \A i \in 1..Len(todo) - 1 : Tail(todo)[i] = todo[i + 1]
      /\ Head(todo) = todo[1] /\ 1 \in 1..Len(todo)
  BY <1>t, HeadTailProperties, EmptySeq
<1>3. PICK l \in 0..Len(out) :
         /\ Replaces(mem, stored, cut, Len(out), l)
         /\ \E f : Paired(stored, cut, l, todo, f)
  BY DEF Deleting
<1>4. PICK f : Paired(stored, cut, l, todo, f)
  BY <1>3
<1>5. /\ Pairing(f, l, Len(todo)) /\ \A i \in 1..l : f[i] \in 1..Len(todo)
      /\ \A i \in 1..l : SameSecond(stored[cut + i].n, todo[f[i]].n)
  BY <1>4 DEF Paired, Pairing
<1>6. /\ l \in Nat /\ l <= Len(out) /\ cut + Len(out) <= Len(mem)
      /\ Len(stored) = Len(mem) - Len(out) + l
      /\ \A p \in 1..cut : stored[p] = mem[p]
      /\ \A p \in 1..Len(stored) : cut + l < p => stored[p] = mem[p + Len(out) - l]
  BY <1>2, <1>3 DEF Deleting, Replaces
<1>n. /\ \A i \in 1..l : cut + i \in 1..Len(stored) /\ stored[cut + i].n \in Nat
      /\ \A i \in 1..Len(todo) : todo[i].n \in Nat
      /\ \A p \in 1..Len(stored) : stored[p].n \in Nat
  <2>1. \A m \in Message : m.n \in Nat
    BY DEF Message
  <2>2. \A i \in 1..l : cut + i \in 1..Len(stored)
    BY <1>t, <1>2, <1>6
  <2>3. /\ \A p \in 1..Len(stored) : stored[p] \in Message
        /\ \A i \in 1..Len(todo) : todo[i] \in Message
    BY <1>t
  <2> QED BY <2>1, <2>2, <2>3
<1> DEFINE places == {p \in DOMAIN stored : SameSecond(stored[p].n, Head(todo).n)}
<1>p. /\ DOMAIN stored = 1..Len(stored)
      /\ \A p \in 1..Len(stored) :
            p \in places <=> SameSecond(stored[p].n, todo[1].n)
  BY <1>t, <1>2
<1>7. /\ places = {} => stored' = stored /\ todo' = Tail(todo)
      /\ places # {} => /\ \E p \in places : stored' = Without(stored, p, p)
                        /\ todo' = todo \/ todo' = Tail(todo)
  BY Zenon DEF DeleteStored
<1>8. places \subseteq 1..Len(stored)
  BY <1>p
<1> HIDE DEF places
<1>9. OwnSeconds(todo')
  <2>1. OwnSeconds(todo)
    BY DEF Deleting
  <2>2. \A i \in 1..Len(todo) - 1 : i + 1 \in 1..Len(todo)
    BY <1>2
  <2>3. OwnSeconds(Tail(todo))
    BY <1>2, <2>1, <2>2 DEF OwnSeconds
  <2>4. todo' = todo \/ todo' = Tail(todo)
    BY <1>7
  <2> QED BY <2>1, <2>3, <2>4
<1>r. \A i \in 1..Len(out) : out[i] = mem[cut + i]
  BY DEF Deleting
<1>10. ASSUME places = {}
       PROVE  Deleting'
  <2>1. \A i \in 1..l : f[i] # 1
    BY <1>5, <1>n, <1>p, <1>10
  <2>2. PICK g : /\ Pairing(g, l, Len(todo) - 1)
                 /\ \A i \in 1..l : g[i] + 1 = f[i]
    <3>1. Len(todo) \in Nat /\ l \in Nat /\ Pairing(f, l, Len(todo))
      BY <1>2, <1>5, <1>6
    <3> QED BY <2>1, <3>1, FirstUnpaired, Zenon
  <2>3. ASSUME NEW i \in 1..l PROVE SameSecond(stored[cut + i].n, Tail(todo)[g[i]].n)
    <3>1. g[i] \in 1..Len(todo) - 1 /\ g[i] + 1 = f[i]
      BY <2>2 DEF Pairing
    <3>2. Tail(todo)[g[i]] = todo[f[i]]
      BY <1>2, <3>1
    <3> QED BY <1>5, <3>2
  <2>4. Paired(stored, cut, l, Tail(todo), g)
    BY <1>2, <2>2, <2>3 DEF Paired
  <2>5. \A p \in 1..Len(stored) : stored[p].n \in Numbers(mem)
    BY DEF Deleting
  <2>6. stored' = stored /\ todo' = Tail(todo)
    BY <1>7, <1>10
  <2>7. \E h : Paired(stored', cut, l, todo', h)
    BY <2>4, <2>6
  <2>8. \E k \in 0..Len(out) : /\ Replaces(mem, stored', cut, Len(out), k)
                               /\ \E h : Paired(stored', cut, k, todo', h)
    BY <1>3, <2>6, <2>7
  <2> QED BY <1>1, <1>6, <1>9, <1>r, <2>5, <2>6, <2>8 DEF Deleting, Numbers, OwnSeconds
<1>11. ASSUME NEW p \in places, stored' = Without(stored, p, p)
       PROVE  Deleting'
  <2>1. p \in 1..Len(stored) /\ SameSecond(stored[p].n, todo[1].n)
    BY <1>8, <1>11, <1>p
  <2>2. cut < p /\ p <= cut + l
    <3>1. OwnSeconds(todo)
      BY DEF Deleting
    <3>2. CASE p <= cut
      <4>1. p \in 1..Len(mem) /\ p \in 1..cut
        BY <1>t, <1>2, <1>6, <2>1, <3>2
      <4>2. stored[p] = mem[p]
        BY <1>6, <4>1
      <4> QED BY <1>2, <2>1, <3>1, <3>2, <4>1, <4>2 DEF OwnSeconds
    <3>3. CASE cut + l < p
      <4> DEFINE o == p + Len(out) - l
      <4>1. o \in 1..Len(mem) /\ cut + Len(out) < o
        BY <1>t, <1>2, <1>6, <2>1, <3>3
      <4>2. stored[p] = mem[o]
        BY <1>6, <2>1, <3>3
      <4> HIDE DEF o
      <4> QED BY <1>2, <2>1, <3>1, <4>1, <4>2 DEF OwnSeconds
    <3> QED BY <1>t, <1>6, <2>1, <3>2, <3>3
  <2> DEFINE q == p - cut
  <2>3. q \in 1..l /\ cut + q = p
    BY <1>t, <1>6, <2>1, <2>2
  <2> HIDE DEF q
  <2>4. /\ stored' \in Seq(Message)
        /\ Replaces(mem, stored', cut, Len(out), l - 1)
        /\ \A i \in 1..l - 1 : stored'[cut + i] = stored[cut + Past(q, i)]
        /\ Numbers(stored') \subseteq Numbers(stored)
    <3>1. stored' = Without(stored, cut + q, cut + q)
      BY <1>11, <2>3
    <3>2. Len(out) \in Nat /\ Replaces(mem, stored, cut, Len(out), l)
      BY <1>2, <1>3
    <3>3. LET s == Without(stored, cut + q, cut + q)
          IN  /\ s \in Seq(Message)
              /\ Replaces(mem, s, cut, Len(out), l - 1)
              /\ \A i \in 1..l - 1 : s[cut + i] = stored[cut + Past(q, i)]
              /\ Numbers(s) \subseteq Numbers(stored)
      BY <1>t, <1>6, <2>3, <3>2, ReplacesOneLess
    <3> QED BY <3>1, <3>3
  <2>5. \A i \in 1..l - 1 : Past(q, i) \in 1..l
    BY <1>6, <2>3 DEF Past
  <2>6. \E h : Paired(stored', cut, l - 1, todo', h)
    <3>1. ASSUME todo' = todo PROVE \E h : Paired(stored', cut, l - 1, todo, h)
      <4>0. /\ Len(todo) \in Nat /\ l \in Nat /\ q \in 1..l
            /\ Pairing(f, l, Len(todo))
        BY <1>2, <1>5, <1>6, <2>3
      <4>1. PICK g : /\ Pairing(g, l - 1, Len(todo))
                     /\ \A i \in 1..l - 1 : g[i] = f[Past(q, i)] /\ g[i] # f[q]
        BY <4>0, OneUnpaired
      <4>2. \A i \in 1..l - 1 : SameSecond(stored'[cut + i].n, todo[g[i]].n)
        BY <1>5, <2>4, <2>5, <4>1
      <4>3. Paired(stored', cut, l - 1, todo, g)
        BY <4>1, <4>2 DEF Paired
      <4> QED BY <4>3
    <3>2. ASSUME todo' = Tail(todo)
          PROVE  \E h : Paired(stored', cut, l - 1, Tail(todo), h)
      <4>0. /\ Len(todo) \in Nat /\ l \in Nat /\ q \in 1..l
            /\ Pairing(f, l, Len(todo))
        BY <1>2, <1>5, <1>6, <2>3
      <4>1. PICK g :
              /\ Pairing(g, l - 1, Len(todo) - 1)
              /\ \A i \in 1..l - 1 :
                    g[i] + 1 = IF f[Past(q, i)] = 1 THEN f[q] ELSE f[Past(q, i)]
        BY <4>0, BothUnpaired
      <4>2. ASSUME NEW i \in 1..l - 1
            PROVE  SameSecond(stored'[cut + i].n, Tail(todo)[g[i]].n)
        <5> DEFINE r == Past(q, i)
        <5>1. /\ r \in 1..l /\ stored'[cut + i] = stored[cut + r]
              /\ g[i] \in 1..Len(todo) - 1
              /\ g[i] + 1 = IF f[r] = 1 THEN f[q] ELSE f[r]
          BY <2>4, <2>5, <4>1 DEF Pairing
        <5> HIDE DEF r
        <5>2. Tail(todo)[g[i]] = todo[g[i] + 1]
          BY <1>2, <5>1
        <5>3. CASE f[r] # 1
          <6>1. g[i] + 1 = f[r]
            BY <5>1, <5>3
          <6> QED BY <1>5, <5>1, <5>2, <6>1
        <5>4. CASE f[r] = 1
          <6>1. g[i] + 1 = f[q] /\ f[q] \in 1..Len(todo)
            BY <1>5, <2>3, <5>1, <5>4
          <6>2. /\ SameSecond(stored[cut + r].n, todo[1].n)
                /\ SameSecond(stored[p].n, todo[1].n)
                /\ SameSecond(stored[p].n, todo[f[q]].n)
            BY <1>5, <2>1, <2>3, <5>1, <5>4
          <6>3. /\ stored[cut + r].n \in Nat /\ stored[p].n \in Nat
                /\ todo[1].n \in Nat /\ todo[f[q]].n \in Nat
            BY <1>2, <1>n, <2>1, <5>1, <6>1
          <6>4. \A a, b, x, y \in Nat :
                  SameSecond(a, b) /\ SameSecond(x, b) /\ SameSecond(x, y) =>
                      SameSecond(a, y)
            BY SecondsAlike
          <6>5. SameSecond(stored[cut + r].n, todo[f[q]].n)
            BY <6>2, <6>3, <6>4
          <6> QED BY <5>1, <5>2, <6>1, <6>5
        <5> QED BY <5>3, <5>4
      <4>3. Paired(stored', cut, l - 1, Tail(todo), g)
        BY <1>2, <4>1, <4>2 DEF Paired
      <4> QED BY <4>3
    <3>3. todo' = todo \/ todo' = Tail(todo)
      BY <1>7, <1>11
    <3> QED BY <3>1, <3>2, <3>3
  <2>7. \A n \in Numbers(stored) : n \in Numbers(mem)
    <3>1. \A o \in 1..Len(stored) : stored[o].n \in Numbers(mem)
      BY DEF Deleting
    <3> QED BY <1>t, <3>1, InNumbers
  <2>8. \A o \in 1..Len(stored') : stored'[o].n \in Numbers(mem)
    BY <2>4, <2>7, InNumbers
  <2>9. l - 1 \in 0..Len(out)
    BY <1>2, <1>6, <2>3
  <2>10. \E k \in 0..Len(out) : /\ Replaces(mem, stored', cut, Len(out), k)
                                /\ \E h : Paired(stored', cut, k, todo', h)
    BY <2>4, <2>6, <2>9
  <2> QED BY <1>1, <1>6, <1>9, <1>r, <2>8, <2>10 DEF Deleting, Numbers, OwnSeconds
<1> QED BY <1>7, <1>10, <1>11

LEMMA DeletesRound ==
  ASSUME WellTyped, Deleting, DeleteFromMemory
  PROVE  mem' = stored'
<1>t. /\ mem \in Seq(Message) /\ stored \in Seq(Message) /\ out \in Seq(Message)
      /\ cut \in Nat /\ Len(out) \in Nat /\ todo = <<>> /\ Len(stored) \in Nat
      /\ Len(mem) \in Nat
  BY DEF WellTyped, TypeOK, DeleteFromMemory
<1>1. mem' = Without(mem, cut + 1, cut + Len(out)) /\ stored' = stored
  BY DEF DeleteFromMemory
<1>2. PICK l \in 0..Len(out) :
         /\ Replaces(mem, stored, cut, Len(out), l)
         /\ \E f : Paired(stored, cut, l, todo, f)
  BY DEF Deleting
<1>3. l = 0
  <2>1. PICK f : f \in [1..l -> 1..Len(todo)]
    BY <1>2 DEF Paired, Pairing
  <2>2. 1..Len(todo) = {}
    BY <1>t
  <2>3. 1 \notin 1..l
    BY <2>1, <2>2
  <2> QED BY <1>t, <2>3
<1>4. Skips(mem, stored, cut, Len(out)) /\ cut + Len(out) <= Len(mem)
  <2>1. /\ Len(stored) = Len(mem) - Len(out) + 0
        /\ \A p \in 1..cut : stored[p] = mem[p]
        /\ \A p \in 1..Len(stored) : cut + 0 < p => stored[p] = mem[p + Len(out) - 0]
    BY <1>2, <1>3 DEF Replaces
  <2>2. \A p \in 1..Len(stored) : p + Len(out) - 0 = p + Len(out)
                                  /\ (p \in 1..cut \/ cut + 0 < p) /\ (p <= cut <=> p \in 1..cut)
    BY <1>t
  <2>3. Len(stored) = Len(mem) - Len(out)
    BY <1>t, <2>1
  <2> QED BY <2>1, <2>2, <2>3 DEF Skips, Deleting
<1>5. mem' \in Seq(Message) /\ Skips(mem, mem', cut, Len(out))
  BY <1>t, <1>1, <1>4, WithoutMessages
<1> QED BY <1>t, <1>1, <1>4, <1>5, SkipsDetermine

LEMMA DeleteBegins ==
  ASSUME WellTyped, mem = stored, NEW i \in DOMAIN mem, BeginDelete(i), Alike'
  PROVE  Deleting'
<1>t. /\ mem \in Seq(Message) /\ cursor \in Nat /\ Len(mem) \in Nat
  BY DEF WellTyped, TypeOK
<1>1. PICK j \in i..Len(Window) : out' = SubSeq(Window, i, j) /\ todo' = out'
  BY DEF BeginDelete
<1>2. /\ mem' = mem /\ stored' = stored /\ cut' = cursor + i - 1
      /\ cursor <= Len(mem) /\ i \in DOMAIN Window
  BY DEF BeginDelete, logVars
<1>w. /\ Window \in Seq(Message) /\ Len(Window) = Len(mem) - cursor
      /\ \A p \in 1..Len(Window) : Window[p] = mem[cursor + p]
  BY <1>t, <1>2, LogsTyped, FromMessages DEF Window
<1>3. i \in 1..Len(Window) /\ i \in Nat /\ j \in Nat /\ i <= j /\ j <= Len(Window)
  <2>1. i \in 1..Len(Window) /\ Len(Window) \in Nat
    BY <1>t, <1>w, <1>2
  <2>2. j \in i..Len(Window)
    BY <1>1
  <2> QED BY <2>1, <2>2
<1>4. /\ out' \in Seq(Message) /\ Len(out') = j - i + 1
      /\ \A p \in 1..j - i + 1 : out'[p] = Window[i + p - 1]
  <2>1. \A p \in i..j : Window[p] \in Message
    BY <1>w, <1>3
  <2>2. /\ SubSeq(Window, i, j) \in Seq(Message)
        /\ Len(SubSeq(Window, i, j)) = IF i <= j THEN j - i + 1 ELSE 0
        /\ \A p \in 1..j - i + 1 : SubSeq(Window, i, j)[p] = Window[i + p - 1]
    BY <1>3, <2>1, SubSeqProperties
  <2> QED BY <1>1, <1>3, <2>2
<1> DEFINE c == cursor + i - 1
           k == Len(out')
<1>5. c \in Nat /\ k \in Nat /\ c + k <= Len(mem) /\ cut' = c
  <2>1. Len(Window) = Len(mem) - cursor /\ i >= 1
    BY <1>w, <1>3
  <2>2. /\ cursor \in Nat /\ i \in Nat /\ j \in Nat /\ Len(mem) \in Nat
        /\ i >= 1 /\ i <= j /\ j <= Len(mem) - cursor
    BY <1>t, <1>3, <2>1
  <2>3. k = j - i + 1
    BY <1>4
  <2> HIDE DEF k
  <2>4. c \in Nat /\ k \in Nat /\ c + k <= Len(mem)
    BY <2>2, <2>3
  <2> QED BY <1>2, <2>4
<1>6. ASSUME NEW p \in 1..k PROVE out'[p] = mem[c + p]
  <2>1. /\ cursor \in Nat /\ i \in Nat /\ j \in Nat /\ i >= 1
        /\ j <= Len(Window) /\ Len(Window) \in Nat /\ k = j - i + 1
    BY <1>t, <1>3, <1>4, <1>w
  <2>2. p \in 1..j - i + 1 /\ i + p - 1 \in 1..Len(Window) /\ cursor + (i + p - 1) = c + p
    BY <2>1
  <2> QED BY <1>4, <1>w, <2>2
<1> HIDE DEF c
<1>7. ASSUME NEW p \in 1..Len(mem), p <= c \/ c + k < p, NEW o \in 1..k
      PROVE  ~SameSecond(mem[p].n, out'[o].n)
  <2> DEFINE rest == Without(mem, c + 1, c + k)
  <2>1. rest \in Seq(Message) /\ Skips(mem, rest, c, k)
    BY <1>t, <1>5, WithoutMessages
  <2>2. /\ Len(rest) = Len(mem) - k
        /\ \A r \in 1..Len(rest) : rest[r] = IF r <= c THEN mem[r] ELSE mem[r + k]
    BY <2>1 DEF Skips
  <2>3. ~\E a \in Numbers(rest), b \in Numbers(out') : SameSecond(a, b)
    <3>1. mishaps' = mishaps \cup
            (IF \E a \in Numbers(Without(mem, cut' + 1, cut' + Len(out'))),
                   b \in Numbers(out') : SameSecond(a, b)
             THEN {"shared"} ELSE {})
      BY DEF BeginDelete
    <3> QED BY <1>5, <3>1 DEF Alike
  <2> HIDE DEF rest
  <2>4. mem[p].n \in Numbers(rest)
    <3>1. CASE p <= c
      <4>1. p \in 1..Len(rest) /\ rest[p] = mem[p]
        BY <1>t, <1>5, <2>2, <3>1
      <4> QED BY <2>1, <4>1, InNumbers
    <3>2. CASE c + k < p
      <4>1. p - k \in 1..Len(rest) /\ ~(p - k <= c) /\ (p - k) + k = p
        BY <1>t, <1>5, <2>2, <3>2
      <4>2. rest[p - k] = mem[p]
        BY <2>2, <4>1
      <4> QED BY <2>1, <4>1, <4>2, InNumbers
    <3> QED BY <1>7, <3>1, <3>2
  <2>5. out'[o].n \in Numbers(out')
    BY <1>4, InNumbers
  <2> QED BY <2>3, <2>4, <2>5
<1>8. Replaces(mem, mem, c, k, k)
  BY <1>t, <1>5 DEF Replaces
<1> DEFINE f == [p \in 1..k |-> p]
<1>9. Paired(mem, c, k, out', f)
  <2>0. \A p \in 1..k : f[p] = p
    OBVIOUS
  <2>1. f \in [1..k -> 1..k] /\ \A p \in 1..k : f[p] = p
    <3> HIDE DEF k
    <3> QED BY <2>0
  <2>2. \A p \in 1..k : c + p \in 1..Len(mem) /\ mem[c + p].n \in Nat
    <3>1. \A p \in 1..Len(mem) : mem[p].n \in Nat
      <4>1. \A p \in 1..Len(mem) : mem[p] \in Message
        BY <1>t
      <4> QED BY <4>1 DEF Message
    <3>2. \A p \in 1..k : c + p \in 1..Len(mem)
      BY <1>t, <1>5
    <3> QED BY <3>1, <3>2
  <2> HIDE DEF f
  <2>3. \A p \in 1..k : SameSecond(mem[c + p].n, out'[f[p]].n)
    <3>1. \A a \in Nat : SameSecond(a, a)
      BY DEF SameSecond
    <3> QED BY <1>6, <2>1, <2>2, <3>1
  <2> QED BY <2>1, <2>3 DEF Paired, Pairing
<1>10. \A p \in 1..Len(mem) : mem[p].n \in Numbers(mem)
  BY <1>t, InNumbers
<1> HIDE DEF f
<1>11. \E l \in 0..k : Replaces(mem, mem, c, k, l) /\ \E h : Paired(mem, c, l, out', h)
  <2>1. k \in 0..k
    BY <1>5
  <2> QED BY <1>8, <1>9, <2>1
<1>12. /\ cut' = c /\ todo' = out' /\ mem' = mem /\ stored' = mem
  BY <1>1, <1>2, <1>5
<1> HIDE DEF Window
<1>13. OwnSeconds(todo)'
  BY <1>7, <1>12 DEF OwnSeconds
<1> QED BY <1>5, <1>6, <1>10, <1>11, <1>12, <1>13 DEF Deleting, Numbers

-----------------------------------------------------------------------------
(* What went wrong stays on record.                                        *)
LEMMA MishapsKept == [Next]_vars => mishaps \subseteq mishaps'
<1> SUFFICES ASSUME [Next]_vars PROVE mishaps \subseteq mishaps'
  OBVIOUS
<1> DEFINE P == mishaps \subseteq mishaps'
<1>1. ASSUME \E what \in {"text", "word"} : Begin(what) PROVE P
  BY <1>1 DEF Begin
<1>2. ASSUME \/ Panic \/ SkipSummary \/ StartSummary \/ ForceSummary
             \/ TakeWord \/ PassWord \/ TakeText \/ Reply \/ ReplyFails
             \/ \E w \in {"turn", "host"} : Slide(w) \/ NoSummary(w)
      PROVE P
  BY <1>2 DEF Panic, SkipSummary, StartSummary, ForceSummary, TakeWord, PassWord,
     TakeText, Reply, ReplyFails, Slide, NoSummary, Summarised, historyVars
<1>3. ASSUME \/ Intact \/ FindBreak \/ ReadCursor \/ RollBack \/ RollBackFails
             \/ ReAdd \/ Explain \/ NoNotice \/ ReAddFails \/ Invalidate
      PROVE P
  BY <1>3 DEF Intact, FindBreak, ReadCursor, RollBack, RollBackFails, ReAdd,
     Explain, NoNotice, ReAddFails, Invalidate, historyVars
<1>4. ASSUME Think \/ Write \/ Written \/ WriteFails PROVE P
  BY <1>4 DEF Think, Write, Written, WriteFails, historyVars
<1>5. ASSUME EngineStep PROVE P
  <2>1. \E new, goto : Produce(new, goto)
    BY <1>5 DEF EngineStep, Iterate, Cancel, Suspend, Finish
  <2> QED BY <2>1 DEF Produce, historyVars
<1>6. ASSUME \/ \E keep \in 0..Len(mem) : HostTruncate(keep)
             \/ \E i \in DOMAIN mem : BeginDelete(i)
             \/ DeleteStored \/ DeleteFails \/ DeleteFromMemory \/ Reset \/ Restart
      PROVE P
  BY <1>6 DEF HostTruncate, BeginDelete, DeleteStored, DeleteFails,
     DeleteFromMemory, Reset, Restart, historyVars
<1>7. ASSUME UNCHANGED vars PROVE P
  BY <1>7 DEF vars, historyVars
<1> QED BY <1>1, <1>2, <1>3, <1>4, <1>5, <1>6, <1>7 DEF Next, TurnStep

(* Outside a deletion, a step changes both sides alike, or on record.      *)
LEMMA BothSides ==
  ASSUME WellTyped, [Next]_vars, pc # "delete", mem = stored,
         Alike'
  PROVE  Agreeing'
<1> DEFINE P == mem' = stored' /\ pc' # "delete"
<1> then # "delete"
  BY DEF WellTyped, TypeOK
<1>1. ASSUME \/ Panic \/ SkipSummary \/ StartSummary \/ ForceSummary
             \/ TakeWord \/ PassWord \/ TakeText \/ ReplyFails
             \/ Intact \/ FindBreak \/ ReadCursor \/ NoNotice \/ ReAddFails
             \/ Invalidate
             \/ \E w \in {"turn", "host"} : Slide(w) \/ NoSummary(w)
      PROVE P
  BY <1>1 DEF Panic, SkipSummary, StartSummary, ForceSummary, TakeWord, PassWord,
     TakeText, ReplyFails, Intact, FindBreak, ReadCursor, NoNotice, ReAddFails,
     Invalidate, Slide, NoSummary, Summarised, Goto, logVars, turnVars
<1>2. ASSUME Think \/ Written \/ WriteFails PROVE P
  BY <1>2 DEF Think, Written, WriteFails, Goto, logVars
<1>3. ASSUME EngineStep PROVE P
  <2>1. \E new, goto : Produce(new, goto)
    BY <1>3 DEF EngineStep, Iterate, Cancel, Suspend, Finish
  <2> QED BY <2>1 DEF Produce, Goto, logVars
<1>4. ASSUME Reply \/ ReAdd \/ Explain \/ Write PROVE P
  <2>1. \E m : Put(m)
    BY <1>4 DEF Reply, ReAdd, Explain, Write
  <2>2. pc' # "delete"
    BY <1>4 DEF Reply, ReAdd, Explain, Write, Goto
  <2> QED BY <2>1, <2>2 DEF Put
<1>5. ASSUME RollBack PROVE P
  BY <1>5 DEF RollBack, Truncate, TruncateMemory, InLog, Goto, logVars
<1>6. ASSUME NEW keep \in 0..Len(mem), HostTruncate(keep) PROVE P
  BY <1>6 DEF HostTruncate, Removal, Truncate, TruncateMemory, InLog, logVars,
     turnVars
<1>7. ASSUME RollBackFails PROVE P
  BY <1>7 DEF RollBackFails, Alike
<1>8. ASSUME Restart \/ \E what \in {"text", "word"} : Begin(what) PROVE P
  BY <1>8 DEF Restart, Begin, Load, Goto, logVars
<1>9. ASSUME Reset PROVE P
  BY <1>9 DEF Reset, Removal, turnVars, Alike
<1>10. ASSUME NEW i \in DOMAIN mem, BeginDelete(i) PROVE Agreeing'
  <2>1. pc' = "delete"
    BY <1>10 DEF BeginDelete, Goto
  <2> QED BY <1>10, <2>1, DeleteBegins DEF Agreeing
<1>11. ASSUME DeleteStored \/ DeleteFails \/ DeleteFromMemory PROVE P
  BY <1>11 DEF DeleteStored, DeleteFails, DeleteFromMemory
<1>12. ASSUME UNCHANGED vars PROVE P
  BY <1>12 DEF vars, logVars, turnVars
<1> QED BY <1>1, <1>2, <1>3, <1>4, <1>5, <1>6, <1>7, <1>8, <1>9, <1>10, <1>11,
        <1>12 DEF Next, TurnStep, Agreeing

(* During a deletion the lock lets nobody else change the log.             *)
LEMMA DeletionAlone ==
  ASSUME WellTyped, [Next]_vars, pc = "delete", Deleting,
         Alike'
  PROVE  Agreeing'
<1>1. CASE DeleteStored
  BY <1>1, DeletesOne DEF DeleteStored, Agreeing
<1>2. CASE DeleteFails
  BY <1>2 DEF DeleteFails, Alike
<1>3. CASE DeleteFromMemory
  <2>1. pc' = "idle"
    BY <1>3 DEF DeleteFromMemory, Goto
  <2> QED BY <1>3, <2>1, DeletesRound DEF Agreeing
<1>4. CASE Restart
  BY <1>4 DEF Restart, Load, Goto, Agreeing
<1>5. ASSUME \/ \E w \in {"turn", "host"} : NoSummary(w)
             \/ UNCHANGED vars
      PROVE  Agreeing'
  <2>1. summary["turn"] = {}
    BY DEF WellTyped, Placed
  <2>2. /\ mem' = mem /\ stored' = stored /\ cut' = cut /\ out' = out
        /\ todo' = todo /\ pc' = pc
    BY <1>5, <2>1 DEF NoSummary, Summarised, vars, logVars, turnVars
  <2> QED BY <2>2 DEF Agreeing, Deleting, OwnSeconds, Numbers
<1>6. CASE EngineStep
  <2>1. \E new, goto : Produce(new, goto)
    BY <1>6 DEF EngineStep, Iterate, Cancel, Suspend, Finish
  <2> QED BY <2>1 DEF Produce
<1>7. ASSUME \/ Panic \/ SkipSummary \/ StartSummary \/ ForceSummary
             \/ TakeWord \/ PassWord \/ TakeText \/ Reply \/ ReplyFails
             \/ \E what \in {"text", "word"} : Begin(what)
             \/ \E w \in {"turn", "host"} : Slide(w)
      PROVE  FALSE
  BY <1>7 DEF Panic, SkipSummary, StartSummary, ForceSummary, TakeWord, PassWord,
     TakeText, Reply, ReplyFails, Begin, Slide
<1>8. ASSUME \/ Intact \/ FindBreak \/ ReadCursor \/ RollBack \/ RollBackFails
             \/ ReAdd \/ Explain \/ NoNotice \/ ReAddFails \/ Invalidate
             \/ Think \/ Write \/ Written \/ WriteFails
      PROVE  FALSE
  BY <1>8 DEF Intact, FindBreak, ReadCursor, RollBack, RollBackFails, ReAdd,
     Explain, NoNotice, ReAddFails, Invalidate, Think, Write, Written, WriteFails
<1>9. ASSUME \/ \E keep \in 0..Len(mem) : HostTruncate(keep)
             \/ \E i \in DOMAIN mem : BeginDelete(i)
             \/ Reset
      PROVE  FALSE
  BY <1>9 DEF HostTruncate, BeginDelete, Reset, Removal
<1> QED BY <1>1, <1>2, <1>3, <1>4, <1>5, <1>6, <1>7, <1>8, <1>9
        DEF Next, TurnStep

LEMMA AgreeingKept == WellTyped /\ Agreeing /\ [Next]_vars => Agreeing'
<1> SUFFICES ASSUME WellTyped, Agreeing, [Next]_vars PROVE Agreeing'
  OBVIOUS
<1>1. CASE ~Alike'
  BY <1>1 DEF Agreeing
<1>2. CASE Alike'
  <2>1. Alike
    BY <1>2, MishapsKept DEF Alike
  <2> QED BY <1>2, <2>1, BothSides, DeletionAlone DEF Agreeing
<1> QED BY <1>1, <1>2

(* Memory and store hold the same messages between any two steps, failed   *)
(* appends included, and the messages of a deleted round leave both,       *)
(* however many of a second the store deletes at a time; they part only    *)
(* where a truncation, a removal or a reset fails half-way in the store,   *)
(* or a message outside a deleted round was stamped in a second of it.     *)
(* (Append, Truncate, DeleteRound, Reset)                                  *)
THEOREM StoresAgree == Spec => []StoreAgrees
<1>1. Init => WellTyped /\ Agreeing
  BY TypeInit, PlacedInit DEF WellTyped, Init, Agreeing
<1>2. WellTyped /\ Agreeing /\ [Next]_vars => WellTyped' /\ Agreeing'
  BY TypesKept, PlacedKept, AgreeingKept DEF WellTyped
<1>3. Agreeing => StoreAgrees
  BY DEF Agreeing, Alike, StoreAgrees
<1> QED BY <1>1, <1>2, <1>3, PTL DEF Spec

-----------------------------------------------------------------------------
\* Logs, message by message.

LEMMA UptoMessages ==
  ASSUME NEW log \in Seq(Message), NEW c \in Nat
  PROVE  /\ Len(Upto(log, c)) = IF c < Len(log) THEN c ELSE Len(log)
         /\ \A i \in 1..Len(Upto(log, c)) : Upto(log, c)[i] = log[i]
<1> DEFINE k == IF c < Len(log) THEN c ELSE Len(log)
<1>1. k \in Nat /\ k <= Len(log)
  OBVIOUS
<1>2. Upto(log, c) = SubSeq(log, 1, k)
  BY DEF Upto
<1> HIDE DEF k
<1>3. \A i \in 1..k : log[i] \in Message
  BY <1>1
<1>4. Len(SubSeq(log, 1, k)) = k /\ \A i \in 1..k : SubSeq(log, 1, k)[i] = log[i]
  BY <1>1, <1>3
<1> QED BY <1>2, <1>4 DEF k

LEMMA HeadAndTail ==
  ASSUME NEW log \in Seq(Message), log # <<>>
  PROVE  /\ Len(log) \in Nat \ {0} /\ 1 \in 1..Len(log)
         /\ Head(log) = log[1] /\ Head(log) \in Message
         /\ Tail(log) \in Seq(Message) /\ Len(Tail(log)) = Len(log) - 1
         /\ \A i \in 1..Len(Tail(log)) : i + 1 \in 1..Len(log) /\ Tail(log)[i] = log[i + 1]
         /\ \A i \in 1..Len(log) :
               i # 1 => i - 1 \in 1..Len(Tail(log)) /\ Tail(log)[i - 1] = log[i]
<1>1. /\ Len(log) \in Nat \ {0} /\ Head(log) = log[1] /\ Head(log) \in Message
      /\ Tail(log) \in Seq(Message) /\ Len(Tail(log)) = Len(log) - 1
      /\ \A i \in 1..Len(Tail(log)) : Tail(log)[i] = log[i + 1]
  BY HeadTailProperties, EmptySeq
<1> DEFINE tl == Tail(log)
<1>2. /\ Len(tl) = Len(log) - 1 /\ \A i \in 1..Len(tl) : tl[i] = log[i + 1]
  BY <1>1
<1> HIDE DEF tl
<1>3. \A i \in 1..Len(tl) : i + 1 \in 1..Len(log) /\ tl[i] = log[i + 1]
  BY <1>1, <1>2
<1>4. ASSUME NEW i \in 1..Len(log), i # 1
      PROVE  i - 1 \in 1..Len(tl) /\ tl[i - 1] = log[i]
  <2>1. i - 1 \in 1..Len(tl) /\ (i - 1) + 1 = i
    BY <1>1, <1>2, <1>4
  <2> QED BY <1>2, <2>1
<1> QED BY <1>1, <1>3, <1>4 DEF tl

LEMMA Appended ==
  ASSUME NEW log \in Seq(Message), NEW m \in Message
  PROVE  /\ Append(log, m) \in Seq(Message)
         /\ Len(log) \in Nat /\ Len(Append(log, m)) = Len(log) + 1
         /\ \A i \in 1..Len(log) : Append(log, m)[i] = log[i]
         /\ Append(log, m)[Len(log) + 1] = m
OBVIOUS

LEMMA Joined ==
  ASSUME NEW a \in Seq(Message), NEW b \in Seq(Message)
  PROVE  /\ a \o b \in Seq(Message)
         /\ Len(a) \in Nat /\ Len(b) \in Nat /\ Len(a \o b) = Len(a) + Len(b)
         /\ \A i \in 1..Len(a) : (a \o b)[i] = a[i]
         /\ \A i \in 1..Len(b) : (a \o b)[Len(a) + i] = b[i]
<1>1. /\ a \o b \in Seq(Message) /\ Len(a \o b) = Len(a) + Len(b)
      /\ \A i \in 1..Len(a) + Len(b) :
            (a \o b)[i] = IF i <= Len(a) THEN a[i] ELSE b[i - Len(a)]
  BY ConcatProperties
<1>2. Len(a) \in Nat /\ Len(b) \in Nat
  OBVIOUS
<1> DEFINE ab == a \o b
<1>3. \A i \in 1..Len(a) + Len(b) : ab[i] = IF i <= Len(a) THEN a[i] ELSE b[i - Len(a)]
  BY <1>1
<1> HIDE DEF ab
<1>4. \A i \in 1..Len(a) : ab[i] = a[i]
  BY <1>2, <1>3
<1>5. ASSUME NEW i \in 1..Len(b) PROVE ab[Len(a) + i] = b[i]
  <2>1. Len(a) + i \in 1..Len(a) + Len(b) /\ ~(Len(a) + i <= Len(a))
        /\ (Len(a) + i) - Len(a) = i
    BY <1>2
  <2> QED BY <1>3, <2>1
<1> QED BY <1>1, <1>2, <1>4, <1>5 DEF ab

(* The messages of an iteration: the assistant's, then what its calls said. *)
LEMMA IterationMessages ==
  ASSUME TypeOK, NEW r \in Rounds
  PROVE  /\ IsRound(r) /\ Len(r.says) \in Nat
         /\ Len(Iteration(r)) = Len(r.says) + 1
         /\ Iteration(r)[1] = Assistant(next, r.calls)
         /\ \A i \in 1..Len(r.says) :
               Iteration(r)[i + 1] =
                 IF r.says[i].role = "user" THEN User(next + i)
                 ELSE Tool(next + i, <<next, r.says[i].call>>)
<1>1. IsRound(r)
  BY ConstantsAssumption
<1>2. Len(r.says) \in Nat
  <2>1. r.says \in Seq([role : {"tool", "user"}, call : 1..r.executed])
    BY <1>1, Zenon DEF IsRound
  <2> QED BY <2>1, LenProperties
<1> DEFINE a == <<Assistant(next, r.calls)>>
           b == [i \in 1..Len(r.says) |->
                    IF r.says[i].role = "user" THEN User(next + i)
                    ELSE Tool(next + i, <<next, r.says[i].call>>)]
<1>3. Iteration(r) = a \o b
  BY DEF Iteration
<1>4. Len(a) = 1 /\ a[1] = Assistant(next, r.calls) /\ Len(b) = Len(r.says)
  BY <1>2
<1>5. /\ Len(a \o b) = Len(r.says) + 1
      /\ (a \o b)[1] = a[1]
      /\ \A i \in 1..Len(r.says) : (a \o b)[i + 1] = b[i]
  BY <1>2, <1>4
<1>6. \A i \in 1..Len(r.says) :
         b[i] = IF r.says[i].role = "user" THEN User(next + i)
                ELSE Tool(next + i, <<next, r.says[i].call>>)
  OBVIOUS
<1> HIDE DEF a, b
<1> QED BY <1>1, <1>2, <1>3, <1>4, <1>5, <1>6

-----------------------------------------------------------------------------
\* The invariant behind PendingLive.  A repair that begins to truncate knows
\* every message past the cut, unless a forced summary moved the cursor to the
\* end of the log and the cut with it, and the calls of these messages; a call
\* that suspends the turn is in the messages still to be written.

Tailed(c) ==
    \A i \in 1..Len(mem) : i > c => \E j \in 1..Len(todo) : todo[j] = mem[i]

Rolling ==
    /\ pc = "cursor" => Tailed(cursor + cut)
    /\ pc = "truncate" => Tailed(cut)
    /\ pc \in {"cursor", "truncate"} => AllCalls(todo) \subseteq gone

Pending == {perm, ask} \ {NoCall}

Promised ==
    IF pc \in {"readd", "invalidate"} THEN gone
    ELSE IF pc = "write" /\ then = "idle" THEN AllCalls(todo) ELSE {}

Live == "stranded" \notin mishaps => Pending \subseteq AllCalls(mem) \cup Promised

LEMMA RollingKept == WellTyped /\ Rolling /\ [Next]_vars => Rolling'
<1> SUFFICES ASSUME WellTyped, Rolling, [Next]_vars PROVE Rolling'
  OBVIOUS
<1>t. /\ mem \in Seq(Message) /\ cursor \in Nat /\ Len(mem) \in Nat
      /\ cut \in Nat
  BY DEF WellTyped, TypeOK
<1>1. CASE Elsewhere
  BY <1>1, SoundElsewhere DEF Rolling
<1>2. CASE \/ Intact \/ RollBack \/ RollBackFails
           \/ ReAdd \/ Explain \/ NoNotice \/ ReAddFails \/ Invalidate
  <2>1. pc' \notin {"cursor", "truncate"}
    BY <1>2 DEF Intact, RollBack, RollBackFails, ReAdd, Explain, NoNotice,
       ReAddFails, Invalidate, Goto
  <2> QED BY <2>1 DEF Rolling
<1>3. CASE FindBreak
  <2>1. PICK keep \in 0..Len(Window) :
          /\ cut' = keep
          /\ gone' = AllCalls(From(Window, keep))
          /\ todo' = From(Window, keep)
    BY <1>3 DEF FindBreak
  <2>2. pc' = "cursor" /\ mem' = mem /\ cursor' = cursor
    BY <1>3 DEF FindBreak, Goto, logVars
  <2>3. /\ Window \in Seq(Message) /\ Len(Window) \in Nat
        /\ cursor <= Len(mem) => Len(Window) = Len(mem) - cursor
        /\ \A i \in 1..Len(Window) : Window[i] = mem[cursor + i]
    BY <1>t, LogsTyped, FromMessages DEF Window
  <2> HIDE DEF Window
  <2>4. keep \in Nat /\ keep <= Len(Window)
    BY <2>3
  <2>5. /\ Len(todo') = Len(Window) - keep
        /\ \A i \in 1..Len(todo') : todo'[i] = Window[keep + i]
    BY <2>1, <2>3, <2>4, FromMessages
  <2>6. ASSUME NEW i \in 1..Len(mem), i > cursor + keep
        PROVE  \E j \in 1..Len(todo') : todo'[j] = mem[i]
    <3> DEFINE j == i - cursor - keep
    <3>1. /\ j \in 1..Len(todo') /\ keep + j \in 1..Len(Window)
          /\ cursor + (keep + j) = i
      BY <1>t, <2>3, <2>4, <2>5, <2>6
    <3>2. todo'[j] = mem[i]
      BY <2>3, <2>5, <3>1
    <3> QED BY <3>1, <3>2
  <2>7. AllCalls(todo') \subseteq gone'
    BY <2>1
  <2> QED BY <2>1, <2>2, <2>6, <2>7 DEF Rolling, Tailed
<1>4. CASE ReadCursor
  BY <1>4 DEF ReadCursor, Goto, Rolling, Tailed, logVars
<1>5. CASE ForceSummary \/ UNCHANGED vars
  BY <1>5 DEF ForceSummary, vars, logVars, turnVars, Rolling, Tailed
<1>6. ASSUME NEW w \in {"turn", "host"}, Slide(w) \/ NoSummary(w)
      PROVE  Rolling'
  <2>1. /\ mem' = mem /\ cut' = cut /\ todo' = todo /\ gone' = gone
        /\ pc' = pc \/ pc' = "input"
        /\ cursor' = cursor \/ cursor' = Len(mem)
    BY <1>6 DEF Slide, NoSummary, Summarised
  <2>2. CASE cursor' = cursor
    BY <2>1, <2>2 DEF Rolling, Tailed
  <2>3. CASE cursor' = Len(mem)
    BY <1>t, <2>1, <2>3 DEF Rolling, Tailed
  <2> QED BY <2>1, <2>2, <2>3
<1> QED BY <1>1, <1>2, <1>3, <1>4, <1>5, <1>6 DEF Next, TurnStep, Elsewhere

LEMMA InCalls ==
  ASSUME NEW log, NEW call
  PROVE  call \in AllCalls(log) <=> \E i \in DOMAIN log : call \in CallsOf(log[i])
BY Zenon DEF AllCalls

(* The calls of a log that grows, shrinks or is written.                   *)
LEMMA CallsOfLogs ==
  ASSUME NEW log \in Seq(Message)
  PROVE  /\ \A m \in Message :
               AllCalls(Append(log, m)) = AllCalls(log) \cup CallsOf(m)
         /\ log # <<>> =>
               AllCalls(log) = CallsOf(Head(log)) \cup AllCalls(Tail(log))
         /\ \A other \in Seq(Message) : AllCalls(other) \subseteq AllCalls(log \o other)
<1>l. DOMAIN log = 1..Len(log)
  OBVIOUS
<1>1. ASSUME NEW m \in Message
      PROVE  AllCalls(Append(log, m)) = AllCalls(log) \cup CallsOf(m)
  <2> DEFINE new == Append(log, m)
  <2>1. /\ Len(log) \in Nat /\ DOMAIN new = 1..Len(log) + 1
        /\ \A i \in 1..Len(log) : new[i] = log[i]
        /\ new[Len(log) + 1] = m
    BY Appended
  <2> HIDE DEF new
  <2>2. DOMAIN new = DOMAIN log \cup {Len(log) + 1}
    BY <1>l, <2>1
  <2>3. \A i \in DOMAIN log : new[i] = log[i]
    BY <1>l, <2>1
  <2>4. \A c : (\E i \in DOMAIN new : c \in CallsOf(new[i]))
               <=> (\E i \in DOMAIN log : c \in CallsOf(log[i])) \/ c \in CallsOf(m)
    BY <2>1, <2>2, <2>3
  <2>5. \A c : c \in AllCalls(new) <=> c \in AllCalls(log) \/ c \in CallsOf(m)
    BY <2>4, InCalls
  <2>6. AllCalls(new) = AllCalls(log) \cup CallsOf(m)
    BY <2>5
  <2> QED BY <2>6 DEF new
<1>2. ASSUME log # <<>>
      PROVE  AllCalls(log) = CallsOf(Head(log)) \cup AllCalls(Tail(log))
  <2> DEFINE tl == Tail(log)
  <2>1. /\ 1 \in 1..Len(log) /\ Head(log) = log[1] /\ DOMAIN tl = 1..Len(tl)
        /\ \A i \in 1..Len(tl) : i + 1 \in 1..Len(log) /\ tl[i] = log[i + 1]
        /\ \A i \in 1..Len(log) : i # 1 => i - 1 \in 1..Len(tl) /\ tl[i - 1] = log[i]
    BY <1>2, HeadAndTail
  <2> HIDE DEF tl
  <2>2. \A i \in DOMAIN tl : \E j \in DOMAIN log : tl[i] = log[j]
    BY <1>l, <2>1
  <2>3. \A i \in DOMAIN log : log[i] = Head(log) \/ \E j \in DOMAIN tl : log[i] = tl[j]
    BY <1>l, <2>1
  <2>4. \A c : (\E i \in DOMAIN log : c \in CallsOf(log[i]))
               <=> c \in CallsOf(Head(log)) \/ \E i \in DOMAIN tl : c \in CallsOf(tl[i])
    BY <1>l, <2>1, <2>2, <2>3
  <2>5. \A c : c \in AllCalls(log) <=> c \in CallsOf(Head(log)) \/ c \in AllCalls(tl)
    BY <2>4, InCalls
  <2>6. AllCalls(log) = CallsOf(Head(log)) \cup AllCalls(tl)
    BY <2>5
  <2> QED BY <2>6 DEF tl
<1>3. ASSUME NEW other \in Seq(Message)
      PROVE  AllCalls(other) \subseteq AllCalls(log \o other)
  <2> DEFINE all == log \o other
  <2>1. /\ DOMAIN all = 1..Len(log) + Len(other) /\ DOMAIN other = 1..Len(other)
        /\ Len(log) \in Nat /\ Len(other) \in Nat
        /\ \A i \in 1..Len(other) : all[Len(log) + i] = other[i]
    <3>1. all \in Seq(Message) /\ Len(all) = Len(log) + Len(other)
      BY Joined
    <3> QED BY <3>1, Joined
  <2> HIDE DEF all
  <2>2. \A i \in DOMAIN other : \E j \in DOMAIN all : all[j] = other[i]
    <3> SUFFICES ASSUME NEW i \in 1..Len(other)
                 PROVE  \E j \in DOMAIN all : all[j] = other[i]
      BY <2>1
    <3>1. Len(log) + i \in DOMAIN all
      BY <2>1
    <3> QED BY <2>1, <3>1
  <2>3. AllCalls(other) \subseteq AllCalls(all)
    BY <2>2 DEF AllCalls
  <2> QED BY <2>3 DEF all
<1> QED BY <1>1, <1>2, <1>3

(* The call that suspends a turn is in the message that makes it.          *)
LEMMA CallInIteration ==
  ASSUME TypeOK, NEW r \in Rounds, ~Complete(r)
  PROVE  <<next, r.executed + 1>> \in AllCalls(Iteration(r))
<1>1. /\ IsRound(r) /\ Len(r.says) \in Nat
      /\ Len(Iteration(r)) = Len(r.says) + 1
      /\ Iteration(r)[1] = Assistant(next, r.calls)
      /\ Iteration(r) \in Seq(Message)
  BY IterationMessages, IterationTyped
<1>2. r.calls \in Nat /\ r.executed \in Nat /\ r.executed + 1 \in 1..r.calls
  <2>1. MaxCalls \in Nat /\ r.calls \in 1..MaxCalls /\ r.executed \in 0..r.calls
    BY <1>1, ConstantsAssumption, Zenon DEF IsRound
  <2>2. r.executed # r.calls
    BY DEF Complete
  <2> QED BY <2>1, <2>2
<1>3. <<next, r.executed + 1>> \in CallsOf(Assistant(next, r.calls))
  BY <1>2 DEF CallsOf, Assistant
<1>4. 1 \in DOMAIN Iteration(r)
  <2> DEFINE it == Iteration(r)
  <2>1. it \in Seq(Message) /\ Len(it) = Len(r.says) + 1
    BY <1>1
  <2> HIDE DEF it
  <2>2. DOMAIN it = 1..Len(it) /\ Len(it) >= 1
    BY <1>1, <2>1
  <2>3. 1 \in DOMAIN it
    BY <1>1, <2>1, <2>2
  <2> QED BY <2>3 DEF it
<1> HIDE DEF Iteration
<1>5. CallsOf(Iteration(r)[1]) \subseteq AllCalls(Iteration(r))
  BY <1>4 DEF AllCalls
<1> QED BY <1>1, <1>3, <1>5

(* Nothing is promised and the log stays.                                  *)
LEMMA LivePlain ==
  ASSUME Live, mishaps \subseteq mishaps',
         AllCalls(mem) \subseteq AllCalls(mem'), Pending' \subseteq Pending,
         Promised \subseteq AllCalls(mem') \cup Promised'
  PROVE  Live'
BY Zenon DEF Live

(* The log is replaced, and what that strands is on record.                *)
LEMMA LiveReplaced ==
  ASSUME NEW log, mem' = log, Stranded(log) \subseteq mishaps',
         perm' = perm, ask' = ask
  PROVE  Live'
BY DEF Live, Stranded, Pending

LEMMA LiveAtTurn ==
  ASSUME WellTyped, Live, mishaps \subseteq mishaps',
         \/ Panic \/ SkipSummary \/ StartSummary \/ ForceSummary
         \/ TakeWord \/ PassWord \/ TakeText \/ Reply \/ ReplyFails
         \/ \E w \in {"turn", "host"} : Slide(w) \/ NoSummary(w)
         \/ UNCHANGED vars
  PROVE  Live'
<1>t. mem \in Seq(Message) /\ todo \in Seq(Message)
  BY DEF WellTyped, TypeOK
<1>1. CASE \/ Panic \/ SkipSummary \/ StartSummary \/ PassWord
           \/ ReplyFails
  <2>1. mem' = mem /\ perm' = perm /\ ask' = ask /\ Promised = {}
    BY <1>1 DEF Panic, SkipSummary, StartSummary, PassWord, ReplyFails, Promised,
       logVars, pendingVars
  <2> QED BY <2>1, LivePlain DEF Pending
<1>2. CASE ForceSummary \/ UNCHANGED vars
  BY <1>2 DEF ForceSummary, vars, logVars, pendingVars, turnVars, Live, Pending,
     Promised, historyVars
<1>3. CASE TakeWord \/ TakeText
  <2>1. mem' = mem /\ Pending' \subseteq Pending /\ Promised = {}
    BY <1>3 DEF TakeWord, TakeText, Remaining, Promised, Pending, logVars
  <2> QED BY <2>1, LivePlain
<1>4. CASE Reply
  <2>1. /\ pc = "reply" /\ perm' = perm /\ ask' = ask
        /\ mem' = Append(mem, Head(todo)) /\ todo # <<>>
    BY <1>4 DEF Reply, Put, pendingVars, WellTyped, Placed
  <2>2. AllCalls(mem) \subseteq AllCalls(mem')
    BY <1>t, <2>1, CallsOfLogs, HeadAndTail
  <2> QED BY <2>1, <2>2, LivePlain DEF Pending, Promised
<1>5. ASSUME NEW w \in {"turn", "host"}, Slide(w) \/ NoSummary(w)
      PROVE  Live'
  <2>1. /\ mem' = mem /\ perm' = perm /\ ask' = ask /\ gone' = gone
        /\ todo' = todo /\ then' = then
        /\ pc' = pc \/ pc = "summary"
    BY <1>5 DEF Slide, NoSummary, Summarised, pendingVars, WellTyped, Placed
  <2>2. Promised \subseteq Promised'
    BY <2>1 DEF Promised
  <2> QED BY <2>1, <2>2, LivePlain DEF Pending
<1> QED BY <1>1, <1>2, <1>3, <1>4, <1>5

LEMMA LiveAtRepair ==
  ASSUME WellTyped, Rolling, Live, mishaps \subseteq mishaps',
         \/ Intact \/ FindBreak \/ ReadCursor \/ RollBack \/ RollBackFails
         \/ ReAdd \/ Explain \/ NoNotice \/ ReAddFails \/ Invalidate
  PROVE  Live'
<1>t. /\ mem \in Seq(Message) /\ todo \in Seq(Message) /\ cut \in Nat
      /\ next \in Nat /\ Len(mem) \in Nat
  BY DEF WellTyped, TypeOK
<1>1. CASE Intact \/ FindBreak \/ ReadCursor
  <2>1. mem' = mem /\ perm' = perm /\ ask' = ask /\ Promised = {}
    BY <1>1 DEF Intact, FindBreak, ReadCursor, Promised, logVars, pendingVars
  <2> QED BY <2>1, LivePlain DEF Pending
<1>2. CASE RollBack
  <2>1. /\ pc = "truncate" /\ pc' = "readd" /\ perm' = perm /\ ask' = ask
        /\ gone' = gone /\ Promised = {} /\ Promised' = gone
    BY <1>2 DEF RollBack, Goto, Promised, pendingVars
  <2>2. CASE mem' = mem
    BY <2>1, <2>2, LivePlain DEF Pending
  <2>3. CASE mem' = Upto(mem, cut)
    <3>1. /\ mem' \in Seq(Message) /\ DOMAIN mem' = 1..Len(mem')
          /\ DOMAIN mem = 1..Len(mem) /\ DOMAIN todo = 1..Len(todo)
      BY <1>t, <2>3, LogsTyped
    <3>2. /\ Len(mem') = IF cut < Len(mem) THEN cut ELSE Len(mem)
          /\ \A i \in 1..Len(mem') : mem'[i] = mem[i]
      BY <1>t, <2>3, UptoMessages
    <3>3. Tailed(cut) /\ AllCalls(todo) \subseteq gone
      BY <2>1 DEF Rolling
    <3>4. ASSUME NEW i \in DOMAIN mem
          PROVE  \/ \E j \in DOMAIN mem' : mem'[j] = mem[i]
                 \/ \E j \in DOMAIN todo : todo[j] = mem[i]
      <4>1. CASE i > cut
        BY <3>1, <3>3, <4>1 DEF Tailed
      <4>2. CASE i <= cut
        <5>1. i \in 1..Len(mem')
          BY <1>t, <3>1, <3>2, <4>2
        <5> QED BY <3>1, <3>2, <5>1
      <4> QED BY <1>t, <3>1, <4>1, <4>2
    <3>5. AllCalls(mem) \subseteq AllCalls(mem') \cup gone
      <4> SUFFICES ASSUME NEW c \in AllCalls(mem)
                   PROVE  c \in AllCalls(mem') \/ c \in AllCalls(todo)
        BY <3>3
      <4>1. PICK i \in DOMAIN mem : c \in CallsOf(mem[i])
        BY InCalls
      <4>2. CASE \E j \in DOMAIN mem' : mem'[j] = mem[i]
        BY <4>1, <4>2, InCalls
      <4>3. CASE \E j \in DOMAIN todo : todo[j] = mem[i]
        BY <4>1, <4>3, InCalls
      <4> QED BY <3>4, <4>2, <4>3
    <3>6. Pending' = Pending
      BY <2>1 DEF Pending
    <3>7. "stranded" \notin mishaps' => "stranded" \notin mishaps
      OBVIOUS
    <3> QED BY <2>1, <3>5, <3>6, <3>7, Zenon DEF Live
  <2> QED BY <1>2, <2>2, <2>3 DEF RollBack, Truncate, TruncateMemory, logVars
<1>3. CASE RollBackFails
  <2>1. /\ mem' = Upto(mem, cut) /\ Stranded(Upto(mem, cut)) \subseteq mishaps'
        /\ perm' = perm /\ ask' = ask
    BY <1>3 DEF RollBackFails, TruncateMemory, pendingVars
  <2> QED BY <2>1, LiveReplaced
<1>4. CASE ReAdd
  <2>1. PICK i \in FirstUser(todo) : Put(User(todo[i].n))
    BY <1>4 DEF ReAdd
  <2>2. i \in 1..Len(todo) /\ todo[i] \in Message
    BY <1>t, <2>1 DEF FirstUser, Users
  <2>3. todo[i].n \in Nat
    BY <2>2 DEF Message
  <2>4. User(todo[i].n) \in Message /\ mem' = Append(mem, User(todo[i].n))
    BY <2>1, <2>3, MessagesTyped DEF Put
  <2>5. AllCalls(mem) \subseteq AllCalls(mem')
    BY <1>t, <2>4, CallsOfLogs
  <2>6. /\ pc = "readd" /\ pc' = "readd" /\ gone' = gone
        /\ perm' = perm /\ ask' = ask
    BY <1>4 DEF ReAdd, pendingVars
  <2> QED BY <2>5, <2>6, LivePlain DEF Pending, Promised
<1>5. CASE Explain
  <2>1. User(next) \in Message /\ mem' = Append(mem, User(next))
    BY <1>5, <1>t, MessagesTyped DEF Explain, Put
  <2>2. AllCalls(mem) \subseteq AllCalls(mem')
    BY <1>t, <2>1, CallsOfLogs
  <2>3. /\ pc = "readd" /\ pc' = "invalidate" /\ gone' = gone
        /\ perm' = perm /\ ask' = ask
    BY <1>5 DEF Explain, Goto, pendingVars
  <2> QED BY <2>2, <2>3, LivePlain DEF Pending, Promised
<1>6. CASE NoNotice \/ ReAddFails
  <2>1. /\ pc = "readd" /\ pc' = "invalidate" /\ gone' = gone
        /\ perm' = perm /\ ask' = ask /\ mem' = mem
    BY <1>6 DEF NoNotice, ReAddFails, Goto, pendingVars, logVars
  <2> QED BY <2>1, LivePlain DEF Pending, Promised
<1>7. CASE Invalidate
  <2>1. /\ pc = "invalidate" /\ mem' = mem /\ Promised = gone
        /\ perm' = Surviving(perm) /\ ask' = Surviving(ask)
        /\ mishaps' = mishaps
    BY <1>7 DEF Invalidate, Promised, logVars, historyVars
  <2>2. Pending' \subseteq Pending \ gone
    BY <2>1 DEF Pending, Surviving
  <2> QED BY <2>1, <2>2 DEF Live
<1> QED BY <1>1, <1>2, <1>3, <1>4, <1>5, <1>6, <1>7

LEMMA LiveAtRun ==
  ASSUME WellTyped, Live, mishaps \subseteq mishaps',
         Think \/ EngineStep \/ Write \/ Written \/ WriteFails
  PROVE  Live'
<1>t. /\ TypeOK /\ mem \in Seq(Message) /\ todo \in Seq(Message)
      /\ out \in Seq(Message)
  BY DEF WellTyped, TypeOK
<1>1. CASE Think
  <2>1. mem' = mem /\ perm' = perm /\ ask' = ask /\ Promised = {}
    BY <1>1 DEF Think, Promised, logVars, pendingVars
  <2> QED BY <2>1, LivePlain DEF Pending
<1>2. ASSUME NEW new, NEW goto, Produce(new, goto), UNCHANGED pendingVars
      PROVE  Live'
  <2>1. mem' = mem /\ perm' = perm /\ ask' = ask /\ Promised = {}
    BY <1>2 DEF Produce, Promised, logVars, pendingVars
  <2> QED BY <2>1, LivePlain DEF Pending
<1>3. ASSUME NEW r \in Rounds, NEW kind \in {"permission", "ask_user"},
             Suspend(r, kind)
      PROVE  Live'
  <2> DEFINE call == <<next, r.executed + 1>>
  <2>1. call \in AllCalls(Iteration(r)) /\ Iteration(r) \in Seq(Message)
    BY <1>3, <1>t, CallInIteration, IterationTyped DEF Suspend
  <2>2. Produce(Iteration(r), "idle") /\ Pending' \subseteq Pending \cup {call}
    BY <1>3 DEF Suspend, Pending
  <2>3. /\ pc = "run" /\ pc' = "write" /\ then' = "idle" /\ mem' = mem
        /\ todo' = out \o Iteration(r) /\ mishaps' = mishaps
    BY <2>2 DEF Produce, Goto, logVars, historyVars
  <2>4. call \in AllCalls(todo')
    BY <1>t, <2>1, <2>3, CallsOfLogs
  <2>5. Promised = {} /\ Promised' = AllCalls(todo')
    BY <2>3 DEF Promised
  <2> HIDE DEF call
  <2> QED BY <2>2, <2>3, <2>4, <2>5 DEF Live
<1>4. CASE EngineStep
  BY <1>2, <1>3, <1>4, Zenon DEF EngineStep, Iterate, Cancel, Finish
<1>5. CASE Write
  <2>1. /\ pc = "write" /\ pc' = "write" /\ then' = then /\ todo # <<>>
        /\ mem' = Append(mem, Head(todo)) /\ todo' = Tail(todo)
        /\ perm' = perm /\ ask' = ask
    BY <1>5 DEF Write, Put, pendingVars
  <2>2. /\ AllCalls(mem') = AllCalls(mem) \cup CallsOf(Head(todo))
        /\ AllCalls(todo) = CallsOf(Head(todo)) \cup AllCalls(todo')
    BY <1>t, <2>1, CallsOfLogs, HeadAndTail
  <2>3. Promised \subseteq AllCalls(mem') \cup Promised'
    BY <2>1, <2>2 DEF Promised
  <2> QED BY <2>1, <2>2, <2>3, LivePlain DEF Pending
<1>6. CASE Written
  <2>1. /\ pc = "write" /\ todo = <<>> /\ mem' = mem
        /\ perm' = perm /\ ask' = ask
    BY <1>6 DEF Written, logVars, pendingVars
  <2>2. Promised = {}
    BY <2>1 DEF Promised, AllCalls
  <2> QED BY <2>1, <2>2, LivePlain DEF Pending
<1>7. CASE WriteFails
  <2>1. /\ pc = "write" /\ mem' = mem /\ perm' = perm /\ ask' = ask
        /\ then = "idle" => Stranded(mem) \subseteq mishaps'
    BY <1>7 DEF WriteFails, logVars, pendingVars
  <2>2. CASE then = "idle"
    BY <2>1, <2>2, LiveReplaced
  <2>3. CASE then # "idle"
    BY <2>1, <2>3, LivePlain DEF Pending, Promised
  <2> QED BY <2>2, <2>3
<1> QED BY <1>1, <1>4, <1>5, <1>6, <1>7

LEMMA LiveElsewhere ==
  ASSUME WellTyped, Live, mishaps \subseteq mishaps',
         \/ \E what \in {"text", "word"} : Begin(what)
         \/ \E keep \in 0..Len(mem) : HostTruncate(keep)
         \/ \E i \in DOMAIN mem : BeginDelete(i)
         \/ DeleteStored \/ DeleteFails \/ DeleteFromMemory
         \/ Reset \/ Restart
  PROVE  Live'
<1>1. ASSUME NEW what \in {"text", "word"}, Begin(what)
      PROVE  Live'
  <2>1. pc = "idle" /\ perm' = perm /\ ask' = ask /\ Promised = {}
    BY <1>1 DEF Begin, pendingVars, Promised
  <2>2. mem' = mem \/ (mem' = stored /\ Stranded(stored) \subseteq mishaps')
    BY <1>1 DEF Begin, Load, logVars
  <2> QED BY <2>1, <2>2, LivePlain, LiveReplaced DEF Pending
<1>2. ASSUME NEW keep \in 0..Len(mem), HostTruncate(keep)
      PROVE  Live'
  BY <1>2, LiveReplaced DEF HostTruncate, Truncate, TruncateMemory, Removal,
     pendingVars
<1>3. CASE (\E i \in DOMAIN mem : BeginDelete(i)) \/ DeleteStored \/ DeleteFails
  <2>1. mem' = mem /\ perm' = perm /\ ask' = ask /\ Promised = {}
    BY <1>3 DEF BeginDelete, DeleteStored, DeleteFails, Promised, logVars,
       pendingVars
  <2> QED BY <2>1, LivePlain DEF Pending
<1>4. CASE DeleteFromMemory
  BY <1>4, LiveReplaced DEF DeleteFromMemory, pendingVars
<1>5. CASE Reset
  <2>1. /\ perm' = perm /\ ask' = ask /\ Promised = {}
        /\ mem' = mem \/ (mem' = <<>> /\ Stranded(<<>>) \subseteq mishaps')
    BY <1>5 DEF Reset, Removal, pendingVars, Promised
  <2> QED BY <2>1, LivePlain, LiveReplaced DEF Pending
<1>6. CASE Restart
  BY <1>6, LiveReplaced DEF Restart, Load, pendingVars
<1> QED BY <1>1, <1>2, <1>3, <1>4, <1>5, <1>6

(* When the LLM is asked and between turns, a pending record belongs to a  *)
(* call in the log: the user is not asked about a call that was rolled     *)
(* back.  (invalidatePendingsAfterRepair)                                  *)
THEOREM PendingsLive == Spec => []PendingLive
<1>1. Init => WellTyped /\ Rolling /\ Live
  BY TypeInit, PlacedInit DEF WellTyped, Init, Rolling, Live, Pending
<1>2. WellTyped /\ Rolling /\ Live /\ [Next]_vars
        => WellTyped' /\ Rolling' /\ Live'
  <2> SUFFICES ASSUME WellTyped, Rolling, Live, [Next]_vars
               PROVE  WellTyped' /\ Rolling' /\ Live'
    OBVIOUS
  <2>1. WellTyped' /\ Rolling' /\ mishaps \subseteq mishaps'
    BY TypesKept, PlacedKept, RollingKept, MishapsKept DEF WellTyped
  <2>2. Live'
    BY <2>1, LiveAtTurn, LiveAtRepair, LiveAtRun, LiveElsewhere DEF Next, TurnStep
  <2> QED BY <2>1, <2>2
<1>3. Live => PendingLive
  BY DEF Live, Promised, Pending, PendingLive
<1> QED BY <1>1, <1>2, <1>3, PTL DEF Spec

-----------------------------------------------------------------------------
\* The invariant behind UsersKept: what was reported as saved is in the log or
\* in what the repair still has to put back, and not in a round being deleted.

UsersOf(log) == {log[i].n : i \in Users(log)}

Undisturbed == mishaps \cap {"dropped", "apart", "shared"} = {}

Saved ==
    Undisturbed =>
        /\ said \subseteq UsersOf(mem) \cup (IF pc = "readd" THEN UsersOf(todo) ELSE {})
        /\ pc = "delete" => said \cap Numbers(out) = {}

LEMMA InUsers ==
  ASSUME NEW log \in Seq(Message), NEW n
  PROVE  /\ DOMAIN log = 1..Len(log) /\ Len(log) \in Nat
         /\ n \in UsersOf(log) <=>
               \E i \in 1..Len(log) : log[i].role = "user" /\ log[i].n = n
         /\ n \in Numbers(log) <=> \E i \in 1..Len(log) : log[i].n = n
<1>1. DOMAIN log = 1..Len(log) /\ Len(log) \in Nat
  OBVIOUS
<1> QED BY <1>1 DEF UsersOf, Users, Numbers

LEMMA UsersAppended ==
  ASSUME NEW log \in Seq(Message), NEW m \in Message
  PROVE  /\ UsersOf(log) \subseteq UsersOf(Append(log, m))
         /\ m.role = "user" => m.n \in UsersOf(Append(log, m))
<1> DEFINE new == Append(log, m)
<1>1. /\ new \in Seq(Message) /\ Len(log) \in Nat /\ Len(new) = Len(log) + 1
      /\ \A i \in 1..Len(log) : new[i] = log[i]
      /\ new[Len(log) + 1] = m
  BY Appended
<1> HIDE DEF new
<1>2. ASSUME NEW n \in UsersOf(log) PROVE n \in UsersOf(new)
  <2>1. PICK i \in 1..Len(log) : log[i].role = "user" /\ log[i].n = n
    BY InUsers
  <2>2. i \in 1..Len(new) /\ new[i] = log[i]
    BY <1>1
  <2> QED BY <1>1, <2>1, <2>2, InUsers
<1>3. ASSUME m.role = "user" PROVE m.n \in UsersOf(new)
  <2>1. Len(log) + 1 \in 1..Len(new)
    BY <1>1
  <2> QED BY <1>1, <1>3, <2>1, InUsers
<1> QED BY <1>2, <1>3 DEF new

NumbersPast(log, c, k) == {log[c + i].n : i \in 1..k}

(* A user message that was not cut out is still there.                     *)
LEMMA UsersSkipped ==
  ASSUME NEW log \in Seq(Message), NEW short \in Seq(Message),
         NEW c \in Nat, NEW k \in Nat, Skips(log, short, c, k), c + k <= Len(log)
  PROVE  UsersOf(log) \ NumbersPast(log, c, k) \subseteq UsersOf(short)
<1> SUFFICES ASSUME NEW n \in UsersOf(log), \A i \in 1..k : log[c + i].n # n
             PROVE  n \in UsersOf(short)
  BY DEF NumbersPast
<1>1. PICK i \in 1..Len(log) : log[i].role = "user" /\ log[i].n = n
  BY InUsers
<1>2. Len(log) \in Nat /\ Len(short) = Len(log) - k
      /\ \A p \in 1..Len(short) : short[p] = IF p <= c THEN log[p] ELSE log[p + k]
  BY InUsers DEF Skips
<1>3. CASE i <= c
  <2>1. i \in 1..Len(short) /\ short[i] = log[i]
    BY <1>2, <1>3
  <2> QED BY <1>1, <2>1, InUsers
<1>4. CASE c < i /\ i <= c + k
  <2>1. i - c \in 1..k /\ c + (i - c) = i
    BY <1>2, <1>4
  <2> QED BY <1>1, <2>1
<1>5. CASE c + k < i
  <2>1. i - k \in 1..Len(short) /\ ~(i - k <= c) /\ (i - k) + k = i
    BY <1>2, <1>5
  <2>2. short[i - k] = log[i]
    BY <1>2, <2>1
  <2> QED BY <1>1, <2>1, <2>2, InUsers
<1> QED BY <1>2, <1>3, <1>4, <1>5

LEMMA UsersReplaced ==
  ASSUME NEW log \in Seq(Message), NEW short \in Seq(Message),
         NEW c \in Nat, NEW k \in Nat, NEW l \in Nat, l <= k, c + k <= Len(log),
         Replaces(log, short, c, k, l)
  PROVE  UsersOf(log) \ NumbersPast(log, c, k) \subseteq UsersOf(short)
<1> SUFFICES ASSUME NEW n \in UsersOf(log), \A i \in 1..k : log[c + i].n # n
             PROVE  n \in UsersOf(short)
  BY DEF NumbersPast
<1>1. PICK i \in 1..Len(log) : log[i].role = "user" /\ log[i].n = n
  BY InUsers
<1>2. /\ Len(log) \in Nat /\ Len(short) = Len(log) - k + l
      /\ \A p \in 1..c : short[p] = log[p]
      /\ \A p \in 1..Len(short) : c + l < p => short[p] = log[p + k - l]
  BY InUsers DEF Replaces
<1>3. CASE i <= c
  <2>1. i \in 1..Len(short) /\ short[i] = log[i]
    BY <1>2, <1>3
  <2> QED BY <1>1, <2>1, InUsers
<1>4. CASE c < i /\ i <= c + k
  <2>1. i - c \in 1..k /\ c + (i - c) = i
    BY <1>2, <1>4
  <2> QED BY <1>1, <2>1
<1>5. CASE c + k < i
  <2> DEFINE p == i - k + l
  <2>1. p \in 1..Len(short) /\ c + l < p /\ p + k - l = i
    BY <1>2, <1>5
  <2> HIDE DEF p
  <2>2. short[p] = log[i]
    BY <1>2, <2>1
  <2> QED BY <1>1, <2>1, <2>2, InUsers
<1> QED BY <1>2, <1>3, <1>4, <1>5

LEMMA SavedPlain ==
  ASSUME Saved, mishaps \subseteq mishaps', said' \subseteq said,
         UsersOf(mem) \subseteq UsersOf(mem'), pc # "readd", pc' # "delete"
  PROVE  Saved'
BY DEF Saved, Undisturbed

LEMMA SavedSame ==
  ASSUME Saved, mishaps \subseteq mishaps', said' = said,
         mem' = mem, out' = out, todo' = todo, pc' = pc
  PROVE  Saved'
<1>1. Undisturbed' => Undisturbed
  BY DEF Undisturbed
<1> QED BY <1>1 DEF Saved

LEMMA SavedAtTurn ==
  ASSUME WellTyped, Saved, mishaps \subseteq mishaps',
         \/ Panic \/ SkipSummary \/ StartSummary \/ ForceSummary
         \/ TakeWord \/ PassWord \/ TakeText \/ Reply \/ ReplyFails
         \/ \E w \in {"turn", "host"} : Slide(w) \/ NoSummary(w)
         \/ UNCHANGED vars
  PROVE  Saved'
<1>t. mem \in Seq(Message) /\ todo \in Seq(Message) /\ Len(todo) \in Nat
  BY DEF WellTyped, TypeOK
<1>1. CASE \/ Panic \/ SkipSummary \/ StartSummary \/ TakeWord \/ PassWord
           \/ TakeText \/ ReplyFails
  <2>1. mem' = mem /\ said' = said /\ pc # "readd" /\ pc' # "delete"
    BY <1>1 DEF Panic, SkipSummary, StartSummary, TakeWord, PassWord, TakeText,
       ReplyFails, Goto, logVars, historyVars
  <2> QED BY <2>1, SavedPlain
<1>2. CASE ForceSummary \/ UNCHANGED vars
  BY <1>2, SavedSame DEF ForceSummary, vars, logVars, turnVars, historyVars
<1>3. CASE Reply
  <2> DEFINE m == Head(todo)
  <2>1. /\ pc = "reply" /\ pc' # "readd" /\ pc' # "delete" /\ mem' = Append(mem, m)
        /\ said' \subseteq said \cup (IF m.role = "user" THEN {m.n} ELSE {})
    BY <1>3 DEF Reply, Put, Reported
  <2>2. m \in Message
    BY <1>t, <2>1, HeadAndTail DEF WellTyped, Placed
  <2> HIDE DEF m
  <2>3. /\ UsersOf(mem) \subseteq UsersOf(mem')
        /\ m.role = "user" => m.n \in UsersOf(mem')
    BY <1>t, <2>1, <2>2, UsersAppended
  <2>4. Undisturbed' => Undisturbed
    BY DEF Undisturbed
  <2> QED BY <2>1, <2>3, <2>4 DEF Saved
<1>4. ASSUME NEW w \in {"turn", "host"}, Slide(w) \/ NoSummary(w)
      PROVE  Saved'
  <2>1. /\ mem' = mem /\ said' = said /\ out' = out /\ todo' = todo
        /\ pc' = pc \/ (pc = "summary" /\ pc' = "input")
    BY <1>4 DEF Slide, NoSummary, Summarised, WellTyped, Placed
  <2> QED BY <2>1, SavedSame, SavedPlain
<1> QED BY <1>1, <1>2, <1>3, <1>4

LEMMA SavedAtRepair ==
  ASSUME WellTyped, Rolling, Saved, mishaps \subseteq mishaps',
         \/ Intact \/ FindBreak \/ ReadCursor \/ RollBack \/ RollBackFails
         \/ ReAdd \/ Explain \/ NoNotice \/ ReAddFails \/ Invalidate
  PROVE  Saved'
<1>t. /\ mem \in Seq(Message) /\ todo \in Seq(Message) /\ cut \in Nat
      /\ next \in Nat /\ Len(mem) \in Nat /\ Len(todo) \in Nat
  BY DEF WellTyped, TypeOK
<1>u. Undisturbed' => Undisturbed
  BY DEF Undisturbed
<1>1. CASE Intact \/ FindBreak \/ ReadCursor \/ Invalidate
  <2>1. mem' = mem /\ said' = said /\ pc # "readd" /\ pc' # "delete"
    BY <1>1 DEF Intact, FindBreak, ReadCursor, Invalidate, Goto, logVars,
       historyVars
  <2> QED BY <2>1, SavedPlain
<1>2. CASE RollBack
  <2>1. /\ pc = "truncate" /\ pc' = "readd" /\ said' = said /\ todo' = todo
        /\ mem' = mem \/ mem' = Upto(mem, cut)
    BY <1>2 DEF RollBack, Goto, Truncate, TruncateMemory, logVars
  <2>2. Tailed(cut)
    BY <2>1 DEF Rolling
  <2>3. ASSUME mem' = Upto(mem, cut), NEW n \in UsersOf(mem)
        PROVE  n \in UsersOf(mem') \cup UsersOf(todo)
    <3>1. PICK i \in 1..Len(mem) : mem[i].role = "user" /\ mem[i].n = n
      BY <1>t, InUsers
    <3>2. CASE i > cut
      <4>1. \E j \in 1..Len(todo) : todo[j] = mem[i]
        BY <2>2, <3>2 DEF Tailed
      <4> QED BY <1>t, <3>1, <4>1, InUsers
    <3>3. CASE i <= cut
      <4>1. /\ mem' \in Seq(Message)
            /\ Len(mem') = IF cut < Len(mem) THEN cut ELSE Len(mem)
            /\ \A k \in 1..Len(mem') : mem'[k] = mem[k]
        BY <1>t, <2>3, LogsTyped, UptoMessages
      <4>2. i \in 1..Len(mem')
        BY <1>t, <3>3, <4>1
      <4> QED BY <3>1, <4>1, <4>2, InUsers
    <3> QED BY <1>t, <3>2, <3>3
  <2>4. UsersOf(mem) \subseteq UsersOf(mem') \cup UsersOf(todo)
    BY <2>1, <2>3
  <2> QED BY <1>u, <2>1, <2>4 DEF Saved
<1>3. CASE RollBackFails
  BY <1>3 DEF RollBackFails, Saved, Undisturbed
<1>4. CASE ReAdd
  <2>1. PICK i \in FirstUser(todo) :
          Put(User(todo[i].n)) /\ todo' = From(todo, i)
    BY <1>4 DEF ReAdd
  <2>2. /\ i \in 1..Len(todo) /\ todo[i] \in Message
        /\ \A j \in 1..Len(todo) : todo[j].role = "user" => i <= j
    BY <1>t, <2>1 DEF FirstUser, Users
  <2>0. i \in Nat /\ i <= Len(todo)
    BY <1>t, <2>2
  <2> DEFINE m == User(todo[i].n)
  <2>3. todo[i].n \in Nat
    BY <2>2 DEF Message
  <2>4. m \in Message /\ m.role = "user" /\ m.n = todo[i].n /\ mem' = Append(mem, m)
    BY <2>1, <2>3, MessagesTyped DEF Put, User
  <2> HIDE DEF m
  <2>5. UsersOf(mem) \cup {todo[i].n} \subseteq UsersOf(mem')
    BY <1>t, <2>4, UsersAppended
  <2>6. ASSUME NEW n \in UsersOf(todo)
        PROVE  n \in {todo[i].n} \cup UsersOf(todo')
    <3>1. PICK j \in 1..Len(todo) : todo[j].role = "user" /\ todo[j].n = n
      BY <1>t, InUsers
    <3>2. CASE j = i
      BY <3>1, <3>2
    <3>3. CASE i < j
      <4>1. /\ todo' \in Seq(Message) /\ Len(todo') = Len(todo) - i
            /\ \A k \in 1..Len(todo') : todo'[k] = todo[i + k]
        BY <1>t, <2>0, <2>1, <2>2, LogsTyped, FromMessages
      <4>2. j - i \in 1..Len(todo') /\ i + (j - i) = j
        BY <1>t, <2>2, <3>3, <4>1
      <4>3. todo'[j - i] = todo[j]
        BY <4>1, <4>2
      <4> QED BY <3>1, <4>1, <4>2, <4>3, InUsers
    <3> QED BY <1>t, <2>2, <3>1, <3>2, <3>3
  <2>7. pc = "readd" /\ pc' = "readd" /\ said' = said
    BY <1>4 DEF ReAdd
  <2> QED BY <1>u, <2>5, <2>6, <2>7 DEF Saved
<1>5. ASSUME Users(todo) = {}, pc = "readd", pc' = "invalidate", said' = said,
             UsersOf(mem) \subseteq UsersOf(mem')
      PROVE  Saved'
  <2>1. UsersOf(todo) = {}
    BY <1>5 DEF UsersOf
  <2> QED BY <1>u, <1>5, <2>1 DEF Saved
<1>6. CASE Explain
  <2>1. User(next) \in Message /\ mem' = Append(mem, User(next))
    BY <1>6, <1>t, MessagesTyped DEF Explain, Put
  <2>2. UsersOf(mem) \subseteq UsersOf(mem')
    BY <1>t, <2>1, UsersAppended
  <2> QED BY <1>5, <1>6, <2>2 DEF Explain, Goto
<1>7. CASE NoNotice
  BY <1>5, <1>7 DEF NoNotice, Goto, logVars, historyVars
<1>8. CASE ReAddFails
  <2>1. CASE Users(todo) = {}
    BY <1>5, <1>8, <2>1 DEF ReAddFails, Goto, logVars
  <2>2. CASE Users(todo) # {}
    BY <1>8, <2>2 DEF ReAddFails, Saved, Undisturbed
  <2> QED BY <2>1, <2>2
<1> QED BY <1>1, <1>2, <1>3, <1>4, <1>6, <1>7, <1>8

LEMMA SavedAtRun ==
  ASSUME WellTyped, Saved, mishaps \subseteq mishaps',
         Think \/ EngineStep \/ Write \/ Written \/ WriteFails
  PROVE  Saved'
<1>t. /\ mem \in Seq(Message) /\ todo \in Seq(Message) /\ then \in {"idle", "run"}
  BY DEF WellTyped, TypeOK
<1>1. CASE Think \/ Written \/ WriteFails
  <2>1. mem' = mem /\ said' = said /\ pc # "readd" /\ pc' # "delete"
    BY <1>1, <1>t DEF Think, Written, WriteFails, Goto, logVars, historyVars
  <2> QED BY <2>1, SavedPlain
<1>2. CASE EngineStep
  <2>1. \E new, goto : Produce(new, goto)
    BY <1>2 DEF EngineStep, Iterate, Cancel, Suspend, Finish
  <2>2. mem' = mem /\ said' = said /\ pc # "readd" /\ pc' # "delete"
    BY <2>1 DEF Produce, Goto, logVars, historyVars
  <2> QED BY <2>2, SavedPlain
<1>3. CASE Write
  <2>1. /\ pc = "write" /\ pc' = "write" /\ todo # <<>> /\ said' = said
        /\ mem' = Append(mem, Head(todo))
    BY <1>3 DEF Write, Put
  <2>2. UsersOf(mem) \subseteq UsersOf(mem')
    BY <1>t, <2>1, UsersAppended, HeadAndTail
  <2> QED BY <2>1, <2>2, SavedPlain
<1> QED BY <1>1, <1>2, <1>3

LEMMA SavedElsewhere ==
  ASSUME WellTyped, Agreeing, Saved, mishaps \subseteq mishaps',
         \/ \E what \in {"text", "word"} : Begin(what)
         \/ \E keep \in 0..Len(mem) : HostTruncate(keep)
         \/ \E i \in DOMAIN mem : BeginDelete(i)
         \/ DeleteStored \/ DeleteFails \/ DeleteFromMemory
         \/ Reset \/ Restart
  PROVE  Saved'
<1>t. /\ mem \in Seq(Message) /\ stored \in Seq(Message) /\ out \in Seq(Message)
      /\ cut \in Nat /\ Len(mem) \in Nat /\ Len(out) \in Nat /\ todo \in Seq(Message)
      /\ Len(todo) \in Nat
  BY DEF WellTyped, TypeOK
<1> SUFFICES ASSUME Undisturbed' PROVE Saved'
  BY DEF Saved
<1>u. Undisturbed /\ Alike /\ Alike' /\ "dropped" \notin mishaps'
  BY DEF Undisturbed, Alike
<1>k. /\ said \subseteq UsersOf(mem) \cup (IF pc = "readd" THEN UsersOf(todo) ELSE {})
      /\ pc = "delete" => said \cap Numbers(out) = {}
  BY <1>u DEF Saved
(* While a round is deleted: nothing that was saved is in it.              *)
<1>d. ASSUME pc = "delete"
      PROVE  /\ Deleting
             /\ \A n \in said, i \in 1..Len(out) : mem[cut + i].n # n
  <2>1. Deleting
    BY <1>d, <1>u DEF Agreeing
  <2>2. \A n \in said, i \in 1..Len(out) : out[i].n # n
    BY <1>d, <1>k, <1>t, InUsers
  <2> QED BY <2>1, <2>2 DEF Deleting
<1>1. ASSUME NEW what \in {"text", "word"}, Begin(what)
      PROVE  Saved'
  <2>1. /\ pc = "idle" /\ pc' = "compact" /\ said' = said
        /\ mem' = mem \/ mem' = stored
    BY <1>1 DEF Begin, Load, Goto, logVars
  <2>2. mem' = mem
    BY <1>u, <2>1 DEF Agreeing
  <2> QED BY <2>1, <2>2, SavedPlain
<1>2. ASSUME NEW keep \in 0..Len(mem), HostTruncate(keep)
      PROVE  Saved'
  <2>0. keep \in Nat
    BY <1>t
  <2>1. /\ pc = "idle" /\ pc' = "idle" /\ keep < Len(mem) /\ mem' = Upto(mem, keep)
        /\ said' = said \ Numbers(From(mem, keep))
    BY <1>2, <1>t DEF HostTruncate, Removal, Truncate, TruncateMemory, turnVars
  <2>2. ASSUME NEW n \in said' PROVE n \in UsersOf(mem')
    <3>1. n \in UsersOf(mem) /\ n \notin Numbers(From(mem, keep))
      BY <1>k, <2>1, <2>2
    <3>2. PICK i \in 1..Len(mem) : mem[i].role = "user" /\ mem[i].n = n
      BY <1>t, <3>1, InUsers
    <3>3. CASE i <= keep
      <4>1. mem' \in Seq(Message) /\ Len(mem') = keep
            /\ \A k \in 1..Len(mem') : mem'[k] = mem[k]
        BY <1>t, <2>0, <2>1, LogsTyped, UptoMessages
      <4>2. i \in 1..Len(mem')
        BY <1>t, <2>0, <3>3, <4>1
      <4>3. mem'[i].role = "user" /\ mem'[i].n = n
        BY <3>2, <4>1, <4>2
      <4> QED BY <4>1, <4>2, <4>3, InUsers
    <3>4. CASE i > keep
      <4>1. /\ From(mem, keep) \in Seq(Message)
            /\ Len(From(mem, keep)) = Len(mem) - keep
            /\ \A k \in 1..Len(From(mem, keep)) : From(mem, keep)[k] = mem[keep + k]
        BY <1>t, <2>0, <2>1, LogsTyped, FromMessages
      <4>2. i - keep \in 1..Len(From(mem, keep)) /\ keep + (i - keep) = i
        BY <1>t, <2>0, <3>4, <4>1
      <4>3. From(mem, keep)[i - keep].n = n
        BY <3>2, <4>1, <4>2
      <4>4. n \in Numbers(From(mem, keep))
        BY <4>1, <4>2, <4>3, InUsers
      <4> QED BY <3>1, <4>4
    <3> QED BY <1>t, <2>0, <3>3, <3>4
  <2> QED BY <2>1, <2>2 DEF Saved
<1>3. ASSUME NEW i \in DOMAIN mem, BeginDelete(i)
      PROVE  Saved'
  <2>1. /\ pc = "idle" /\ pc' = "delete" /\ mem' = mem
        /\ said' = said \ Numbers(out')
    BY <1>3 DEF BeginDelete, Goto, logVars
  <2> QED BY <1>k, <2>1 DEF Saved
<1>4. CASE DeleteStored
  <2>1. /\ pc = "delete" /\ pc' = "delete" /\ mem' = mem /\ out' = out
        /\ said' = said
    BY <1>4 DEF DeleteStored, historyVars
  <2> QED BY <1>k, <2>1 DEF Saved
<1>5. CASE DeleteFails
  BY <1>5, <1>u DEF DeleteFails, Alike
<1>6. CASE DeleteFromMemory
  <2>1. /\ pc = "delete" /\ pc' = "idle" /\ said' = said
        /\ mem' = Without(mem, cut + 1, cut + Len(out))
    BY <1>6 DEF DeleteFromMemory, Goto
  <2>2. cut + Len(out) <= Len(mem)
    BY <1>d, <2>1 DEF Deleting
  <2>3. mem' \in Seq(Message) /\ Skips(mem, mem', cut, Len(out))
    BY <1>t, <2>1, <2>2, WithoutMessages
  <2>4. ASSUME NEW n \in said PROVE n \in UsersOf(mem')
    <3>1. n \in UsersOf(mem) /\ \A i \in 1..Len(out) : mem[cut + i].n # n
      BY <1>k, <1>d, <2>1, <2>4
    <3>2. UsersOf(mem) \ NumbersPast(mem, cut, Len(out)) \subseteq UsersOf(mem')
      BY <1>t, <2>2, <2>3, UsersSkipped
    <3> QED BY <3>1, <3>2 DEF NumbersPast
  <2> QED BY <2>1, <2>4 DEF Saved
<1>7. CASE Reset
  BY <1>7 DEF Reset, Removal, turnVars, Saved
<1>8. CASE Restart
  <2>1. /\ pc' = "idle" /\ said' = said /\ mem' = stored
        /\ pc = "readd" => Users(todo) = {}
    BY <1>8, <1>u DEF Restart, Load, Goto
  <2>2. CASE pc = "delete"
    <3>0. Deleting
      BY <1>d, <2>2
    <3>1. cut + Len(out) <= Len(mem)
      BY <3>0 DEF Deleting
    <3>2. PICK l \in 0..Len(out) : Replaces(mem, stored, cut, Len(out), l)
      BY <3>0 DEF Deleting
    <3>4. l \in Nat /\ l <= Len(out)
      BY <1>t
    <3>3. ASSUME NEW n \in said PROVE n \in UsersOf(stored)
      <4>1. n \in UsersOf(mem) /\ \A i \in 1..Len(out) : mem[cut + i].n # n
        BY <1>k, <1>d, <2>2, <3>3
      <4>2. UsersOf(mem) \ NumbersPast(mem, cut, Len(out)) \subseteq UsersOf(stored)
        BY <1>t, <3>1, <3>2, <3>4, UsersReplaced
      <4> QED BY <4>1, <4>2 DEF NumbersPast
    <3> QED BY <2>1, <3>3 DEF Saved
  <2>3. CASE pc # "delete"
    <3>1. mem' = mem
      BY <1>u, <2>1, <2>3 DEF Agreeing
    <3>2. pc = "readd" => UsersOf(todo) = {}
      BY <2>1 DEF UsersOf
    <3> QED BY <1>k, <2>1, <3>1, <3>2 DEF Saved
  <2> QED BY <2>2, <2>3
<1> QED BY <1>1, <1>2, <1>3, <1>4, <1>5, <1>6, <1>7, <1>8

-----------------------------------------------------------------------------
\* The invariant behind HiddenSummarised: what is before the cursor was told in
\* a summary or came late, and a summary under way accounts for all the rest.

Calm == mishaps \cap {"lowered", "apart", "shared"} = {}

Hidden ==
    Calm =>
        /\ storedCursor <= cursor /\ cursor <= Len(mem)
        /\ pc = "delete" => cursor <= cut
        /\ \A i \in 1..cursor : mem[i].n \in summarised \cup late
        /\ \A w \in {"turn", "host"} :
              summary[w] # {} => Numbers(mem) \subseteq summary[w] \cup summarised \cup late

(* The log before the cursor stays, and nothing new comes after it.        *)
LEMMA HiddenPlain ==
  ASSUME Hidden, mishaps \subseteq mishaps', cursor \in Nat, cursor' \in Nat,
         Calm' => /\ storedCursor' <= cursor' /\ cursor' <= cursor
                  /\ cursor' <= Len(mem')
                  /\ \A i \in 1..cursor' : mem'[i] = mem[i]
                  /\ Numbers(mem') \subseteq Numbers(mem)
                  /\ pc' = "delete" => cursor' <= cut',
         summarised \cup late \subseteq summarised' \cup late',
         \A w \in {"turn", "host"} : summary'[w] # {} => summary'[w] = summary[w]
  PROVE  Hidden'
<1> SUFFICES ASSUME Calm' PROVE Hidden'
  BY DEF Hidden
<1>1. Calm
  BY DEF Calm
<1>2. 1..cursor' \subseteq 1..cursor
  OBVIOUS
<1> QED BY <1>1, <1>2 DEF Hidden

LEMMA HiddenSame ==
  ASSUME WellTyped, Hidden, mishaps \subseteq mishaps', UNCHANGED logVars,
         summarised' = summarised, late' = late, summary' = summary,
         pc' = "delete" => cut' = cut /\ pc = "delete"
  PROVE  Hidden'
<1>1. Calm' => Calm
  BY DEF Calm
<1>2. mem' = mem /\ cursor' = cursor /\ storedCursor' = storedCursor
  BY DEF logVars
<1> QED BY <1>1, <1>2 DEF Hidden

LEMMA HiddenPut ==
  ASSUME WellTyped, Hidden, mishaps \subseteq mishaps', NEW m \in Message, Put(m),
         summary' = summary, pc' # "delete"
  PROVE  Hidden'
<1>t. /\ mem \in Seq(Message) /\ cursor \in Nat
      /\ summary \in [{"turn", "host"} -> SUBSET Nat]
  BY DEF WellTyped, TypeOK
<1> SUFFICES ASSUME Calm' PROVE Hidden'
  BY DEF Hidden
<1>c. Calm
  BY DEF Calm
<1>1. /\ mem' = Append(mem, m) /\ cursor' = cursor /\ storedCursor' = storedCursor
      /\ summarised' = summarised /\ late \subseteq late'
      /\ summary["turn"] \cup summary["host"] # {} => m.n \in late'
  BY DEF Put
<1>2. /\ mem' \in Seq(Message) /\ Len(mem) \in Nat /\ Len(mem') = Len(mem) + 1
      /\ \A i \in 1..Len(mem) : mem'[i] = mem[i]
      /\ mem'[Len(mem) + 1] = m
  BY <1>t, <1>1, Appended
<1>3. Numbers(mem') \subseteq Numbers(mem) \cup {m.n}
  <2> SUFFICES ASSUME NEW n \in Numbers(mem') PROVE n \in Numbers(mem) \/ n = m.n
    OBVIOUS
  <2>1. PICK i \in 1..Len(mem') : mem'[i].n = n
    BY <1>2, InUsers
  <2>2. i \in 1..Len(mem) \/ i = Len(mem) + 1
    BY <1>2
  <2> QED BY <1>t, <1>2, <2>1, <2>2, InUsers
<1>4. /\ storedCursor <= cursor /\ cursor <= Len(mem)
      /\ \A i \in 1..cursor : mem[i].n \in summarised \cup late
      /\ \A w \in {"turn", "host"} :
            summary[w] # {} => Numbers(mem) \subseteq summary[w] \cup summarised \cup late
  BY <1>c DEF Hidden
<1>5. cursor <= Len(mem') /\ \A i \in 1..cursor : mem'[i] = mem[i]
  BY <1>t, <1>2, <1>4
<1>6. ASSUME NEW w \in {"turn", "host"}, summary[w] # {}
      PROVE  Numbers(mem') \subseteq summary[w] \cup summarised' \cup late'
  <2>1. m.n \in late'
    BY <1>1, <1>6
  <2> QED BY <1>1, <1>3, <1>4, <1>6, <2>1
<1> QED BY <1>1, <1>4, <1>5, <1>6 DEF Hidden

(* The window and what is before it make up the log.                       *)
LEMMA HiddenOrInWindow ==
  ASSUME WellTyped, NEW S, \A i \in 1..cursor : mem[i].n \in S
  PROVE  Numbers(mem) \subseteq Numbers(Window) \cup S
<1>t. mem \in Seq(Message) /\ cursor \in Nat /\ Len(mem) \in Nat
  BY DEF WellTyped, TypeOK
<1>1. /\ Window \in Seq(Message)
      /\ cursor <= Len(mem) => Len(Window) = Len(mem) - cursor
      /\ \A i \in 1..Len(Window) : Window[i] = mem[cursor + i]
  BY <1>t, LogsTyped, FromMessages DEF Window
<1> HIDE DEF Window
<1> SUFFICES ASSUME NEW n \in Numbers(mem) PROVE n \in Numbers(Window) \cup S
  OBVIOUS
<1>2. PICK i \in 1..Len(mem) : mem[i].n = n
  BY <1>t, InUsers
<1>3. CASE i <= cursor
  <2>1. i \in 1..cursor
    BY <1>t, <1>3
  <2> QED BY <1>2, <2>1
<1>4. CASE cursor < i
  <2>1. i - cursor \in 1..Len(Window) /\ cursor + (i - cursor) = i
    BY <1>t, <1>1, <1>4
  <2> QED BY <1>1, <1>2, <2>1, InUsers
<1> QED BY <1>t, <1>3, <1>4

LEMMA HiddenAtSummary ==
  ASSUME WellTyped, Hidden, mishaps \subseteq mishaps',
         \/ StartSummary \/ ForceSummary
         \/ \E w \in {"turn", "host"} : Slide(w) \/ NoSummary(w)
  PROVE  Hidden'
<1>t. /\ mem \in Seq(Message) /\ cursor \in Nat /\ Len(mem) \in Nat
      /\ summary \in [{"turn", "host"} -> SUBSET Nat] /\ storedCursor \in Nat
  BY DEF WellTyped, TypeOK
<1> SUFFICES ASSUME Calm' PROVE Hidden'
  BY DEF Hidden
<1>h. /\ storedCursor <= cursor /\ cursor <= Len(mem)
      /\ pc = "delete" => cursor <= cut
      /\ \A i \in 1..cursor : mem[i].n \in summarised \cup late
      /\ \A w \in {"turn", "host"} :
            summary[w] # {} => Numbers(mem) \subseteq summary[w] \cup summarised \cup late
  BY DEF Calm, Hidden
<1>1. CASE StartSummary \/ ForceSummary
  <2>1. /\ mem' = mem /\ cursor' = cursor /\ storedCursor' = storedCursor
        /\ summarised' = summarised /\ late' = late /\ pc' # "delete"
    BY <1>1 DEF StartSummary, ForceSummary, Goto, logVars, turnVars, historyVars
  <2>2. PICK w \in {"turn", "host"} :
          summary' = [summary EXCEPT ![w] = Numbers(Window)]
    BY <1>1 DEF StartSummary, ForceSummary
  <2>3. Numbers(mem) \subseteq Numbers(Window) \cup (summarised \cup late)
    BY <1>h, HiddenOrInWindow
  <2>4. \A v \in {"turn", "host"} :
           summary'[v] = IF v = w THEN Numbers(Window) ELSE summary[v]
    BY <1>t, <2>2
  <2> HIDE DEF Window
  <2>5. \A v \in {"turn", "host"} : summary'[v] # {} =>
           Numbers(mem) \subseteq summary'[v] \cup summarised \cup late
    BY <1>h, <2>3, <2>4
  <2> QED BY <1>h, <2>1, <2>5 DEF Hidden
<1>2. ASSUME NEW w \in {"turn", "host"}, Summarised(w)
      PROVE  /\ mem' = mem /\ late' = late /\ cut' = cut /\ summary[w] # {}
             /\ \A v \in {"turn", "host"} :
                   summary'[v] = IF v = w THEN {} ELSE summary[v]
             /\ pc' = "delete" => pc = "delete"
  BY <1>t, <1>2 DEF Summarised
<1>3. ASSUME NEW w \in {"turn", "host"}, Slide(w)
      PROVE  Hidden'
  <2>1. /\ pc # "delete" /\ summarised' = summarised \cup summary[w]
        /\ cursor' = Len(mem)
        /\ storedCursor' = Len(mem) \/ storedCursor' = storedCursor
        /\ Summarised(w)
    BY <1>3 DEF Slide
  <2>2. /\ mem' = mem /\ late' = late /\ summary[w] # {} /\ pc' # "delete"
        /\ \A v \in {"turn", "host"} : summary'[v] # {} => summary'[v] = summary[v]
    BY <1>2, <2>1
  <2>3. Numbers(mem) \subseteq summarised' \cup late'
    BY <1>h, <2>1, <2>2
  <2>4. \A i \in 1..Len(mem) : mem[i].n \in summarised' \cup late'
    BY <1>t, <2>3, InUsers
  <2>5. storedCursor' <= cursor' /\ cursor' <= Len(mem')
    BY <1>t, <1>h, <2>1, <2>2
  <2> QED BY <2>1, <2>2, <2>3, <2>4, <2>5 DEF Hidden
<1>4. ASSUME NEW w \in {"turn", "host"}, NoSummary(w)
      PROVE  Hidden'
  <2>1. /\ cursor' = cursor /\ storedCursor' = storedCursor
        /\ summarised' = summarised /\ Summarised(w)
    BY <1>4 DEF NoSummary
  <2>2. /\ mem' = mem /\ late' = late /\ cut' = cut
        /\ \A v \in {"turn", "host"} : summary'[v] # {} => summary'[v] = summary[v]
        /\ pc' = "delete" => pc = "delete"
    BY <1>2, <2>1
  <2> QED BY <1>h, <2>1, <2>2 DEF Hidden
<1> QED BY <1>1, <1>3, <1>4

(* A truncation past the cursor; one before it is on record.               *)
LEMMA HiddenTruncated ==
  ASSUME WellTyped, Hidden, mishaps \subseteq mishaps', NEW keep \in Nat,
         Truncate(keep), Lowered(keep) \subseteq mishaps', pc' # "delete",
         summarised' = summarised, late' = late, summary' = summary
  PROVE  Hidden'
<1>t. /\ mem \in Seq(Message) /\ cursor \in Nat /\ Len(mem) \in Nat
  BY DEF WellTyped, TypeOK
<1>1. CASE keep >= Len(mem)
  BY <1>1, HiddenSame DEF Truncate
<1>2. CASE keep < Len(mem)
  <2>1. /\ mem' = Upto(mem, keep) /\ storedCursor' = storedCursor
        /\ cursor' = IF cursor > keep THEN keep ELSE cursor
    BY <1>t, <1>2 DEF Truncate, TruncateMemory
  <2>2. /\ mem' \in Seq(Message) /\ Len(mem') = keep
        /\ \A i \in 1..keep : mem'[i] = mem[i]
    BY <1>t, <1>2, <2>1, LogsTyped, UptoMessages
  <2>3. Numbers(mem') \subseteq Numbers(mem)
    <3> SUFFICES ASSUME NEW n \in Numbers(mem') PROVE n \in Numbers(mem)
      OBVIOUS
    <3>1. PICK i \in 1..keep : mem'[i].n = n
      BY <2>2, InUsers
    <3>2. i \in 1..Len(mem) /\ mem[i].n = n
      BY <1>t, <1>2, <2>2, <3>1
    <3> QED BY <1>t, <3>2, InUsers
  <2>4. ASSUME Calm'
        PROVE  /\ storedCursor' <= cursor' /\ cursor' <= cursor
               /\ cursor' <= Len(mem')
               /\ \A i \in 1..cursor' : mem'[i] = mem[i]
    <3>1. cursor <= keep
      BY <1>t, <1>2, <2>4 DEF Calm, Lowered
    <3>2. storedCursor <= cursor
      BY <2>4 DEF Calm, Hidden
    <3> QED BY <1>t, <2>1, <2>2, <3>1, <3>2
  <2>5. cursor' \in Nat
    BY <1>t, <2>1
  <2> QED BY <1>t, <2>3, <2>4, <2>5, HiddenPlain
<1> QED BY <1>t, <1>1, <1>2

LEMMA HiddenAtTurn ==
  ASSUME WellTyped, Hidden, mishaps \subseteq mishaps',
         \/ Panic \/ SkipSummary
         \/ TakeWord \/ PassWord \/ TakeText \/ Reply \/ ReplyFails
         \/ UNCHANGED vars
  PROVE  Hidden'
<1>1. CASE \/ Panic \/ SkipSummary \/ TakeWord \/ PassWord \/ TakeText
           \/ ReplyFails
  <2>1. /\ UNCHANGED logVars /\ pc' # "delete" /\ summary' = summary
        /\ summarised' = summarised /\ late' = late
    BY <1>1 DEF Panic, SkipSummary, TakeWord, PassWord, TakeText, ReplyFails,
       Goto, historyVars
  <2> QED BY <2>1, HiddenSame
<1>2. CASE UNCHANGED vars
  BY <1>2, HiddenSame DEF vars, turnVars, historyVars
<1>3. CASE Reply
  <2>1. todo \in Seq(Message) /\ todo # <<>>
    BY <1>3 DEF WellTyped, TypeOK, Placed, Reply
  <2>2. /\ Head(todo) \in Message /\ Put(Head(todo)) /\ summary' = summary
        /\ pc' # "delete"
    BY <1>3, <2>1, HeadAndTail DEF Reply
  <2> QED BY <2>2, HiddenPut
<1> QED BY <1>1, <1>2, <1>3

LEMMA HiddenAtRepair ==
  ASSUME WellTyped, Hidden, mishaps \subseteq mishaps',
         \/ Intact \/ FindBreak \/ ReadCursor \/ RollBack \/ RollBackFails
         \/ ReAdd \/ Explain \/ NoNotice \/ ReAddFails \/ Invalidate
  PROVE  Hidden'
<1>t. todo \in Seq(Message) /\ next \in Nat /\ cut \in Nat
  BY DEF WellTyped, TypeOK
<1>1. CASE Intact \/ FindBreak \/ ReadCursor \/ NoNotice \/ ReAddFails \/ Invalidate
  <2>1. /\ UNCHANGED logVars /\ pc' # "delete" /\ summary' = summary
        /\ summarised' = summarised /\ late' = late
    BY <1>1 DEF Intact, FindBreak, ReadCursor, NoNotice, ReAddFails, Invalidate,
       Goto, historyVars
  <2> QED BY <2>1, HiddenSame
<1>2. CASE RollBack
  <2>1. /\ Truncate(cut) /\ Lowered(cut) \subseteq mishaps' /\ pc' # "delete"
        /\ summarised' = summarised /\ late' = late /\ summary' = summary
    BY <1>2 DEF RollBack, Goto
  <2> QED BY <1>t, <2>1, HiddenTruncated
<1>3. CASE RollBackFails
  BY <1>3 DEF RollBackFails, Hidden, Calm
<1>4. CASE ReAdd
  <2>1. PICK i \in FirstUser(todo) : Put(User(todo[i].n))
    BY <1>4 DEF ReAdd
  <2>2. i \in 1..Len(todo) /\ todo[i] \in Message
    BY <1>t, <2>1 DEF FirstUser, Users
  <2>3. todo[i].n \in Nat
    BY <2>2 DEF Message
  <2>4. User(todo[i].n) \in Message /\ summary' = summary /\ pc' # "delete"
    BY <1>4, <2>3, MessagesTyped DEF ReAdd
  <2> QED BY <2>1, <2>4, HiddenPut
<1>5. CASE Explain
  <2>1. /\ User(next) \in Message /\ Put(User(next)) /\ summary' = summary
        /\ pc' # "delete"
    BY <1>t, <1>5, MessagesTyped DEF Explain, Goto
  <2> QED BY <2>1, HiddenPut
<1> QED BY <1>1, <1>2, <1>3, <1>4, <1>5

LEMMA HiddenAtRun ==
  ASSUME WellTyped, Hidden, mishaps \subseteq mishaps',
         Think \/ EngineStep \/ Write \/ Written \/ WriteFails
  PROVE  Hidden'
<1>t. then \in {"idle", "run"} /\ todo \in Seq(Message)
  BY DEF WellTyped, TypeOK
<1>1. CASE Think \/ Written \/ WriteFails
  <2>1. /\ UNCHANGED logVars /\ pc' # "delete" /\ summary' = summary
        /\ summarised' = summarised /\ late' = late
    BY <1>t, <1>1 DEF Think, Written, WriteFails, Goto, historyVars
  <2> QED BY <2>1, HiddenSame
<1>2. CASE EngineStep
  <2>1. \E new, goto : Produce(new, goto)
    BY <1>2 DEF EngineStep, Iterate, Cancel, Suspend, Finish
  <2>2. /\ UNCHANGED logVars /\ pc' # "delete" /\ summary' = summary
        /\ summarised' = summarised /\ late' = late
    BY <2>1 DEF Produce, Goto, historyVars
  <2> QED BY <2>2, HiddenSame
<1>3. CASE Write
  <2>1. /\ Head(todo) \in Message /\ Put(Head(todo)) /\ summary' = summary
        /\ pc' # "delete"
    BY <1>t, <1>3, HeadAndTail DEF Write
  <2> QED BY <2>1, HiddenPut
<1> QED BY <1>1, <1>2, <1>3

LEMMA HiddenElsewhere ==
  ASSUME WellTyped, Agreeing, Hidden, mishaps \subseteq mishaps',
         \/ \E what \in {"text", "word"} : Begin(what)
         \/ \E keep \in 0..Len(mem) : HostTruncate(keep)
         \/ \E i \in DOMAIN mem : BeginDelete(i)
         \/ DeleteStored \/ DeleteFails \/ DeleteFromMemory
         \/ Reset \/ Restart
  PROVE  Hidden'
<1>t. /\ mem \in Seq(Message) /\ stored \in Seq(Message) /\ out \in Seq(Message)
      /\ cut \in Nat /\ Len(mem) \in Nat /\ Len(out) \in Nat /\ todo \in Seq(Message)
      /\ Len(todo) \in Nat /\ cursor \in Nat /\ storedCursor \in Nat
      /\ summary \in [{"turn", "host"} -> SUBSET Nat]
  BY DEF WellTyped, TypeOK
<1> SUFFICES ASSUME Calm' PROVE Hidden'
  BY DEF Hidden
<1>c. Calm /\ Alike /\ Alike'
  BY DEF Calm, Alike
<1>h. /\ storedCursor <= cursor /\ cursor <= Len(mem)
      /\ pc = "delete" => cursor <= cut
  BY <1>c DEF Hidden
(* What is left of the log after some of it past the cursor is gone.       *)
<1>s. ASSUME NEW short \in Seq(Message), NEW k \in Nat, pc = "delete",
             Skips(mem, short, cut, k), cut + k <= Len(mem)
      PROVE  /\ cursor <= Len(short)
             /\ \A i \in 1..cursor : short[i] = mem[i]
             /\ Numbers(short) \subseteq Numbers(mem)
  <2>1. /\ Len(short) = Len(mem) - k /\ Len(short) \in Nat
        /\ \A p \in 1..Len(short) : short[p] = IF p <= cut THEN mem[p] ELSE mem[p + k]
    BY <1>s DEF Skips
  <2>2. cursor <= Len(short)
    BY <1>t, <1>h, <1>s, <2>1
  <2>3. ASSUME NEW i \in 1..cursor PROVE short[i] = mem[i]
    <3>1. i \in 1..Len(short) /\ i <= cut
      BY <1>t, <1>h, <1>s, <2>1, <2>2
    <3> QED BY <2>1, <3>1
  <2>4. ASSUME NEW n \in Numbers(short) PROVE n \in Numbers(mem)
    <3>1. PICK p \in 1..Len(short) : short[p].n = n
      BY InUsers
    <3>2. p \in 1..Len(mem) /\ p + k \in 1..Len(mem)
      BY <1>t, <2>1
    <3>3. short[p] = mem[p] \/ short[p] = mem[p + k]
      BY <2>1
    <3> QED BY <1>t, <3>1, <3>2, <3>3, InUsers
  <2> QED BY <2>2, <2>3, <2>4
<1>d. ASSUME pc = "delete"
      PROVE  Deleting
  BY <1>d, <1>c DEF Agreeing
<1>1. ASSUME NEW what \in {"text", "word"}, Begin(what)
      PROVE  Hidden'
  <2>1. /\ pc = "idle" /\ pc' = "compact"
        /\ summarised' = summarised /\ late' = late /\ summary' = summary
        /\ UNCHANGED logVars \/ Load
    BY <1>1 DEF Begin, Goto
  <2>2. CASE UNCHANGED logVars
    BY <2>1, <2>2, HiddenSame
  <2>3. CASE Load
    <3>1. mem' = mem /\ cursor' = storedCursor /\ storedCursor' = storedCursor
      BY <1>c, <2>1, <2>3 DEF Agreeing, Load
    <3>2. /\ storedCursor' <= cursor' /\ cursor' <= cursor /\ cursor' <= Len(mem')
          /\ \A i \in 1..cursor' : mem'[i] = mem[i]
          /\ Numbers(mem') \subseteq Numbers(mem)
          /\ pc' # "delete" /\ cursor' \in Nat
      BY <1>t, <1>h, <2>1, <3>1
    <3> QED BY <1>t, <2>1, <3>2, HiddenPlain
  <2> QED BY <2>1, <2>2, <2>3
<1>2. ASSUME NEW keep \in 0..Len(mem), HostTruncate(keep)
      PROVE  Hidden'
  <2>1. /\ Truncate(keep) /\ Lowered(keep) \subseteq mishaps' /\ pc' # "delete"
        /\ summarised' = summarised /\ late' = late /\ summary' = summary
    BY <1>2 DEF HostTruncate, Removal, turnVars
  <2>2. keep \in Nat
    BY <1>t
  <2> QED BY <2>1, <2>2, HiddenTruncated
<1>3. ASSUME NEW i \in DOMAIN mem, BeginDelete(i)
      PROVE  Hidden'
  <2>1. /\ UNCHANGED logVars /\ cut' = cursor + i - 1
        /\ summarised' = summarised /\ late' = late /\ summary' = summary
    BY <1>3 DEF BeginDelete
  <2>2. cursor <= cut'
    <3>1. i \in 1..Len(mem)
      BY <1>t
    <3> QED BY <1>t, <2>1, <3>1
  <2> QED BY <1>c, <2>1, <2>2 DEF Hidden, logVars
<1>4. CASE DeleteStored
  <2>1. /\ mem' = mem /\ cursor' = cursor /\ storedCursor' = storedCursor
        /\ cut' = cut /\ pc = "delete"
        /\ summarised' = summarised /\ late' = late /\ summary' = summary
    BY <1>4 DEF DeleteStored, historyVars
  <2> QED BY <1>c, <2>1 DEF Hidden
<1>5. CASE DeleteFails
  BY <1>5, <1>c DEF DeleteFails, Alike
<1>6. CASE DeleteFromMemory
  <2>1. /\ pc = "delete" /\ pc' = "idle" /\ cursor' = cursor
        /\ storedCursor' = storedCursor
        /\ mem' = Without(mem, cut + 1, cut + Len(out))
        /\ summarised' = summarised /\ late' = late /\ summary' = summary
    BY <1>6 DEF DeleteFromMemory, Goto
  <2>2. cut + Len(out) <= Len(mem)
    BY <1>d, <2>1 DEF Deleting
  <2>3. mem' \in Seq(Message) /\ Skips(mem, mem', cut, Len(out))
    BY <1>t, <2>1, <2>2, WithoutMessages
  <2>4. /\ cursor <= Len(mem') /\ \A i \in 1..cursor : mem'[i] = mem[i]
        /\ Numbers(mem') \subseteq Numbers(mem)
    BY <1>s, <1>t, <2>1, <2>2, <2>3
  <2>5. /\ storedCursor' <= cursor' /\ cursor' <= cursor /\ cursor' <= Len(mem')
        /\ \A i \in 1..cursor' : mem'[i] = mem[i]
        /\ pc' # "delete" /\ cursor' \in Nat
    BY <1>t, <1>h, <2>1, <2>4
  <2> QED BY <1>t, <2>1, <2>4, <2>5, HiddenPlain
<1>7. CASE Reset
  <2>1. /\ mem' = <<>> /\ cursor' = 0 /\ storedCursor' = 0 /\ pc' # "delete"
    BY <1>7, <1>c DEF Reset, Removal, turnVars, Alike
  <2>2. Numbers(mem') = {}
    BY <2>1 DEF Numbers
  <2> QED BY <2>1, <2>2 DEF Hidden
<1>8. CASE Restart
  <2>1. /\ pc' = "idle" /\ mem' = stored /\ cursor' = storedCursor
        /\ storedCursor' = storedCursor
        /\ summarised' = summarised /\ late' = late
        /\ \A w \in {"turn", "host"} : summary'[w] = {}
    BY <1>8 DEF Restart, Load, Goto
  <2>2. /\ cursor <= Len(stored) /\ \A i \in 1..cursor : stored[i] = mem[i]
        /\ Numbers(stored) \subseteq Numbers(mem)
    <3>1. CASE pc = "delete"
      <4>1. Deleting
        BY <1>d, <3>1
      <4>2. PICK l \in 0..Len(out) : Replaces(mem, stored, cut, Len(out), l)
        BY <4>1 DEF Deleting
      <4>3. /\ cut + Len(out) <= Len(mem) /\ cursor <= cut
            /\ Len(stored) = Len(mem) - Len(out) + l
            /\ \A i \in 1..cut : stored[i] = mem[i]
        BY <1>h, <3>1, <4>1, <4>2 DEF Deleting, Replaces
      <4>4. cursor <= Len(stored) /\ \A i \in 1..cursor : i \in 1..cut
        BY <1>t, <4>3
      <4>5. \A p \in 1..Len(stored) : stored[p].n \in Numbers(mem)
        BY <4>1 DEF Deleting
      <4>6. Numbers(stored) \subseteq Numbers(mem)
        BY <1>t, <4>5, InNumbers
      <4> QED BY <4>3, <4>4, <4>6
    <3>2. CASE pc # "delete"
      <4>1. stored = mem
        BY <1>c, <3>2 DEF Agreeing
      <4> QED BY <1>h, <4>1
    <3> QED BY <3>1, <3>2
  <2>3. /\ storedCursor' <= cursor' /\ cursor' <= cursor /\ cursor' <= Len(mem')
        /\ \A i \in 1..cursor' : mem'[i] = mem[i]
        /\ pc' # "delete" /\ cursor' \in Nat
    <3>1. Len(stored) \in Nat /\ storedCursor <= cursor
      BY <1>t, <1>h
    <3> QED BY <1>t, <2>1, <2>2, <3>1
  <2> QED BY <1>t, <2>1, <2>2, <2>3, HiddenPlain
<1> QED BY <1>1, <1>2, <1>3, <1>4, <1>5, <1>6, <1>7, <1>8

(* A message that left the window is in a delivered summary, or came while *)
(* one was being written; the exceptions are a cursor that a truncation    *)
(* lowered in memory only, and a store that lost messages memory has.      *)
(* (doCompact, executeFullCompaction)                                      *)
THEOREM HiddenIsSummarised == Spec => []HiddenSummarised
<1> DEFINE Inv == WellTyped /\ Agreeing /\ Hidden
<1>1. Init => Inv
  <2> SUFFICES ASSUME Init PROVE Inv
    OBVIOUS
  <2>1. WellTyped /\ Agreeing
    BY TypeInit, PlacedInit DEF WellTyped, Init, Agreeing
  <2>2. Hidden
    BY DEF Init, Hidden
  <2> QED BY <2>1, <2>2
<1>2. Inv /\ [Next]_vars => Inv'
  <2> SUFFICES ASSUME WellTyped, Agreeing, Hidden, [Next]_vars
               PROVE  WellTyped' /\ Agreeing' /\ Hidden'
    OBVIOUS
  <2>1. WellTyped' /\ Agreeing' /\ mishaps \subseteq mishaps'
    BY TypesKept, PlacedKept, AgreeingKept, MishapsKept DEF WellTyped
  <2>2. Hidden'
    BY <2>1, HiddenAtSummary, HiddenAtTurn, HiddenAtRepair, HiddenAtRun,
       HiddenElsewhere DEF Next, TurnStep
  <2> QED BY <2>1, <2>2
<1>3. Inv => HiddenSummarised
  <2> SUFFICES ASSUME Inv, Calm
               PROVE  Numbers(Upto(mem, cursor)) \subseteq summarised \cup late
    BY DEF HiddenSummarised, Calm
  <2>1. mem \in Seq(Message) /\ cursor \in Nat /\ Len(mem) \in Nat
    BY DEF WellTyped, TypeOK
  <2>2. /\ cursor <= Len(mem)
        /\ \A i \in 1..cursor : mem[i].n \in summarised \cup late
    BY DEF Hidden
  <2> DEFINE u == Upto(mem, cursor)
  <2>3. /\ u \in Seq(Message)
        /\ Len(u) = IF cursor < Len(mem) THEN cursor ELSE Len(mem)
        /\ \A i \in 1..Len(u) : u[i] = mem[i]
    BY <2>1, LogsTyped, UptoMessages
  <2> HIDE DEF u
  <2>4. ASSUME NEW n \in Numbers(u) PROVE n \in summarised \cup late
    <3>1. PICK i \in 1..Len(u) : u[i].n = n
      BY <2>3, InUsers
    <3>2. i \in 1..cursor /\ mem[i].n = n
      BY <2>1, <2>2, <2>3, <3>1
    <3> QED BY <2>2, <3>2
  <2> QED BY <2>4 DEF u
<1> HIDE DEF Inv
<1> QED BY <1>1, <1>2, <1>3, PTL DEF Spec

-----------------------------------------------------------------------------
\* The invariant behind LogSound.  Every message anywhere is known: it is older
\* than the next one, and the call it answers waits for no answer.

In(log) == {log[i] : i \in 1..Len(log)}

Messages == In(mem) \cup In(stored) \cup In(todo) \cup In(out)

(* What is known of a message while the calls p and a wait and n is next.   *)
Known(m, p, a, n) ==
    /\ m.n < n
    /\ m.role = "tool" =>
          m.of # p /\ m.of # a /\ 0 < m.of[1] /\ m.of[1] < n
    /\ m.role # "tool" => m.of = NoCall

Counted ==
    /\ \A m \in Messages : Known(m, perm, ask, next)
    /\ \A p \in {perm, ask} : p[1] < next /\ (p # NoCall => 0 < p[1])
    /\ perm = ask => perm = NoCall
    /\ pc \notin {"run", "write", "delete"} => out = <<>>

(* A log that lost some messages and kept the others in order.             *)
Thinned(short, log) ==
    \E f \in [1..Len(short) -> 1..Len(log)] :
        /\ \A i, j \in 1..Len(short) : i < j => f[i] < f[j]
        /\ \A i \in 1..Len(short) : short[i] = log[f[i]]

LEMMA LengthOf ==
  ASSUME NEW log \in Seq(Message)
  PROVE  Len(log) \in Nat /\ DOMAIN log = 1..Len(log) /\ In(log) \subseteq Message
<1>1. Len(log) \in Nat /\ DOMAIN log = 1..Len(log)
  OBVIOUS
<1>2. \A i \in 1..Len(log) : log[i] \in Message
  OBVIOUS
<1> QED BY <1>1, <1>2 DEF In

LEMMA ThinnedIn ==
  ASSUME NEW short, NEW log, Thinned(short, log)
  PROVE  In(short) \subseteq In(log)
<1>1. PICK f \in [1..Len(short) -> 1..Len(log)] :
         \A i \in 1..Len(short) : short[i] = log[f[i]]
  BY DEF Thinned
<1>2. \A i \in 1..Len(short) : f[i] \in 1..Len(log)
  OBVIOUS
<1> QED BY <1>1, <1>2 DEF In

LEMMA ThinnedTrivially ==
  ASSUME NEW log \in Seq(Message)
  PROVE  Thinned(log, log) /\ Thinned(<<>>, log) /\ In(<<>>) = {}
<1>1. Thinned(log, log)
  <2> DEFINE f == [i \in 1..Len(log) |-> i]
  <2>1. /\ f \in [1..Len(log) -> 1..Len(log)]
        /\ \A i, j \in 1..Len(log) : i < j => f[i] < f[j]
        /\ \A i \in 1..Len(log) : log[i] = log[f[i]]
    OBVIOUS
  <2> HIDE DEF f
  <2> QED BY <2>1 DEF Thinned
<1>2. Thinned(<<>>, log)
  <2>1. 1..Len(<<>>) = {}
    OBVIOUS
  <2> DEFINE f == [i \in 1..Len(<<>>) |-> 1]
  <2>2. f \in [1..Len(<<>>) -> 1..Len(log)]
    BY <2>1
  <2>3. \A i \in 1..Len(<<>>) : FALSE
    BY <2>1
  <2> HIDE DEF f
  <2> QED BY <2>2, <2>3 DEF Thinned
<1>3. In(<<>>) = {}
  BY DEF In
<1> QED BY <1>1, <1>2, <1>3

LEMMA ThinnedUpto ==
  ASSUME NEW log \in Seq(Message), NEW c \in Nat
  PROVE  Thinned(Upto(log, c), log)
<1> DEFINE u == Upto(log, c)
           f == [i \in 1..Len(u) |-> i]
<1>1. /\ Len(u) = IF c < Len(log) THEN c ELSE Len(log)
      /\ \A i \in 1..Len(u) : u[i] = log[i]
  BY UptoMessages
<1>2. Len(log) \in Nat
  OBVIOUS
<1> HIDE DEF u
<1>3. f \in [1..Len(u) -> 1..Len(log)]
  BY <1>1, <1>2
<1>4. /\ \A i, j \in 1..Len(u) : i < j => f[i] < f[j]
      /\ \A i \in 1..Len(u) : u[i] = log[f[i]]
  BY <1>1
<1> HIDE DEF f
<1>5. Thinned(u, log)
  BY <1>3, <1>4 DEF Thinned
<1> QED BY <1>5 DEF u

LEMMA ThinnedFrom ==
  ASSUME NEW log \in Seq(Message), NEW c \in Nat
  PROVE  Thinned(From(log, c), log)
<1> DEFINE u == From(log, c)
           f == [i \in 1..Len(u) |-> c + i]
<1>1. /\ Len(u) \in Nat
      /\ c <= Len(log) => Len(u) = Len(log) - c
      /\ c > Len(log) => Len(u) = 0
      /\ \A i \in 1..Len(u) : u[i] = log[c + i]
  BY FromMessages
<1>2. Len(log) \in Nat
  OBVIOUS
<1> HIDE DEF u
<1>3. f \in [1..Len(u) -> 1..Len(log)]
  BY <1>1, <1>2
<1>4. /\ \A i, j \in 1..Len(u) : i < j => f[i] < f[j]
      /\ \A i \in 1..Len(u) : u[i] = log[f[i]]
  BY <1>1
<1> HIDE DEF f
<1>5. Thinned(u, log)
  BY <1>3, <1>4 DEF Thinned
<1> QED BY <1>5 DEF u

LEMMA ThinnedTail ==
  ASSUME NEW log \in Seq(Message), log # <<>>
  PROVE  Thinned(Tail(log), log)
<1> DEFINE u == Tail(log)
           f == [i \in 1..Len(u) |-> i + 1]
<1>1. /\ Len(log) \in Nat \ {0} /\ Len(u) = Len(log) - 1
      /\ \A i \in 1..Len(u) : u[i] = log[i + 1]
  BY HeadAndTail
<1> HIDE DEF u
<1>3. f \in [1..Len(u) -> 1..Len(log)]
  BY <1>1
<1>4. /\ \A i, j \in 1..Len(u) : i < j => f[i] < f[j]
      /\ \A i \in 1..Len(u) : u[i] = log[f[i]]
  BY <1>1
<1> HIDE DEF f
<1>5. Thinned(u, log)
  BY <1>3, <1>4 DEF Thinned
<1> QED BY <1>5 DEF u

LEMMA ThinnedWithout ==
  ASSUME NEW log \in Seq(Message), NEW c \in Nat, NEW k \in Nat, c <= Len(log)
  PROVE  /\ Without(log, c + 1, c + k) \in Seq(Message)
         /\ Thinned(Without(log, c + 1, c + k), log)
<1> DEFINE d == c + k
           a == Upto(log, c)
           b == From(log, d)
           u == a \o b
           f == [i \in 1..Len(u) |-> IF i <= c THEN i ELSE i + k]
<1>1. Without(log, c + 1, c + k) = u
  <2>1. (c + 1) - 1 = c
    OBVIOUS
  <2>2. (IF c < Len(log) THEN c ELSE Len(log)) = c
    OBVIOUS
  <2>3. Upto(log, c) = SubSeq(log, 1, c)
    BY <2>2 DEF Upto
  <2> QED BY <2>1, <2>3 DEF Without
<1>2. Len(log) \in Nat /\ d \in Nat /\ d = c + k
  OBVIOUS
<1> HIDE DEF d
<1>3. /\ a \in Seq(Message) /\ Len(a) = c
      /\ \A i \in 1..c : a[i] = log[i]
  <2>1. a \in Seq(Message)
    BY LogsTyped
  <2>2. /\ Len(a) = IF c < Len(log) THEN c ELSE Len(log)
        /\ \A i \in 1..Len(a) : a[i] = log[i]
    BY UptoMessages
  <2> HIDE DEF a
  <2>3. Len(a) = c
    BY <1>2, <2>2
  <2> QED BY <2>1, <2>2, <2>3
<1>4. /\ b \in Seq(Message) /\ Len(b) \in Nat
      /\ d <= Len(log) => Len(b) = Len(log) - d
      /\ d > Len(log) => Len(b) = 0
      /\ \A i \in 1..Len(b) : b[i] = log[d + i]
  BY <1>2, FromMessages, LogsTyped
<1> HIDE DEF a, b
<1>5. /\ u \in Seq(Message) /\ Len(u) = c + Len(b)
      /\ \A i \in 1..c : u[i] = a[i]
      /\ \A i \in 1..Len(b) : u[c + i] = b[i]
  BY <1>3, <1>4, Joined
<1> HIDE DEF u
<1>6. f \in [1..Len(u) -> 1..Len(log)]
  BY <1>2, <1>4, <1>5
<1>7. \A i, j \in 1..Len(u) : i < j => f[i] < f[j]
  BY <1>2, <1>4, <1>5
<1>8. ASSUME NEW i \in 1..Len(u) PROVE u[i] = log[f[i]]
  <2>1. CASE i <= c
    BY <1>3, <1>5, <2>1
  <2>2. CASE ~(i <= c)
    <3>1. i - c \in 1..Len(b) /\ c + (i - c) = i /\ d + (i - c) = i + k
      BY <1>2, <1>4, <1>5, <2>2
    <3>2. u[i] = b[i - c] /\ b[i - c] = log[d + (i - c)]
      BY <1>4, <1>5, <3>1
    <3> QED BY <2>2, <3>1, <3>2
  <2> QED BY <2>1, <2>2
<1> HIDE DEF f
<1>9. Thinned(u, log)
  BY <1>6, <1>7, <1>8 DEF Thinned
<1> QED BY <1>1, <1>5, <1>9

LEMMA InGrown ==
  ASSUME NEW log \in Seq(Message)
  PROVE  /\ \A m \in Message : In(Append(log, m)) = In(log) \cup {m}
         /\ \A other \in Seq(Message) : In(log \o other) = In(log) \cup In(other)
         /\ log # <<>> => Head(log) \in In(log)
<1>1. ASSUME NEW m \in Message PROVE In(Append(log, m)) = In(log) \cup {m}
  <2> DEFINE new == Append(log, m)
  <2>1. /\ Len(log) \in Nat /\ Len(new) = Len(log) + 1
        /\ \A i \in 1..Len(log) : new[i] = log[i]
        /\ new[Len(log) + 1] = m
    BY Appended
  <2> HIDE DEF new
  <2>2. 1..Len(new) = 1..Len(log) \cup {Len(log) + 1}
    BY <2>1
  <2>3. In(new) = In(log) \cup {m}
    BY <2>1, <2>2 DEF In
  <2> QED BY <2>3 DEF new
<1>2. ASSUME NEW other \in Seq(Message)
      PROVE  In(log \o other) = In(log) \cup In(other)
  <2> DEFINE new == log \o other
  <2>1. /\ Len(log) \in Nat /\ Len(other) \in Nat /\ Len(new) = Len(log) + Len(other)
        /\ \A i \in 1..Len(log) : new[i] = log[i]
        /\ \A i \in 1..Len(other) : new[Len(log) + i] = other[i]
    BY Joined
  <2> HIDE DEF new
  <2>2. \A i \in 1..Len(new) :
           new[i] \in In(log) \/ new[i] \in In(other)
    <3> SUFFICES ASSUME NEW i \in 1..Len(new)
                 PROVE  new[i] \in In(log) \/ new[i] \in In(other)
      OBVIOUS
    <3>1. CASE i <= Len(log)
      <4>1. i \in 1..Len(log)
        BY <2>1, <3>1
      <4> QED BY <2>1, <4>1 DEF In
    <3>2. CASE i > Len(log)
      <4>1. i - Len(log) \in 1..Len(other) /\ Len(log) + (i - Len(log)) = i
        BY <2>1, <3>2
      <4>2. new[i] = other[i - Len(log)]
        BY <2>1, <4>1
      <4> QED BY <4>1, <4>2 DEF In
    <3> QED BY <2>1, <3>1, <3>2
  <2>3. \A i \in 1..Len(log) : i \in 1..Len(new)
    BY <2>1
  <2>4. \A i \in 1..Len(other) : Len(log) + i \in 1..Len(new)
    BY <2>1
  <2>a. In(new) \subseteq In(log) \cup In(other)
    BY <2>2 DEF In
  <2>b. In(log) \subseteq In(new)
    BY <2>1, <2>3 DEF In
  <2>c. In(other) \subseteq In(new)
    BY <2>1, <2>4 DEF In
  <2>5. In(new) = In(log) \cup In(other)
    BY <2>a, <2>b, <2>c
  <2> QED BY <2>5 DEF new
<1>3. log # <<>> => Head(log) \in In(log)
  BY HeadAndTail DEF In
<1> QED BY <1>1, <1>2, <1>3

-----------------------------------------------------------------------------
\* Every message stays known.

LEMMA CountedPlain ==
  ASSUME WellTyped, Counted,
         \A m \in Messages' \ Messages : Known(m, perm', ask', next'),
         next' \in Nat, next <= next',
         perm' \in {perm, NoCall}, ask' \in {ask, NoCall},
         pc' \notin {"run", "write", "delete"} => out' = <<>>
  PROVE  Counted'
<1>t. /\ next \in Nat /\ perm \in Nat \X Nat /\ ask \in Nat \X Nat
      /\ NoCall[1] = 0 /\ next > 0
  BY DEF WellTyped, TypeOK, NoCall
<1>m. Messages \subseteq Message
  BY LengthOf DEF WellTyped, TypeOK, Messages
<1>1. ASSUME NEW m \in Messages PROVE Known(m, perm', ask', next')
  <2>1. Known(m, perm, ask, next) /\ m.n \in Nat /\ m.of \in Nat \X Nat
    BY <1>1, <1>m DEF Counted, Message
  <2>2. m.role = "tool" => m.of # NoCall
    BY <1>t, <2>1 DEF Known
  <2>3. m.of[1] \in Nat
    BY <2>1
  <2> QED BY <1>t, <2>1, <2>2, <2>3 DEF Known
<1>2. \A m \in Messages' : Known(m, perm', ask', next')
  BY <1>1
<1>3. \A p \in {perm', ask'} : p[1] < next' /\ (p # NoCall => 0 < p[1])
  <2>1. \A p \in {perm, ask} : p[1] < next /\ (p # NoCall => 0 < p[1])
    BY DEF Counted
  <2>2. perm[1] \in Nat /\ ask[1] \in Nat
    BY <1>t
  <2> QED BY <1>t, <2>1, <2>2
<1>4. perm' = ask' => perm' = NoCall
  BY DEF Counted
<1> QED BY <1>2, <1>3, <1>4 DEF Counted

LEMMA CountedSame ==
  ASSUME WellTyped, Counted, Messages' \subseteq Messages, next' = next,
         perm' \in {perm, NoCall}, ask' \in {ask, NoCall},
         pc' \notin {"run", "write", "delete"} => out' = <<>>
  PROVE  Counted'
<1>1. next \in Nat
  BY DEF WellTyped, TypeOK
<1> QED BY <1>1, CountedPlain

(* A user message that takes a number already given, or the next one.      *)
LEMMA UserKnown ==
  ASSUME WellTyped, next' \in Nat, NEW n \in Nat, n < next'
  PROVE  User(n) \in Message /\ \A p, a : Known(User(n), p, a, next')
<1>1. User(n) \in Message
  BY MessagesTyped
<1>2. User(n).n = n /\ User(n).role = "user" /\ User(n).of = NoCall
  BY DEF User
<1> QED BY <1>1, <1>2 DEF Known

LEMMA PutIn ==
  ASSUME WellTyped, NEW m \in Message, Put(m)
  PROVE  In(mem') = In(mem) \cup {m} /\ In(stored') = In(stored) \cup {m}
BY InGrown DEF Put, WellTyped, TypeOK

LEMMA CountedAtTurn ==
  ASSUME WellTyped, Counted,
         \/ \E what \in {"text", "word"} : Begin(what)
         \/ Panic \/ SkipSummary \/ StartSummary \/ ForceSummary
         \/ TakeWord \/ PassWord \/ TakeText \/ Reply \/ ReplyFails
         \/ \E w \in {"turn", "host"} : Slide(w) \/ NoSummary(w)
         \/ UNCHANGED vars
  PROVE  Counted'
<1>t. /\ next \in Nat /\ perm \in Nat \X Nat /\ ask \in Nat \X Nat
      /\ todo \in Seq(Message) /\ next > 0
  BY DEF WellTyped, TypeOK
<1>o. pc \notin {"run", "write", "delete"} => out = <<>>
  BY DEF Counted
<1>1. ASSUME NEW what \in {"text", "word"}, Begin(what)
      PROVE  Counted'
  <2>1. /\ pc = "idle" /\ perm' = perm /\ ask' = ask /\ next' = next
        /\ todo' = todo /\ out' = out /\ stored' = stored
        /\ mem' = mem \/ mem' = stored
    BY <1>1 DEF Begin, Load, logVars, pendingVars
  <2>2. Messages' \subseteq Messages
    BY <2>1 DEF Messages
  <2> QED BY <1>o, <2>1, <2>2, CountedSame
<1>2. CASE Panic \/ SkipSummary \/ StartSummary \/ PassWord
  <2>1. /\ pc \in {"compact", "input"} /\ perm' = perm /\ ask' = ask
        /\ next' = next
        /\ todo' = todo /\ out' = out /\ stored' = stored /\ mem' = mem
    BY <1>2 DEF Panic, SkipSummary, StartSummary, PassWord, logVars, pendingVars,
       countVars
  <2>2. Messages' \subseteq Messages
    BY <2>1 DEF Messages
  <2> QED BY <1>o, <2>1, <2>2, CountedSame
<1>3. CASE ForceSummary \/ UNCHANGED vars
  <2>1. /\ pc' = pc /\ perm' = perm /\ ask' = ask /\ next' = next
        /\ todo' = todo /\ out' = out /\ stored' = stored /\ mem' = mem
    BY <1>3 DEF ForceSummary, vars, logVars, pendingVars, turnVars, countVars
  <2>2. Messages' \subseteq Messages
    BY <2>1 DEF Messages
  <2> QED BY <1>o, <2>1, <2>2, CountedSame
<1>4. CASE TakeWord
  <2>1. /\ pc = "input" /\ pc' = "reply" /\ perm # NoCall /\ perm' = NoCall
        /\ ask' = ask /\ out' = out /\ mem' = mem /\ stored' = stored
        /\ \/ todo' = <<Tool(next, perm)>> /\ next' = next + 1
           \/ todo' = <<Tool(next, perm), User(next + 1)>> /\ next' = next + 2
    BY <1>4 DEF TakeWord, Remaining, Goto, logVars
  <2>2. /\ Tool(next, perm) \in Message /\ User(next + 1) \in Message
        /\ next' \in Nat /\ next < next'
    BY <1>t, <2>1, MessagesTyped
  <2>3. perm # ask /\ 0 < perm[1] /\ perm[1] < next
    BY <2>1 DEF Counted
  <2>4. Known(Tool(next, perm), perm', ask', next')
    <3>1. perm[1] \in Nat /\ perm # NoCall
      BY <1>t, <2>1
    <3>2. perm # perm' /\ perm # ask' /\ perm[1] < next'
      BY <1>t, <2>1, <2>2, <2>3, <3>1
    <3>3. /\ Tool(next, perm).n = next /\ Tool(next, perm).role = "tool"
          /\ Tool(next, perm).of = perm
      BY DEF Tool
    <3> QED BY <2>2, <2>3, <3>2, <3>3 DEF Known
  <2> DEFINE New == IF next' = next + 1 THEN {Tool(next, perm)}
                    ELSE {Tool(next, perm), User(next + 1)}
  <2>5. New \in SUBSET Message /\ \A m \in New : Known(m, perm', ask', next')
    <3>1. next' # next + 1 => Known(User(next + 1), perm', ask', next')
      BY <1>t, <2>1, <2>2, UserKnown
    <3> QED BY <2>2, <2>4, <3>1
  <2>6. In(todo') \subseteq New
    <3>1. CASE todo' = <<Tool(next, perm)>> /\ next' = next + 1
      BY <3>1 DEF In
    <3>2. CASE todo' = <<Tool(next, perm), User(next + 1)>> /\ next' = next + 2
      <4>1. next' # next + 1
        BY <1>t, <3>2
      <4>2. Len(todo') = 2 /\ todo'[1] = Tool(next, perm) /\ todo'[2] = User(next + 1)
        BY <3>2
      <4> QED BY <4>1, <4>2 DEF In
    <3> QED BY <2>1, <3>1, <3>2
  <2> HIDE DEF New
  <2>7. \A m \in Messages' \ Messages : Known(m, perm', ask', next')
    BY <2>1, <2>5, <2>6 DEF Messages
  <2> QED BY <1>t, <1>o, <2>1, <2>2, <2>7, CountedPlain
<1>5. CASE TakeText
  <2>1. /\ pc = "input" /\ pc' = "reply" /\ ask' = NoCall /\ perm' = perm
        /\ out' = out /\ mem' = mem /\ stored' = stored /\ next' = next + 1
        /\ todo' = IF ask = NoCall THEN <<User(next)>> ELSE <<Tool(next, ask)>>
    BY <1>5 DEF TakeText, Goto, logVars
  <2> DEFINE m == IF ask = NoCall THEN User(next) ELSE Tool(next, ask)
  <2>2. next' \in Nat /\ next < next'
    BY <1>t, <2>1
  <2>3. m \in Message /\ Known(m, perm', ask', next')
    <3>1. CASE ask = NoCall
      BY <1>t, <2>2, <3>1, UserKnown
    <3>2. CASE ask # NoCall
      <4>1. perm # ask /\ 0 < ask[1] /\ ask[1] < next /\ ask[1] \in Nat
        BY <1>t, <3>2 DEF Counted
      <4>2. ask # perm' /\ ask # ask' /\ ask[1] < next'
        BY <1>t, <2>1, <2>2, <3>2, <4>1
      <4>3. Tool(next, ask) \in Message
        BY <1>t, MessagesTyped
      <4>4. /\ Tool(next, ask).n = next /\ Tool(next, ask).role = "tool"
            /\ Tool(next, ask).of = ask
        BY DEF Tool
      <4>5. Known(Tool(next, ask), perm', ask', next')
        BY <2>2, <4>1, <4>2, <4>4 DEF Known
      <4> QED BY <3>2, <4>3, <4>5
    <3> QED BY <3>1, <3>2
  <2>4. todo' = <<m>>
    BY <2>1
  <2> HIDE DEF m
  <2>5. In(todo') \subseteq {m}
    BY <2>4 DEF In
  <2>6. \A k \in Messages' \ Messages : Known(k, perm', ask', next')
    BY <2>1, <2>3, <2>5 DEF Messages
  <2> QED BY <1>t, <1>o, <2>1, <2>2, <2>6, CountedPlain
<1>6. CASE Reply
  <2>1. /\ pc = "reply" /\ pc' \in {"reply", "repair"} /\ perm' = perm
        /\ ask' = ask /\ next' = next /\ out' = out /\ todo' = Tail(todo)
        /\ Put(Head(todo))
    BY <1>6 DEF Reply, pendingVars, countVars
  <2>2. todo # <<>>
    BY <2>1 DEF WellTyped, Placed
  <2>3. /\ Head(todo) \in Message /\ Head(todo) \in In(todo)
        /\ In(todo') \subseteq In(todo)
    BY <1>t, <2>1, <2>2, HeadAndTail, InGrown, ThinnedTail, ThinnedIn
  <2>4. In(mem') = In(mem) \cup {Head(todo)} /\ In(stored') = In(stored) \cup {Head(todo)}
    BY <2>1, <2>3, PutIn
  <2>5. Messages' \subseteq Messages
    BY <2>1, <2>3, <2>4 DEF Messages
  <2> QED BY <1>o, <2>1, <2>5, CountedSame
<1>7. CASE ReplyFails
  <2>1. /\ pc = "reply" /\ perm' = perm
        /\ ask' = ask /\ next' = next /\ out' = out /\ todo' = Tail(todo)
        /\ mem' = mem /\ stored' = stored
    BY <1>7 DEF ReplyFails, pendingVars, logVars
  <2>2. todo # <<>>
    BY <2>1 DEF WellTyped, Placed
  <2>3. In(todo') \subseteq In(todo)
    BY <1>t, <2>1, <2>2, ThinnedTail, ThinnedIn
  <2>4. Messages' \subseteq Messages
    BY <2>1, <2>3 DEF Messages
  <2> QED BY <1>o, <2>1, <2>4, CountedSame
<1>8. ASSUME NEW w \in {"turn", "host"}, Slide(w) \/ NoSummary(w)
      PROVE  Counted'
  <2>1. /\ perm' = perm /\ ask' = ask /\ next' = next /\ out' = out
        /\ todo' = todo /\ mem' = mem /\ stored' = stored
        /\ pc' = pc \/ pc = "summary"
    BY <1>8 DEF Slide, NoSummary, Summarised, pendingVars, WellTyped, Placed
  <2>2. Messages' \subseteq Messages
    BY <2>1 DEF Messages
  <2> QED BY <1>o, <2>1, <2>2, CountedSame
<1> QED BY <1>1, <1>2, <1>3, <1>4, <1>5, <1>6, <1>7, <1>8

LEMMA CountedAtRepair ==
  ASSUME WellTyped, Counted,
         \/ Intact \/ FindBreak \/ ReadCursor \/ RollBack \/ RollBackFails
         \/ ReAdd \/ Explain \/ NoNotice \/ ReAddFails \/ Invalidate
  PROVE  Counted'
<1>t. /\ next \in Nat /\ perm \in Nat \X Nat /\ ask \in Nat \X Nat
      /\ todo \in Seq(Message) /\ mem \in Seq(Message) /\ stored \in Seq(Message)
      /\ cursor \in Nat /\ cut \in Nat
  BY DEF WellTyped, TypeOK
<1>o. /\ pc \notin {"run", "write", "delete"}
      /\ out = <<>> /\ out' = out
  BY DEF Counted, Intact, FindBreak, ReadCursor, RollBack, RollBackFails, ReAdd,
     Explain, NoNotice, ReAddFails, Invalidate
<1>e. In(<<>>) = {}
  BY DEF In
<1>1. CASE Intact \/ ReadCursor
  <2>1. /\ perm' = perm /\ ask' = ask /\ next' = next
        /\ todo' = todo /\ mem' = mem /\ stored' = stored
    BY <1>1 DEF Intact, ReadCursor, logVars, pendingVars, countVars
  <2>2. Messages' \subseteq Messages
    BY <1>o, <2>1 DEF Messages
  <2> QED BY <1>o, <2>1, <2>2, CountedSame
<1>2. CASE FindBreak
  <2>1. PICK keep \in 0..Len(Window) : todo' = From(Window, keep)
    BY <1>2 DEF FindBreak
  <2>2. /\ perm' = perm /\ ask' = ask /\ next' = next
        /\ mem' = mem /\ stored' = stored
    BY <1>2 DEF FindBreak, logVars, pendingVars, countVars
  <2>3. Window \in Seq(Message) /\ In(Window) \subseteq In(mem)
    BY <1>t, LogsTyped, ThinnedFrom, ThinnedIn DEF Window
  <2> HIDE DEF Window
  <2>4. keep \in Nat
    BY <2>3, LengthOf
  <2>5. In(todo') \subseteq In(Window)
    BY <2>1, <2>3, <2>4, ThinnedFrom, ThinnedIn
  <2>6. Messages' \subseteq Messages
    BY <1>o, <2>2, <2>3, <2>5 DEF Messages
  <2> QED BY <1>o, <2>2, <2>6, CountedSame
<1>3. CASE RollBack
  <2>1. /\ perm' = perm /\ ask' = ask /\ next' = next /\ todo' = todo
        /\ mem' = mem \/ mem' = Upto(mem, cut)
        /\ stored' = stored \/ stored' = Upto(stored, cut)
    BY <1>3 DEF RollBack, Truncate, TruncateMemory, InLog, logVars, pendingVars,
       countVars
  <2>2. In(mem') \subseteq In(mem) /\ In(stored') \subseteq In(stored)
    BY <1>t, <2>1, ThinnedUpto, ThinnedIn
  <2>3. Messages' \subseteq Messages
    BY <1>o, <2>1, <2>2 DEF Messages
  <2> QED BY <1>o, <2>1, <2>3, CountedSame
<1>4. CASE RollBackFails
  <2>1. /\ perm' = perm /\ ask' = ask /\ next' = next /\ todo' = <<>>
        /\ mem' = Upto(mem, cut) /\ stored' = stored
    BY <1>4 DEF RollBackFails, TruncateMemory, pendingVars
  <2>2. In(mem') \subseteq In(mem) /\ In(todo') \subseteq In(todo)
    BY <1>t, <1>e, <2>1, ThinnedUpto, ThinnedIn
  <2>3. Messages' \subseteq Messages
    BY <1>o, <2>1, <2>2 DEF Messages
  <2> QED BY <1>o, <2>1, <2>3, CountedSame
<1>5. CASE ReAdd
  <2>1. PICK i \in FirstUser(todo) :
          Put(User(todo[i].n)) /\ todo' = From(todo, i)
    BY <1>5 DEF ReAdd
  <2>2. i \in 1..Len(todo) /\ todo[i] \in Message /\ todo[i] \in In(todo)
    BY <1>t, <2>1 DEF FirstUser, Users, In
  <2>3. /\ perm' = perm /\ ask' = ask /\ next' = next /\ i \in Nat
    BY <1>5, <2>2 DEF ReAdd, pendingVars, countVars
  <2>4. Known(todo[i], perm, ask, next) /\ todo[i].n \in Nat
    BY <2>2 DEF Counted, Messages, Message
  <2> DEFINE m == User(todo[i].n)
  <2>5. m \in Message /\ Known(m, perm', ask', next')
    BY <1>t, <2>3, <2>4, UserKnown DEF Known
  <2>6. In(mem') = In(mem) \cup {m} /\ In(stored') = In(stored) \cup {m}
    BY <2>1, <2>5, PutIn
  <2> HIDE DEF m
  <2>7. In(todo') \subseteq In(todo)
    BY <1>t, <2>1, <2>3, ThinnedFrom, ThinnedIn
  <2>8. \A k \in Messages' \ Messages : Known(k, perm', ask', next')
    BY <1>o, <2>5, <2>6, <2>7 DEF Messages
  <2> QED BY <1>t, <1>o, <2>3, <2>8, CountedPlain
<1>6. CASE Explain
  <2>1. /\ perm' = perm /\ ask' = ask /\ next' = next + 1 /\ todo' = <<>>
        /\ Put(User(next))
    BY <1>6 DEF Explain, pendingVars
  <2> DEFINE m == User(next)
  <2>n. next' \in Nat /\ next < next'
    BY <1>t, <2>1
  <2>2. m \in Message /\ Known(m, perm', ask', next')
    BY <1>t, <2>n, UserKnown
  <2>3. In(mem') = In(mem) \cup {m} /\ In(stored') = In(stored) \cup {m}
    BY <2>1, <2>2, PutIn
  <2> HIDE DEF m
  <2>4. \A k \in Messages' \ Messages : Known(k, perm', ask', next')
    BY <1>o, <1>e, <2>1, <2>2, <2>3 DEF Messages
  <2> QED BY <1>t, <1>o, <2>n, <2>1, <2>4, CountedPlain
<1>7. CASE NoNotice \/ ReAddFails \/ Invalidate
  <2>1. /\ perm' \in {perm, NoCall} /\ ask' \in {ask, NoCall} /\ next' = next
        /\ todo' = todo \/ todo' = <<>>
        /\ mem' = mem /\ stored' = stored
    BY <1>7 DEF NoNotice, ReAddFails, Invalidate, Surviving, logVars, pendingVars,
       countVars
  <2>2. Messages' \subseteq Messages
    BY <1>o, <1>e, <2>1 DEF Messages
  <2> QED BY <1>o, <2>1, <2>2, CountedSame
<1> QED BY <1>1, <1>2, <1>3, <1>4, <1>5, <1>6, <1>7

LEMMA CountedElsewhere ==
  ASSUME WellTyped, Agreeing, Counted, [Next]_vars,
         \/ \E keep \in 0..Len(mem) : HostTruncate(keep)
         \/ \E i \in DOMAIN mem : BeginDelete(i)
         \/ DeleteStored \/ DeleteFails \/ DeleteFromMemory
         \/ Reset \/ Restart
  PROVE  Counted'
<1>t. /\ next \in Nat /\ mem \in Seq(Message) /\ stored \in Seq(Message)
      /\ cursor \in Nat /\ todo \in Seq(Message) /\ out \in Seq(Message)
      /\ cut \in Nat /\ Len(mem) \in Nat
  BY DEF WellTyped, TypeOK
<1>o. pc \notin {"run", "write", "delete"} => out = <<>>
  BY DEF Counted
<1>e. In(<<>>) = {}
  BY DEF In
<1>1. ASSUME NEW keep \in 0..Len(mem), HostTruncate(keep)
      PROVE  Counted'
  <2>1. /\ perm' = perm /\ ask' = ask /\ next' = next /\ todo' = todo
        /\ out' = out /\ pc' = pc /\ keep \in Nat
        /\ mem' = mem \/ mem' = Upto(mem, keep)
        /\ stored' = stored \/ stored' = Upto(stored, keep)
    BY <1>t, <1>1 DEF HostTruncate, Removal, Truncate, TruncateMemory, InLog,
       logVars, pendingVars, turnVars
  <2>2. In(mem') \subseteq In(mem) /\ In(stored') \subseteq In(stored)
    BY <1>t, <2>1, ThinnedUpto, ThinnedIn
  <2>3. Messages' \subseteq Messages
    BY <2>1, <2>2 DEF Messages
  <2> QED BY <1>o, <2>1, <2>3, CountedSame
<1>2. ASSUME NEW i \in DOMAIN mem, BeginDelete(i)
      PROVE  Counted'
  <2>1. /\ perm' = perm /\ ask' = ask /\ next' = next /\ pc' = "delete"
        /\ mem' = mem /\ stored' = stored /\ i \in DOMAIN Window
    BY <1>2 DEF BeginDelete, Goto, logVars, pendingVars
  <2>2. PICK j \in i..Len(Window) : out' = SubSeq(Window, i, j) /\ todo' = out'
    BY <1>2 DEF BeginDelete
  <2>3. Window \in Seq(Message) /\ In(Window) \subseteq In(mem)
    BY <1>t, LogsTyped, ThinnedFrom, ThinnedIn DEF Window
  <2> HIDE DEF Window
  <2>4. /\ i \in 1..Len(Window) /\ Len(Window) \in Nat
        /\ \A p \in 1..Len(Window) : Window[p] \in Message
    BY <2>1, <2>3, LengthOf
  <2>5. In(out') \subseteq In(Window)
    <3>1. i \in Nat /\ j \in Nat /\ i <= j /\ j <= Len(Window) /\ 1 <= i
      BY <2>2, <2>4
    <3>2. \A p \in i..j : Window[p] \in Message
      BY <2>4, <3>1
    <3>3. /\ Len(out') = j - i + 1
          /\ \A p \in 1..j - i + 1 : out'[p] = Window[i + p - 1]
      BY <2>2, <2>3, <3>1, <3>2, SubSeqProperties
    <3>4. \A p \in 1..j - i + 1 : i + p - 1 \in 1..Len(Window)
      BY <2>4, <3>1
    <3> QED BY <3>3, <3>4 DEF In
  <2>6. Messages' \subseteq Messages
    BY <2>1, <2>2, <2>3, <2>5 DEF Messages
  <2> QED BY <2>1, <2>6, CountedSame
<1>3. CASE DeleteStored
  <2>1. /\ perm' = perm /\ ask' = ask /\ next' = next /\ out' = out /\ pc' = pc
        /\ mem' = mem /\ todo' \in {todo, Tail(todo)} /\ todo # <<>>
    BY <1>3 DEF DeleteStored, pendingVars, countVars
  <2>2. In(todo') \subseteq In(todo)
    BY <1>t, <2>1, ThinnedTail, ThinnedIn
  <2>3. stored' = stored \/ \E p \in DOMAIN stored : stored' = Without(stored, p, p)
    BY <1>3 DEF DeleteStored
  <2>4. ASSUME NEW p \in DOMAIN stored PROVE In(Without(stored, p, p)) \subseteq In(stored)
    <3>1. p \in 1..Len(stored) /\ Len(stored) \in Nat
      BY <1>t, LengthOf
    <3> DEFINE c == p - 1
    <3>2. c \in Nat /\ c + 1 = p /\ c <= Len(stored)
      BY <3>1
    <3> HIDE DEF c
    <3>3. In(Without(stored, c + 1, c + 1)) \subseteq In(stored)
      BY <1>t, <3>2, ThinnedWithout, ThinnedIn
    <3> QED BY <3>2, <3>3
  <2>5. Messages' \subseteq Messages
    BY <2>1, <2>2, <2>3, <2>4 DEF Messages
  <2> QED BY <1>o, <2>1, <2>5, CountedSame
<1>4. CASE DeleteFails
  <2>1. /\ perm' = perm /\ ask' = ask /\ next' = next /\ out' = <<>>
        /\ mem' = mem /\ stored' = stored /\ todo' = <<>>
    BY <1>4 DEF DeleteFails, logVars, pendingVars, countVars
  <2>2. Messages' \subseteq Messages
    BY <1>e, <2>1 DEF Messages
  <2> QED BY <2>1, <2>2, CountedSame
<1>5. CASE DeleteFromMemory
  <2>1. /\ perm' = perm /\ ask' = ask /\ next' = next /\ out' = <<>>
        /\ stored' = stored /\ todo' = todo
        /\ mem' = Without(mem, cut + 1, cut + Len(out)) /\ pc = "delete"
    BY <1>5 DEF DeleteFromMemory, pendingVars, countVars
  <2>2. In(mem') \subseteq In(mem)
    <3>1. cut <= Len(mem) /\ Len(out) \in Nat
      BY <1>t, <2>1 DEF WellTyped, Placed
    <3> QED BY <1>t, <2>1, <3>1, ThinnedWithout, ThinnedIn
  <2>3. Messages' \subseteq Messages
    BY <1>e, <2>1, <2>2 DEF Messages
  <2> QED BY <2>1, <2>3, CountedSame
<1>6. CASE Reset
  <2>1. /\ perm' = perm /\ ask' = ask /\ next' = next /\ out' = out
        /\ stored' = <<>> /\ todo' = todo /\ pc' = pc
        /\ mem' = mem \/ mem' = <<>>
    BY <1>6 DEF Reset, Removal, pendingVars, turnVars
  <2>2. Messages' \subseteq Messages
    BY <1>e, <2>1 DEF Messages
  <2> QED BY <1>o, <2>1, <2>2, CountedSame
<1>7. CASE Restart
  <2>1. /\ perm' = perm /\ ask' = ask /\ next' = next /\ out' = <<>>
        /\ stored' = stored /\ todo' = <<>> /\ mem' = stored
    BY <1>7 DEF Restart, Load, pendingVars
  <2>2. Messages' \subseteq Messages
    BY <1>e, <2>1 DEF Messages
  <2> QED BY <2>1, <2>2, CountedSame
<1> QED BY <1>1, <1>2, <1>3, <1>4, <1>5, <1>6, <1>7

-----------------------------------------------------------------------------
\* What an iteration says.

(* It has numbers and calls of its own, and answers none of its calls twice. *)
Fresh(r, log) ==
    /\ \A i \in 1..Len(log) : log[i] \in Message /\ log[i].n = next + i - 1
    /\ \A i \in 1..Len(log) : log[i].role = "tool" =>
          log[i].of[1] = next /\ log[i].of[2] <= r.executed
    /\ \A i \in 1..Len(log) : log[i].role # "tool" => log[i].of = NoCall
    /\ \A i, j \in 1..Len(log) :
          i < j /\ log[i].role = "tool" /\ log[j].role = "tool" =>
             log[i].of # log[j].of

LEMMA IterationFresh ==
  ASSUME TypeOK, NEW r \in Rounds
  PROVE  /\ Fresh(r, Iteration(r)) /\ Iteration(r) \in Seq(Message)
         /\ Len(Iteration(r)) \in Nat /\ r.executed \in Nat
<1> DEFINE log == Iteration(r)
<1>t. next \in Nat
  BY DEF TypeOK
<1>1. /\ IsRound(r) /\ Len(r.says) \in Nat /\ Len(log) = Len(r.says) + 1
      /\ log[1] = Assistant(next, r.calls)
      /\ \A i \in 1..Len(r.says) :
            log[i + 1] = IF r.says[i].role = "user" THEN User(next + i)
                         ELSE Tool(next + i, <<next, r.says[i].call>>)
  BY IterationMessages
<1>2. r.calls \in 1..MaxCalls /\ r.executed \in 0..r.calls
  BY <1>1, Zenon DEF IsRound
<1>3. r.says \in Seq([role : {"tool", "user"}, call : 1..r.executed])
  BY <1>1, Zenon DEF IsRound
<1>4. MaxCalls \in Nat
  BY ConstantsAssumption
<1>5. r.calls \in Nat /\ r.executed \in Nat
  BY <1>2, <1>4
<1>6. \A i \in 1..Len(r.says) :
         r.says[i].role \in {"tool", "user"} /\ r.says[i].call \in 1..r.executed
  <2>1. \A i \in 1..Len(r.says) :
           r.says[i] \in [role : {"tool", "user"}, call : 1..r.executed]
    BY <1>3, ElementOfSeq
  <2> QED BY <2>1
<1>7. \A i, j \in 1..Len(r.says) :
         i # j /\ r.says[i].call = r.says[j].call => r.says[i].role # r.says[j].role
  <2>1. DOMAIN r.says = 1..Len(r.says)
    BY <1>3
  <2>2. \A i, j \in DOMAIN r.says :
           i # j /\ r.says[i].call = r.says[j].call => r.says[i].role # r.says[j].role
    BY <1>1, Zenon DEF IsRound
  <2> QED BY <2>1, <2>2
<1> HIDE DEF log
<1>8. /\ log[1] \in Message /\ log[1].n = next /\ log[1].role = "assistant"
      /\ log[1].of = NoCall
  BY <1>t, <1>1, <1>5, MessagesTyped DEF Assistant
<1>9. ASSUME NEW i \in 1..Len(r.says)
      PROVE  /\ log[i + 1] \in Message /\ log[i + 1].n = next + i
             /\ log[i + 1].role = r.says[i].role
             /\ log[i + 1].role = "tool" => log[i + 1].of = <<next, r.says[i].call>>
             /\ log[i + 1].role # "tool" => log[i + 1].of = NoCall
  <2>1. next + i \in Nat /\ <<next, r.says[i].call>> \in Nat \X Nat
    BY <1>t, <1>5, <1>6
  <2>2. /\ User(next + i) \in Message
        /\ Tool(next + i, <<next, r.says[i].call>>) \in Message
    BY <2>1, MessagesTyped
  <2>3. CASE r.says[i].role = "user"
    <3>1. log[i + 1] = User(next + i)
      BY <1>1, <2>3
    <3> QED BY <2>2, <2>3, <3>1 DEF User
  <2>4. CASE r.says[i].role # "user"
    <3>1. log[i + 1] = Tool(next + i, <<next, r.says[i].call>>)
      BY <1>1, <2>4
    <3>2. r.says[i].role = "tool"
      BY <1>6, <2>4
    <3> QED BY <2>2, <3>1, <3>2 DEF Tool
  <2> QED BY <2>3, <2>4
<1>a. \A i \in 1..Len(log) :
         i = 1 \/ (i - 1 \in 1..Len(r.says) /\ (i - 1) + 1 = i /\ next + (i - 1) = next + i - 1)
  BY <1>t, <1>1
<1>b. ASSUME NEW i \in 1..Len(log)
      PROVE  /\ log[i] \in Message /\ log[i].n = next + i - 1
             /\ log[i].role = "tool" =>
                   log[i].of[1] = next /\ log[i].of[2] <= r.executed
             /\ log[i].role # "tool" => log[i].of = NoCall
  <2>1. CASE i = 1
    BY <1>t, <1>8, <2>1
  <2>2. CASE i # 1
    <3>1. i - 1 \in 1..Len(r.says) /\ (i - 1) + 1 = i /\ next + (i - 1) = next + i - 1
      BY <1>a, <2>2
    <3>2. r.says[i - 1].call <= r.executed
      BY <1>5, <1>6, <3>1
    <3> QED BY <1>9, <3>1, <3>2
  <2> QED BY <2>1, <2>2
<1>c. ASSUME NEW i \in 1..Len(log), NEW j \in 1..Len(log), i < j,
             log[i].role = "tool", log[j].role = "tool"
      PROVE  log[i].of # log[j].of
  <2>1. i # 1 /\ j # 1
    BY <1>8, <1>c
  <2>2. /\ i - 1 \in 1..Len(r.says) /\ (i - 1) + 1 = i
        /\ j - 1 \in 1..Len(r.says) /\ (j - 1) + 1 = j /\ i - 1 # j - 1
    BY <1>a, <1>c, <2>1
  <2>3. /\ log[i].of = <<next, r.says[i - 1].call>> /\ r.says[i - 1].role = "tool"
        /\ log[j].of = <<next, r.says[j - 1].call>> /\ r.says[j - 1].role = "tool"
    BY <1>9, <1>c, <2>2
  <2>4. r.says[i - 1].call # r.says[j - 1].call
    BY <1>7, <2>2, <2>3
  <2> QED BY <2>3, <2>4
<1>d. Fresh(r, log)
  BY <1>b, <1>c DEF Fresh
<1> QED BY <1>1, <1>5, <1>d, IterationTyped DEF log

(* The same of a final answer, or of no answer.                            *)
LEMMA AnswerFresh ==
  ASSUME TypeOK, NEW new \in {<<>>, <<Assistant(next, 0)>>}
  PROVE  /\ new \in Seq(Message) /\ Len(new) \in Nat
         /\ \A i \in 1..Len(new) : new[i] = Assistant(next, 0) /\ i = 1
         /\ Assistant(next, 0) \in Message
<1>1. next \in Nat /\ Assistant(next, 0) \in Message
  BY MessagesTyped DEF TypeOK
<1>2. CASE new = <<>>
  BY <1>1, <1>2
<1>3. CASE new = <<Assistant(next, 0)>>
  BY <1>1, <1>3
<1> QED BY <1>1, <1>2, <1>3

(* Whatever is said in the next iteration is known after it.               *)
Said(new) ==
    /\ new \in Seq(Message) /\ Len(new) \in Nat
    /\ next' = next + Len(new) + 1
    /\ \A i \in 1..Len(new) :
          /\ new[i].n = next + i - 1
          /\ new[i].role = "tool" => new[i].of[1] = next
          /\ new[i].role # "tool" => new[i].of = NoCall
    /\ \A i \in 1..Len(new) : new[i].role = "tool" =>
          new[i].of # perm' /\ new[i].of # ask'
    /\ \A i, j \in 1..Len(new) :
          i < j /\ new[i].role = "tool" /\ new[j].role = "tool" =>
             new[i].of # new[j].of

LEMMA EngineSays ==
  ASSUME WellTyped, Counted, EngineStep
  PROVE  \E new :
            /\ Said(new) /\ out' = out \o new /\ todo' = out'
            /\ mem' = mem /\ stored' = stored /\ pc = "run" /\ pc' = "write"
            /\ mishaps' = mishaps
            /\ perm' = perm \/ (perm'[1] = next /\ ask' = ask)
            /\ ask' = ask \/ (ask'[1] = next /\ perm' = perm)
<1>t. /\ next \in Nat /\ perm \in Nat \X Nat /\ ask \in Nat \X Nat
      /\ perm[1] < next /\ ask[1] < next
  BY DEF WellTyped, TypeOK, Counted
<1>1. ASSUME NEW r \in Rounds, NEW goto, Produce(Iteration(r), goto),
             \/ perm' = perm /\ ask' = ask
             \/ perm' = <<next, r.executed + 1>> /\ ask' = ask
             \/ ask' = <<next, r.executed + 1>> /\ perm' = perm
      PROVE  Said(Iteration(r))
  <2> DEFINE new == Iteration(r)
  <2>1. Fresh(r, new) /\ new \in Seq(Message) /\ Len(new) \in Nat /\ r.executed \in Nat
    BY IterationFresh DEF WellTyped
  <2>2. next' = next + Len(new) + 1
    BY <1>1 DEF Produce
  <2> HIDE DEF new
  <2>3. ASSUME NEW i \in 1..Len(new), new[i].role = "tool"
        PROVE  new[i].of # perm' /\ new[i].of # ask'
    <3>1. /\ new[i].of[1] = next /\ new[i].of[2] <= r.executed
          /\ new[i].of \in Nat \X Nat
      BY <2>1, <2>3 DEF Fresh, Message
    <3>2. new[i].of # perm /\ new[i].of # ask
      BY <1>t, <3>1
    <3>3. new[i].of # <<next, r.executed + 1>>
      BY <2>1, <3>1
    <3> QED BY <1>1, <3>2, <3>3
  <2>4. /\ \A i \in 1..Len(new) :
             /\ new[i].n = next + i - 1
             /\ new[i].role = "tool" => new[i].of[1] = next
             /\ new[i].role # "tool" => new[i].of = NoCall
        /\ \A i, j \in 1..Len(new) :
             i < j /\ new[i].role = "tool" /\ new[j].role = "tool" =>
                new[i].of # new[j].of
    BY <2>1 DEF Fresh
  <2>5. Said(new)
    BY <2>1, <2>2, <2>3, <2>4 DEF Said
  <2> QED BY <2>5 DEF new
<1>2. ASSUME NEW new, NEW goto, Produce(new, goto)
      PROVE  /\ out' = out \o new /\ todo' = out'
             /\ mem' = mem /\ stored' = stored /\ pc = "run" /\ pc' = "write"
             /\ mishaps' = mishaps
  BY <1>2 DEF Produce, Goto, logVars, historyVars
<1>3. ASSUME NEW r \in Rounds, Iterate(r) \/ Cancel(r)
      PROVE  /\ perm' = perm /\ ask' = ask
             /\ \E goto : Produce(Iteration(r), goto)
  BY <1>3 DEF Iterate, Cancel, pendingVars
<1>4. ASSUME NEW r \in Rounds, NEW kind \in {"permission", "ask_user"}, Suspend(r, kind)
      PROVE  /\ \E goto : Produce(Iteration(r), goto)
             /\ \/ perm' = <<next, r.executed + 1>> /\ ask' = ask
                \/ ask' = <<next, r.executed + 1>> /\ perm' = perm
  BY <1>4 DEF Suspend
<1>5. ASSUME NEW new \in {<<>>, <<Assistant(next, 0)>>}, Finish(new)
      PROVE  /\ perm' = perm /\ ask' = ask /\ Said(new)
             /\ \E goto : Produce(new, goto)
  <2>1. /\ perm' = perm /\ ask' = ask /\ next' = next + Len(new) + 1
        /\ Produce(new, "idle")
    BY <1>5 DEF Finish, Produce, pendingVars
  <2>2. /\ new \in Seq(Message) /\ Len(new) \in Nat
        /\ \A i \in 1..Len(new) : new[i] = Assistant(next, 0) /\ i = 1
    BY AnswerFresh DEF WellTyped
  <2>3. /\ Assistant(next, 0).n = next /\ Assistant(next, 0).role = "assistant"
        /\ Assistant(next, 0).of = NoCall
    BY DEF Assistant
  <2>4. \A i \in 1..Len(new) :
           /\ new[i].n = next + i - 1 /\ new[i].role # "tool" /\ new[i].of = NoCall
    BY <1>t, <2>2, <2>3
  <2> QED BY <2>1, <2>2, <2>4 DEF Said
<1>6. ASSUME NEW r \in Rounds, Iterate(r) \/ Cancel(r)
      PROVE  /\ Said(Iteration(r)) /\ perm' = perm /\ ask' = ask
             /\ \E goto : Produce(Iteration(r), goto)
  BY <1>1, <1>3, <1>6
<1>7. ASSUME NEW r \in Rounds, NEW kind \in {"permission", "ask_user"}, Suspend(r, kind)
      PROVE  /\ Said(Iteration(r))
             /\ \E goto : Produce(Iteration(r), goto)
             /\ \/ perm' = <<next, r.executed + 1>> /\ ask' = ask
                \/ ask' = <<next, r.executed + 1>> /\ perm' = perm
  BY <1>1, <1>4, <1>7
<1>8. CASE \E r \in Rounds : Iterate(r) \/ Cancel(r)
  BY <1>2, <1>6, <1>8
<1>9. CASE \E r \in Rounds, kind \in {"permission", "ask_user"} : Suspend(r, kind)
  <2>1. PICK r \in Rounds, kind \in {"permission", "ask_user"} : Suspend(r, kind)
    BY <1>9
  <2>2. <<next, r.executed + 1>>[1] = next
    OBVIOUS
  <2>3. PICK goto : Produce(Iteration(r), goto)
    BY <1>7, <2>1
  <2> QED BY <1>2, <1>7, <2>1, <2>2, <2>3
<1>a. CASE \E new \in {<<>>, <<Assistant(next, 0)>>} : Finish(new)
  BY <1>2, <1>5, <1>a
<1> QED BY <1>8, <1>9, <1>a DEF EngineStep

LEMMA CountedAtRun ==
  ASSUME WellTyped, Counted,
         Think \/ EngineStep \/ Write \/ Written \/ WriteFails
  PROVE  Counted'
<1>t. /\ next \in Nat /\ perm \in Nat \X Nat /\ ask \in Nat \X Nat /\ next > 0
      /\ todo \in Seq(Message) /\ out \in Seq(Message)
  BY DEF WellTyped, TypeOK
<1>o. pc \notin {"run", "write", "delete"} => out = <<>>
  BY DEF Counted
<1>e. In(<<>>) = {}
  BY DEF In
<1>1. CASE Think
  <2>1. /\ perm' = perm /\ ask' = ask /\ next' = next /\ pc' = "run"
        /\ todo' = todo /\ out' = out /\ mem' = mem /\ stored' = stored
    BY <1>1 DEF Think, Goto, logVars, pendingVars, countVars
  <2>2. Messages' \subseteq Messages
    BY <2>1 DEF Messages
  <2> QED BY <2>1, <2>2, CountedSame
<1>2. CASE EngineStep
  <2>1. PICK new :
          /\ Said(new) /\ out' = out \o new /\ todo' = out'
          /\ mem' = mem /\ stored' = stored /\ pc' = "write"
          /\ perm' = perm \/ (perm'[1] = next /\ ask' = ask)
          /\ ask' = ask \/ (ask'[1] = next /\ perm' = perm)
    BY <1>2, EngineSays
  <2>2. /\ new \in Seq(Message) /\ Len(new) \in Nat
        /\ next' = next + Len(new) + 1
    BY <2>1 DEF Said
  <2>3. next' \in Nat /\ next < next'
    BY <1>t, <2>2
  <2>4. Messages' \subseteq Messages \cup In(new)
    BY <1>t, <2>1, <2>2, InGrown DEF Messages
  <2>5. ASSUME NEW m \in In(new) PROVE Known(m, perm', ask', next')
    <3>1. PICK i \in 1..Len(new) : m = new[i]
      BY <2>5 DEF In
    <3>2. /\ m.n = next + i - 1
          /\ m.role = "tool" => m.of[1] = next /\ m.of # perm' /\ m.of # ask'
          /\ m.role # "tool" => m.of = NoCall
      BY <2>1, <3>1 DEF Said
    <3>3. m.n < next'
      BY <1>t, <2>2, <3>2
    <3> QED BY <1>t, <2>3, <3>2, <3>3 DEF Known
  <2>6. ASSUME NEW m \in Messages PROVE Known(m, perm', ask', next')
    <3>1. Known(m, perm, ask, next)
      BY DEF Counted
    <3>2. m \in Message
      BY LengthOf DEF WellTyped, TypeOK, Messages
    <3>3. m.n \in Nat /\ m.of \in Nat \X Nat /\ m.of[1] \in Nat
      BY <3>2 DEF Message
    <3>4. m.n < next' /\ (m.role # "tool" => m.of = NoCall)
      BY <1>t, <2>3, <3>1, <3>3 DEF Known
    <3>5. m.role = "tool" => m.of[1] < next /\ 0 < m.of[1] /\ m.of # perm /\ m.of # ask
      BY <3>1 DEF Known
    <3>6. m.role = "tool" => m.of # perm' /\ m.of # ask'
      BY <1>t, <2>1, <3>3, <3>5
    <3> QED BY <1>t, <2>3, <3>3, <3>4, <3>5, <3>6 DEF Known
  <2>7. \A m \in Messages' : Known(m, perm', ask', next')
    BY <2>4, <2>5, <2>6
  <2>8. /\ \A p \in {perm, ask} : p[1] < next /\ (p # NoCall => 0 < p[1])
        /\ perm = ask => perm = NoCall
    BY DEF Counted
  <2>9. perm[1] \in Nat /\ ask[1] \in Nat
    BY <1>t
  <2>a. \A p \in {perm', ask'} : p[1] < next' /\ (p # NoCall => 0 < p[1])
    BY <1>t, <2>1, <2>3, <2>8, <2>9
  <2>b. perm' = ask' => perm' = NoCall
    BY <1>t, <2>1, <2>8, <2>9
  <2> QED BY <2>1, <2>7, <2>a, <2>b DEF Counted
<1>3. CASE Write
  <2>1. /\ pc' = pc /\ perm' = perm /\ ask' = ask /\ next' = next /\ out' = out
        /\ todo' = Tail(todo) /\ todo # <<>> /\ Put(Head(todo))
    BY <1>3 DEF Write, pendingVars, countVars
  <2>3. /\ Head(todo) \in Message /\ Head(todo) \in In(todo)
        /\ In(todo') \subseteq In(todo)
    BY <1>t, <2>1, HeadAndTail, InGrown, ThinnedTail, ThinnedIn
  <2>4. In(mem') = In(mem) \cup {Head(todo)} /\ In(stored') = In(stored) \cup {Head(todo)}
    BY <2>1, <2>3, PutIn
  <2>5. Messages' \subseteq Messages
    BY <2>1, <2>3, <2>4 DEF Messages
  <2> QED BY <1>o, <2>1, <2>5, CountedSame
<1>4. CASE Written
  <2>1. /\ perm' = perm /\ ask' = ask /\ next' = next /\ out' = <<>>
        /\ todo' = todo /\ mem' = mem /\ stored' = stored
    BY <1>4 DEF Written, PastMark, logVars, pendingVars, countVars
  <2>2. Messages' \subseteq Messages
    BY <1>e, <2>1 DEF Messages
  <2> QED BY <2>1, <2>2, CountedSame
<1>5. CASE WriteFails
  <2>1. /\ perm' = perm /\ ask' = ask /\ next' = next /\ todo' = <<>>
        /\ mem' = mem /\ stored' = stored /\ pc' = then
        /\ out' = IF then = "idle" THEN <<>> ELSE out
    BY <1>5 DEF WriteFails, Rest, Goto, logVars, pendingVars
  <2>2. Messages' \subseteq Messages
    BY <1>e, <2>1 DEF Messages
  <2>3. then \in {"idle", "run"}
    BY DEF WellTyped, TypeOK
  <2> QED BY <2>1, <2>2, <2>3, CountedSame
<1> QED BY <1>1, <1>2, <1>3, <1>4, <1>5

-----------------------------------------------------------------------------
\* The invariant behind LogSound.  What is about to be written, and what the
\* engine said since the mark, is in order and follows all that is in the log.

Follows(a, b) ==
    /\ a.role # "user" /\ b.role # "user" => a.n < b.n
    /\ a.role = "tool" /\ b.role = "tool" => a.of # b.of

Orderly(log) == \A i, j \in 1..Len(log) : i < j => Follows(log[i], log[j])

Precedes(a, b) == \A m \in In(a), k \in In(b) : Follows(m, k)

Coming == IF pc \in {"reply", "write"} THEN todo
          ELSE IF pc = "run" THEN out ELSE <<>>

Told ==
    "rewritten" \notin mishaps =>
        /\ Orderly(mem) /\ Orderly(stored) /\ Orderly(Coming)
        /\ Precedes(mem, Coming) /\ Precedes(stored, Coming)

LEMMA OrderlyThinned ==
  ASSUME NEW log \in Seq(Message), NEW short, Thinned(short, log), Orderly(log)
  PROVE  Orderly(short)
<1>1. PICK f \in [1..Len(short) -> 1..Len(log)] :
         /\ \A i, j \in 1..Len(short) : i < j => f[i] < f[j]
         /\ \A i \in 1..Len(short) : short[i] = log[f[i]]
  BY DEF Thinned
<1>2. ASSUME NEW i \in 1..Len(short), NEW j \in 1..Len(short), i < j
      PROVE  Follows(short[i], short[j])
  <2>1. f[i] \in 1..Len(log) /\ f[j] \in 1..Len(log) /\ f[i] < f[j]
    BY <1>1, <1>2
  <2>2. Follows(log[f[i]], log[f[j]])
    BY <2>1 DEF Orderly
  <2> QED BY <1>1, <2>2
<1> QED BY <1>2 DEF Orderly

LEMMA OrderlyAppended ==
  ASSUME NEW log \in Seq(Message), NEW m \in Message, Orderly(log),
         \A k \in In(log) : Follows(k, m)
  PROVE  Orderly(Append(log, m))
<1> DEFINE new == Append(log, m)
<1>1. /\ Len(log) \in Nat /\ Len(new) = Len(log) + 1
      /\ \A i \in 1..Len(log) : new[i] = log[i]
      /\ new[Len(log) + 1] = m
  BY Appended
<1> HIDE DEF new
<1>2. ASSUME NEW i \in 1..Len(new), NEW j \in 1..Len(new), i < j
      PROVE  Follows(new[i], new[j])
  <2>1. i \in 1..Len(log) /\ new[i] = log[i] /\ log[i] \in In(log)
    BY <1>1, <1>2 DEF In
  <2>2. CASE j = Len(log) + 1
    BY <1>1, <2>1, <2>2
  <2>3. CASE j # Len(log) + 1
    <3>1. j \in 1..Len(log)
      BY <1>1, <2>3
    <3> QED BY <1>1, <1>2, <2>1, <3>1 DEF Orderly
  <2> QED BY <2>2, <2>3
<1>3. Orderly(new)
  BY <1>2 DEF Orderly
<1> QED BY <1>3 DEF new

LEMMA OrderlyJoined ==
  ASSUME NEW a \in Seq(Message), NEW b \in Seq(Message), Orderly(a), Orderly(b),
         Precedes(a, b)
  PROVE  Orderly(a \o b)
<1> DEFINE new == a \o b
<1>1. /\ Len(a) \in Nat /\ Len(b) \in Nat /\ Len(new) = Len(a) + Len(b)
      /\ \A i \in 1..Len(a) : new[i] = a[i]
      /\ \A i \in 1..Len(b) : new[Len(a) + i] = b[i]
  BY Joined
<1> HIDE DEF new
<1>2. \A i \in 1..Len(new) :
         \/ i \in 1..Len(a) /\ new[i] = a[i] /\ a[i] \in In(a)
         \/ /\ i - Len(a) \in 1..Len(b) /\ new[i] = b[i - Len(a)]
            /\ b[i - Len(a)] \in In(b)
  <2> SUFFICES ASSUME NEW i \in 1..Len(new)
               PROVE  \/ i \in 1..Len(a) /\ new[i] = a[i] /\ a[i] \in In(a)
                      \/ /\ i - Len(a) \in 1..Len(b) /\ new[i] = b[i - Len(a)]
                         /\ b[i - Len(a)] \in In(b)
    OBVIOUS
  <2>1. CASE i <= Len(a)
    BY <1>1, <2>1 DEF In
  <2>2. CASE ~(i <= Len(a))
    <3>1. i - Len(a) \in 1..Len(b) /\ Len(a) + (i - Len(a)) = i
      BY <1>1, <2>2
    <3>2. new[i] = b[i - Len(a)]
      BY <1>1, <3>1
    <3> QED BY <3>1, <3>2 DEF In
  <2> QED BY <2>1, <2>2
<1>3. ASSUME NEW i \in 1..Len(new), NEW j \in 1..Len(new), i < j
      PROVE  Follows(new[i], new[j])
  <2>1. CASE i \in 1..Len(a) /\ j \in 1..Len(a)
    BY <1>1, <1>3, <2>1 DEF Orderly
  <2>2. CASE i \in 1..Len(a) /\ j \notin 1..Len(a)
    <3>1. new[i] \in In(a)
      <4>1. new[i] = a[i]
        BY <1>1, <2>2
      <4> QED BY <2>2, <4>1 DEF In
    <3>2. new[j] \in In(b)
      BY <1>2, <2>2
    <3> QED BY <3>1, <3>2 DEF Precedes
  <2>3. CASE i \notin 1..Len(a)
    <3>1. j \notin 1..Len(a)
      BY <1>1, <1>3, <2>3
    <3>2. /\ i - Len(a) \in 1..Len(b) /\ new[i] = b[i - Len(a)]
          /\ j - Len(a) \in 1..Len(b) /\ new[j] = b[j - Len(a)]
      BY <1>2, <2>3, <3>1
    <3>3. i - Len(a) < j - Len(a)
      BY <1>1, <1>3
    <3>4. Follows(b[i - Len(a)], b[j - Len(a)])
      BY <3>2, <3>3 DEF Orderly
    <3> QED BY <3>2, <3>4
  <2> QED BY <2>1, <2>2, <2>3
<1>4. Orderly(new)
  BY <1>3 DEF Orderly
<1> QED BY <1>4 DEF new

(* Less of what there was, or of the store loaded anew.                    *)
LEMMA ToldThinned ==
  ASSUME WellTyped, Told, mishaps \subseteq mishaps',
         Thinned(mem', mem) \/ Thinned(mem', stored), Thinned(stored', stored),
         Thinned(Coming', Coming)
  PROVE  Told'
<1> SUFFICES ASSUME "rewritten" \notin mishaps' PROVE Told'
  BY DEF Told
<1>1. "rewritten" \notin mishaps
  OBVIOUS
<1>2. /\ Orderly(mem) /\ Orderly(stored) /\ Orderly(Coming)
      /\ Precedes(mem, Coming) /\ Precedes(stored, Coming)
  BY <1>1 DEF Told
<1>3. mem \in Seq(Message) /\ stored \in Seq(Message) /\ Coming \in Seq(Message)
  BY DEF WellTyped, TypeOK, Coming
<1> DEFINE coming == Coming
           coming2 == Coming'
<1>4. Orderly(mem') /\ Orderly(stored') /\ Orderly(coming2)
  BY <1>2, <1>3, OrderlyThinned
<1>5. /\ In(mem') \subseteq In(mem) \/ In(mem') \subseteq In(stored)
      /\ In(stored') \subseteq In(stored) /\ In(coming2) \subseteq In(coming)
  BY ThinnedIn
<1>6. Precedes(mem', coming2) /\ Precedes(stored', coming2)
  BY <1>2, <1>5 DEF Precedes
<1> QED BY <1>4, <1>6 DEF Told

(* A message of the user is added to the logs.                             *)
LEMMA ToldUser ==
  ASSUME WellTyped, Told, mishaps \subseteq mishaps', NEW m \in Message,
         m.role = "user", Put(m), Coming' = <<>>
  PROVE  Told'
<1> SUFFICES ASSUME "rewritten" \notin mishaps' PROVE Told'
  BY DEF Told
<1>1. Orderly(mem) /\ Orderly(stored)
  BY DEF Told
<1>2. mem \in Seq(Message) /\ stored \in Seq(Message)
  BY DEF WellTyped, TypeOK
<1>3. \A k : Follows(k, m)
  BY DEF Follows
<1>4. Orderly(mem') /\ Orderly(stored')
  BY <1>1, <1>2, <1>3, OrderlyAppended DEF Put
<1>5. In(<<>>) = {} /\ Orderly(<<>>)
  BY DEF In, Orderly
<1>6. Precedes(mem', <<>>) /\ Precedes(stored', <<>>)
  BY <1>5 DEF Precedes
<1> QED BY <1>4, <1>5, <1>6 DEF Told

(* The first of the messages to come is added to the logs.                 *)
LEMMA ToldPut ==
  ASSUME WellTyped, Told, mishaps \subseteq mishaps', Coming # <<>>,
         Put(Head(Coming)), Coming' \in {<<>>, Tail(Coming)}
  PROVE  Told'
<1> SUFFICES ASSUME "rewritten" \notin mishaps' PROVE Told'
  BY DEF Told
<1>1. /\ Orderly(mem) /\ Orderly(stored) /\ Orderly(Coming)
      /\ Precedes(mem, Coming) /\ Precedes(stored, Coming)
  BY DEF Told
<1>2. mem \in Seq(Message) /\ stored \in Seq(Message) /\ Coming \in Seq(Message)
  BY DEF WellTyped, TypeOK, Coming
<1> DEFINE m == Head(Coming)
           rest == Tail(Coming)
<1>3. /\ m \in Message /\ m \in In(Coming) /\ m = Coming[1] /\ 1 \in 1..Len(Coming)
      /\ Len(Coming) \in Nat
      /\ \A i \in 1..Len(rest) : i + 1 \in 1..Len(Coming) /\ rest[i] = Coming[i + 1]
      /\ In(rest) \subseteq In(Coming)
  BY <1>2, HeadAndTail, InGrown, ThinnedTail, ThinnedIn
<1>4. Orderly(rest)
  BY <1>1, <1>2, ThinnedTail, OrderlyThinned
<1>5. \A k \in In(rest) : Follows(m, k)
  <2> SUFFICES ASSUME NEW k \in In(rest) PROVE Follows(m, k)
    OBVIOUS
  <2>1. PICK i \in 1..Len(rest) : k = rest[i]
    BY DEF In
  <2>2. i + 1 \in 1..Len(Coming) /\ k = Coming[i + 1] /\ 1 < i + 1
    BY <1>3, <2>1
  <2> QED BY <1>1, <1>3, <2>2 DEF Orderly
<1>6. /\ \A k \in In(mem) \cup In(stored) : Follows(k, m)
      /\ \A k \in In(mem) \cup In(stored), l \in In(rest) : Follows(k, l)
  BY <1>1, <1>3 DEF Precedes
<1>7. /\ mem' = Append(mem, m) /\ stored' = Append(stored, m)
      /\ In(mem') = In(mem) \cup {m} /\ In(stored') = In(stored) \cup {m}
  BY <1>2, <1>3, InGrown DEF Put
<1> HIDE DEF m, rest
<1>8. Orderly(mem') /\ Orderly(stored')
  BY <1>1, <1>2, <1>3, <1>6, <1>7, OrderlyAppended
<1>9. Precedes(mem', rest) /\ Precedes(stored', rest)
  BY <1>5, <1>6, <1>7 DEF Precedes
<1>a. /\ Orderly(<<>>) /\ Precedes(mem', <<>>) /\ Precedes(stored', <<>>)
  BY DEF In, Orderly, Precedes
<1>b. Coming' = <<>> \/ Coming' = rest
  BY DEF rest
<1>c. Orderly(Coming') /\ Precedes(mem', Coming') /\ Precedes(stored', Coming')
  BY <1>4, <1>9, <1>a, <1>b
<1> QED BY <1>8, <1>c DEF Told

(* A message nothing in the log can contradict.                            *)
New(m) ==
    /\ m.role # "user" => m.n >= next
    /\ m.role = "tool" => m.of[1] >= next \/ m.of \in {perm, ask}

LEMMA KnownFollows ==
  ASSUME WellTyped, NEW k \in Message, NEW m \in Message,
         Known(k, perm, ask, next), New(m)
  PROVE  Follows(k, m)
<1>1. next \in Nat /\ perm[1] \in Nat /\ ask[1] \in Nat
  BY DEF WellTyped, TypeOK
<1>2. k.n \in Nat /\ m.n \in Nat /\ k.of[1] \in Nat /\ m.of[1] \in Nat
  BY DEF Message
<1>3. k.role # "user" /\ m.role # "user" => k.n < m.n
  BY <1>1, <1>2 DEF Known, New
<1>4. k.role = "tool" /\ m.role = "tool" => k.of # m.of
  BY <1>1, <1>2 DEF Known, New
<1> QED BY <1>3, <1>4 DEF Follows

LEMMA NothingComes ==
  ASSUME WellTyped, Coming' = <<>>
  PROVE  Thinned(Coming', Coming)
<1>1. Coming \in Seq(Message)
  BY DEF WellTyped, TypeOK, Coming
<1>2. Thinned(<<>>, Coming)
  BY <1>1, ThinnedTrivially
<1> QED BY <1>2

LEMMA ToldAtTurn ==
  ASSUME WellTyped, Counted, Told, mishaps \subseteq mishaps',
         \/ \E what \in {"text", "word"} : Begin(what)
         \/ Panic \/ SkipSummary \/ StartSummary \/ ForceSummary
         \/ TakeWord \/ PassWord \/ TakeText \/ Reply \/ ReplyFails
         \/ \E w \in {"turn", "host"} : Slide(w) \/ NoSummary(w)
         \/ UNCHANGED vars
  PROVE  Told'
<1>t. /\ next \in Nat /\ next > 0 /\ perm \in Nat \X Nat /\ ask \in Nat \X Nat
      /\ mem \in Seq(Message) /\ stored \in Seq(Message)
      /\ todo \in Seq(Message) /\ Coming \in Seq(Message)
  BY DEF WellTyped, TypeOK, Coming
<1>s. Thinned(mem, mem) /\ Thinned(stored, stored) /\ Thinned(Coming, Coming)
  BY <1>t, ThinnedTrivially
<1>1. CASE \/ \E what \in {"text", "word"} : Begin(what)
           \/ Panic \/ SkipSummary \/ StartSummary \/ PassWord
  <2>1. /\ pc' \notin {"reply", "write", "run"} /\ stored' = stored
        /\ mem' = mem \/ mem' = stored
    BY <1>1 DEF Begin, Load, Panic, SkipSummary, StartSummary, PassWord, Goto, logVars
  <2>2. Coming' = <<>>
    BY <2>1 DEF Coming
  <2> QED BY <1>s, <2>1, <2>2, NothingComes, ToldThinned
<1>2. CASE ForceSummary \/ UNCHANGED vars
  <2>1. /\ pc' = pc /\ todo' = todo /\ out' = out /\ mem' = mem /\ stored' = stored
    BY <1>2 DEF ForceSummary, vars, logVars, turnVars
  <2>2. Coming' = Coming
    BY <2>1 DEF Coming
  <2> QED BY <1>s, <2>1, <2>2, ToldThinned
<1>3. CASE \E w \in {"turn", "host"} : Slide(w) \/ NoSummary(w)
  <2>1. PICK w \in {"turn", "host"} : Summarised(w)
    BY <1>3 DEF Slide, NoSummary
  <2>2. /\ todo' = todo /\ out' = out /\ mem' = mem /\ stored' = stored
        /\ pc' = pc \/ (pc = "summary" /\ pc' = "input")
    BY <2>1 DEF Summarised, WellTyped, Placed
  <2>3. Coming' = Coming
    BY <2>2 DEF Coming
  <2> QED BY <1>s, <2>2, <2>3, ToldThinned
<1>4. CASE TakeWord \/ TakeText
  <2> SUFFICES ASSUME "rewritten" \notin mishaps' PROVE Told'
    BY DEF Told
  <2>1. /\ pc = "input" /\ pc' = "reply" /\ mem' = mem /\ stored' = stored
        /\ mishaps' = mishaps
    BY <1>4 DEF TakeWord, TakeText, Goto, logVars, historyVars
  <2>2. Orderly(mem) /\ Orderly(stored)
    BY <2>1 DEF Told
  <2>3. /\ Coming' = todo'
    BY <2>1 DEF Coming
  <2>4. \/ \E n \in Nat : todo' = <<User(n)>>
        \/ \E call \in {perm, ask} : todo' = <<Tool(next, call)>>
        \/ todo' = <<Tool(next, perm), User(next + 1)>>
    BY <1>4, <1>t DEF TakeWord, TakeText
  <2>5. ASSUME NEW n \in Nat
        PROVE  User(n) \in Message /\ User(n).role = "user" /\ New(User(n))
    BY MessagesTyped DEF User, New
  <2>6. ASSUME NEW call \in {perm, ask}
        PROVE  Tool(next, call) \in Message /\ New(Tool(next, call))
    BY <1>t, MessagesTyped DEF Tool, New
  <2>7. ASSUME NEW m, todo' = <<m>>, m \in Message, New(m)
        PROVE  Orderly(todo') /\ \A k \in In(todo') : k \in Message /\ New(k)
    BY <2>7 DEF Orderly, In
  <2>8. ASSUME todo' = <<Tool(next, perm), User(next + 1)>>
        PROVE  Orderly(todo') /\ \A k \in In(todo') : k \in Message /\ New(k)
    <3> DEFINE a == Tool(next, perm)
               b == User(next + 1)
    <3>1. next + 1 \in Nat
      BY <1>t
    <3>2. /\ a \in Message /\ New(a) /\ b \in Message /\ New(b) /\ b.role = "user"
      BY <2>5, <2>6, <3>1
    <3>3. Follows(a, b)
      BY <3>2 DEF Follows
    <3>4. todo' = <<a, b>>
      BY <2>8
    <3> HIDE DEF a, b
    <3>5. /\ Len(todo') = 2 /\ todo'[1] = a /\ todo'[2] = b
          /\ 1..2 = {1, 2}
      BY <3>4
    <3> QED BY <3>2, <3>3, <3>5 DEF Orderly, In
  <2>9. Orderly(todo') /\ \A k \in In(todo') : k \in Message /\ New(k)
    <3>1. CASE \E n \in Nat : todo' = <<User(n)>>
      BY <2>5, <2>7, <3>1
    <3>2. CASE \E call \in {perm, ask} : todo' = <<Tool(next, call)>>
      BY <2>6, <2>7, <3>2
    <3> QED BY <2>4, <2>8, <3>1, <3>2
  <2>a. \A k \in In(mem) \cup In(stored) : k \in Message /\ Known(k, perm, ask, next)
    BY <1>t, LengthOf DEF Counted, Messages
  <2>b. Precedes(mem, todo') /\ Precedes(stored, todo')
    BY <2>9, <2>a, KnownFollows DEF Precedes
  <2> QED BY <2>1, <2>2, <2>3, <2>9, <2>b DEF Told
<1>5. CASE Reply
  <2>1. /\ pc = "reply" /\ todo' = Tail(todo) /\ Put(Head(todo))
        /\ pc' = IF Len(todo) = 1 THEN "repair" ELSE "reply"
    BY <1>5 DEF Reply
  <2>2. todo # <<>>
    BY <2>1 DEF WellTyped, Placed
  <2>3. Coming = todo /\ Coming' \in {<<>>, Tail(todo)}
    BY <2>1 DEF Coming
  <2> QED BY <2>1, <2>2, <2>3, ToldPut
<1>6. CASE ReplyFails
  <2>1. /\ pc = "reply" /\ todo' = Tail(todo) /\ mem' = mem /\ stored' = stored
        /\ pc' \in {"idle", "repair", "reply"}
    BY <1>6 DEF ReplyFails, logVars
  <2>2. todo # <<>>
    BY <2>1 DEF WellTyped, Placed
  <2>3. Coming = todo /\ Coming' \in {<<>>, Tail(todo)}
    BY <2>1 DEF Coming
  <2>4. Thinned(Coming', Coming)
    BY <1>t, <2>2, <2>3, ThinnedTrivially, ThinnedTail
  <2> QED BY <1>s, <2>1, <2>4, ToldThinned
<1> QED BY <1>1, <1>2, <1>3, <1>4, <1>5, <1>6

LEMMA ToldAtRepair ==
  ASSUME WellTyped, Told, mishaps \subseteq mishaps',
         \/ Intact \/ FindBreak \/ ReadCursor \/ RollBack \/ RollBackFails
         \/ ReAdd \/ Explain \/ NoNotice \/ ReAddFails \/ Invalidate
  PROVE  Told'
<1>t. /\ next \in Nat /\ mem \in Seq(Message) /\ stored \in Seq(Message)
      /\ cut \in Nat /\ todo \in Seq(Message)
  BY DEF WellTyped, TypeOK
<1>s. /\ Thinned(mem, mem) /\ Thinned(stored, stored)
      /\ Thinned(Upto(mem, cut), mem) /\ Thinned(Upto(stored, cut), stored)
  BY <1>t, ThinnedTrivially, ThinnedUpto
<1>c. pc' \notin {"reply", "write", "run"}
  BY DEF Intact, FindBreak, ReadCursor, RollBack, RollBackFails, ReAdd,
     Explain, NoNotice, ReAddFails, Invalidate, Goto
<1>n. Coming' = <<>>
  BY <1>c DEF Coming
<1>1. CASE \/ Intact \/ FindBreak \/ ReadCursor \/ RollBack \/ RollBackFails
           \/ NoNotice \/ ReAddFails \/ Invalidate
  <2>1. /\ mem' = mem \/ mem' = Upto(mem, cut)
        /\ stored' = stored \/ stored' = Upto(stored, cut)
    BY <1>1 DEF Intact, FindBreak, ReadCursor, RollBack, RollBackFails, NoNotice,
       ReAddFails, Invalidate, Truncate, TruncateMemory, InLog, logVars
  <2> QED BY <1>s, <1>n, <2>1, NothingComes, ToldThinned
<1>2. CASE ReAdd \/ Explain
  <2>1. PICK n \in Nat : Put(User(n))
    <3>1. \A i \in FirstUser(todo) : todo[i].n \in Nat
      <4>1. \A i \in 1..Len(todo) : todo[i] \in Message
        BY <1>t
      <4>2. FirstUser(todo) \subseteq 1..Len(todo)
        BY <1>t DEF FirstUser, Users
      <4> QED BY <4>1, <4>2 DEF Message
    <3> QED BY <1>2, <1>t, <3>1 DEF ReAdd, Explain
  <2>2. User(n) \in Message /\ User(n).role = "user"
    BY MessagesTyped DEF User
  <2> QED BY <1>n, <2>1, <2>2, ToldUser
<1> QED BY <1>1, <1>2

LEMMA ToldAtRun ==
  ASSUME WellTyped, Counted, Told, mishaps \subseteq mishaps',
         Think \/ EngineStep \/ Write \/ Written \/ WriteFails
  PROVE  Told'
<1>t. /\ next \in Nat /\ next > 0 /\ perm \in Nat \X Nat /\ ask \in Nat \X Nat
      /\ mem \in Seq(Message) /\ stored \in Seq(Message)
      /\ todo \in Seq(Message) /\ out \in Seq(Message) /\ then \in {"idle", "run"}
      /\ Coming \in Seq(Message)
  BY DEF WellTyped, TypeOK, Coming
<1>s. Thinned(mem, mem) /\ Thinned(stored, stored) /\ Thinned(Coming, Coming)
  BY <1>t, ThinnedTrivially
<1>1. CASE Think
  <2>1. /\ pc = "think" /\ pc' = "run" /\ out' = out /\ mem' = mem /\ stored' = stored
    BY <1>1 DEF Think, Goto, logVars
  <2>2. Coming' = <<>>
    BY <2>1 DEF Coming, Counted
  <2> QED BY <1>s, <2>1, <2>2, NothingComes, ToldThinned
<1>2. CASE EngineStep
  <2>1. PICK new :
          /\ Said(new) /\ out' = out \o new /\ todo' = out'
          /\ mem' = mem /\ stored' = stored /\ pc = "run" /\ pc' = "write"
          /\ mishaps' = mishaps
    BY <1>2, EngineSays
  <2>2. /\ new \in Seq(Message) /\ Len(new) \in Nat
        /\ \A i \in 1..Len(new) :
              /\ new[i].n = next + i - 1
              /\ new[i].role = "tool" => new[i].of[1] = next
        /\ \A i, j \in 1..Len(new) :
              i < j /\ new[i].role = "tool" /\ new[j].role = "tool" =>
                 new[i].of # new[j].of
    BY <2>1 DEF Said
  <2> SUFFICES ASSUME "rewritten" \notin mishaps' PROVE Told'
    BY DEF Told
  <2>3. /\ Orderly(mem) /\ Orderly(stored) /\ Orderly(out)
        /\ Precedes(mem, out) /\ Precedes(stored, out)
    BY <2>1 DEF Told, Coming
  <2>4. Orderly(new)
    <3>1. ASSUME NEW i \in 1..Len(new), NEW j \in 1..Len(new), i < j
          PROVE  Follows(new[i], new[j])
      <4>1. new[i].n < new[j].n
        <5>1. new[i].n = next + i - 1 /\ new[j].n = next + j - 1
          BY <2>2
        <5> QED BY <1>t, <2>2, <3>1, <5>1
      <4> QED BY <2>2, <3>1, <4>1 DEF Follows
    <3> QED BY <3>1 DEF Orderly
  <2>5. \A m \in In(new) : m \in Message /\ New(m)
    <3> SUFFICES ASSUME NEW m \in In(new) PROVE m \in Message /\ New(m)
      OBVIOUS
    <3>1. PICK i \in 1..Len(new) : m = new[i]
      BY DEF In
    <3>2. m.n >= next /\ (m.role = "tool" => m.of[1] >= next)
      BY <1>t, <2>2, <3>1
    <3>3. m \in Message
      BY <2>2, LengthOf
    <3> QED BY <3>2, <3>3 DEF New
  <2>6. \A k \in In(mem) \cup In(stored) \cup In(out) :
           k \in Message /\ Known(k, perm, ask, next)
    BY <1>t, LengthOf DEF Counted, Messages
  <2>7. Precedes(mem, new) /\ Precedes(stored, new) /\ Precedes(out, new)
    BY <2>5, <2>6, KnownFollows DEF Precedes
  <2>8. Orderly(out')
    BY <1>t, <2>1, <2>2, <2>3, <2>4, <2>7, OrderlyJoined
  <2>9. In(out') = In(out) \cup In(new)
    BY <1>t, <2>1, <2>2, InGrown
  <2>a. Precedes(mem, out') /\ Precedes(stored, out')
    BY <2>3, <2>7, <2>9 DEF Precedes
  <2>b. Coming' = out'
    BY <2>1 DEF Coming
  <2> QED BY <2>1, <2>3, <2>8, <2>a, <2>b DEF Told
<1>3. CASE Write
  <2>1. /\ pc = "write" /\ pc' = pc /\ todo # <<>> /\ todo' = Tail(todo)
        /\ Put(Head(todo))
    BY <1>3 DEF Write
  <2>2. Coming = todo /\ Coming' = Tail(todo)
    BY <2>1 DEF Coming
  <2> QED BY <2>1, <2>2, ToldPut
<1>4. CASE Written
  <2>1. /\ pc' = then /\ out' = <<>> /\ mem' = mem /\ stored' = stored
    BY <1>4 DEF Written, PastMark, Goto, logVars
  <2>2. Coming' = <<>>
    BY <1>t, <2>1 DEF Coming
  <2> QED BY <1>s, <2>1, <2>2, NothingComes, ToldThinned
<1>5. CASE WriteFails
  <2> SUFFICES ASSUME "rewritten" \notin mishaps' PROVE Told'
    BY DEF Told
  <2>1. /\ pc = "write" /\ pc' = then /\ mem' = mem /\ stored' = stored
        /\ out' = IF then = "idle" THEN <<>> ELSE out
        /\ then = "run" => todo = out
    BY <1>5 DEF WriteFails, Goto, logVars
  <2>2. Coming' = <<>> \/ Coming' = Coming
    BY <1>t, <2>1 DEF Coming
  <2>3. Thinned(Coming', Coming)
    BY <1>s, <2>2, NothingComes
  <2> QED BY <1>s, <2>1, <2>3, ToldThinned
<1> QED BY <1>1, <1>2, <1>3, <1>4, <1>5

LEMMA ToldElsewhere ==
  ASSUME WellTyped, Told, mishaps \subseteq mishaps',
         \/ \E keep \in 0..Len(mem) : HostTruncate(keep)
         \/ \E i \in DOMAIN mem : BeginDelete(i)
         \/ DeleteStored \/ DeleteFails \/ DeleteFromMemory
         \/ Reset \/ Restart
  PROVE  Told'
<1>t. /\ mem \in Seq(Message) /\ stored \in Seq(Message)
      /\ cut \in Nat /\ Len(mem) \in Nat /\ out \in Seq(Message)
  BY DEF WellTyped, TypeOK
<1>s. /\ Thinned(mem, mem) /\ Thinned(stored, stored)
      /\ Thinned(<<>>, mem) /\ Thinned(<<>>, stored)
  BY <1>t, ThinnedTrivially
<1>c. pc' \notin {"reply", "write", "run"}
  BY DEF HostTruncate, Removal, BeginDelete, DeleteStored, DeleteFails,
     DeleteFromMemory, Reset, Restart, Goto, turnVars
<1>n. Thinned(Coming', Coming)
  <2>1. Coming' = <<>>
    BY <1>c DEF Coming
  <2> QED BY <2>1, NothingComes
<1>1. ASSUME NEW keep \in 0..Len(mem), HostTruncate(keep)
      PROVE  Told'
  <2>k. keep \in Nat
    BY <1>t
  <2>1. /\ mem' = mem \/ mem' = Upto(mem, keep)
        /\ stored' = stored \/ stored' = Upto(stored, keep)
    BY <1>1 DEF HostTruncate, Truncate, TruncateMemory, InLog, logVars
  <2>2. Thinned(Upto(mem, keep), mem) /\ Thinned(Upto(stored, keep), stored)
    BY <1>t, <2>k, ThinnedUpto
  <2> QED BY <1>s, <1>n, <2>1, <2>2, ToldThinned
<1>2. CASE \/ \E i \in DOMAIN mem : BeginDelete(i)
           \/ DeleteFails \/ Reset \/ Restart
  <2>1. /\ mem' = mem \/ mem' = stored \/ mem' = <<>>
        /\ stored' = stored \/ stored' = <<>>
    BY <1>2 DEF BeginDelete, DeleteFails, Reset, Restart, Load, logVars
  <2> QED BY <1>s, <1>n, <2>1, ToldThinned
<1>3. CASE DeleteStored
  <2>1. /\ mem' = mem
        /\ stored' = stored \/ \E p \in DOMAIN stored : stored' = Without(stored, p, p)
    BY <1>3 DEF DeleteStored
  <2>2. ASSUME NEW p \in DOMAIN stored PROVE Thinned(Without(stored, p, p), stored)
    <3>1. p \in 1..Len(stored) /\ Len(stored) \in Nat
      BY <1>t, LengthOf
    <3> DEFINE c == p - 1
    <3>2. c \in Nat /\ c + 1 = p /\ c <= Len(stored)
      BY <3>1
    <3> HIDE DEF c
    <3>3. Thinned(Without(stored, c + 1, c + 1), stored)
      BY <1>t, <3>2, ThinnedWithout
    <3> QED BY <3>2, <3>3
  <2> QED BY <1>s, <1>n, <2>1, <2>2, ToldThinned
<1>4. CASE DeleteFromMemory
  <2>1. /\ mem' = Without(mem, cut + 1, cut + Len(out)) /\ stored' = stored
        /\ cut <= Len(mem) /\ Len(out) \in Nat
    BY <1>4, <1>t DEF DeleteFromMemory, WellTyped, Placed
  <2>2. Thinned(mem', mem)
    BY <1>t, <2>1, ThinnedWithout
  <2> QED BY <1>s, <1>n, <2>1, <2>2, ToldThinned
<1> QED BY <1>1, <1>2, <1>3, <1>4

(* What the engine and its tools said is in the log once and in the order  *)
(* it was said, and a permission or an answer completes a call once, unless *)
(* a write-back failed in the middle.  (writeBackNewMessages,              *)
(* TakePendingPermission, TakePendingAskUser)                              *)
THEOREM LogIsSound == Spec => []LogSound
<1> DEFINE Inv == WellTyped /\ Agreeing /\ Counted /\ Told
<1>1. Init => Inv
  <2> SUFFICES ASSUME Init PROVE Inv
    OBVIOUS
  <2>1. WellTyped /\ Agreeing
    BY TypeInit, PlacedInit DEF WellTyped, Init, Agreeing
  <2>2. /\ mem = <<>> /\ stored = <<>> /\ todo = <<>> /\ out = <<>> /\ pc = "idle"
        /\ perm = NoCall /\ ask = NoCall /\ next = 1
    BY DEF Init
  <2>3. In(<<>>) = {}
    BY DEF In
  <2>4. NoCall[1] = 0
    BY DEF NoCall
  <2>5. Counted
    BY <2>2, <2>3, <2>4 DEF Counted, Messages
  <2>6. Coming = <<>>
    BY <2>2 DEF Coming
  <2>7. Orderly(<<>>) /\ Precedes(<<>>, <<>>)
    BY <2>3 DEF Orderly, Precedes
  <2>8. Told
    BY <2>2, <2>6, <2>7 DEF Told
  <2> QED BY <2>1, <2>5, <2>8
<1>2. Inv /\ [Next]_vars => Inv'
  <2> SUFFICES ASSUME WellTyped, Agreeing, Counted, Told, [Next]_vars
               PROVE  WellTyped' /\ Agreeing' /\ Counted' /\ Told'
    OBVIOUS
  <2>1. WellTyped' /\ Agreeing' /\ mishaps \subseteq mishaps'
    BY TypesKept, PlacedKept, AgreeingKept, MishapsKept DEF WellTyped
  <2>2. Counted'
    BY CountedAtTurn, CountedAtRepair, CountedAtRun, CountedElsewhere
       DEF Next, TurnStep
  <2>3. Told'
    BY <2>1, ToldAtTurn, ToldAtRepair, ToldAtRun, ToldElsewhere DEF Next, TurnStep
  <2> QED BY <2>1, <2>2, <2>3
<1>3. Inv => LogSound
  <2> SUFFICES ASSUME Inv PROVE InOrder /\ AnsweredOnce
    BY DEF LogSound, WellTyped
  <2> SUFFICES ASSUME "rewritten" \notin mishaps PROVE InOrder /\ AnsweredOnce
    BY DEF InOrder, AnsweredOnce
  <2>1. /\ Orderly(mem) /\ \A m \in In(mem) : Known(m, perm, ask, next)
        /\ mem \in Seq(Message)
    BY DEF Told, Counted, Messages, WellTyped, TypeOK
  <2>2. DOMAIN mem = 1..Len(mem) /\ Len(mem) \in Nat
    BY <2>1
  <2>3. ASSUME NEW i \in DOMAIN mem, NEW j \in i + 1..Len(mem)
        PROVE  Follows(mem[i], mem[j]) /\ j \in 1..Len(mem) /\ mem[j] \in In(mem)
               /\ mem[i] \in In(mem)
    <3>1. i \in 1..Len(mem) /\ j \in 1..Len(mem) /\ i < j
      BY <2>2
    <3> QED BY <2>1, <3>1 DEF Orderly, In
  <2>4. InOrder
    BY <2>3 DEF InOrder, Follows
  <2>5. ASSUME NEW i \in DOMAIN mem, mem[i].role = "tool",
               NEW j \in i + 1..Len(mem)
        PROVE  mem[j].of # mem[i].of
    <3>1. /\ Follows(mem[i], mem[j])
          /\ Known(mem[i], perm, ask, next) /\ Known(mem[j], perm, ask, next)
      BY <2>1, <2>3
    <3>2. mem[i].of # NoCall
      <4>1. 0 < mem[i].of[1]
        BY <2>5, <3>1 DEF Known
      <4> QED BY <4>1 DEF NoCall
    <3> QED BY <2>5, <3>1, <3>2 DEF Follows, Known
  <2>6. AnsweredOnce
    BY <2>5 DEF AnsweredOnce
  <2> QED BY <2>4, <2>6
<1> HIDE DEF Inv
<1> QED BY <1>1, <1>2, <1>3, PTL DEF Spec

-----------------------------------------------------------------------------
\* The answers to questions: with its call in the window, an answer stays.

AnswersOf(log) == {log[i].n : i \in {k \in DOMAIN log : log[k].role = "tool"}}

Unharmed == Undisturbed /\ "rewritten" \notin mishaps

Replied ==
    Unharmed =>
        /\ replied \subseteq AnswersOf(mem)
        /\ pc = "delete" => replied \cap Numbers(out) = {}

LEMMA InAnswers ==
  ASSUME NEW log \in Seq(Message), NEW n
  PROVE  n \in AnswersOf(log) <=>
             \E i \in 1..Len(log) : log[i].role = "tool" /\ log[i].n = n
<1>1. DOMAIN log = 1..Len(log)
  OBVIOUS
<1> QED BY <1>1 DEF AnswersOf

LEMMA AnswersAppended ==
  ASSUME NEW log \in Seq(Message), NEW m \in Message
  PROVE  /\ AnswersOf(log) \subseteq AnswersOf(Append(log, m))
         /\ m.role = "tool" => m.n \in AnswersOf(Append(log, m))
<1> DEFINE new == Append(log, m)
<1>1. /\ new \in Seq(Message) /\ Len(log) \in Nat /\ Len(new) = Len(log) + 1
      /\ \A i \in 1..Len(log) : new[i] = log[i]
      /\ new[Len(log) + 1] = m
  BY Appended
<1> HIDE DEF new
<1>2. ASSUME NEW n \in AnswersOf(log) PROVE n \in AnswersOf(new)
  <2>1. PICK i \in 1..Len(log) : log[i].role = "tool" /\ log[i].n = n
    BY InAnswers
  <2>2. i \in 1..Len(new) /\ new[i] = log[i]
    BY <1>1
  <2> QED BY <1>1, <2>1, <2>2, InAnswers
<1>3. ASSUME m.role = "tool" PROVE m.n \in AnswersOf(new)
  <2>1. Len(log) + 1 \in 1..Len(new)
    BY <1>1
  <2> QED BY <1>1, <1>3, <2>1, InAnswers
<1> QED BY <1>2, <1>3 DEF new

(* An answer outside the part that is replaced is still there.             *)
LEMMA AnswersReplaced ==
  ASSUME NEW log \in Seq(Message), NEW short \in Seq(Message),
         NEW c \in Nat, NEW k \in Nat, NEW l \in Nat, l <= k, c + k <= Len(log),
         Replaces(log, short, c, k, l)
  PROVE  AnswersOf(log) \ NumbersPast(log, c, k) \subseteq AnswersOf(short)
<1> SUFFICES ASSUME NEW n \in AnswersOf(log), \A i \in 1..k : log[c + i].n # n
             PROVE  n \in AnswersOf(short)
  BY DEF NumbersPast
<1>1. PICK i \in 1..Len(log) : log[i].role = "tool" /\ log[i].n = n
  BY InAnswers
<1>2. /\ Len(log) \in Nat /\ Len(short) = Len(log) - k + l
      /\ \A p \in 1..c : short[p] = log[p]
      /\ \A p \in 1..Len(short) : c + l < p => short[p] = log[p + k - l]
  BY InUsers DEF Replaces
<1>3. CASE i <= c
  <2>1. i \in 1..Len(short) /\ short[i] = log[i]
    BY <1>2, <1>3
  <2> QED BY <1>1, <2>1, InAnswers
<1>4. CASE c < i /\ i <= c + k
  <2>1. i - c \in 1..k /\ c + (i - c) = i
    BY <1>2, <1>4
  <2> QED BY <1>1, <2>1
<1>5. CASE c + k < i
  <2> DEFINE p == i - k + l
  <2>1. p \in 1..Len(short) /\ c + l < p /\ p + k - l = i
    BY <1>2, <1>5
  <2> HIDE DEF p
  <2>2. short[p] = log[i]
    BY <1>2, <2>1
  <2> QED BY <1>1, <2>1, <2>2, InAnswers
<1> QED BY <1>2, <1>3, <1>4, <1>5

LEMMA RepliedPlain ==
  ASSUME Replied, mishaps \subseteq mishaps', replied' \subseteq replied,
         AnswersOf(mem) \subseteq AnswersOf(mem'), pc' # "delete"
  PROVE  Replied'
BY DEF Replied, Unharmed, Undisturbed

LEMMA RepliedSame ==
  ASSUME Replied, mishaps \subseteq mishaps', replied' = replied,
         mem' = mem, out' = out, pc' = pc
  PROVE  Replied'
<1>1. Unharmed' => Unharmed
  BY DEF Unharmed, Undisturbed
<1> QED BY <1>1 DEF Replied

LEMMA RepliedAtTurn ==
  ASSUME WellTyped, Replied, mishaps \subseteq mishaps',
         \/ Panic \/ SkipSummary \/ StartSummary \/ ForceSummary
         \/ TakeWord \/ PassWord \/ TakeText \/ Reply \/ ReplyFails
         \/ Intact \/ FindBreak \/ ReadCursor \/ NoNotice \/ ReAddFails
         \/ Invalidate \/ ReAdd \/ Explain \/ RollBackFails
         \/ Think \/ EngineStep \/ Write \/ Written \/ WriteFails
         \/ \E w \in {"turn", "host"} : Slide(w) \/ NoSummary(w)
         \/ UNCHANGED vars
  PROVE  Replied'
<1>t. /\ mem \in Seq(Message) /\ todo \in Seq(Message) /\ Len(todo) \in Nat
      /\ next \in Nat /\ then \in {"idle", "run"}
  BY DEF WellTyped, TypeOK
<1>1. CASE \/ Panic \/ SkipSummary \/ StartSummary \/ TakeWord \/ PassWord
           \/ TakeText \/ ReplyFails \/ Intact \/ FindBreak \/ ReadCursor
           \/ NoNotice \/ ReAddFails \/ Invalidate
  <2>1. mem' = mem /\ replied' = replied /\ pc' # "delete"
    BY <1>1 DEF Panic, SkipSummary, StartSummary, TakeWord, PassWord, TakeText,
       ReplyFails, Intact, FindBreak, ReadCursor, NoNotice, ReAddFails,
       Invalidate, Goto, logVars, historyVars
  <2> QED BY <2>1, RepliedPlain
<1>2. CASE Think \/ Written \/ WriteFails
  <2>1. mem' = mem /\ replied' = replied /\ pc' # "delete"
    BY <1>2, <1>t DEF Think, Written, WriteFails, Goto, logVars, historyVars
  <2> QED BY <2>1, RepliedPlain
<1>3. CASE EngineStep
  <2>1. \E new, goto : Produce(new, goto)
    BY <1>3 DEF EngineStep, Iterate, Cancel, Suspend, Finish
  <2>2. mem' = mem /\ replied' = replied /\ pc' # "delete"
    BY <2>1 DEF Produce, Goto, logVars, historyVars
  <2> QED BY <2>2, RepliedPlain
<1>4. CASE ForceSummary \/ UNCHANGED vars
  BY <1>4, RepliedSame DEF ForceSummary, vars, logVars, turnVars, historyVars
<1>5. CASE Reply
  <2> DEFINE m == Head(todo)
  <2>1. /\ pc = "reply" /\ pc' # "delete" /\ mem' = Append(mem, m)
        /\ replied' \subseteq replied \cup (IF m.role = "tool" THEN {m.n} ELSE {})
    BY <1>5 DEF Reply, Put, Reported
  <2>2. m \in Message
    BY <1>t, <2>1, HeadAndTail DEF WellTyped, Placed
  <2> HIDE DEF m
  <2>3. /\ AnswersOf(mem) \subseteq AnswersOf(mem')
        /\ m.role = "tool" => m.n \in AnswersOf(mem')
    BY <1>t, <2>1, <2>2, AnswersAppended
  <2>4. Unharmed' => Unharmed
    BY DEF Unharmed, Undisturbed
  <2> QED BY <2>1, <2>3, <2>4 DEF Replied
<1>6. ASSUME NEW m \in Message, Put(m), replied' = replied, pc' # "delete"
      PROVE  Replied'
  <2>1. mem' = Append(mem, m)
    BY <1>6 DEF Put
  <2>2. AnswersOf(mem) \subseteq AnswersOf(mem')
    BY <1>t, <2>1, AnswersAppended
  <2> QED BY <1>6, <2>2, RepliedPlain
<1>7. CASE ReAdd
  <2>1. PICK i \in FirstUser(todo) : Put(User(todo[i].n))
    BY <1>7 DEF ReAdd
  <2>2. i \in 1..Len(todo) /\ todo[i] \in Message
    BY <1>t, <2>1 DEF FirstUser, Users
  <2>3. User(todo[i].n) \in Message
    BY <2>2, MessagesTyped DEF Message
  <2>4. replied' = replied /\ pc' # "delete"
    BY <1>7 DEF ReAdd
  <2> QED BY <1>6, <2>1, <2>3, <2>4
<1>8. CASE Explain
  <2>1. Put(User(next)) /\ replied' = replied /\ pc' # "delete"
    BY <1>8 DEF Explain, Goto
  <2>2. User(next) \in Message
    BY <1>t, MessagesTyped
  <2> QED BY <1>6, <2>1, <2>2
<1>9. CASE Write
  <2>1. Put(Head(todo)) /\ todo # <<>> /\ replied' = replied /\ pc' # "delete"
    BY <1>9 DEF Write
  <2>2. Head(todo) \in Message
    BY <1>t, <2>1, HeadAndTail
  <2> QED BY <1>6, <2>1, <2>2
<1>10. CASE RollBackFails
  BY <1>10 DEF RollBackFails, Replied, Unharmed, Undisturbed
<1>11. ASSUME NEW w \in {"turn", "host"}, Slide(w) \/ NoSummary(w)
       PROVE  Replied'
  <2>1. /\ mem' = mem /\ replied' = replied /\ out' = out
        /\ pc' = pc \/ pc' = "input"
    BY <1>11 DEF Slide, NoSummary, Summarised
  <2> QED BY <2>1, RepliedSame, RepliedPlain
<1> QED BY <1>1, <1>2, <1>3, <1>4, <1>5, <1>7, <1>8, <1>9, <1>10, <1>11

(* A repair keeps no call without its answer, so the answer it cuts off is *)
(* that of a call it does not keep, or of one that is not in the window.   *)
LEMMA RepliedAtRepair ==
  ASSUME WellTyped, Sound, LogSound, Replied, mishaps \subseteq mishaps', RollBack
  PROVE  Replied'
<1>t. mem \in Seq(Message) /\ cut \in Nat /\ cursor \in Nat /\ Len(mem) \in Nat
  BY DEF WellTyped, TypeOK
<1>1. /\ pc = "truncate" /\ pc' = "readd" /\ replied' = replied \ Undone
      /\ IF cut >= Len(mem) THEN mem' = mem ELSE mem' = Upto(mem, cut)
  BY DEF RollBack, Goto, Truncate, TruncateMemory, logVars
<1> SUFFICES ASSUME Unharmed', NEW n \in replied \ Undone
             PROVE  n \in AnswersOf(mem')
  BY <1>1 DEF Replied
<1>2. Unharmed
  BY DEF Unharmed, Undisturbed
<1>3. n \in AnswersOf(mem)
  BY <1>2 DEF Replied
<1>4. CASE cut >= Len(mem)
  BY <1>1, <1>3, <1>4
<1>5. CASE cut < Len(mem)
  <2>1. PICK i \in 1..Len(mem) : mem[i].role = "tool" /\ mem[i].n = n
    BY <1>t, <1>3, InAnswers
  <2> DEFINE short == Upto(mem, cut)
  <2>2. /\ short \in Seq(Message) /\ Len(short) = cut
        /\ \A k \in 1..Len(short) : short[k] = mem[k]
    BY <1>t, <1>5, LogsTyped, UptoMessages
  <2>3. mem' = short
    BY <1>t, <1>1, <1>5
  <2>4. i \in cut + 1..Len(mem) => mem[i].of \in AllCalls(From(short, cursor))
    BY <2>1 DEF Undone
  <2> HIDE DEF short
  <2>5. CASE i <= cut
    <3>1. i \in 1..Len(short)
      BY <1>t, <2>2, <2>5
    <3> QED BY <2>1, <2>2, <2>3, <3>1, InAnswers
  <2>6. CASE cut < i
    <3> DEFINE w == From(short, cursor)
    <3>1. /\ w \in Seq(Message) /\ Len(w) \in Nat
          /\ cursor <= cut => Len(w) = cut - cursor
          /\ cursor > cut => Len(w) = 0
          /\ \A k \in 1..Len(w) : w[k] = short[cursor + k]
      BY <1>t, <2>2, LogsTyped, FromMessages
    <3> HIDE DEF w
    <3>2. mem[i].of \in AllCalls(w)
      BY <1>t, <2>4, <2>6 DEF w
    <3>3. PICK k \in 1..Len(w) : mem[i].of \in CallsOf(w[k])
      <4>1. DOMAIN w = 1..Len(w)
        BY <3>1
      <4> QED BY <3>2, <4>1 DEF AllCalls
    <3>4. cursor + k \in cursor + 1..cut /\ cursor + k \in 1..Len(short)
      BY <1>t, <2>2, <3>1
    <3>5. w[k] = mem[cursor + k]
      BY <2>2, <3>1, <3>4
    <3>6. Answered(mem, cursor, cut)
      BY <1>1, <1>5 DEF Sound, Upper
    <3>7. AnsweredBy(mem, cursor + k, mem[i].of, cut)
      BY <3>3, <3>4, <3>5, <3>6 DEF Answered
    <3>8. PICK j \in cursor + k + 1..cut :
            /\ mem[j].of = mem[i].of
            /\ \A o \in cursor + k + 1..j : mem[o].role = "tool"
      BY <3>7 DEF AnsweredBy
    <3>9. j \in cursor + k + 1..j /\ j \in 1..Len(mem) /\ i \in j + 1..Len(mem)
      BY <1>t, <1>5, <2>6, <3>4
    <3>10. j \in DOMAIN mem /\ mem[j].role = "tool"
      BY <1>t, <3>8, <3>9
    <3>11. AnsweredOnce /\ "rewritten" \notin mishaps
      BY <1>2 DEF LogSound, Unharmed
    <3>12. mem[i].of # mem[j].of
      BY <3>9, <3>10, <3>11 DEF AnsweredOnce
    <3> QED BY <3>8, <3>12
  <2> QED BY <1>t, <2>5, <2>6
<1> QED BY <1>t, <1>4, <1>5

LEMMA RepliedElsewhere ==
  ASSUME WellTyped, Agreeing, Replied, mishaps \subseteq mishaps',
         \/ \E what \in {"text", "word"} : Begin(what)
         \/ \E keep \in 0..Len(mem) : HostTruncate(keep)
         \/ \E i \in DOMAIN mem : BeginDelete(i)
         \/ DeleteStored \/ DeleteFails \/ DeleteFromMemory
         \/ Reset \/ Restart
  PROVE  Replied'
<1>t. /\ mem \in Seq(Message) /\ stored \in Seq(Message) /\ out \in Seq(Message)
      /\ cut \in Nat /\ Len(mem) \in Nat /\ Len(out) \in Nat
  BY DEF WellTyped, TypeOK
<1> SUFFICES ASSUME Unharmed' PROVE Replied'
  BY DEF Replied
<1>u. Unharmed /\ Alike /\ Alike'
  BY DEF Unharmed, Undisturbed, Alike
<1>k. /\ replied \subseteq AnswersOf(mem)
      /\ pc = "delete" => replied \cap Numbers(out) = {}
  BY <1>u DEF Replied
<1>d. ASSUME pc = "delete"
      PROVE  /\ Deleting
             /\ \A n \in replied, i \in 1..Len(out) : mem[cut + i].n # n
  <2>1. Deleting
    BY <1>d, <1>u DEF Agreeing
  <2>2. \A n \in replied, i \in 1..Len(out) : out[i].n # n
    BY <1>d, <1>k, <1>t, InNumbers
  <2> QED BY <2>1, <2>2 DEF Deleting
(* What replaces a round keeps the answers that are not in it.             *)
<1>s. ASSUME NEW short \in Seq(Message), NEW l \in 0..Len(out), pc = "delete",
             Replaces(mem, short, cut, Len(out), l)
      PROVE  replied \subseteq AnswersOf(short)
  <2>1. l \in Nat /\ l <= Len(out)
    BY <1>t
  <2>2. cut + Len(out) <= Len(mem)
    BY <1>d, <1>s DEF Deleting
  <2>3. AnswersOf(mem) \ NumbersPast(mem, cut, Len(out)) \subseteq AnswersOf(short)
    BY <1>s, <1>t, <2>1, <2>2, AnswersReplaced
  <2> QED BY <1>d, <1>k, <1>s, <2>3 DEF NumbersPast
<1>1. ASSUME NEW what \in {"text", "word"}, Begin(what)
      PROVE  Replied'
  <2>1. /\ pc = "idle" /\ pc' = "compact" /\ replied' = replied
        /\ mem' = mem \/ mem' = stored
    BY <1>1 DEF Begin, Load, Goto, logVars
  <2>2. mem' = mem
    BY <1>u, <2>1 DEF Agreeing
  <2> QED BY <2>1, <2>2, RepliedPlain
<1>2. ASSUME NEW keep \in 0..Len(mem), HostTruncate(keep)
      PROVE  Replied'
  <2>0. keep \in Nat
    BY <1>t
  <2>1. /\ pc = "idle" /\ pc' = "idle" /\ keep < Len(mem) /\ mem' = Upto(mem, keep)
        /\ replied' = replied \ Numbers(From(mem, keep))
    BY <1>2, <1>t DEF HostTruncate, Removal, Truncate, TruncateMemory, turnVars
  <2>2. ASSUME NEW n \in replied' PROVE n \in AnswersOf(mem')
    <3>1. n \in AnswersOf(mem) /\ n \notin Numbers(From(mem, keep))
      BY <1>k, <2>1, <2>2
    <3>2. PICK i \in 1..Len(mem) : mem[i].role = "tool" /\ mem[i].n = n
      BY <1>t, <3>1, InAnswers
    <3>3. CASE i <= keep
      <4>1. mem' \in Seq(Message) /\ Len(mem') = keep
            /\ \A k \in 1..Len(mem') : mem'[k] = mem[k]
        BY <1>t, <2>0, <2>1, LogsTyped, UptoMessages
      <4>2. i \in 1..Len(mem')
        BY <1>t, <2>0, <3>3, <4>1
      <4>3. mem'[i].role = "tool" /\ mem'[i].n = n
        BY <3>2, <4>1, <4>2
      <4> QED BY <4>1, <4>2, <4>3, InAnswers
    <3>4. CASE i > keep
      <4>1. /\ From(mem, keep) \in Seq(Message)
            /\ Len(From(mem, keep)) = Len(mem) - keep
            /\ \A k \in 1..Len(From(mem, keep)) : From(mem, keep)[k] = mem[keep + k]
        BY <1>t, <2>0, <2>1, LogsTyped, FromMessages
      <4>2. i - keep \in 1..Len(From(mem, keep)) /\ keep + (i - keep) = i
        BY <1>t, <2>0, <3>4, <4>1
      <4>3. From(mem, keep)[i - keep].n = n
        BY <3>2, <4>1, <4>2
      <4>4. n \in Numbers(From(mem, keep))
        BY <4>1, <4>2, <4>3, InNumbers
      <4> QED BY <3>1, <4>4
    <3> QED BY <1>t, <2>0, <3>3, <3>4
  <2> QED BY <2>1, <2>2 DEF Replied
<1>3. ASSUME NEW i \in DOMAIN mem, BeginDelete(i)
      PROVE  Replied'
  <2>1. /\ pc' = "delete" /\ mem' = mem /\ replied' = replied \ Numbers(out')
    BY <1>3 DEF BeginDelete, Goto, logVars
  <2> QED BY <1>k, <2>1 DEF Replied
<1>4. CASE DeleteStored
  <2>1. /\ pc = "delete" /\ pc' = "delete" /\ mem' = mem /\ out' = out
        /\ replied' = replied
    BY <1>4 DEF DeleteStored, historyVars
  <2> QED BY <1>k, <2>1 DEF Replied
<1>5. CASE DeleteFails
  BY <1>5, <1>u DEF DeleteFails, Alike
<1>6. CASE DeleteFromMemory
  <2>1. /\ pc = "delete" /\ pc' = "idle" /\ replied' = replied
        /\ mem' = stored /\ todo = <<>>
    BY <1>d, <1>6, DeletesRound DEF DeleteFromMemory, Goto
  <2>2. PICK l \in 0..Len(out) : Replaces(mem, stored, cut, Len(out), l)
    BY <1>d, <2>1 DEF Deleting
  <2> QED BY <1>s, <1>t, <2>1, <2>2 DEF Replied
<1>7. CASE Reset
  <2>1. replied' = {} /\ pc' = pc /\ pc = "idle"
    BY <1>7 DEF Reset, Removal, turnVars
  <2> QED BY <2>1 DEF Replied
<1>8. CASE Restart
  <2>1. pc' = "idle" /\ replied' = replied /\ mem' = stored
    BY <1>8 DEF Restart, Load, Goto
  <2>2. CASE pc = "delete"
    <3>1. PICK l \in 0..Len(out) : Replaces(mem, stored, cut, Len(out), l)
      BY <1>d, <2>2 DEF Deleting
    <3> QED BY <1>s, <1>t, <2>1, <2>2, <3>1 DEF Replied
  <2>3. CASE pc # "delete"
    <3>1. mem' = mem
      BY <1>u, <2>1, <2>3 DEF Agreeing
    <3> QED BY <1>k, <2>1, <3>1 DEF Replied
  <2> QED BY <2>2, <2>3
<1> QED BY <1>1, <1>2, <1>3, <1>4, <1>5, <1>6, <1>7, <1>8

(* What the user was told is saved stays in the log until a host removes   *)
(* it: a message through every repair, an answer unless a repair rolls its *)
(* question back, or no longer sees it.  Exceptions are a repair whose     *)
(* store fails, or that a crash cuts off, and a store that lost messages   *)
(* memory has; for answers also a write-back that failed in the middle.    *)
(* (repairToolPairingBreak)                                                *)
THEOREM UsersStay == Spec => []UsersKept
<1> DEFINE Inv == WellTyped /\ Sound /\ Rolling /\ Agreeing /\ Saved /\ Replied
<1>1. Init => Inv
  BY TypeInit, PlacedInit DEF WellTyped, Init, Sound, Rolling, Agreeing, Saved, Replied
<1>2. Inv /\ LogSound /\ [Next]_vars => Inv'
  <2> SUFFICES ASSUME WellTyped, Sound, Rolling, Agreeing, Saved, Replied,
                      LogSound, [Next]_vars
               PROVE  WellTyped' /\ Sound' /\ Rolling' /\ Agreeing' /\ Saved' /\ Replied'
    OBVIOUS
  <2>1. /\ WellTyped' /\ Sound' /\ Rolling' /\ Agreeing'
        /\ mishaps \subseteq mishaps'
    BY TypesKept, PlacedKept, SoundKept, RollingKept, AgreeingKept, MishapsKept
       DEF WellTyped
  <2>2. Saved'
    BY <2>1, SavedAtTurn, SavedAtRepair, SavedAtRun, SavedElsewhere DEF Next, TurnStep
  <2>3. Replied'
    BY <2>1, RepliedAtTurn, RepliedAtRepair, RepliedElsewhere DEF Next, TurnStep
  <2> QED BY <2>1, <2>2, <2>3
<1>3. Inv => UsersKept
  <2> SUFFICES ASSUME Inv, mishaps \cap {"dropped", "apart", "shared"} = {}, pc # "readd"
               PROVE  /\ said \subseteq Numbers(mem)
                      /\ "rewritten" \notin mishaps => replied \subseteq Numbers(mem)
    BY DEF UsersKept
  <2>1. mem \in Seq(Message) /\ said \subseteq UsersOf(mem)
    BY DEF Saved, Undisturbed, WellTyped, TypeOK
  <2>2. UsersOf(mem) \subseteq Numbers(mem)
    BY <2>1, InUsers
  <2>3. "rewritten" \notin mishaps => replied \subseteq AnswersOf(mem)
    BY DEF Replied, Unharmed, Undisturbed
  <2>4. AnswersOf(mem) \subseteq Numbers(mem)
    BY <2>1, InAnswers, InNumbers
  <2> QED BY <2>1, <2>2, <2>3, <2>4
<1> HIDE DEF Inv
<1> QED BY <1>1, <1>2, <1>3, LogIsSound, PTL DEF Spec
=============================================================================
