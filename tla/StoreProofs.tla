------------------------------ MODULE StoreProofs ------------------------------
(***************************************************************************)
(* What holds of what a session keeps in its key-value store.  The tasks   *)
(* (TaskGraph): what TaskUpdate guarantees for every set of tasks and      *)
(* every list of edges, with writes that fail and a process that ends in   *)
(* mid-call.  The searches (WebSearch): what a stored result and a reported*)
(* failure are worth, for any callers, engines, tries and files.           *)
(***************************************************************************)
EXTENDS TaskGraph, WebSearch, FiniteSetTheorems, TLAPS

(* The edges a call adds name tasks.                                       *)
EditsTyped == Edits \subseteq Seq(Edge)

(* The copy a call works on is ahead of the stored task, never behind it:  *)
(* the call itself only writes to other tasks.                             *)
CopyAhead ==
    ~Idle =>
       /\ call.of \in AllIds
       /\ Exists(call.of)
       /\ Allowed(task[call.of].status, call.copy.status)
       /\ task[call.of].blocks \subseteq call.copy.blocks
       /\ task[call.of].blockedBy \subseteq call.copy.blockedBy

Inv == TypeOK /\ CopyAhead

LEMMA InvInit == Init => Inv
BY DEF Init, Inv, TypeOK, CopyAhead, NoTask, NoCall, Record, Idle,
       Absent, Exists

LEMMA InvStep ==
  ASSUME EditsTyped
  PROVE  Inv /\ [Next]_vars => Inv'
<1> SUFFICES ASSUME Inv, [Next]_vars PROVE Inv'
  OBVIOUS
<1> USE ConstantsAssumption DEF Inv, TypeOK, CopyAhead, Record, Exists, Idle
<1>1. ASSUME NEW id \in Ids, TaskCreate(id) PROVE Inv'
  BY <1>1 DEF TaskCreate, NewTask, NoTask, NoCall, AllIds, Statuses, Absent
<1>2. ASSUME NEW id \in AllIds, NEW edges \in Edits,
             NEW status \in Asked \cup {task[id].status},
             BeginUpdate(id, status, edges)
      PROVE  Inv'
  BY <1>2 DEF BeginUpdate, EditsTyped, Allowed, NoCall, Absent
<1>3. ASSUME NEW end \in AllIds, NEW copy \in Record, NEW kind, Due(kind), end # call.of,
             \/ copy = [call.copy EXCEPT !.blocks = @ \cup {end}]
             \/ copy = [call.copy EXCEPT !.blockedBy = @ \cup {end}],
             call' = [call EXCEPT !.copy = copy, !.todo = Tail(@)],
             task' \in {WithBlockedBy(end), WithBlocks(end), task}, teams' = teams
      PROVE  Inv'
  <2>1. call \in [of : AllIds, copy : Record, todo : Seq(Edge)] /\ call.todo # <<>>
    BY <1>3 DEF Due
  <2>2. /\ task' \in [AllIds -> Record]
        /\ task'[call.of] = task[call.of]
        /\ Absent'
    <3>1. CASE task' = WithBlockedBy(end)
      BY <1>3, <2>1, <3>1 DEF Absent, WithBlockedBy
    <3>2. CASE task' = WithBlocks(end)
      BY <1>3, <2>1, <3>2 DEF Absent, WithBlocks
    <3>3. CASE task' = task
      BY <3>3 DEF Absent
    <3> QED BY <1>3, <3>1, <3>2, <3>3
  <2>4. call' \in [of : AllIds, copy : Record, todo : Seq(Edge)]
    <3>1. Tail(call.todo) \in Seq(Edge)
      BY <2>1
    <3> HIDE DEF Record
    <3> QED BY <1>3, <2>1, <3>1
  <2>5. /\ call.copy.blocks \subseteq copy.blocks
        /\ call.copy.blockedBy \subseteq copy.blockedBy
        /\ copy.status = call.copy.status
    BY <1>3, <2>1
  <2> QED BY <1>3, <2>1, <2>2, <2>4, <2>5 DEF Due
<1>7. CASE AddBlocks
  <2> DEFINE end == Head(call.todo).id
  <2>1. call \in [of : AllIds, copy : Record, todo : Seq(Edge)] /\ end \in AllIds
    <3>1. call \in [of : AllIds, copy : Record, todo : Seq(Edge)] /\ call.todo # <<>>
      BY <1>7 DEF AddBlocks, Due
    <3>2. Head(call.todo) \in Edge
      BY <3>1
    <3> QED BY <3>1, <3>2 DEF Edge
  <2>2. CASE call' = NoCall /\ task' = task /\ teams' = teams
    BY <2>2 DEF NoCall, Absent
  <2>3. CASE end # call.of /\ AddEdge(FALSE, [call.copy EXCEPT !.blocks = @ \cup {end}],
                                     WithBlockedBy(end))
    <3>1. [call.copy EXCEPT !.blocks = @ \cup {end}] \in Record
      BY <2>1
    <3> HIDE DEF Inv, Idle, Record, end
    <3> QED BY <1>3, <1>7, <2>1, <2>3, <3>1 DEF AddBlocks, AddEdge
  <2> QED BY <1>7, <2>2, <2>3 DEF AddBlocks, AddEdge, CanReach
<1>8. CASE AddBlockedBy
  <2> DEFINE end == Head(call.todo).id
  <2>1. call \in [of : AllIds, copy : Record, todo : Seq(Edge)] /\ end \in AllIds
    <3>1. call \in [of : AllIds, copy : Record, todo : Seq(Edge)] /\ call.todo # <<>>
      BY <1>8 DEF AddBlockedBy, Due
    <3>2. Head(call.todo) \in Edge
      BY <3>1
    <3> QED BY <3>1, <3>2 DEF Edge
  <2>2. CASE call' = NoCall /\ task' = task /\ teams' = teams
    BY <2>2 DEF NoCall, Absent
  <2>3. CASE end # call.of /\ AddEdge(FALSE, [call.copy EXCEPT !.blockedBy = @ \cup {end}],
                                     WithBlocks(end))
    <3>1. [call.copy EXCEPT !.blockedBy = @ \cup {end}] \in Record
      BY <2>1
    <3> HIDE DEF Inv, Idle, Record, end
    <3> QED BY <1>3, <1>8, <2>1, <2>3, <3>1 DEF AddBlockedBy, AddEdge
  <2> QED BY <1>8, <2>2, <2>3 DEF AddBlockedBy, AddEdge, CanReach
<1>4. CASE SaveTask
  BY <1>4 DEF SaveTask, Absent, Allowed, ValidTransition
<1>5. CASE Crash
  BY <1>5 DEF Crash, Absent
<1>6. CASE UNCHANGED vars
  BY <1>6 DEF vars, Absent
<1>9. ASSUME NEW team \in Teams, NEW n \in 0..TeamSize, TeamCreate(team, n)
      PROVE  Inv'
  <2>1. PICK fresh : task' = [id \in AllIds |-> IF id \in fresh THEN NewTask ELSE task[id]]
    BY <1>9 DEF TeamCreate
  <2>2. NewTask \in Record /\ NewTask.status # "none"
    BY DEF NewTask, NoTask, Statuses
  <2>3. task' \in [AllIds -> Record] /\ Absent'
    <3> HIDE DEF Record
    <3> QED BY <2>1, <2>2 DEF Absent
  <2>4. call = NoCall /\ call' = NoCall /\ teams' \subseteq Teams
    BY <1>9 DEF TeamCreate
  <2> QED BY <2>3, <2>4
<1>10. ASSUME NEW team \in Teams, TeamDelete(team) PROVE Inv'
  BY <1>10 DEF TeamDelete, Absent
<1> HIDE DEF Inv
<1> QED BY <1>1, <1>2, <1>4, <1>5, <1>6, <1>7, <1>8, <1>9, <1>10 DEF Next

(* A task that is completed or cancelled stays so, and none goes back to   *)
(* pending: no call writes the status of another task, and none writes a   *)
(* copy that is behind the store.  Only creating a team, which starts its  *)
(* tasks afresh, is excepted.                                              *)
THEOREM UpdatesForward ==
  ASSUME EditsTyped
  PROVE  Spec => StatusForward
<1>1. Inv /\ [Next]_vars
        => [\A id \in AllIds :
              Exists(id) => \/ task'[id].status = task[id].status
                            \/ ValidTransition(task[id].status, task'[id].status)
                            \/ TeamStarts]_vars
  <2> SUFFICES ASSUME Inv, Next, NEW id \in AllIds, Exists(id), ~TeamStarts
               PROVE  Allowed(task[id].status, task'[id].status)
    BY DEF Allowed
  <2> USE DEF Inv, TypeOK, CopyAhead, Record, Exists, Allowed, Idle
  <2>1. CASE \E i \in Ids : TaskCreate(i)
    BY <2>1 DEF TaskCreate
  <2>2. CASE AddBlocks \/ AddBlockedBy
    BY <2>2 DEF AddBlocks, AddBlockedBy, AddEdge, WithBlockedBy, WithBlocks
  <2>3. CASE SaveTask
    BY <2>3 DEF SaveTask
  <2>4. CASE UNCHANGED task
    BY <2>4
  <2> QED BY <2>1, <2>2, <2>3, <2>4 DEF Next, BeginUpdate, Crash, TeamDelete, TeamStarts
<1> QED BY <1>1, InvInit, InvStep, PTL DEF Spec, StatusForward

(* No call loses an edge that another one recorded on the same task.       *)
THEOREM UpdatesKeepEdges ==
  ASSUME EditsTyped
  PROVE  Spec => EdgesKept
<1>1. Inv /\ [Next]_vars
        => [\A id \in AllIds : \/ /\ task[id].blocks \subseteq task'[id].blocks
                                  /\ task[id].blockedBy \subseteq task'[id].blockedBy
                               \/ TeamStarts]_vars
  <2> SUFFICES ASSUME Inv, Next, NEW id \in AllIds, ~TeamStarts
               PROVE  /\ task[id].blocks \subseteq task'[id].blocks
                      /\ task[id].blockedBy \subseteq task'[id].blockedBy
    OBVIOUS
  <2> USE DEF Inv, TypeOK, CopyAhead, Record, Idle
  <2>1. CASE \E i \in Ids : TaskCreate(i)
    BY <2>1 DEF TaskCreate, Absent, NoTask
  <2>2. CASE AddBlocks \/ AddBlockedBy
    BY <2>2 DEF AddBlocks, AddBlockedBy, AddEdge, WithBlockedBy, WithBlocks
  <2>3. CASE SaveTask
    BY <2>3 DEF SaveTask
  <2>4. CASE UNCHANGED task
    BY <2>4
  <2> QED BY <2>1, <2>2, <2>3, <2>4 DEF Next, BeginUpdate, Crash, TeamDelete, TeamStarts
<1> QED BY <1>1, InvInit, InvStep, PTL DEF Spec, EdgesKept

-----------------------------------------------------------------------------
\* Graphs of tasks: what is found from a task, and what a new edge adds to it.

ClosedIn(t, ids) == \A i \in ids : t[i].blocks \subseteq ids

Found(t, id) ==
    {to \in AllIds :
        \A ids \in SUBSET AllIds : id \in ids /\ ClosedIn(t, ids) => to \in ids}

Graph == [AllIds -> [status : Statuses \cup {"none"}, blocks : SUBSET AllIds,
                     blockedBy : SUBSET AllIds]]

Acyclic(t) == \A id \in AllIds : \A next \in t[id].blocks : id \notin Found(t, next)

LEMMA BlockedIsFound ==
  /\ \A id : Blocked(id) = Found(task, id)
  /\ BlocksAcyclic <=> Acyclic(task)
BY DEF Blocked, Closed, Found, ClosedIn, BlocksAcyclic, Acyclic

(* What is found from a task is the smallest closed set that has it.       *)
LEMMA FoundIsClosed ==
  ASSUME NEW t \in Graph, NEW id \in AllIds
  PROVE  /\ Found(t, id) \in SUBSET AllIds /\ id \in Found(t, id)
         /\ ClosedIn(t, Found(t, id))
         /\ \A ids \in SUBSET AllIds :
               id \in ids /\ ClosedIn(t, ids) => Found(t, id) \subseteq ids
<1>1. Found(t, id) \in SUBSET AllIds /\ id \in Found(t, id)
  BY DEF Found
<1>2. ASSUME NEW ids \in SUBSET AllIds, id \in ids, ClosedIn(t, ids)
      PROVE  Found(t, id) \subseteq ids
  BY <1>2 DEF Found
<1>3. ASSUME NEW i \in Found(t, id), NEW to \in t[i].blocks
      PROVE  to \in Found(t, id)
  <2>1. i \in AllIds /\ to \in AllIds
    BY <1>1, <1>3 DEF Graph
  <2>2. ASSUME NEW ids \in SUBSET AllIds, id \in ids, ClosedIn(t, ids)
        PROVE  to \in ids
    <3>1. i \in ids
      BY <1>2, <2>2
    <3> QED BY <2>2, <3>1 DEF ClosedIn
  <2> QED BY <2>1, <2>2 DEF Found
<1> QED BY <1>1, <1>2, <1>3 DEF ClosedIn

(* What is found on the way is found from the start.                       *)
LEMMA FoundOnTheWay ==
  ASSUME NEW t \in Graph, NEW id \in AllIds, NEW i \in Found(t, id)
  PROVE  Found(t, i) \subseteq Found(t, id)
<1>1. i \in AllIds
  BY DEF Found
<1> QED BY <1>1, FoundIsClosed

(* A graph that loses edges stays acyclic.                                 *)
LEMMA FewerEdges ==
  ASSUME NEW t \in Graph, NEW u \in Graph, Acyclic(t),
         \A i \in AllIds : u[i].blocks \subseteq t[i].blocks
  PROVE  Acyclic(u)
<1>1. ASSUME NEW id \in AllIds PROVE Found(u, id) \subseteq Found(t, id)
  <2>1. ClosedIn(u, Found(t, id))
    BY FoundIsClosed DEF ClosedIn
  <2> QED BY <2>1, FoundIsClosed
<1>2. \A id \in AllIds : \A next \in u[id].blocks : next \in AllIds /\ next \in t[id].blocks
  BY DEF Graph
<1> QED BY <1>1, <1>2 DEF Acyclic

(* New edges from one task, to tasks that do not lead to it, make no cycle. *)
LEMMA MoreEdges ==
  ASSUME NEW t \in Graph, NEW u \in Graph, Acyclic(t), NEW from \in AllIds,
         \A i \in AllIds \ {from} : u[i].blocks \subseteq t[i].blocks,
         \A e \in u[from].blocks : from \notin Found(t, e)
  PROVE  Acyclic(u)
<1> DEFINE There == {i \in AllIds : i = from \/ \E e \in u[from].blocks : i \in Found(t, e)}
<1>1. u[from].blocks \subseteq AllIds /\ There \subseteq AllIds
  BY FoundIsClosed DEF Graph
<1>2. \A e \in u[from].blocks : e \in Found(t, e) /\ ClosedIn(t, Found(t, e))
  BY <1>1, FoundIsClosed
<1>3. ClosedIn(u, There)
  <2>1. u[from].blocks \subseteq There
    BY <1>1, <1>2
  <2>2. ASSUME NEW i \in There, i # from PROVE u[i].blocks \subseteq There
    <3>1. PICK e \in u[from].blocks : i \in Found(t, e)
      BY <2>2
    <3>2. i \in AllIds /\ u[i].blocks \subseteq t[i].blocks
      BY <1>1, <2>2
    <3>3. t[i].blocks \subseteq Found(t, e) /\ Found(t, e) \subseteq AllIds
      BY <1>1, <1>2, <3>1, FoundIsClosed DEF ClosedIn
    <3> QED BY <3>1, <3>2, <3>3
  <2> QED BY <2>1, <2>2 DEF ClosedIn
(* From a task that does not lead to "from" nothing new is found.          *)
<1>4. ASSUME NEW id \in AllIds, from \notin Found(t, id)
      PROVE  Found(u, id) \subseteq Found(t, id)
  <2>1. Found(t, id) \subseteq AllIds /\ ClosedIn(t, Found(t, id)) /\ id \in Found(t, id)
    BY FoundIsClosed
  <2>2. ClosedIn(u, Found(t, id))
    BY <1>4, <2>1 DEF ClosedIn
  <2> QED BY <2>1, <2>2, FoundIsClosed
<1>5. ASSUME NEW id \in AllIds
      PROVE  Found(u, id) \subseteq Found(t, id) \cup There
  <2>1. Found(t, id) \subseteq AllIds /\ ClosedIn(t, Found(t, id)) /\ id \in Found(t, id)
    BY FoundIsClosed
  <2> DEFINE Both == Found(t, id) \cup There
  <2>2. \A i \in Both : u[i].blocks \subseteq Both
    <3> SUFFICES ASSUME NEW i \in Both PROVE u[i].blocks \subseteq Both
      OBVIOUS
    <3>1. CASE i \in There
      BY <1>3, <3>1 DEF ClosedIn
    <3>2. CASE i \notin There
      <4>1. i \in Found(t, id) /\ i # from /\ i \in AllIds
        BY <2>1, <3>2
      <4> QED BY <2>1, <4>1 DEF ClosedIn
    <3> QED BY <3>1, <3>2
  <2>3. ClosedIn(u, Both)
    BY <2>2 DEF ClosedIn
  <2>4. Both \in SUBSET AllIds /\ id \in Both
    BY <1>1, <2>1
  <2> HIDE DEF Both
  <2>5. Found(u, id) \subseteq Both
    BY <2>3, <2>4, FoundIsClosed
  <2> QED BY <2>5 DEF Both
<1>6. ASSUME NEW next \in u[from].blocks PROVE from \notin Found(u, next)
  BY <1>1, <1>4, <1>6
<1>7. ASSUME NEW id \in AllIds, id # from, NEW next \in u[id].blocks
      PROVE  id \notin Found(u, next)
  <2>1. next \in AllIds /\ next \in t[id].blocks /\ id \notin Found(t, next)
    BY <1>7 DEF Acyclic, Graph
  <2>2. CASE from \notin Found(t, next)
    BY <1>4, <2>1, <2>2
  <2>3. CASE from \in Found(t, next)
    <3>1. \A e \in u[from].blocks : id \notin Found(t, e)
      <4> SUFFICES ASSUME NEW e \in u[from].blocks, id \in Found(t, e) PROVE FALSE
        OBVIOUS
      <4>1. next \in Found(t, e) /\ e \in AllIds
        BY <1>1, <1>2, <2>1 DEF ClosedIn
      <4>2. Found(t, next) \subseteq Found(t, e)
        BY <4>1, FoundOnTheWay
      <4> QED BY <2>3, <4>2
    <3>2. id \notin There
      BY <1>7, <3>1
    <3> QED BY <1>5, <2>1, <3>2
  <2> QED BY <2>2, <2>3
<1> QED BY <1>6, <1>7 DEF Acyclic

(* No call adds edges on both sides.                                       *)
EditsOneSided ==
    \A edges \in Edits : \A i, j \in DOMAIN edges : edges[i].kind = edges[j].kind

(* Nothing the copy blocks leads back to its task, as the store has it; a  *)
(* call that adds the tasks it waits for blocks what it blocked before.    *)
Unclosed ==
    ~Idle =>
       /\ \A e \in call.copy.blocks : call.of \notin Found(task, e)
       /\ \A i, j \in DOMAIN call.todo : call.todo[i].kind = call.todo[j].kind
       /\ Due("blockedBy") => call.copy.blocks = task[call.of].blocks

GraphInv == Inv /\ Acyclic(task) /\ Unclosed

LEMMA TodoTail ==
  ASSUME NEW todo \in Seq(Edge), todo # <<>>,
         \A i, j \in DOMAIN todo : todo[i].kind = todo[j].kind
  PROVE  /\ Head(todo) = todo[1] /\ 1 \in DOMAIN todo /\ Head(todo) \in Edge
         /\ Tail(todo) \in Seq(Edge)
         /\ \A i, j \in DOMAIN Tail(todo) : Tail(todo)[i].kind = Tail(todo)[j].kind
         /\ Tail(todo) # <<>> => Head(Tail(todo)).kind = Head(todo).kind
<1>1. /\ Len(todo) \in Nat \ {0} /\ DOMAIN todo = 1..Len(todo)
      /\ Head(todo) = todo[1] /\ Head(todo) \in Edge
      /\ Tail(todo) \in Seq(Edge) /\ Len(Tail(todo)) = Len(todo) - 1
      /\ DOMAIN Tail(todo) = 1..Len(Tail(todo))
  OBVIOUS
<1> DEFINE rest == Tail(todo)
<1>2. \A i \in 1..Len(rest) : i + 1 \in 1..Len(todo) /\ rest[i] = todo[i + 1]
  BY <1>1
<1>3. rest # <<>> => Head(rest) = rest[1] /\ 1 \in 1..Len(rest)
  BY <1>1
<1> HIDE DEF rest
<1>4. ASSUME NEW i \in 1..Len(rest), NEW j \in 1..Len(rest)
      PROVE  rest[i].kind = rest[j].kind
  <2>1. i + 1 \in DOMAIN todo /\ j + 1 \in DOMAIN todo
    BY <1>1, <1>2
  <2>2. todo[i + 1].kind = todo[j + 1].kind
    BY <2>1
  <2> QED BY <1>2, <2>2
<1>5. 1 \in 1..Len(todo)
  BY <1>1
<1>6. rest # <<>> => Head(rest).kind = Head(todo).kind
  BY <1>1, <1>2, <1>3, <1>5
<1> QED BY <1>1, <1>4, <1>5, <1>6 DEF rest

LEMMA GraphStep ==
  ASSUME EditsTyped, EditsOneSided
  PROVE  GraphInv /\ [Next]_vars => GraphInv'
<1> SUFFICES ASSUME GraphInv, [Next]_vars PROVE Acyclic(task)' /\ Unclosed'
  BY InvStep DEF GraphInv
<1>i. Inv /\ Inv' /\ Acyclic(task) /\ Unclosed
  BY InvStep DEF GraphInv
<1>t. /\ task \in Graph /\ task' \in Graph
      /\ call = NoCall \/ call \in [of : AllIds, copy : Record, todo : Seq(Edge)]
  BY <1>i DEF Inv, TypeOK, Graph, Record
<1>a. \A i \in AllIds : task[i].blocks \subseteq AllIds
  BY <1>t DEF Graph
<1>c. ASSUME call' = NoCall PROVE Unclosed'
  BY <1>c DEF Unclosed, Idle
(* A step outside calls that adds no edge.                                 *)
<1>p. ASSUME call' = NoCall, \A i \in AllIds : task'[i].blocks \subseteq task[i].blocks
      PROVE  Acyclic(task)' /\ Unclosed'
  <2>1. Acyclic(task')
    BY <1>i, <1>p, <1>t, FewerEdges
  <2> QED BY <1>c, <1>p, <2>1
<1>1. ASSUME NEW id \in Ids, TaskCreate(id) PROVE Acyclic(task)' /\ Unclosed'
  <2>1. /\ call' = NoCall
        /\ task' = [task EXCEPT ![id] = NewTask] /\ NewTask.blocks = {}
    BY <1>1 DEF TaskCreate, Idle, NewTask, NoTask
  <2> QED BY <1>p, <1>t, <2>1 DEF Graph
<1>2. ASSUME NEW id \in AllIds, NEW edges \in Edits,
             NEW status \in Asked \cup {task[id].status},
             BeginUpdate(id, status, edges)
      PROVE  Acyclic(task)' /\ Unclosed'
  <2>1. /\ task' = task
        /\ call' = [of |-> id, copy |-> [task[id] EXCEPT !.status = status],
                    todo |-> edges]
    BY <1>2 DEF BeginUpdate
  <2>2. call'.of = id /\ call'.todo = edges /\ call'.copy.blocks = task[id].blocks
    BY <1>t, <2>1 DEF Graph
  <2>3. \A e \in task[id].blocks : id \notin Found(task, e)
    BY <1>i DEF Acyclic
  <2>4. \A i, j \in DOMAIN edges : edges[i].kind = edges[j].kind
    BY DEF EditsOneSided
  <2>5. Acyclic(task)'
    BY <1>i, <2>1
  <2>6. Unclosed'
    BY <2>1, <2>2, <2>3, <2>4 DEF Unclosed
  <2> QED BY <2>5, <2>6
<1>3. ASSUME NEW kind, Due(kind)
      PROVE  /\ call \in [of : AllIds, copy : Record, todo : Seq(Edge)]
             /\ call.todo \in Seq(Edge) /\ call.todo # <<>> /\ call.of \in AllIds
             /\ Head(call.todo).id \in AllIds /\ Head(call.todo).kind = kind
             /\ \A i, j \in DOMAIN Tail(call.todo) :
                   Tail(call.todo)[i].kind = Tail(call.todo)[j].kind
             /\ Tail(call.todo) # <<>> => Head(Tail(call.todo)).kind = kind
             /\ \A e \in call.copy.blocks : call.of \notin Found(task, e)
             /\ call.copy.blocks \subseteq AllIds
  <2>1. /\ call \in [of : AllIds, copy : Record, todo : Seq(Edge)]
        /\ call.todo \in Seq(Edge) /\ call.todo # <<>> /\ call.of \in AllIds
        /\ Head(call.todo).kind = kind /\ call.copy.blocks \subseteq AllIds
        /\ ~Idle
    BY <1>3, <1>t DEF Due, Idle, Record
  <2>2. /\ \A i, j \in DOMAIN call.todo : call.todo[i].kind = call.todo[j].kind
        /\ \A e \in call.copy.blocks : call.of \notin Found(task, e)
    BY <1>i, <2>1 DEF Unclosed
  <2>3. Head(call.todo) \in Edge
    BY <2>1
  <2> QED BY <2>1, <2>2, <2>3, TodoTail DEF Edge
<1>4. CASE AddBlocks
  <2> DEFINE end == Head(call.todo).id
             copy == [call.copy EXCEPT !.blocks = @ \cup {end}]
  <2>1. Due("blocks") /\ AddEdge(CanReach(end, call.of), copy, WithBlockedBy(end))
    BY <1>4 DEF AddBlocks
  <2>2. CASE call' = NoCall /\ task' = task
    BY <1>p, <2>2
  <2>3. CASE /\ ~CanReach(end, call.of)
             /\ call' = [call EXCEPT !.copy = copy, !.todo = Tail(@)]
             /\ task' = WithBlockedBy(end) \/ task' = task
    <3>1. /\ call'.of = call.of /\ call'.todo = Tail(call.todo)
          /\ call'.copy.blocks = call.copy.blocks \cup {end}
      BY <1>3, <2>1, <2>3 DEF Record
    <3>2. \A i \in AllIds : task'[i].blocks = task[i].blocks
      BY <1>3, <1>t, <2>1, <2>3 DEF WithBlockedBy, Graph
    <3>3. call.of \notin Found(task, end)
      BY <2>3, BlockedIsFound DEF CanReach
    <3>4. \A e : Found(task', e) = Found(task, e)
      BY <3>2 DEF Found, ClosedIn
    <3>5. Acyclic(task')
      BY <1>i, <1>t, <3>2, FewerEdges
    <3>6. ~(Due("blockedBy"))'
      <4>1. call'.todo # <<>> => Head(call'.todo).kind = "blocks"
        BY <1>3, <2>1, <3>1
      <4> QED BY <4>1 DEF Due
    <3>7. \A e \in call'.copy.blocks : call'.of \notin Found(task', e)
      BY <1>3, <2>1, <3>1, <3>3, <3>4
    <3>8. \A i, j \in DOMAIN call'.todo : call'.todo[i].kind = call'.todo[j].kind
      BY <1>3, <2>1, <3>1
    <3> QED BY <3>5, <3>6, <3>7, <3>8 DEF Unclosed
  <2> QED BY <2>1, <2>2, <2>3 DEF AddEdge
<1>5. CASE AddBlockedBy
  <2> DEFINE end == Head(call.todo).id
             copy == [call.copy EXCEPT !.blockedBy = @ \cup {end}]
  <2>1. Due("blockedBy") /\ AddEdge(CanReach(call.of, end), copy, WithBlocks(end))
    BY <1>5 DEF AddBlockedBy
  <2>2. CASE call' = NoCall /\ task' = task
    BY <1>p, <2>2
  <2>3. CASE /\ ~CanReach(call.of, end)
             /\ call' = [call EXCEPT !.copy = copy, !.todo = Tail(@)]
             /\ task' = WithBlocks(end) \/ task' = task
    <3>1. /\ call'.of = call.of /\ call'.todo = Tail(call.todo)
          /\ call'.copy.blocks = call.copy.blocks
      BY <1>3, <2>1, <2>3 DEF Record
    <3>2. /\ \A i \in AllIds \ {end} : task'[i].blocks = task[i].blocks
          /\ task'[end].blocks \subseteq task[end].blocks \cup {call.of}
      BY <1>3, <1>t, <2>1, <2>3 DEF WithBlocks, Graph
    <3>3. end \notin Found(task, call.of) /\ end # call.of /\ end \in AllIds
      BY <1>3, <2>1, <2>3, BlockedIsFound DEF CanReach
    <3>4. \A e \in task[end].blocks : end \notin Found(task, e)
      BY <1>i, <3>3 DEF Acyclic
    <3> HIDE DEF end
    <3>5. Acyclic(task')
      BY <1>i, <1>t, <3>2, <3>3, <3>4, MoreEdges
    <3>6. call.copy.blocks = task[call.of].blocks
      BY <1>i, <2>1 DEF Unclosed, Due
    <3>7. call.of \in AllIds /\ task'[call.of].blocks = task[call.of].blocks
      BY <1>3, <2>1, <3>2, <3>3
    <3>8. \A e \in call'.copy.blocks : call'.of \notin Found(task', e)
      BY <3>1, <3>5, <3>6, <3>7 DEF Acyclic
    <3>9. \A i, j \in DOMAIN call'.todo : call'.todo[i].kind = call'.todo[j].kind
      BY <1>3, <2>1, <3>1
    <3> QED BY <3>1, <3>5, <3>6, <3>7, <3>8, <3>9 DEF Unclosed
  <2> QED BY <2>1, <2>2, <2>3 DEF AddEdge
<1>6. CASE SaveTask
  <2>1. /\ call' = NoCall /\ ~Idle
        /\ task' = task \/ task' = [task EXCEPT ![call.of] = call.copy]
    BY <1>6 DEF SaveTask
  <2>2. call.of \in AllIds
    BY <1>t, <2>1 DEF Idle
  <2>3. \A e \in call.copy.blocks : call.of \notin Found(task, e)
    BY <1>i, <2>1 DEF Unclosed
  <2>4. CASE task' = [task EXCEPT ![call.of] = call.copy]
    <3>1. /\ task'[call.of].blocks = call.copy.blocks
          /\ \A i \in AllIds \ {call.of} : task'[i].blocks = task[i].blocks
      BY <1>t, <2>2, <2>4 DEF Graph
    <3>2. Acyclic(task')
      BY <1>i, <1>t, <2>2, <2>3, <3>1, MoreEdges
    <3> QED BY <1>c, <2>1, <3>2
  <2>5. CASE task' = task
    BY <1>p, <2>1, <2>5
  <2> QED BY <2>1, <2>4, <2>5
<1>7. CASE Crash
  BY <1>p, <1>7 DEF Crash
<1>8. ASSUME NEW team \in Teams, NEW n \in 0..TeamSize, TeamCreate(team, n)
      PROVE  Acyclic(task)' /\ Unclosed'
  <2>1. PICK fresh : task' = [id \in AllIds |-> IF id \in fresh THEN NewTask ELSE task[id]]
    BY <1>8 DEF TeamCreate
  <2>2. call' = NoCall /\ NewTask.blocks = {}
    BY <1>8 DEF TeamCreate, Idle, NewTask, NoTask
  <2>3. \A i \in AllIds : task'[i].blocks \subseteq task[i].blocks
    BY <1>t, <2>1, <2>2 DEF Graph
  <2> QED BY <1>p, <2>2, <2>3
<1>9. ASSUME NEW team \in Teams, TeamDelete(team) PROVE Acyclic(task)' /\ Unclosed'
  BY <1>p, <1>9 DEF TeamDelete, Idle
<1>10. CASE UNCHANGED vars
  <2>1. task' = task /\ call' = call
    BY <1>10 DEF vars
  <2> QED BY <1>i, <2>1 DEF Unclosed, Idle, Due
<1> QED BY <1>1, <1>2, <1>4, <1>5, <1>6, <1>7, <1>8, <1>9, <1>10 DEF Next

(* No chain of tasks waits for itself, for any number of tasks and of      *)
(* edges in a call, with writes that fail in mid-call and teams that start *)
(* afresh, as long as no call adds edges on both sides: canReach reads the *)
(* store, which lacks the first of them when it checks the second.         *)
THEOREM GraphsAreSound ==
  ASSUME EditsTyped, EditsOneSided
  PROVE  Spec => []GraphSound
<1>1. Init => GraphInv
  <2> SUFFICES ASSUME Init PROVE Acyclic(task) /\ Unclosed
    BY InvInit DEF GraphInv
  <2>1. \A id \in AllIds : task[id].blocks = {}
    BY DEF Init, NoTask
  <2>2. call = NoCall
    BY DEF Init
  <2> QED BY <2>1, <2>2 DEF Acyclic, Unclosed, Idle
<1>2. GraphInv => GraphSound
  BY BlockedIsFound DEF GraphInv, GraphSound, Inv
<1> QED BY <1>1, <1>2, GraphStep, PTL DEF Spec

-----------------------------------------------------------------------------
\* Searches: what every engine did in the part under way.

\* How an engine can stand: in one of its tries, failed, or heard.
Failed == MaxAttempts
Heard  == MaxAttempts + 1

\* The engines of a part, and every way they can stand.
Parties == 1..Engines
Courses == [Parties -> 0..MaxAttempts + 1]

\* The engines that stand there in an account of them all.
At(a, c) == {e \in Parties : a[e] = c}

\* An account of the engines that explains what the call has counted.
Accounts(p, a) ==
    /\ \A t \in Tries : waiting[p][t] = Cardinality(At(a, t))
    /\ failed[p] = Cardinality(At(a, Failed))
    /\ silent[p] => ~pierced[p] \/ At(a, Heard) # {}

\* A call: while it collects, what it has counted is explained by an account of the engines;
\* else nothing is counted, and silence and a part all engines failed in exclude each other.
CallSound(p) ==
    /\ question[p] = NoValue <=> pc[p] = "idle"
    /\ part[p] \in 0..(IF pc[p] = "idle" THEN 0 ELSE Parts[question[p]])
    /\ got[p] <= MaxResults + PerEngine - 1
    /\ IF pc[p] = "collecting"
       THEN /\ part[p] < Parts[question[p]]
            /\ \E a \in Courses : Accounts(p, a)
       ELSE /\ waiting[p] = Nobody /\ got[p] = 0 /\ failed[p] = 0
            /\ silent[p] => ~pierced[p]

\* The types, field by field.
Sweeps == [names: SUBSET Paths, at: Paths \cup {NoValue},
           step: {"idle", "reading", "removing", "deleting"}]

SearchTyped ==
    /\ StoreTypeOK
    /\ pc \in [Callers -> {"idle", "looking", "removing", "searching", "collecting"}]
    /\ question \in [Callers -> Keys \cup {NoValue}]
    /\ part \in [Callers -> Nat] /\ waiting \in [Callers -> [Tries -> Nat]]
    /\ got \in [Callers -> Nat] /\ failed \in [Callers -> Nat]
    /\ found \in [Callers -> BOOLEAN] /\ someFailed \in [Callers -> BOOLEAN]
    /\ pierced \in [Callers -> BOOLEAN] /\ cancelled \in [Callers -> BOOLEAN]
    /\ silent \in [Callers -> BOOLEAN]
    /\ sweep \in Sweeps
    /\ kept \subseteq Paths /\ raced \subseteq Paths

CallsSound == \A p \in Callers : CallSound(p)

\* What was stored, and was not to be removed already, is fresh, and nobody is about to
\* remove it: a removal is decided of a file that is not fresh.
Shelved ==
    /\ \A f \in kept \ raced : entries[f].is = "fresh" /\ f \notin Doomed
    /\ sweep.step \in {"removing", "deleting"} => sweep.at \in Paths

\* The inductive invariant of the searches.
SearchInv == SearchTyped /\ CallsSound /\ Shelved

-----------------------------------------------------------------------------
\* The engines in one place are counted,
LEMMA EnginesCounted ==
    ASSUME NEW a, NEW c
    PROVE  /\ IsFiniteSet(At(a, c)) /\ Cardinality(At(a, c)) \in 0..Engines
           /\ Cardinality(At(a, c)) > 0 <=> At(a, c) # {}
<1>1. IsFiniteSet(Parties) /\ Cardinality(Parties) = Engines
  BY FS_Interval, SearchAssumption DEF Parties
<1>2. IsFiniteSet(At(a, c)) /\ Cardinality(At(a, c)) <= Engines
  BY <1>1, FS_Subset DEF At
<1>3. Cardinality(At(a, c)) \in Nat
  BY <1>2, FS_CardinalityType
<1>4. Cardinality(At(a, c)) = 0 <=> At(a, c) = {}
  BY <1>2, FS_EmptySet
<1> QED
  BY <1>2, <1>3, <1>4, SearchAssumption

\* they are all there when there are as many,
LEMMA AllAtOne ==
    ASSUME NEW a, NEW c, Cardinality(At(a, c)) = Engines
    PROVE  At(a, c) = Parties
<1>1. IsFiniteSet(Parties) /\ Cardinality(Parties) = Engines
  BY FS_Interval, SearchAssumption DEF Parties
<1> QED
  BY <1>1, FS_Subset DEF At

\* An engine's request gets from where it is to another state.
Moved(a, e, c) == [a EXCEPT ![e] = c]

\* and a move takes one from its place to the other.
LEMMA OneMoves ==
    ASSUME NEW a \in Courses, NEW e \in Parties, NEW c \in 0..MaxAttempts + 1, a[e] # c
    PROVE  /\ Moved(a, e, c) \in Courses
           /\ Cardinality(At(Moved(a, e, c), c)) = Cardinality(At(a, c)) + 1
           /\ Cardinality(At(Moved(a, e, c), a[e])) = Cardinality(At(a, a[e])) - 1
           /\ \A d : d \notin {c, a[e]} => At(Moved(a, e, c), d) = At(a, d)
<1> DEFINE b == Moved(a, e, c)
<1>1. b \in Courses /\ b[e] = c /\ \A x \in Parties : x # e => b[x] = a[x]
  BY DEF Courses, Moved
<1> HIDE DEF b
<1>2. At(b, c) = At(a, c) \cup {e} /\ e \notin At(a, c)
  BY <1>1 DEF At
<1>3. At(b, a[e]) = At(a, a[e]) \ {e} /\ e \in At(a, a[e])
  BY <1>1 DEF At
<1>4. \A d : d \notin {c, a[e]} => At(b, d) = At(a, d)
  BY <1>1 DEF At
<1>5. IsFiniteSet(At(a, c)) /\ IsFiniteSet(At(a, a[e]))
  BY EnginesCounted
<1>6. Cardinality(At(b, c)) = Cardinality(At(a, c)) + 1
  BY <1>2, <1>5, FS_AddElement
<1>7. Cardinality(At(b, a[e])) = Cardinality(At(a, a[e])) - 1
  BY <1>3, <1>5, FS_RemoveElement
<1> QED
  BY <1>1, <1>4, <1>6, <1>7 DEF b

\* What the constants promise.
LEMMA SearchFacts ==
    /\ NoValue \notin Keys /\ MaxResults \in Nat \ {0} /\ PerEngine \in Nat \ {0}
    /\ MaxAttempts \in Nat \ {0} /\ Engines \in Nat \ {0}
    /\ \A q \in Keys : Parts[q] \in Nat \ {0} /\ PathOf[q] \in Paths
    /\ Nobody \in [Tries -> Nat] /\ 0 \in Tries /\ \A t \in Tries : Nobody[t] = 0
  BY SearchAssumption, StoreAssumption DEF Nobody, Tries

\* The invariant holds when nobody searches.
LEMMA SearchStarts == SearchInit => SearchInv
<1> SUFFICES ASSUME SearchInit PROVE SearchInv
  OBVIOUS
<1>1. entries \in [Paths -> [is: States, value: Values \cup {NoValue}]]
  BY DEF SearchInit, EmptyStore, None, States
<1>2. NoSweep \in Sweeps /\ NoSweep.step = "idle"
  BY DEF NoSweep, Sweeps
<1>3. SearchTyped
  BY <1>1, <1>2, SearchFacts DEF SearchInit, SearchTyped, StoreTypeOK
<1>4. CallsSound
  BY SearchFacts DEF SearchInit, CallsSound, CallSound
<1>5. Shelved
  BY <1>2 DEF SearchInit, Shelved
<1> QED
  BY <1>3, <1>4, <1>5 DEF SearchInv

\* What stands between two steps for a caller that takes neither.
Still(q) ==
    /\ pc'[q] = pc[q] /\ question'[q] = question[q] /\ part'[q] = part[q]
    /\ waiting'[q] = waiting[q] /\ got'[q] = got[q] /\ failed'[q] = failed[q]
    /\ pierced'[q] = pierced[q] /\ silent'[q] = silent[q]

\* A caller that stands still stays as it was.
LEMMA StillSound ==
    ASSUME NEW q \in Callers, Still(q), CallSound(q) PROVE CallSound(q)'
<1>1. \A a \in Courses : Accounts(q, a) => Accounts(q, a)'
  BY DEF Accounts, Still
<1>2. (\E a \in Courses : Accounts(q, a)) => (\E a \in Courses : Accounts(q, a)')
  BY <1>1
<1> QED
  BY <1>2 DEF CallSound, Still

\* A caller that is not idle has a question, which has a file.
LEMMA FileIsPath ==
    ASSUME SearchTyped, CallsSound, NEW p \in Callers, pc[p] # "idle"
    PROVE  question[p] \in Keys /\ File(p) \in Paths /\ Parts[question[p]] \in Nat \ {0}
<1>1. question[p] \in Keys
  BY DEF SearchTyped, CallsSound, CallSound
<1> QED
  BY <1>1, SearchFacts DEF File

\* The calls: a step of one leaves the others still.
CallEffect(p) ==
    /\ SearchTyped' /\ CallSound(p)' /\ \A q \in Callers \ {p} : Still(q)

\* A call that ends leaves nothing behind.
LEMMA EndTyped ==
    ASSUME SearchTyped, CallsSound, NEW p \in Callers, Ends(p), pc[p] # "idle", pc[p] # "collecting"
    PROVE  /\ pc' \in [Callers -> {"idle", "looking", "removing", "searching", "collecting"}]
           /\ question' \in [Callers -> Keys \cup {NoValue}]
           /\ part' \in [Callers -> Nat] /\ waiting' = waiting /\ got' = got /\ failed' = failed
           /\ found' \in [Callers -> BOOLEAN] /\ someFailed' \in [Callers -> BOOLEAN]
           /\ pierced' \in [Callers -> BOOLEAN] /\ cancelled' \in [Callers -> BOOLEAN]
           /\ silent' \in [Callers -> BOOLEAN]
           /\ CallSound(p)' /\ \A q \in Callers \ {p} : Still(q)
<1>1. /\ pc' \in [Callers -> {"idle", "looking", "removing", "searching", "collecting"}]
      /\ question' \in [Callers -> Keys \cup {NoValue}]
      /\ part' \in [Callers -> Nat] /\ waiting' = waiting /\ got' = got /\ failed' = failed
  BY DEF Ends, Becomes, SearchTyped, partVars
<1>2. /\ found' \in [Callers -> BOOLEAN] /\ someFailed' \in [Callers -> BOOLEAN]
      /\ pierced' \in [Callers -> BOOLEAN] /\ cancelled' \in [Callers -> BOOLEAN]
      /\ silent' \in [Callers -> BOOLEAN]
  BY DEF Ends, SearchTyped
<1>3. \A q \in Callers \ {p} : Still(q)
  BY DEF Ends, Becomes, SearchTyped, partVars, Still
<1>4. pc'[p] = "idle" /\ question'[p] = NoValue /\ part'[p] = 0 /\ ~silent'[p]
  BY DEF Ends, Becomes, SearchTyped
<1>5. waiting[p] = Nobody /\ got[p] = 0 /\ failed[p] = 0
  BY DEF CallsSound, CallSound
<1>6. CallSound(p)'
  BY <1>1, <1>4, <1>5, SearchFacts DEF CallSound
<1> QED
  BY <1>1, <1>2, <1>3, <1>6

\* A question is asked; nothing is counted yet.
LEMMA AskEffect ==
    ASSUME SearchTyped, CallsSound, NEW p \in Callers, NEW k \in Keys, Ask(p, k)
    PROVE  CallEffect(p)
<1>1. SearchTyped'
  BY DEF Ask, Becomes, SearchTyped, partVars, StoreTypeOK
<1>2. pc'[p] = "looking" /\ question'[p] = k /\ pc[p] = "idle"
  BY DEF Ask, Becomes, SearchTyped
<1>3. /\ UNCHANGED <<part, waiting, got, failed, pierced, silent>>
      /\ part[p] = 0 /\ waiting[p] = Nobody /\ got[p] = 0 /\ failed[p] = 0
      /\ silent[p] => ~pierced[p]
  BY <1>2 DEF Ask, partVars, CallsSound, CallSound
<1>4. part[p] \in 0..Parts[k] /\ got[p] <= MaxResults + PerEngine - 1
  BY <1>3, SearchFacts
<1>5. CallSound(p)'
  BY <1>2, <1>3, <1>4, SearchFacts DEF CallSound
<1>6. \A q \in Callers \ {p} : Still(q)
  BY <1>3 DEF Ask, Becomes, SearchTyped, Still
<1> QED
  BY <1>1, <1>5, <1>6 DEF CallEffect

\* The start and the removal of what was found change nothing of the counts.
LEMMA CourseEffect ==
    ASSUME SearchTyped, CallsSound, NEW p \in Callers, pc[p] \notin {"idle", "collecting"},
           NEW s \in {"looking", "removing", "searching"}, Becomes(p, s),
           UNCHANGED <<callVars, cancelled, sweep, kept, raced>>, StoreTypeOK'
    PROVE  CallEffect(p)
<1>1. /\ UNCHANGED <<question, part, waiting, got, failed, found, someFailed, pierced, silent>>
  BY DEF callVars, partVars
<1>2. pc'[p] = s /\ pc' \in [Callers -> {"idle", "looking", "removing", "searching", "collecting"}]
      /\ \A q \in Callers \ {p} : pc'[q] = pc[q]
  BY DEF Becomes, SearchTyped
<1>3. SearchTyped'
  BY <1>1, <1>2 DEF SearchTyped
<1>4. CallSound(p)'
  BY <1>1, <1>2 DEF CallsSound, CallSound
<1> QED
  BY <1>1, <1>2, <1>3, <1>4 DEF CallEffect, Still

\* A cancelled context changes no count.
LEMMA CancelEffect ==
    ASSUME SearchTyped, CallsSound, NEW p \in Callers, Cancel(p) PROVE CallEffect(p)
<1>1. UNCHANGED <<pc, question, part, waiting, got, failed, found, someFailed, pierced, silent>>
  BY DEF Cancel, callVars, partVars
<1>2. SearchTyped'
  BY <1>1 DEF Cancel, SearchTyped, StoreTypeOK
<1>3. \A q \in Callers : Still(q)
  BY <1>1 DEF Still
<1> QED
  BY <1>2, <1>3, StillSound DEF CallEffect, CallsSound

\* All engines stand in their first try.
LEMMA AskEnginesEffect ==
    ASSUME SearchTyped, CallsSound, NEW p \in Callers, AskEngines(p) PROVE CallEffect(p)
<1>1. /\ UNCHANGED <<entries, question, part, got, failed, found, someFailed, pierced, cancelled,
                     sweep, silent, kept, raced>>
      /\ pc[p] = "searching" /\ part[p] < Parts[question[p]]
      /\ waiting' = [waiting EXCEPT ![p] = [@ EXCEPT ![0] = Engines]]
      /\ pc' = [pc EXCEPT ![p] = "collecting"]
  BY DEF AskEngines, Becomes
<1>2. /\ waiting[p] = Nobody /\ got[p] = 0 /\ failed[p] = 0
      /\ silent[p] => ~pierced[p]
      /\ question[p] # NoValue /\ part[p] \in 0..Parts[question[p]]
      /\ got[p] <= MaxResults + PerEngine - 1
  BY <1>1 DEF CallsSound, CallSound
<1> DEFINE counts == [Nobody EXCEPT ![0] = Engines]
<1>3. /\ counts \in [Tries -> Nat] /\ counts[0] = Engines
      /\ \A t \in Tries : t # 0 => counts[t] = 0
  BY SearchFacts
<1>9. waiting' = [waiting EXCEPT ![p] = counts]
  BY <1>1, <1>2 DEF SearchTyped
<1> HIDE DEF counts
<1>4. /\ waiting' \in [Callers -> [Tries -> Nat]] /\ waiting'[p] = counts
      /\ \A q \in Callers \ {p} : waiting'[q] = waiting[q]
  BY <1>3, <1>9 DEF SearchTyped
<1>5. /\ pc' \in [Callers -> {"idle", "looking", "removing", "searching", "collecting"}]
      /\ pc'[p] = "collecting" /\ \A q \in Callers \ {p} : pc'[q] = pc[q]
  BY <1>1 DEF SearchTyped
<1>6. SearchTyped'
  BY <1>1, <1>4, <1>5 DEF SearchTyped, StoreTypeOK
<1>7. \E a \in Courses : Accounts(p, a)'
  <2> DEFINE a == [e \in Parties |-> 0]
  <2>1. a \in Courses
    BY SearchFacts DEF Courses
  <2>2. At(a, 0) = Parties /\ \A c : c # 0 => At(a, c) = {}
    BY DEF At
  <2>3. Cardinality(Parties) = Engines /\ Cardinality({}) = 0
    BY FS_Interval, FS_EmptySet, SearchFacts DEF Parties
  <2>4. \A t \in Tries : counts[t] = Cardinality(At(a, t))
    BY <1>3, <2>2, <2>3
  <2>5. failed[p] = Cardinality(At(a, Failed))
    BY <1>2, <2>2, <2>3, SearchFacts DEF Failed
  <2> HIDE DEF a
  <2>6. Accounts(p, a)'
    BY <1>1, <1>2, <1>4, <2>4, <2>5 DEF Accounts
  <2> QED
    BY <2>1, <2>6
<1>8. CallSound(p)'
  BY <1>1, <1>2, <1>5, <1>7 DEF CallSound
<1> QED
  BY <1>1, <1>4, <1>5, <1>6, <1>8 DEF CallEffect, Still

\* A try: one engine moves from it to where its request has got to.
LEMMA TryMoves ==
    ASSUME SearchTyped, NEW p \in Callers, NEW t \in Tries, Try(p, t),
           NEW a \in Courses, Accounts(p, a)
    PROVE  /\ \E b \in Courses : Accounts(p, b)'
           /\ waiting' \in [Callers -> [Tries -> Nat]] /\ failed' \in [Callers -> Nat]
           /\ silent' \in [Callers -> BOOLEAN] /\ got' \in [Callers -> Nat]
           /\ got'[p] <= MaxResults + PerEngine - 1
           /\ \A q \in Callers \ {p} :
                 waiting'[q] = waiting[q] /\ failed'[q] = failed[q] /\ got'[q] = got[q]
                 /\ silent'[q] = silent[q]
<1>1. waiting[p][t] > 0 /\ waiting[p][t] = Cardinality(At(a, t)) /\ pierced' = pierced
      /\ got[p] < MaxResults
  BY SearchFacts DEF Try, Accounts, Enough, SearchTyped
<1>2. PICK e \in Parties : a[e] = t
  BY <1>1, EnginesCounted DEF At
<1>3. t \in Nat /\ t < MaxAttempts /\ Failed = MaxAttempts /\ Heard = MaxAttempts + 1
      /\ {t, t + 1, Failed, Heard} \subseteq 0..MaxAttempts + 1
      /\ \A u \in Tries : u \in Nat /\ u < MaxAttempts
  BY SearchFacts DEF Tries, Failed, Heard
<1> DEFINE less == [waiting[p] EXCEPT ![t] = @ - 1]
<1>4. /\ less \in [Tries -> Nat] /\ less[t] = waiting[p][t] - 1
      /\ \A u \in Tries : u # t => less[u] = waiting[p][u]
  BY <1>1 DEF SearchTyped
<1>5. ASSUME Answered(p, t)
      PROVE  /\ waiting' \in [Callers -> [Tries -> Nat]] /\ waiting'[p] = less
             /\ \A q \in Callers \ {p} : waiting'[q] = waiting[q]
  <2>1. waiting' = [waiting EXCEPT ![p] = less]
    BY <1>5 DEF Answered, SearchTyped
  <2> HIDE DEF less
  <2> QED
    BY <1>4, <2>1 DEF SearchTyped
<1> HIDE DEF less
<1>6. CASE Fails(p, t)
  <2> DEFINE b == Moved(a, e, Failed)
  <2>1. /\ b \in Courses
        /\ Cardinality(At(b, Failed)) = Cardinality(At(a, Failed)) + 1
        /\ Cardinality(At(b, t)) = Cardinality(At(a, t)) - 1
        /\ \A d : d \notin {Failed, t} => At(b, d) = At(a, d)
    BY <1>2, <1>3, OneMoves
  <2> HIDE DEF b
  <2>2. /\ failed' \in [Callers -> Nat] /\ failed'[p] = failed[p] + 1
        /\ \A q \in Callers \ {p} : failed'[q] = failed[q]
        /\ UNCHANGED <<got, silent>>
    BY <1>6 DEF Fails, SearchTyped
  <2>3. /\ waiting' \in [Callers -> [Tries -> Nat]] /\ waiting'[p] = less
        /\ \A q \in Callers \ {p} : waiting'[q] = waiting[q]
    BY <1>5, <1>6 DEF Fails
  <2>21. \A u \in Tries : u # t => At(b, u) = At(a, u)
    BY <1>3, <2>1
  <2>4. \A u \in Tries : waiting'[p][u] = Cardinality(At(b, u))
    <3>1. waiting'[p][t] = Cardinality(At(b, t))
      BY <1>1, <1>4, <2>1, <2>3
    <3>2. \A u \in Tries : u # t => waiting'[p][u] = Cardinality(At(b, u))
      BY <1>4, <2>3, <2>21 DEF Accounts
    <3> QED
      BY <3>1, <3>2
  <2>5. failed'[p] = Cardinality(At(b, Failed))
    BY <2>1, <2>2 DEF Accounts
  <2>6. silent'[p] => ~pierced'[p] \/ At(b, Heard) # {}
    BY <1>1, <1>3, <2>1, <2>2 DEF Accounts
  <2>7. Accounts(p, b)'
    BY <2>4, <2>5, <2>6 DEF Accounts
  <2>8. got'[p] <= MaxResults + PerEngine - 1
    BY <1>1, <2>2, SearchFacts DEF SearchTyped
  <2>9. silent' \in [Callers -> BOOLEAN] /\ got' \in [Callers -> Nat]
    BY <2>2 DEF SearchTyped
  <2> QED
    BY <2>1, <2>2, <2>3, <2>7, <2>8, <2>9
<1>7. ASSUME NEW n \in 0..PerEngine, Gives(p, t, n)
      PROVE  /\ \E b \in Courses : Accounts(p, b)'
             /\ waiting' \in [Callers -> [Tries -> Nat]] /\ failed' \in [Callers -> Nat]
             /\ silent' \in [Callers -> BOOLEAN] /\ got' \in [Callers -> Nat]
             /\ got'[p] <= MaxResults + PerEngine - 1
             /\ \A q \in Callers \ {p} :
                   waiting'[q] = waiting[q] /\ failed'[q] = failed[q] /\ got'[q] = got[q]
                   /\ silent'[q] = silent[q]
  <2> DEFINE b == Moved(a, e, Heard)
  <2>1. /\ b \in Courses
        /\ Cardinality(At(b, Heard)) = Cardinality(At(a, Heard)) + 1
        /\ Cardinality(At(b, t)) = Cardinality(At(a, t)) - 1
        /\ \A d : d \notin {Heard, t} => At(b, d) = At(a, d)
    BY <1>2, <1>3, OneMoves
  <2> HIDE DEF b
  <2>2. /\ got' \in [Callers -> Nat] /\ got'[p] = got[p] + n
        /\ \A q \in Callers \ {p} : got'[q] = got[q]
        /\ failed' = failed
    BY <1>7 DEF Gives, SearchTyped
  <2>9. silent' \in [Callers -> BOOLEAN] /\ \A q \in Callers \ {p} : silent'[q] = silent[q]
    BY <1>7 DEF Gives, SearchTyped
  <2>3. /\ waiting' \in [Callers -> [Tries -> Nat]] /\ waiting'[p] = less
        /\ \A q \in Callers \ {p} : waiting'[q] = waiting[q]
    BY <1>5, <1>7 DEF Gives
  <2>21. \A u \in Tries : u # t => At(b, u) = At(a, u)
    BY <1>3, <2>1
  <2>4. \A u \in Tries : waiting'[p][u] = Cardinality(At(b, u))
    <3>1. waiting'[p][t] = Cardinality(At(b, t))
      BY <1>1, <1>4, <2>1, <2>3
    <3>2. \A u \in Tries : u # t => waiting'[p][u] = Cardinality(At(b, u))
      BY <1>4, <2>3, <2>21 DEF Accounts
    <3> QED
      BY <3>1, <3>2
  <2>5. failed'[p] = Cardinality(At(b, Failed))
    BY <1>3, <2>1, <2>2 DEF Accounts
  <2>6. At(b, Heard) # {}
    BY <2>1, EnginesCounted
  <2>7. Accounts(p, b)'
    BY <2>4, <2>5, <2>6 DEF Accounts
  <2>8. got'[p] <= MaxResults + PerEngine - 1
    BY <1>1, <2>2, SearchFacts DEF SearchTyped
  <2>10. failed' \in [Callers -> Nat]
    BY <2>2 DEF SearchTyped
  <2> QED
    BY <2>1, <2>2, <2>3, <2>7, <2>8, <2>9, <2>10
<1>8. CASE Retries(p, t)
  <2>10. t + 1 \in Tries /\ t + 1 # t
    BY <1>3, <1>8 DEF Retries, Again, Tries
  <2> DEFINE b == Moved(a, e, t + 1)
  <2>1. /\ b \in Courses
        /\ Cardinality(At(b, t + 1)) = Cardinality(At(a, t + 1)) + 1
        /\ Cardinality(At(b, t)) = Cardinality(At(a, t)) - 1
        /\ \A d : d \notin {t + 1, t} => At(b, d) = At(a, d)
    BY <1>2, <1>3, <2>10, OneMoves
  <2> HIDE DEF b
  <2> DEFINE moved == Retried(waiting[p], t)
  <2>9. UNCHANGED <<got, failed, silent>>
    BY <1>8 DEF Retries
  <2>2. UNCHANGED <<got, failed, silent>> /\ waiting' = [waiting EXCEPT ![p] = moved]
    BY <1>8, <2>9 DEF Retries
  <2>3. /\ moved \in [Tries -> Nat] /\ moved[t] = waiting[p][t] - 1
        /\ moved[t + 1] = waiting[p][t + 1] + 1
        /\ \A u \in Tries : u \notin {t, t + 1} => moved[u] = waiting[p][u]
    BY <1>1, <2>10 DEF SearchTyped, Retried
  <2> HIDE DEF moved
  <2>4. /\ waiting' \in [Callers -> [Tries -> Nat]] /\ waiting'[p] = moved
        /\ \A q \in Callers \ {p} : waiting'[q] = waiting[q]
    BY <2>2, <2>3 DEF SearchTyped
  <2>5. \A u \in Tries : waiting'[p][u] = Cardinality(At(b, u))
    BY <1>1, <2>1, <2>3, <2>4, <2>10 DEF Accounts
  <2>6. failed'[p] = Cardinality(At(b, Failed)) /\ (silent'[p] => ~pierced'[p] \/ At(b, Heard) # {})
    <3>1. At(b, Failed) = At(a, Failed) /\ At(b, Heard) = At(a, Heard)
      BY <1>3, <2>1, <2>10
    <3> QED
      BY <1>1, <2>2, <3>1 DEF Accounts
  <2>7. Accounts(p, b)'
    BY <2>5, <2>6 DEF Accounts
  <2>8. got'[p] <= MaxResults + PerEngine - 1
    BY <1>1, <2>2, SearchFacts DEF SearchTyped
  <2>12. silent' \in [Callers -> BOOLEAN] /\ got' \in [Callers -> Nat] /\ failed' \in [Callers -> Nat]
    BY <2>2 DEF SearchTyped
  <2> QED
    BY <2>1, <2>2, <2>4, <2>7, <2>8, <2>12
<1> QED
  BY <1>6, <1>7, <1>8 DEF Try

\* A try has the effect of a move.
LEMMA TryEffect ==
    ASSUME SearchTyped, CallsSound, NEW p \in Callers, NEW t \in Tries, Try(p, t)
    PROVE  CallEffect(p)
<1>1. /\ UNCHANGED <<entries, pc, question, part, found, someFailed, pierced, cancelled, sweep,
                     kept, raced>>
      /\ pc[p] = "collecting"
  BY DEF Try
<1>2. PICK a \in Courses : Accounts(p, a)
  BY <1>1 DEF CallsSound, CallSound
<1>3. /\ \E b \in Courses : Accounts(p, b)'
      /\ waiting' \in [Callers -> [Tries -> Nat]] /\ failed' \in [Callers -> Nat]
      /\ silent' \in [Callers -> BOOLEAN] /\ got' \in [Callers -> Nat]
      /\ got'[p] <= MaxResults + PerEngine - 1
      /\ \A q \in Callers \ {p} :
            waiting'[q] = waiting[q] /\ failed'[q] = failed[q] /\ got'[q] = got[q]
            /\ silent'[q] = silent[q]
  BY <1>2, TryMoves
<1>4. SearchTyped'
  BY <1>1, <1>3 DEF SearchTyped, StoreTypeOK
<1>5. CallSound(p)'
  BY <1>1, <1>3 DEF CallsSound, CallSound
<1>6. \A q \in Callers \ {p} : Still(q)
  BY <1>1, <1>3 DEF Still
<1> QED
  BY <1>4, <1>5, <1>6 DEF CallEffect

\* A part ends: if every engine failed, none is waited for and none was heard.
LEMMA CollectedEffect ==
    ASSUME SearchTyped, CallsSound, NEW p \in Callers, Collected(p) PROVE CallEffect(p)
<1>1. /\ UNCHANGED <<entries, question, cancelled, sweep, kept, raced>> /\ pc[p] = "collecting"
      /\ pc' = [pc EXCEPT ![p] = "searching"]
      /\ waiting' = [waiting EXCEPT ![p] = Nobody]
      /\ got' = [got EXCEPT ![p] = 0] /\ failed' = [failed EXCEPT ![p] = 0]
      /\ part' = [part EXCEPT ![p] = @ + 1]
  BY DEF Collected, Becomes
<1>2. /\ pc' \in [Callers -> {"idle", "looking", "removing", "searching", "collecting"}]
      /\ pc'[p] = "searching" /\ \A q \in Callers \ {p} : pc'[q] = pc[q]
  BY <1>1 DEF SearchTyped
<1>3. /\ waiting' \in [Callers -> [Tries -> Nat]] /\ waiting'[p] = Nobody
      /\ \A q \in Callers \ {p} : waiting'[q] = waiting[q]
  BY <1>1, SearchFacts DEF SearchTyped
<1>4. /\ got' \in [Callers -> Nat] /\ failed' \in [Callers -> Nat] /\ part' \in [Callers -> Nat]
      /\ got'[p] = 0 /\ failed'[p] = 0 /\ part'[p] = part[p] + 1
      /\ \A q \in Callers \ {p} :
            got'[q] = got[q] /\ failed'[q] = failed[q] /\ part'[q] = part[q]
  BY <1>1 DEF SearchTyped
<1>5. /\ pierced' = [pierced EXCEPT ![p] = @ /\ AllFailed(p)]
      /\ silent' = [silent EXCEPT ![p] = @ \/ waiting[p] # Nobody]
  BY DEF Collected
<1>6. /\ pierced' \in [Callers -> BOOLEAN] /\ silent' \in [Callers -> BOOLEAN]
      /\ pierced'[p] = (pierced[p] /\ AllFailed(p))
      /\ silent'[p] = (silent[p] \/ waiting[p] # Nobody)
      /\ \A q \in Callers \ {p} : pierced'[q] = pierced[q] /\ silent'[q] = silent[q]
  BY <1>5 DEF SearchTyped
<1>7. found' \in [Callers -> BOOLEAN] /\ someFailed' \in [Callers -> BOOLEAN]
  BY DEF Collected, SearchTyped
<1>8. silent'[p] => ~pierced'[p]
  <2> SUFFICES ASSUME silent'[p], pierced'[p] PROVE FALSE
    OBVIOUS
  <2>1. PICK a \in Courses : Accounts(p, a)
    BY <1>1 DEF CallsSound, CallSound
  <2>2. failed[p] = Engines /\ pierced[p]
    BY <1>6 DEF AllFailed
  <2>3. At(a, Failed) = Parties
    BY <2>1, <2>2, AllAtOne DEF Accounts
  <2>4. \A c : c # Failed => At(a, c) = {}
    BY <2>3 DEF At
  <2>5. Failed # Heard /\ \A u \in Tries : u # Failed
    BY SearchFacts DEF Failed, Heard, Tries
  <2>6. \A u \in Tries : waiting[p][u] = 0
    BY <2>1, <2>4, <2>5, FS_EmptySet DEF Accounts
  <2>7. waiting[p] = Nobody
    BY <2>6 DEF SearchTyped, Nobody
  <2> QED
    BY <1>6, <2>1, <2>2, <2>4, <2>5, <2>7 DEF Accounts
<1>9. SearchTyped'
  BY <1>1, <1>2, <1>3, <1>4, <1>6, <1>7 DEF SearchTyped, StoreTypeOK
<1>10. part'[p] \in 0..Parts[question[p]] /\ question[p] # NoValue
  BY <1>1, <1>4, FileIsPath, SearchFacts DEF CallsSound, CallSound, SearchTyped
<1>11. CallSound(p)'
  BY <1>1, <1>2, <1>3, <1>4, <1>8, <1>10, SearchFacts DEF CallSound
<1>12. \A q \in Callers \ {p} : Still(q)
  BY <1>1, <1>2, <1>3, <1>4, <1>6 DEF Still
<1> QED
  BY <1>9, <1>11, <1>12 DEF CallEffect

\* The store's operations leave entries in it.
LEMMA StoreKept ==
    ASSUME StoreTypeOK
    PROVE  /\ \A f : Remove(f) => StoreTypeOK'
           /\ \A k, v : v \in Values /\ Set(k, v) => StoreTypeOK'
           /\ ClearSession => StoreTypeOK'
           /\ \A f \in Paths : Age(f) => StoreTypeOK'
<1>1. entries \in [Paths -> [is: States, value: Values \cup {NoValue}]]
  BY DEF StoreTypeOK
<1>2. None \in [is: States, value: Values \cup {NoValue}]
  BY DEF None, States
<1>3. ASSUME NEW f, Remove(f) PROVE StoreTypeOK'
  BY <1>1, <1>2, <1>3 DEF StoreTypeOK, Remove
<1>4. ASSUME NEW k, NEW v \in Values, Set(k, v) PROVE StoreTypeOK'
  <2>1. /\ [is |-> "fresh", value |-> v] \in [is: States, value: Values \cup {NoValue}]
        /\ [is |-> "broken", value |-> NoValue] \in [is: States, value: Values \cup {NoValue}]
    BY <1>4 DEF States
  <2>2. \E e \in [is: States, value: Values \cup {NoValue}] :
           entries' = [entries EXCEPT ![PathOf[k]] = e]
    BY <1>4, <2>1 DEF Set
  <2> QED
    BY <1>1, <2>2 DEF StoreTypeOK
<1>5. ASSUME ClearSession PROVE StoreTypeOK'
  BY <1>2, <1>5 DEF StoreTypeOK, ClearSession
<1>6. ASSUME NEW f \in Paths, Age(f) PROVE StoreTypeOK'
  <2> DEFINE aged == [entries[f] EXCEPT !.is = IF entries[f].is = "fresh" THEN "old" ELSE "expired"]
  <2>1. aged \in [is: States, value: Values \cup {NoValue}]
    BY <1>1 DEF States
  <2>2. entries' = [entries EXCEPT ![f] = aged]
    BY <1>1, <1>6 DEF Age
  <2> HIDE DEF aged
  <2> QED
    BY <1>1, <2>1, <2>2 DEF StoreTypeOK
<1> QED
  BY <1>3, <1>4, <1>5, <1>6

\* A look into the store leaves the other callers still;
LEMMA LookEffect ==
    ASSUME SearchTyped, CallsSound, NEW p \in Callers, Look(p) PROVE CallEffect(p)
<1>1. UNCHANGED <<entries, sweep, kept, raced>> /\ pc[p] = "looking" /\ StoreTypeOK'
  BY DEF Look, SearchTyped, StoreTypeOK
<1>2. CASE Ends(p)
  BY <1>1, <1>2, EndTyped DEF CallEffect, SearchTyped
<1>3. CASE UNCHANGED <<callVars, cancelled>> /\ \E s \in {"removing", "searching"} : Becomes(p, s)
  <2>1. PICK s \in {"removing", "searching"} : Becomes(p, s)
    BY <1>3
  <2> QED
    BY <1>1, <1>3, <2>1, CourseEffect
<1> QED
  BY <1>2, <1>3 DEF Look

\* so does a removal,
LEMMA RemoveEffect ==
    ASSUME SearchTyped, CallsSound, NEW p \in Callers, RemoveFound(p) PROVE CallEffect(p)
<1>1. StoreTypeOK'
  BY StoreKept DEF RemoveFound, SearchTyped
<1> QED
  BY <1>1, CourseEffect DEF RemoveFound

\* and so does the end of a call.
LEMMA EndEffect ==
    ASSUME SearchTyped, CallsSound, NEW p \in Callers, EndEmpty(p) \/ EndFound(p)
    PROVE  CallEffect(p)
<1>1. Ends(p) /\ pc[p] = "searching" /\ sweep' = sweep
  BY DEF EndEmpty, EndFound, Done
<1>2. StoreTypeOK' /\ kept' \subseteq Paths /\ raced' \subseteq Paths
  <2>1. CASE EndEmpty(p)
    BY <2>1 DEF EndEmpty, SearchTyped, StoreTypeOK
  <2>2. CASE EndFound(p)
    <3>1. question[p] \in Values /\ File(p) \in Paths
      BY <1>1, FileIsPath, SearchAssumption
    <3>2. StoreTypeOK'
      BY <2>2, <3>1, StoreKept DEF EndFound, SearchTyped
    <3>3. kept' \subseteq kept \cup {File(p)} /\ raced' \subseteq raced \cup {File(p)}
      BY <2>2 DEF EndFound
    <3> QED
      BY <3>1, <3>2, <3>3 DEF SearchTyped
  <2> QED
    BY <2>1, <2>2
<1> QED
  BY <1>1, <1>2, EndTyped DEF CallEffect, SearchTyped

\* What else happens leaves every call still.
LEMMA OtherEffect ==
    ASSUME SearchTyped, CallsSound, Shelved,
           SweepBegins \/ SweepReads \/ SweepRemoves \/ Clear \/ \E f \in Paths : TimePasses(f)
    PROVE  SearchTyped' /\ \A q \in Callers : Still(q)
<1>1. UNCHANGED <<pc, callVars, cancelled>>
  BY DEF SweepBegins, SweepReads, SweepRemoves, Clear, TimePasses
<1>2. UNCHANGED <<pc, question, part, waiting, got, failed, found, someFailed, pierced,
                  cancelled, silent>>
  BY <1>1 DEF callVars, partVars
<1>3. StoreTypeOK'
  BY StoreKept DEF SweepBegins, SweepReads, SweepRemoves, Clear, TimePasses, SearchTyped,
                   StoreTypeOK
<1>4. sweep' \in Sweeps
  <2>1. NoSweep \in Sweeps
    BY DEF NoSweep, Sweeps
  <2>2. CASE SweepBegins
    BY <2>2 DEF SweepBegins, Sweeps, Listed
  <2>3. CASE SweepReads
    <3>1. PICK f \in sweep.names :
             sweep' \in {NoSweep, [names |-> sweep.names \ {f}, at |-> f, step |-> SweepStep(f)]}
      BY <2>3 DEF SweepReads
    <3>2. sweep.names \subseteq Paths /\ SweepStep(f) \in {"idle", "reading", "removing", "deleting"}
      BY DEF SearchTyped, Sweeps, SweepStep
    <3> QED
      BY <2>1, <3>1, <3>2 DEF Sweeps
  <2>4. CASE SweepRemoves
    <3>1. sweep' \in {NoSweep, [sweep EXCEPT !.step = "deleting"], [sweep EXCEPT !.step = "reading"]}
      BY <2>4 DEF SweepRemoves
    <3> QED
      BY <2>1, <3>1 DEF SearchTyped, Sweeps
  <2>5. CASE Clear \/ \E f \in Paths : TimePasses(f)
    BY <2>5 DEF Clear, TimePasses, SearchTyped
  <2> QED
    BY <2>2, <2>3, <2>4, <2>5
<1>5. kept' \subseteq Paths /\ raced' \subseteq Paths
  BY DEF SweepBegins, SweepReads, SweepRemoves, Clear, TimePasses, SearchTyped
<1> QED
  BY <1>2, <1>3, <1>4, <1>5 DEF SearchTyped, Still

\* Every step leaves the calls sound.
LEMMA CallsStep ==
    ASSUME SearchInv, SearchNext PROVE SearchTyped' /\ CallsSound'
<1>1. SearchTyped /\ CallsSound /\ Shelved /\ \A q \in Callers : CallSound(q)
  BY DEF SearchInv, CallsSound
<1>2. ASSUME NEW p \in Callers, CallEffect(p) PROVE SearchTyped' /\ CallsSound'
  BY <1>1, <1>2, StillSound DEF CallEffect, CallsSound
<1>3. ASSUME NEW p \in Callers, NEW k \in Keys, Ask(p, k) PROVE SearchTyped' /\ CallsSound'
  BY <1>1, <1>2, <1>3, AskEffect
<1>4. ASSUME NEW p \in Callers, Cancel(p) PROVE SearchTyped' /\ CallsSound'
  BY <1>1, <1>2, <1>4, CancelEffect
<1>5. ASSUME NEW p \in Callers, NEW t \in Tries, Try(p, t) PROVE SearchTyped' /\ CallsSound'
  BY <1>1, <1>2, <1>5, TryEffect
<1>6. ASSUME NEW p \in Callers, Step(p) PROVE SearchTyped' /\ CallsSound'
  <2>1. CASE Look(p)
    BY <1>1, <1>2, <2>1, LookEffect
  <2>2. CASE RemoveFound(p)
    BY <1>1, <1>2, <2>2, RemoveEffect
  <2>3. CASE AskEngines(p)
    BY <1>1, <1>2, <2>3, AskEnginesEffect
  <2>4. CASE Collect(p) \/ Deadline(p)
    BY <1>1, <1>2, <2>4, CollectedEffect DEF Collect, Deadline
  <2>5. CASE EndEmpty(p) \/ EndFound(p)
    BY <1>1, <1>2, <2>5, EndEffect
  <2> QED
    BY <1>6, <2>1, <2>2, <2>3, <2>4, <2>5 DEF Step
<1>7. CASE SweepBegins \/ SweepReads \/ SweepRemoves \/ Clear \/ \E f \in Paths : TimePasses(f)
  BY <1>1, <1>7, OtherEffect, StillSound DEF CallsSound
<1> QED
  BY <1>3, <1>4, <1>5, <1>6, <1>7 DEF SearchNext

-----------------------------------------------------------------------------
\* The shelf: what becomes of the stored files.

\* The files a step decides to remove are not fresh.
LEMMA ShelvedKept ==
    ASSUME SearchTyped, CallsSound, Shelved, entries' = entries, kept' = kept, raced' = raced,
           \A f \in Doomed' : f \in Doomed \/ entries[f].is # "fresh",
           sweep'.step \in {"removing", "deleting"} => sweep'.at \in Paths
    PROVE  Shelved'
  BY DEF Shelved

\* A caller decides to remove only what it found expired or old.
LEMMA CallShelved ==
    ASSUME SearchTyped, CallsSound, Shelved, NEW p \in Callers,
           \/ \E k \in Keys : Ask(p, k)
           \/ Cancel(p) \/ Look(p) \/ AskEngines(p) \/ Collected(p) \/ EndEmpty(p)
           \/ \E t \in Tries : Try(p, t)
    PROVE  Shelved'
<1>1. UNCHANGED <<entries, sweep, kept, raced>>
  BY DEF Ask, Cancel, Look, AskEngines, Collected, EndEmpty, Try
<1>2. ASSUME NEW q \in Callers, pc'[q] = "removing"
      PROVE  \/ pc[q] = "removing" /\ question'[q] = question[q]
             \/ question'[q] = question[q] /\ entries[File(q)].is # "fresh"
  <2>1. CASE \E k \in Keys : Ask(p, k)
    BY <1>2, <2>1 DEF Ask, Becomes, SearchTyped
  <2>2. CASE Cancel(p)
    BY <1>2, <2>2 DEF Cancel, callVars
  <2>3. CASE Look(p)
    BY <1>2, <2>3 DEF Look, Becomes, Ends, SearchTyped, callVars, Servable, Expired, Readable
  <2>4. CASE AskEngines(p)
    BY <1>2, <2>4 DEF AskEngines, Becomes, SearchTyped
  <2>5. CASE Collected(p)
    BY <1>2, <2>5 DEF Collected, Becomes, SearchTyped
  <2>6. CASE EndEmpty(p)
    BY <1>2, <2>6 DEF EndEmpty, Ends, Becomes, SearchTyped
  <2>7. CASE \E t \in Tries : Try(p, t)
    BY <1>2, <2>7 DEF Try
  <2> QED
    BY <2>1, <2>2, <2>3, <2>4, <2>5, <2>6, <2>7
<1>3. \A f \in Doomed' : f \in Doomed \/ entries[f].is # "fresh"
  BY <1>1, <1>2 DEF Doomed, File
<1>4. sweep'.step \in {"removing", "deleting"} => sweep'.at \in Paths
  BY <1>1 DEF Shelved
<1> QED
  BY <1>1, <1>3, <1>4, ShelvedKept

\* A removal hits a file that was to be removed.
LEMMA RemoveShelved ==
    ASSUME SearchTyped, CallsSound, Shelved, NEW p \in Callers, RemoveFound(p) PROVE Shelved'
<1>1. /\ UNCHANGED <<question, sweep, kept, raced>> /\ pc[p] = "removing"
      /\ entries' = [entries EXCEPT ![File(p)] = None]
      /\ pc' = [pc EXCEPT ![p] = "searching"]
  BY DEF RemoveFound, Remove, Becomes, callVars
<1>2. File(p) \in Doomed
  BY <1>1 DEF Doomed
<1>3. Doomed' \subseteq Doomed
  BY <1>1 DEF Doomed, File, SearchTyped
<1>4. \A f \in kept \ raced : entries'[f] = entries[f]
  BY <1>1, <1>2 DEF Shelved, SearchTyped, StoreTypeOK
<1> QED
  BY <1>1, <1>3, <1>4 DEF Shelved

\* What is stored now is fresh; if its removal was decided, it is marked.
LEMMA FoundShelved ==
    ASSUME SearchTyped, CallsSound, Shelved, NEW p \in Callers, EndFound(p) PROVE Shelved'
<1>1. /\ sweep' = sweep /\ pc[p] = "searching"
      /\ pc' = [pc EXCEPT ![p] = "idle"] /\ question' = [question EXCEPT ![p] = NoValue]
      /\ kept' = IF entries'[File(p)].is = "fresh" THEN kept \cup {File(p)} ELSE kept \ {File(p)}
      /\ raced' = IF File(p) \in Doomed THEN raced \cup {File(p)} ELSE raced \ {File(p)}
  BY DEF EndFound, Done, Ends, Becomes
<1>2. \A f \in Paths : f # File(p) => entries'[f] = entries[f]
  BY DEF EndFound, Set, File, SearchTyped, StoreTypeOK
<1>3. Doomed' = Doomed
  BY <1>1 DEF Doomed, File, SearchTyped
<1>4. ASSUME NEW f \in kept' \ raced' PROVE entries'[f].is = "fresh" /\ f \notin Doomed'
  <2>1. CASE f = File(p)
    BY <1>1, <1>3, <1>4, <2>1
  <2>2. CASE f # File(p)
    <3>1. f \in kept \ raced
      BY <1>1, <1>4, <2>2
    <3> QED
      BY <1>2, <1>3, <2>2, <3>1 DEF Shelved, SearchTyped
  <2> QED
    BY <2>1, <2>2
<1> QED
  BY <1>1, <1>4 DEF Shelved

\* A sweep decides to remove only what is not fresh, and removes what it decided.
LEMMA SweepShelved ==
    ASSUME SearchTyped, CallsSound, Shelved, SweepBegins \/ SweepReads \/ SweepRemoves
    PROVE  Shelved'
<1>1. UNCHANGED <<pc, question, kept, raced>>
  BY DEF SweepBegins, SweepReads, SweepRemoves, callVars
<1>2. CASE SweepBegins
  <2>1. entries' = entries /\ sweep'.step = "reading"
    BY <1>2 DEF SweepBegins
  <2> QED
    BY <1>1, <2>1, ShelvedKept DEF Doomed, File
<1>3. CASE SweepReads
  <2>1. PICK f \in sweep.names :
           sweep' \in {NoSweep, [names |-> sweep.names \ {f}, at |-> f, step |-> SweepStep(f)]}
    BY <1>3 DEF SweepReads
  <2>2. entries' = entries /\ f \in Paths
    BY <1>3 DEF SweepReads, SearchTyped, Sweeps
  <2>3. sweep'.step \in {"removing", "deleting"} => sweep'.at = f /\ entries[f].is # "fresh"
    BY <2>1 DEF NoSweep, SweepStep, Expired, Servable
  <2> QED
    BY <1>1, <2>2, <2>3, ShelvedKept DEF Doomed, File
<1>4. CASE SweepRemoves
  <2>1. /\ entries' = [entries EXCEPT ![sweep.at] = None]
        /\ sweep' \in {NoSweep, [sweep EXCEPT !.step = "deleting"], [sweep EXCEPT !.step = "reading"]}
        /\ sweep.step \in {"removing", "deleting"}
    BY <1>4 DEF SweepRemoves, Remove
  <2>2. sweep.at \in Doomed /\ sweep.at \in Paths
    BY <2>1 DEF Doomed, Shelved
  <2>3. sweep'.step \in {"removing", "deleting"} => sweep'.at = sweep.at
    BY <2>1 DEF NoSweep, SearchTyped, Sweeps
  <2>4. Doomed' \subseteq Doomed
    BY <1>1, <2>2, <2>3 DEF Doomed, File
  <2>5. \A f \in kept \ raced : entries'[f] = entries[f]
    BY <2>1, <2>2 DEF Shelved, SearchTyped, StoreTypeOK
  <2> QED
    BY <1>1, <2>2, <2>3, <2>4, <2>5 DEF Shelved
<1> QED
  BY <1>2, <1>3, <1>4

\* Time and the end of the session take a file from those that must be there.
LEMMA TimeShelved ==
    ASSUME SearchTyped, CallsSound, Shelved, Clear \/ \E f \in Paths : TimePasses(f)
    PROVE  Shelved'
<1>1. UNCHANGED <<pc, question, sweep>>
  BY DEF Clear, TimePasses, callVars
<1>2. Doomed' = Doomed
  BY <1>1 DEF Doomed, File
<1>3. CASE Clear
  BY <1>1, <1>3 DEF Clear, Shelved
<1>4. ASSUME NEW f \in Paths, TimePasses(f) PROVE Shelved'
  <2>1. /\ kept' = kept \ {f} /\ raced' = raced
        /\ \A g \in Paths : g # f => entries'[g] = entries[g]
    BY <1>4 DEF TimePasses, Age, SearchTyped, StoreTypeOK
  <2> QED
    BY <1>1, <1>2, <2>1 DEF Shelved, SearchTyped
<1> QED
  BY <1>3, <1>4

\* Every step leaves the shelf sound.
LEMMA ShelvedStep == ASSUME SearchInv, SearchNext PROVE Shelved'
<1>1. SearchTyped /\ CallsSound /\ Shelved
  BY DEF SearchInv
<1>2. ASSUME NEW p \in Callers, Step(p) PROVE Shelved'
  BY <1>1, <1>2, CallShelved, RemoveShelved, FoundShelved DEF Step, Collect, Deadline
<1> QED
  BY <1>1, <1>2, CallShelved, SweepShelved, TimeShelved DEF SearchNext

-----------------------------------------------------------------------------
\* The invariant is inductive.
LEMMA SearchStep == SearchInv /\ [SearchNext]_searchVars => SearchInv'
<1> SUFFICES ASSUME SearchInv, [SearchNext]_searchVars PROVE SearchInv'
  OBVIOUS
<1>1. CASE SearchNext
  BY <1>1, CallsStep, ShelvedStep DEF SearchInv
<1>2. CASE UNCHANGED searchVars
  <2>1. /\ \A q \in Callers : Still(q)
        /\ UNCHANGED <<entries, pc, question, part, waiting, got, failed, found, someFailed, pierced,
                       cancelled, silent, sweep, kept, raced>>
    BY <1>2 DEF searchVars, callVars, partVars, Still
  <2>2. SearchTyped' /\ Shelved'
    BY <2>1 DEF SearchInv, SearchTyped, StoreTypeOK, Shelved, Doomed, File
  <2> QED
    BY <2>1, <2>2, StillSound DEF SearchInv, CallsSound
<1> QED
  BY <1>1, <1>2

\* The searches of any number of callers, engines, tries and files keep the invariant.
THEOREM SearchesSound == SearchSpec => []SearchInv
  BY SearchStarts, SearchStep, PTL DEF SearchSpec

\* The types follow: engines are counted, so no count exceeds their number.
LEMMA SearchTypes == SearchInv => SearchTypeOK
<1> SUFFICES ASSUME SearchInv PROVE SearchTypeOK
  OBVIOUS
<1>1. SearchTyped /\ CallsSound
  BY DEF SearchInv
<1>2. ASSUME NEW p \in Callers
      PROVE  /\ question[p] = NoValue <=> pc[p] = "idle"
             /\ part[p] \in 0..(IF pc[p] = "idle" THEN 0 ELSE Parts[question[p]])
             /\ waiting[p] \in [Tries -> 0..Engines]
             /\ got[p] \in 0..(MaxResults + PerEngine - 1)
             /\ failed[p] \in 0..Engines
  <2>1. /\ question[p] = NoValue <=> pc[p] = "idle"
        /\ part[p] \in 0..(IF pc[p] = "idle" THEN 0 ELSE Parts[question[p]])
        /\ got[p] <= MaxResults + PerEngine - 1 /\ got[p] \in Nat
    BY <1>1 DEF CallsSound, CallSound, SearchTyped
  <2>2. (\A t \in Tries : waiting[p][t] \in 0..Engines) /\ failed[p] \in 0..Engines
    <3>1. CASE pc[p] = "collecting"
      <4>1. PICK a \in Courses : Accounts(p, a)
        BY <1>1, <3>1 DEF CallsSound, CallSound
      <4> QED
        BY <4>1, EnginesCounted DEF Accounts
    <3>2. CASE pc[p] # "collecting"
      BY <1>1, <3>2, SearchFacts DEF CallsSound, CallSound
    <3> QED
      BY <3>1, <3>2
  <2>3. waiting[p] \in [Tries -> 0..Engines]
    BY <1>1, <2>2 DEF SearchTyped
  <2>4. got[p] \in 0..(MaxResults + PerEngine - 1)
    BY <2>1, SearchFacts
  <2> QED
    BY <2>1, <2>2, <2>3, <2>4
<1>3. sweep.names \subseteq Paths /\ sweep.at \in Paths \cup {NoValue}
      /\ sweep.step \in {"idle", "reading", "removing", "deleting"}
  BY <1>1 DEF SearchTyped, Sweeps
<1> QED
  BY <1>1, <1>2, <1>3 DEF SearchTyped, SearchTypeOK

\* A stored result stays until it ages or is cleared, unless its removal was decided before
\* it was stored (kvstore_fs.go:99, web_search.go:724).
THEOREM ShelfKept == SearchSpec => []ShelfSound
<1>1. SearchInv => ShelfSound
  BY SearchTypes DEF SearchInv, Shelved, ShelfSound, ShelvedIsThere
<1> QED
  BY <1>1, SearchesSound, PTL

\* That all engines failed is told only if each of them reported an error for each part
\* (web_search.go:390, 493).
THEOREM PiercedTold == SearchSpec => []PiercedIsTrue
<1>1. SearchInv => PiercedIsTrue
  <2> SUFFICES ASSUME SearchInv, NEW p \in Callers, Done(p), Reason(p) = "pierced" PROVE ~silent[p]
    BY DEF PiercedIsTrue
  <2>1. pierced[p]
    BY DEF Reason, SearchInv, SearchTyped
  <2> QED
    BY <2>1 DEF Done, SearchInv, CallsSound, CallSound
<1> QED
  BY <1>1, SearchesSound, PTL
=============================================================================
