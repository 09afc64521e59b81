------------------------------ MODULE TaskGraph ------------------------------
(***************************************************************************)
(* The planning tasks of one session (tools/tasks.go, task_update.go,      *)
(* task_create.go, team_create.go, team_delete.go), kept one by one in the *)
(* session's key-value store: their status and the edges between them,     *)
(* each written on both of its ends, and the teams that own some of them.  *)
(*                                                                         *)
(* The tools of a session run one after the other.  A TaskUpdate reads its *)
(* task, works on that copy, writes the other end of every new edge as it  *)
(* goes, and the copy at the end; a step that fails, or the end of the     *)
(* process, leaves what was written.                                       *)
(***************************************************************************)
EXTENDS Naturals, Sequences

CONSTANTS
    Ids,         \* ids TaskCreate draws
    Teams,       \* team names
    TeamSize,    \* bound on the tasks of a team
    Asked,       \* statuses a TaskUpdate may ask for
    Edits,       \* lists of edges a TaskUpdate may add, in call order
    StoreFails   \* whether a write may fail, and the process end, at any moment

TeamTask(team, i) == <<team, i>>
TeamTasks(team)   == {TeamTask(team, i) : i \in 1..TeamSize}
AllIds            == Ids \cup UNION {TeamTasks(team) : team \in Teams}

Statuses == {"pending", "in_progress", "completed", "cancelled"}

ASSUME ConstantsAssumption ==
    TeamSize \in Nat /\ Asked \subseteq Statuses /\ StoreFails \in BOOLEAN

(* validTransitions                                                        *)
ValidTransition(old, new) ==
    \/ old = "pending" /\ new \in {"in_progress", "completed", "cancelled"}
    \/ old = "in_progress" /\ new \in {"completed", "cancelled"}

VARIABLES
    task,    \* the stored task of each id; status "none" is no task
    teams,   \* the stored teams
    call     \* the TaskUpdate under way

vars == <<task, teams, call>>

NoTask   == [status |-> "none", blocks |-> {}, blockedBy |-> {}]
NewTask  == [NoTask EXCEPT !.status = "pending"]
NoCall   == [of |-> "nothing", copy |-> NoTask, todo |-> <<>>]

Exists(id) == task[id].status # "none"
Idle       == call = NoCall

Init ==
    /\ task = [id \in AllIds |-> NoTask]
    /\ teams = {}
    /\ call = NoCall

-----------------------------------------------------------------------------
(* A set of tasks that has what its tasks block, as the store has it.      *)
Closed(ids) == \A i \in ids : task[i].blocks \subseteq ids

(* What canReach finds: id, and the tasks it blocks, directly or through   *)
(* others.  They are in every closed set that has id.                      *)
Blocked(id) ==
    {to \in AllIds :
        \A ids \in SUBSET AllIds : id \in ids /\ Closed(ids) => to \in ids}

(* Mutant: only direct edges are looked at.                                *)
AdjacentOnly(from, to) == to \in {from} \cup task[from].blocks

(* canReach compares a task with the goal before it reads its edges.       *)
CanReach(from, to) == from = to \/ to \in Blocked(from)

(* TaskCreate draws an id nobody has.                                      *)
TaskCreate(id) ==
    /\ Idle
    /\ ~Exists(id)
    /\ task' = [task EXCEPT ![id] = NewTask]
    /\ UNCHANGED <<teams, call>>

(* Mutant: any status may follow any other.                                *)
AnyStatus(old, new) == TRUE

(* The status a TaskUpdate may set; asking for the present one is no       *)
(* change.                                                                 *)
Allowed(old, new) == new = old \/ ValidTransition(old, new)

(* TaskUpdate reads the task, checks the status and starts on the edges.   *)
(* A caller knows the ids TaskCreate returned; those of team tasks can be  *)
(* named before they exist.                                                *)
BeginUpdate(id, status, edges) ==
    /\ Idle
    /\ Exists(id)
    /\ \A n \in DOMAIN edges : edges[n].id \in Ids => Exists(edges[n].id)
    /\ Allowed(task[id].status, status)
    /\ status # task[id].status \/ edges # <<>>
    /\ call' = [of |-> id, copy |-> [task[id] EXCEPT !.status = status],
                todo |-> edges]
    /\ UNCHANGED <<task, teams>>

(* Mutant: the other end is written without reading it.                    *)
FreshEnd(end) ==
    IF Exists(end) THEN [task EXCEPT ![end] = [NewTask EXCEPT !.blockedBy = {call.of}]]
                   ELSE task

(* Mutant: the other end is written whether it exists or not.              *)
EndUnread(end) == [task EXCEPT ![end].blockedBy = @ \cup {call.of}]

(* The other end of a blocks-edge, written when that task exists.          *)
WithBlockedBy(end) ==
    IF Exists(end) THEN [task EXCEPT ![end].blockedBy = @ \cup {call.of}] ELSE task

(* The other end of a blockedBy-edge.                                      *)
WithBlocks(end) ==
    IF Exists(end) THEN [task EXCEPT ![end].blocks = @ \cup {call.of}] ELSE task

(* One edge of the call: refused when the store has a path the other way,  *)
(* which ends the call; else it is put in the copy and its other end is    *)
(* stored.  A failure to store that end is logged and passed over.         *)
AddEdge(closes, copy, stored) ==
    /\ \/ closes /\ call' = NoCall /\ task' = task
       \/ /\ ~closes
          /\ call' = [call EXCEPT !.copy = copy, !.todo = Tail(@)]
          /\ task' = stored \/ (StoreFails /\ task' = task)
    /\ UNCHANGED teams

Due(kind) == ~Idle /\ call.todo # <<>> /\ Head(call.todo).kind = kind

AddBlocks ==
    LET end == Head(call.todo).id
    IN  /\ Due("blocks")
        /\ AddEdge(CanReach(end, call.of),
                   [call.copy EXCEPT !.blocks = @ \cup {end}], WithBlockedBy(end))

AddBlockedBy ==
    LET end == Head(call.todo).id
    IN  /\ Due("blockedBy")
        /\ AddEdge(CanReach(call.of, end),
                   [call.copy EXCEPT !.blockedBy = @ \cup {end}], WithBlocks(end))

(* The copy replaces the stored task.                                      *)
SaveTask ==
    /\ ~Idle /\ call.todo = <<>>
    /\ \/ task' = [task EXCEPT ![call.of] = call.copy]
       \/ StoreFails /\ task' = task
    /\ call' = NoCall
    /\ UNCHANGED teams

(* The process ends in the middle of a call.                               *)
Crash ==
    /\ StoreFails
    /\ ~Idle
    /\ call' = NoCall
    /\ UNCHANGED <<task, teams>>

(* TeamCreate registers the team, then creates one task for each           *)
(* description under an id made of the team's name and a number; a task    *)
(* that cannot be created leaves its number to the next.                   *)
TeamCreate(team, n) ==
    /\ Idle
    /\ teams' = teams \cup {team}
    /\ \E k \in 0..n :
          /\ StoreFails \/ k = n
          /\ task' = [id \in AllIds |->
                        IF id \in {TeamTask(team, i) : i \in 1..k}
                        THEN NewTask ELSE task[id]]
    /\ UNCHANGED call

TeamDelete(team) ==
    /\ Idle
    /\ team \in teams
    /\ teams' = teams \ {team}
    /\ UNCHANGED <<task, call>>

Next ==
    \/ \E id \in Ids : TaskCreate(id)
    \/ \E id \in AllIds, edges \in Edits :
          \E status \in Asked \cup {task[id].status} : BeginUpdate(id, status, edges)
    \/ AddBlocks
    \/ AddBlockedBy
    \/ SaveTask
    \/ Crash
    \/ \E team \in Teams : \/ \E n \in 0..TeamSize : TeamCreate(team, n)
                           \/ TeamDelete(team)

Spec == Init /\ [][Next]_vars

-----------------------------------------------------------------------------
\* Properties.

Record == [status : Statuses \cup {"none"}, blocks : SUBSET AllIds,
           blockedBy : SUBSET AllIds]
Edge   == [kind : {"blocks", "blockedBy"}, id : AllIds]

(* A task that was never created has no edges.                             *)
Absent == \A id \in AllIds : ~Exists(id) => task[id] = NoTask

(* Stored tasks, teams and the call under way have the shape of Task, Team *)
(* and the parameters of TaskUpdate, and no update makes a task.           *)
TypeOK ==
    /\ Absent
    /\ task \in [AllIds -> Record]
    /\ teams \subseteq Teams
    /\ call = NoCall \/ call \in [of : AllIds, copy : Record, todo : Seq(Edge)]

(* No task waits for itself: the stored blocks-edges have no cycle,        *)
(* whatever calls failed half way.                                         *)
BlocksAcyclic ==
    \A id \in AllIds : \A next \in task[id].blocks : id \notin Blocked(next)

(* What is stored is a graph of tasks nobody waits in for ever.            *)
GraphSound == TypeOK /\ BlocksAcyclic

(* A team is created, under a new name or one that was used before: its    *)
(* tasks start afresh.                                                     *)
TeamStarts == \E team \in Teams, n \in 0..TeamSize : TeamCreate(team, n)

(* A finished task stays finished and nothing goes back to pending: an     *)
(* update working on its copy never undoes another one.                    *)
StatusForward ==
    [][\A id \in AllIds :
         Exists(id) => \/ task'[id].status = task[id].status
                       \/ ValidTransition(task[id].status, task'[id].status)
                       \/ TeamStarts]_vars

(* No write loses an edge an earlier call recorded.                        *)
EdgesKept ==
    [][\A id \in AllIds : \/ /\ task[id].blocks \subseteq task'[id].blocks
                             /\ task[id].blockedBy \subseteq task'[id].blockedBy
                          \/ TeamStarts]_vars
=============================================================================
