------------------------------ MODULE SubAgents ------------------------------
(***************************************************************************)
(* The sub-agent dispatcher of the runtime (subAgentManager,               *)
(* agents/subagent.go): a main session submits tasks; each submission      *)
(* finds, recovers or creates a sub-agent session, registers a handle in   *)
(* the control plane and leaves a goroutine behind that runs the task and  *)
(* settles the handle.                                                     *)
(*                                                                         *)
(* A task handle is one submission.  pc[t] is where its goroutine stands:  *)
(* first inside Submit (in the caller's goroutine), then inside runTask.   *)
(* Every critical section of the manager's mutex m.mu is one step; steps   *)
(* in between touch nothing shared.                                        *)
(*                                                                         *)
(* A time stamp is kept as its place in the order of the stamps: 0 is Go's *)
(* zero time, and stamping a session puts it last.                         *)
(***************************************************************************)
EXTENDS Naturals, FiniteSets

CONSTANTS
    Tasks,        \* submissions (also the bound on their number)
    Sessions,     \* identifiers of sub-agent sessions
    Mains,        \* main sessions that submit
    Texts,        \* task texts
    Profiles,     \* an (agent name, project dir, sponsor name) triple
    ExplicitIds,  \* session ids a caller may name explicitly
    SlotCap,      \* capacity of subagentSem (20)
    FailLimit,    \* subagentIterationFailLimit (3)
    AnchorLimit,  \* failedTaskAnchorLimit (128)
    StoreFails,   \* whether loading or creating a session may fail
    Panics,       \* whether host callbacks may panic
    MaxRestarts,  \* bound on process restarts
    None,         \* no session, no task
    Continue,     \* the continuation prompt
    Outcomes      \* the ways a run may end

ASSUME ConstantsAssumption ==
    /\ ExplicitIds \subseteq Sessions
    /\ SlotCap \in Nat /\ FailLimit \in Nat /\ AnchorLimit \in Nat
    /\ MaxRestarts \in Nat
    /\ StoreFails \in BOOLEAN /\ Panics \in BOOLEAN
    /\ None \notin Sessions \cup Tasks \cup Profiles
    /\ Continue \notin Texts
    /\ "failed" \in Outcomes
    /\ Outcomes \subseteq {"answered", "max_iterations", "failed"}

VARIABLES
    pc,           \* where the goroutine of each submission stands
    req,          \* the request: main session, text, profile
    want,         \* the session a submission asked for, or found in the store
    sess,         \* the session it was given
    ask,          \* the text the sub-agent is asked
    outcome,      \* how its run ended
    cancelled,    \* its run's context was cancelled
    registered,   \* m.states: sessions in memory
    spawning,     \* claim flag of each session
    lastUsedAt,   \* time of the last run on it
    streak,       \* iterationFailStreak
    lock,         \* holder of the session's mutex
    sponsored,    \* stop handles: main session -> sub session -> its run
    anchors,      \* failedTaskAnchors
    slots,        \* tasks holding the semaphore
    board,        \* the control plane's entry for each handle
    stored,       \* profile of each session in the session store, or None
    activity,     \* LastActivityAt of each stored session
    history,      \* task texts in each stored session's messages
    restarts

taskVars  == <<pc, req, want, sess, ask, outcome, cancelled>>
stateVars == <<registered, spawning, lastUsedAt, streak, lock>>
storeVars == <<stored, activity, history>>
vars == <<taskVars, stateVars, sponsored, anchors, slots, board, storeVars,
          restarts>>

-----------------------------------------------------------------------------
\* Phases of a submission.

Submitting == {"locate", "find", "list", "recover", "create", "claimed",
               "tripped", "registered"}
Waiting    == {"queued", "slot"}
Executing  == {"locked", "running", "asked"}
Leaving    == {"release", "unlock"}
Closing    == {"settle", "record", "anchor"}
Phases     == {"new", "rejected", "error", "done", "lost"} \cup Submitting
                \cup Waiting \cup Executing \cup Leaving \cup Closing

Keys == Mains \X Texts
(* f with s stamped now.                                                   *)
Stamped(f, s) ==
    LET later == {x \in Sessions : f[s] # 0 /\ f[x] > f[s]}
    IN  [x \in Sessions |->
            IF x = s THEN Cardinality({y \in Sessions : f[y] # 0} \cup {s})
            ELSE IF x \in later THEN f[x] - 1 ELSE f[x]]

Key(t) == <<req[t].main, req[t].text>>
NoRequest == [main |-> None, text |-> None, profile |-> None]

Init ==
    /\ pc = [t \in Tasks |-> "new"]
    /\ req = [t \in Tasks |-> NoRequest]
    /\ want = [t \in Tasks |-> None]
    /\ sess = [t \in Tasks |-> None]
    /\ ask = [t \in Tasks |-> None]
    /\ outcome = [t \in Tasks |-> None]
    /\ cancelled = [t \in Tasks |-> FALSE]
    /\ registered = {}
    /\ spawning = [s \in Sessions |-> FALSE]
    /\ lastUsedAt = [s \in Sessions |-> 0]
    /\ streak = [s \in Sessions |-> 0]
    /\ lock = [s \in Sessions |-> None]
    /\ sponsored = [m \in Mains |-> [s \in Sessions |-> None]]
    /\ anchors = [k \in Keys |-> None]
    /\ slots = 0
    /\ board = [t \in Tasks |-> "none"]
    /\ stored = [s \in Sessions |-> None]
    /\ activity = [s \in Sessions |-> 0]
    /\ history = [s \in Sessions |-> {}]
    /\ restarts = 0
-----------------------------------------------------------------------------
\* Submit: runs in the caller's goroutine; several callers run at once.

Goto(t, phase) == pc' = [pc EXCEPT ![t] = phase]

(* Mutant: a caller who names no session is not sent back.                 *)
TargetAsNamed(anchor, e) == e

(* The session a submission goes to: the anchor, else the one it names.    *)
Target(anchor, e) == IF anchor # None THEN anchor ELSE e

(* The anchor lookup.  A text that failed before by exhausting its         *)
(* iterations is sent back to the session it failed in; naming another     *)
(* session is refused.  Profile None is an agent that does not exist.      *)
Submit(t, m, x, p, e) ==
    LET anchor == anchors[<<m, x>>]
        target == Target(anchor, e)
    IN  /\ pc[t] = "new"
        /\ req' = [req EXCEPT ![t] = [main |-> m, text |-> x, profile |-> p]]
        /\ \/ /\ p = None \/ (anchor # None /\ e \notin {None, anchor})
              /\ Goto(t, "rejected")
              /\ want' = want
           \/ /\ p # None /\ (anchor = None \/ e \in {None, anchor})
              /\ want' = [want EXCEPT ![t] = target]
              /\ Goto(t, IF target = None THEN "find" ELSE "locate")
        /\ UNCHANGED <<sess, ask, outcome, cancelled, stateVars, sponsored,
                       anchors, slots, board, storeVars, restarts>>

(* A session is claimed for t under m.mu.                                  *)
Claim(t, s) ==
    /\ spawning' = [spawning EXCEPT ![s] = TRUE]
    /\ sess' = [sess EXCEPT ![t] = s]
    /\ Goto(t, "claimed")

(* getOrCreate with a session id: taken from memory whatever it is doing,  *)
(* or loaded from the store.                                               *)
ClaimExplicit(t) ==
    LET s == want[t]
    IN  /\ pc[t] = "locate"
        /\ \/ /\ s \in registered \/ stored[s] # None
              /\ registered' = registered \cup {s}
              /\ Claim(t, s)
           \/ /\ s \notin registered
              /\ stored[s] = None \/ StoreFails
              /\ Goto(t, "error")
              /\ UNCHANGED <<registered, spawning, sess>>
        /\ UNCHANGED <<req, want, ask, outcome, cancelled, lastUsedAt, streak,
                       lock, sponsored, anchors, slots, board, storeVars,
                       restarts>>

(* Mutant: the claim flag is not looked at.                                *)
IdleOrClaimed(p) == {s \in registered : stored[s] = p /\ lastUsedAt[s] # 0}

(* The sessions findIdleSession may reuse: of the same agent, directory    *)
(* and sponsor, used before and not claimed.                               *)
Idle(p) == {s \in registered : /\ stored[s] = p
                               /\ lastUsedAt[s] # 0
                               /\ ~spawning[s]}

(* findIdleSession: the most recently used idle session of the profile is  *)
(* found and claimed in one critical section.                              *)
FindIdle(t) ==
    LET idle == Idle(req[t].profile)
    IN  /\ pc[t] = "find"
        /\ \/ \E s \in idle :
                 /\ \A o \in idle : lastUsedAt[o] <= lastUsedAt[s]
                 /\ Claim(t, s)
           \/ /\ idle = {}
              /\ Goto(t, "list")
              /\ UNCHANGED <<spawning, sess>>
        /\ UNCHANGED <<req, want, ask, outcome, cancelled, registered,
                       lastUsedAt, streak, lock, sponsored, anchors, slots,
                       board, storeVars, restarts>>

(* recoverLatestSession, the part without the lock: the most recently      *)
(* active stored session of the profile.                                   *)
ListSessions(t) ==
    LET mine == {s \in Sessions : stored[s] = req[t].profile}
    IN  /\ pc[t] = "list"
        /\ \/ \E s \in mine :
                 /\ \A o \in mine : activity[o] <= activity[s]
                 /\ want' = [want EXCEPT ![t] = s]
                 /\ Goto(t, "recover")
           \/ /\ mine = {} \/ StoreFails
              /\ want' = want
              /\ Goto(t, "create")
        /\ UNCHANGED <<req, sess, ask, outcome, cancelled, stateVars,
                       sponsored, anchors, slots, board, storeVars,
                       restarts>>

(* recoverLatestSession, the part under the lock: a session that is in     *)
(* memory by now is left to its owner.                                     *)
Recover(t) ==
    LET s == want[t]
    IN  /\ pc[t] = "recover"
        /\ \/ /\ s \notin registered
              /\ registered' = registered \cup {s}
              /\ Claim(t, s)
           \/ /\ s \in registered \/ StoreFails
              /\ Goto(t, "create")
              /\ UNCHANGED <<registered, spawning, sess>>
        /\ UNCHANGED <<req, want, ask, outcome, cancelled, lastUsedAt, streak,
                       lock, sponsored, anchors, slots, board, storeVars,
                       restarts>>

(* A new session: created in the store, loaded back, registered claimed.   *)
(* Loading may fail after creating it.                                     *)
Create(t) ==
    /\ pc[t] = "create"
    /\ \/ \E s \in Sessions :
             /\ stored[s] = None
             /\ stored' = [stored EXCEPT ![s] = req[t].profile]
             /\ activity' = Stamped(activity, s)
             /\ \/ registered' = registered \cup {s} /\ Claim(t, s)
                \/ /\ StoreFails
                   /\ Goto(t, "error")
                   /\ UNCHANGED <<registered, spawning, sess>>
       \/ /\ StoreFails
          /\ Goto(t, "error")
          /\ UNCHANGED <<registered, spawning, sess, stored, activity>>
    /\ UNCHANGED <<req, want, ask, outcome, cancelled, lastUsedAt, streak, lock,
                   sponsored, anchors, slots, board, history, restarts>>

(* The circuit breaker, the choice of what the sub-agent is asked, and the *)
(* pending entry in the control plane.                                     *)
Admit(t) ==
    LET n == streak[sess[t]]
    IN  /\ pc[t] = "claimed"
        /\ \/ /\ n >= FailLimit
              /\ Goto(t, "tripped")
              /\ UNCHANGED <<ask, board>>
           \/ /\ n < FailLimit
              /\ ask' = [ask EXCEPT ![t] = IF n > 0 THEN Continue
                                                    ELSE req[t].text]
              /\ board' = [board EXCEPT ![t] = "pending"]
              /\ Goto(t, "registered")
        /\ UNCHANGED <<req, want, sess, outcome, cancelled, stateVars,
                       sponsored, anchors, slots, storeVars, restarts>>

(* Mutant: the refusal of the breaker keeps the claim.                     *)
ReleaseButOnRefusal(t) ==
    spawning' = [spawning EXCEPT ![sess[t]] = @ /\ pc[t] = "tripped"]

(* Mutant: a run that ended without an answer keeps the claim.             *)
ReleaseOnAnswer(t) ==
    spawning' = [spawning EXCEPT ![sess[t]] = @ /\ outcome[t] # "answered"]

(* releaseSpawn: the flag is cleared, whoever set it.                      *)
ReleaseClaim(t) == spawning' = [spawning EXCEPT ![sess[t]] = FALSE]

Trip(t) ==
    /\ pc[t] = "tripped"
    /\ ReleaseClaim(t)
    /\ Goto(t, "rejected")
    /\ UNCHANGED <<req, want, sess, ask, outcome, cancelled, registered,
                   lastUsedAt, streak, lock, sponsored, anchors, slots, board,
                   storeVars, restarts>>

(* Mutant: the compensation for a panic stays armed once the goroutine     *)
(* has started, so the handle is failed and the task runs all the same.    *)
LaunchAndFail(t) ==
    /\ pc[t] = "registered"
    /\ Goto(t, "queued")
    /\ \/ board' = board
       \/ board' = [board EXCEPT ![t] = "failed"]
    /\ UNCHANGED <<req, want, sess, ask, outcome, cancelled, stateVars,
                   sponsored, anchors, slots, storeVars, restarts>>

(* Mutant: nothing is done about a handle whose acceptance panicked.       *)
LaunchForgets(t) ==
    /\ pc[t] = "registered"
    /\ Goto(t, "queued") \/ (Panics /\ Goto(t, "error"))
    /\ UNCHANGED <<req, want, sess, ask, outcome, cancelled, stateVars,
                   sponsored, anchors, slots, board, storeVars, restarts>>

(* The event of acceptance, the harvest record and the goroutine.  A panic *)
(* of the event callback fails the handle and leaves the claim behind.     *)
Launch(t) ==
    /\ pc[t] = "registered"
    /\ \/ Goto(t, "queued") /\ board' = board
       \/ /\ Panics
          /\ board' = [board EXCEPT ![t] = "failed"]
          /\ Goto(t, "error")
    /\ UNCHANGED <<req, want, sess, ask, outcome, cancelled, stateVars,
                   sponsored, anchors, slots, storeVars, restarts>>

-----------------------------------------------------------------------------
\* runTask: the background goroutine of an accepted task.

(* Mutant: a place too many.                                               *)
SlotFreeOrFull == slots <= SlotCap

(* A send on subagentSem does not block.                                   *)
SlotFree == slots < SlotCap

AcquireSlot(t) ==
    /\ pc[t] = "queued"
    /\ SlotFree
    /\ slots' = slots + 1
    /\ Goto(t, "slot")
    /\ UNCHANGED <<req, want, sess, ask, outcome, cancelled, stateVars,
                   sponsored, anchors, board, storeVars, restarts>>

(* Mutant: no mutex.                                                       *)
LockIgnored(s) == TRUE

(* The session's mutex is free.                                            *)
LockFree(s) == lock[s] = None

(* The session's mutex, then touchSession.                                 *)
AcquireLock(t) ==
    /\ pc[t] = "slot"
    /\ LockFree(sess[t])
    /\ lock' = [lock EXCEPT ![sess[t]] = t]
    /\ lastUsedAt' = Stamped(lastUsedAt, sess[t])
    /\ Goto(t, "locked")
    /\ UNCHANGED <<req, want, sess, ask, outcome, cancelled, registered,
                   spawning, streak, sponsored, anchors, slots, board,
                   storeVars, restarts>>

(* The stop handle is filed under the submitting main session.             *)
RegisterSponsored(t) ==
    /\ pc[t] = "locked"
    /\ sponsored' = [sponsored EXCEPT ![req[t].main][sess[t]] = t]
    /\ Goto(t, "running")
    /\ UNCHANGED <<req, want, sess, ask, outcome, cancelled, stateVars,
                   anchors, slots, board, storeVars, restarts>>

(* The run appends the question to the session before it calls the model.  *)
AppendAsk(t) ==
    /\ pc[t] = "running"
    /\ history' = [history EXCEPT ![sess[t]] = @ \cup ({ask[t]} \cap Texts)]
    /\ activity' = Stamped(activity, sess[t])
    /\ Goto(t, "asked")
    /\ UNCHANGED <<req, want, sess, ask, outcome, cancelled, stateVars,
                   sponsored, anchors, slots, board, stored, restarts>>

(* Mutant: the handle outlives the run.                                    *)
HandlesKept(t) == sponsored

(* unregisterSponsored                                                     *)
HandlesWithout(t) == [sponsored EXCEPT ![req[t].main][sess[t]] = None]

(* The run returns: with an answer, out of iterations, or failed (an       *)
(* error, a panic, a timeout, cancellation).  The first deferred call      *)
(* removes the stop handle; the run's context is gone.                     *)
Finish(t, o) ==
    /\ o \in Outcomes
    /\ pc[t] \in {"running", "asked"}
    /\ pc[t] = "running" => o = "failed"
    /\ outcome' = [outcome EXCEPT ![t] = o]
    /\ sponsored' = HandlesWithout(t)
    /\ cancelled' = [cancelled EXCEPT ![t] = FALSE]
    /\ Goto(t, "release")
    /\ UNCHANGED <<req, want, sess, ask, stateVars, anchors, slots,
                   board, storeVars, restarts>>

ReleaseSpawn(t) ==
    /\ pc[t] = "release"
    /\ ReleaseClaim(t)
    /\ Goto(t, "unlock")
    /\ UNCHANGED <<req, want, sess, ask, outcome, cancelled, registered,
                   lastUsedAt, streak, lock, sponsored, anchors, slots, board,
                   storeVars, restarts>>

Unlock(t) ==
    /\ pc[t] = "unlock"
    /\ lock' = [lock EXCEPT ![sess[t]] = None]
    /\ Goto(t, "settle")
    /\ UNCHANGED <<req, want, sess, ask, outcome, cancelled, registered,
                   spawning, lastUsedAt, streak, sponsored, anchors, slots,
                   board, storeVars, restarts>>

(* Complete or Fail closes the handle; only then is the streak recorded.   *)
Settle(t) ==
    /\ pc[t] = "settle"
    /\ board' = [board EXCEPT ![t] = IF outcome[t] = "answered"
                                     THEN "completed" ELSE "failed"]
    /\ Goto(t, "record")
    /\ UNCHANGED <<req, want, sess, ask, outcome, cancelled, stateVars,
                   sponsored, anchors, slots, storeVars, restarts>>

(* Mutant: every failure counts.                                           *)
StreakOfFailures(t) == IF outcome[t] = "answered" THEN 0 ELSE streak[sess[t]] + 1

(* Runs out of iterations in a row on the session of t.                    *)
StreakAfter(t) ==
    IF outcome[t] = "max_iterations" THEN streak[sess[t]] + 1 ELSE 0

(* Mutant: the slot is given back before an anchor is recorded, and again  *)
(* after.                                                                  *)
SlotsReleasedTwice(t) == slots - 1

(* Mutant: a task that ends without an anchor keeps its slot.              *)
SlotsKept(t) == slots

(* A task that is to record an anchor has its slot a little longer.        *)
SlotsAfterRecord(t) ==
    IF outcome[t] = "max_iterations" THEN slots ELSE slots - 1

(* recordIterationOutcome.  Unless an anchor is to be recorded, the task   *)
(* gives its slot back on the way out; the completion event goes first,    *)
(* and a panic of its callback is recovered.                               *)
RecordOutcome(t) ==
    /\ pc[t] = "record"
    /\ streak' = [streak EXCEPT ![sess[t]] = StreakAfter(t)]
    /\ slots' = SlotsAfterRecord(t)
    /\ Goto(t, IF outcome[t] = "max_iterations" THEN "anchor" ELSE "done")
    /\ UNCHANGED <<req, want, sess, ask, outcome, cancelled, registered,
                   spawning, lastUsedAt, lock, sponsored, anchors, board,
                   storeVars, restarts>>

(* recordFailedTaskAnchor: a full table is emptied first.                  *)
RecordAnchor(t) ==
    LET full == Cardinality({k \in Keys : anchors[k] # None}) >= AnchorLimit
    IN  /\ pc[t] = "anchor"
        /\ anchors' = [k \in Keys |-> IF k = Key(t) THEN sess[t]
                                      ELSE IF full THEN None ELSE anchors[k]]
        /\ slots' = slots - 1
        /\ Goto(t, "done")
        /\ UNCHANGED <<req, want, sess, ask, outcome, cancelled, stateVars,
                       sponsored, board, storeVars, restarts>>

-----------------------------------------------------------------------------
\* The host: stopping a main session, stopping all, restarting.

(* cancelSponsored, cancelAllSponsored: the handles filed under ms are     *)
(* taken out under m.mu and cancelled.                                     *)
Stop(ms) ==
    /\ cancelled' = [t \in Tasks |->
                       \/ cancelled[t]
                       \/ \E m \in ms, s \in Sessions : sponsored[m][s] = t]
    /\ sponsored' = [m \in Mains |-> IF m \in ms THEN [s \in Sessions |-> None]
                                                  ELSE sponsored[m]]
    /\ UNCHANGED <<pc, req, want, sess, ask, outcome, stateVars, anchors, slots,
                   board, storeVars, restarts>>

CancelSubAgents(m) == Stop({m})
CancelAllSubAgents == Stop(Mains)

(* The process dies and comes back: goroutines, the manager's tables and   *)
(* the control plane are gone, the session store is not.  Where nothing    *)
(* was submitted yet there is nothing to lose.                             *)
Restart ==
    /\ pc # [t \in Tasks |-> "new"]
    /\ restarts < MaxRestarts
    /\ restarts' = restarts + 1
    /\ pc' = [t \in Tasks |-> IF pc[t] = "new" THEN "new" ELSE "lost"]
    /\ req' = [t \in Tasks |-> NoRequest]
    /\ want' = [t \in Tasks |-> None]
    /\ sess' = [t \in Tasks |-> None]
    /\ ask' = [t \in Tasks |-> None]
    /\ outcome' = [t \in Tasks |-> None]
    /\ cancelled' = [t \in Tasks |-> FALSE]
    /\ registered' = {}
    /\ spawning' = [s \in Sessions |-> FALSE]
    /\ lastUsedAt' = [s \in Sessions |-> 0]
    /\ streak' = [s \in Sessions |-> 0]
    /\ lock' = [s \in Sessions |-> None]
    /\ sponsored' = [m \in Mains |-> [s \in Sessions |-> None]]
    /\ anchors' = [k \in Keys |-> None]
    /\ slots' = 0
    /\ board' = [t \in Tasks |-> "none"]
    /\ UNCHANGED storeVars

-----------------------------------------------------------------------------
SubmitStep(t) ==
    \/ ClaimExplicit(t) \/ FindIdle(t) \/ ListSessions(t) \/ Recover(t)
    \/ Create(t) \/ Admit(t) \/ Trip(t) \/ Launch(t)

RunStep(t) ==
    \/ RegisterSponsored(t) \/ AppendAsk(t)
    \/ \E o \in Outcomes : Finish(t, o)
    \/ ReleaseSpawn(t) \/ Unlock(t) \/ Settle(t) \/ RecordOutcome(t)
    \/ RecordAnchor(t)

Next ==
    \/ \E t \in Tasks :
          \/ \E m \in Mains, x \in Texts, p \in Profiles \cup {None},
               e \in ExplicitIds \cup {None} : Submit(t, m, x, p, e)
          \/ SubmitStep(t) \/ AcquireSlot(t) \/ AcquireLock(t) \/ RunStep(t)
    \/ \E m \in Mains : CancelSubAgents(m)
    \/ CancelAllSubAgents
    \/ Restart

Spec == Init /\ [][Next]_vars

(* The Go scheduler runs every goroutine that can run; a run always        *)
(* returns (model calls, tools and waits for the user have time limits).   *)
(* A blocked sender on the semaphore and a waiter on a sync.Mutex are      *)
(* served in order, so neither is passed over for ever.                    *)
Fairness ==
    \A t \in Tasks : /\ WF_vars(SubmitStep(t))
                     /\ WF_vars(RunStep(t))
                     /\ SF_vars(AcquireSlot(t))
                     /\ SF_vars(AcquireLock(t))

FairSpec == Spec /\ Fairness

-----------------------------------------------------------------------------
\* Properties.

(* The variables hold values of the intended kind (perSessionState,        *)
(* subAgentManager and the control plane's statuses).                      *)
TypeOK ==
    /\ pc \in [Tasks -> Phases]
    /\ req \in [Tasks -> [main : Mains, text : Texts,
                          profile : Profiles \cup {None}] \cup {NoRequest}]
    /\ want \in [Tasks -> Sessions \cup {None}]
    /\ sess \in [Tasks -> Sessions \cup {None}]
    /\ ask \in [Tasks -> Texts \cup {Continue, None}]
    /\ outcome \in [Tasks -> Outcomes \cup {None}]
    /\ cancelled \in [Tasks -> BOOLEAN]
    /\ registered \subseteq Sessions
    /\ spawning \in [Sessions -> BOOLEAN]
    /\ lastUsedAt \in [Sessions -> Nat]
    /\ streak \in [Sessions -> Nat]
    /\ lock \in [Sessions -> Tasks \cup {None}]
    /\ sponsored \in [Mains -> [Sessions -> Tasks \cup {None}]]
    /\ anchors \in [Keys -> Sessions \cup {None}]
    /\ slots \in Nat
    /\ board \in [Tasks -> {"none", "pending", "completed", "failed"}]
    /\ stored \in [Sessions -> Profiles \cup {None}]
    /\ activity \in [Sessions -> Nat]
    /\ history \in [Sessions -> SUBSET Texts]
    /\ restarts \in Nat

Holding  == Executing \cup Leaving
Slotted  == {"slot"} \cup Holding \cup Closing
Claiming == {"claimed", "tripped", "registered"} \cup Waiting
              \cup Executing \cup {"release"}

(* Two runs never execute on one sub-agent session at the same time,       *)
(* however the session was claimed: the mutex in perSessionState spans the *)
(* whole run.                                                              *)
OneRunPerSession ==
    \A t, u \in Tasks :
        pc[t] \in Holding /\ pc[u] \in Holding /\ sess[t] = sess[u] => t = u

(* No more tasks than subagentSem has places are between taking a place    *)
(* and giving it back, and no place is lost on any way out of runTask.     *)
SlotsAccounted ==
    /\ slots = Cardinality({t \in Tasks : pc[t] \in Slotted})
    /\ slots <= SlotCap

(* The stop handles are exactly the runs under way that nobody stopped     *)
(* yet: RunningSubAgentSessions reports no ended run and misses none that  *)
(* has registered, and a stop never cancels a run of another session.      *)
StopHandlesExact ==
    \A m \in Mains, s \in Sessions, t \in Tasks :
        sponsored[m][s] = t <=> /\ pc[t] \in {"running", "asked"}
                                /\ ~cancelled[t]
                                /\ req[t].main = m
                                /\ sess[t] = s

(* A claim flag that is up belongs to a submission still on its way, or to *)
(* one whose acceptance panicked: no refusal and no end of a run leaves a  *)
(* session claimed for ever.                                               *)
ClaimHasOwner ==
    \A s \in Sessions :
        spawning[s] => \E t \in Tasks : /\ sess[t] = s
                                        /\ pc[t] \in Claiming \cup {"error"}

(* What is held - slots, stop handles, claims - is held by somebody who    *)
(* will give it back.                                                      *)
HoldingsOwned == TypeOK /\ SlotsAccounted /\ StopHandlesExact /\ ClaimHasOwner

(* A session is claimed by at most one unfinished task.  It holds while    *)
(* nobody names a session (no explicit id, no anchored text).              *)
OneClaimPerSession ==
    \A t, u \in Tasks :
        pc[t] \in Claiming /\ pc[u] \in Claiming /\ sess[t] = sess[u] => t = u

(* A sub-agent that runs has the text of its task in the session it runs   *)
(* in, whether it was sent the text or the continuation prompt: what the   *)
(* comment of submitAcked says (agents/subagent.go:562).  It is false of   *)
(* the code once a session is sent two texts.                              *)
TaskTextInSession ==
    \A t \in Tasks : pc[t] = "asked" => req[t].text \in history[sess[t]]

(* The tasks of this process whose text is in session s and whose run used *)
(* up its iterations there.                                                *)
Spent(s) ==
    {u \in Tasks : /\ sess[u] = s
                   /\ pc[u] \in {"anchor", "done"}
                   /\ outcome[u] = "max_iterations"
                   /\ req[u].text \in history[s]}

(* A sub-agent is left without the text of its task in one way only: it is *)
(* told to continue the work of another text, which used up its iterations *)
(* on this session since the process started.  Neither a failure, nor an   *)
(* outcome recorded late, nor a session recovered after a restart makes    *)
(* the dispatcher send the continuation prompt to a session that has       *)
(* nothing to continue.                                                    *)
ContinuesSomething ==
    \A t \in Tasks :
        pc[t] = "asked" /\ req[t].text \notin history[sess[t]]
          => ask[t] = Continue /\ \E u \in Spent(sess[t]) : req[u].text # req[t].text

(* The tasks of the same text and main session, their goroutines done,     *)
(* that ended a run by using up its iterations.                            *)
FailedBefore(k) ==
    {t \in Tasks : pc[t] = "done" /\ Key(t) = k /\ outcome[t] = "max_iterations"}

(* Once a task failed for want of iterations and its goroutine is done,    *)
(* the same text goes back to a session it failed in, whichever session    *)
(* the caller names, unless the anchor table overflowed.                   *)
AnchorConverges ==
    [][\A t \in Tasks :
         pc[t] = "new" /\ pc'[t] \in {"find", "locate"}
           => LET failed == FailedBefore(Key(t)')
              IN  failed # {} => want'[t] \in {sess[u] : u \in failed}]_vars

(* Stopping a main session stops every task accepted for it.               *)
StopReachesAccepted ==
    [][\A m \in Mains : CancelSubAgents(m)
         => \A t \in Tasks : req[t].main = m /\ board[t] = "pending"
                              /\ pc[t] \in Waiting \cup Executing
              => cancelled'[t]]_vars

(* A settled handle keeps its verdict: the control plane is told the end   *)
(* of a task once.                                                         *)
SettledIsFinal ==
    [][\A t \in Tasks : board[t] \in {"completed", "failed"}
                         => board'[t] = board[t] \/ Restart]_vars

(* Every handle given to the caller is settled in the end, unless the      *)
(* process dies: CollectResults never waits for ever.                      *)
AcceptedSettles ==
    \A t \in Tasks : (board[t] = "pending")
                        ~> (board[t] \in {"completed", "failed"} \/ pc[t] = "lost")

(* A claimed session becomes available again, unless the acceptance of a   *)
(* task sent to it panicked.                                               *)
ClaimsAreReturned ==
    \A s \in Sessions :
        spawning[s] ~> \/ ~spawning[s]
                       \/ \E t \in Tasks : sess[t] = s /\ pc[t] = "error"

(* Tasks that were accepted and sessions that were claimed come back.      *)
AllComesBack == AcceptedSettles /\ ClaimsAreReturned

-----------------------------------------------------------------------------
\* The dispatcher implements the service it promises.

PhaseOf(t) ==
    CASE pc[t] \in {"new"} \cup (Submitting \ {"registered"}) -> "new"
      [] pc[t] \in {"registered"} \cup Waiting -> "accepted"
      [] pc[t] \in Executing \cup Leaving -> "executing"
      [] pc[t] = "settle" -> "ended"
      [] pc[t] \in {"record", "anchor", "done"} -> "settled"
      [] pc[t] = "lost" -> "lost"
      [] pc[t] = "error" /\ board[t] = "failed" -> "settled"
      [] OTHER -> "refused"

Service == INSTANCE SubAgentService
             WITH phase <- [t \in Tasks |-> PhaseOf(t)],
                  serving <- lock,
                  verdict <- board

(* Claims, slots, the breaker, stops and restarts never break what callers *)
(* of SubAgent and CollectResults rely on, and every accepted task is      *)
(* executed and settled (SubAgentService).                                 *)
ServiceSpec == Service!FairSpec
=============================================================================
