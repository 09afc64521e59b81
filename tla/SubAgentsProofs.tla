--------------------------- MODULE SubAgentsProofs ---------------------------
(***************************************************************************)
(* What holds of the sub-agent dispatcher for every number of submissions, *)
(* sessions, main sessions, slots and restarts.                            *)
(***************************************************************************)
EXTENDS SubAgents, FiniteSetTheorems, TLAPS

-----------------------------------------------------------------------------
\* The inductive invariant, part by part.

Request == [main : Mains, text : Texts, profile : Profiles \cup {None}]

(* A submission under way has a request and, once it claimed one, a        *)
(* session.                                                                *)
Placed ==
    \A t \in Tasks :
        /\ pc[t] \notin {"new", "lost"} => req[t] \in Request
        /\ pc[t] \in {"locate", "recover"} => want[t] \in Sessions
        /\ pc[t] \in Claiming \cup Leaving \cup Closing => sess[t] \in Sessions

SlotTakers == {t \in Tasks : pc[t] \in Slotted}
Used(f)    == {s \in Sessions : f[s] # 0}

(* Only finitely many sessions were ever used, whatever Sessions is.       *)
FinitelyUsed == IsFiniteSet(Used(lastUsedAt)) /\ IsFiniteSet(Used(activity))

SlotCount ==
    /\ IsFiniteSet(SlotTakers)
    /\ slots = Cardinality(SlotTakers)
    /\ slots <= SlotCap

WellFormed == TypeOK /\ Placed /\ FinitelyUsed /\ SlotCount
-----------------------------------------------------------------------------
(* Stamping a session keeps ranks natural and adds at most that session to *)
(* the used ones (touchSession, LastActivityAt).                           *)
LEMMA StampedRanks ==
  ASSUME NEW f \in [Sessions -> Nat], NEW s \in Sessions,
         IsFiniteSet(Used(f))
  PROVE  /\ Stamped(f, s) \in [Sessions -> Nat]
         /\ IsFiniteSet(Used(Stamped(f, s)))
<1> DEFINE rank == Cardinality({y \in Sessions : f[y] # 0} \cup {s})
           later == {x \in Sessions : f[s] # 0 /\ f[x] > f[s]}
           g == Stamped(f, s)
<1>1. IsFiniteSet(Used(f) \cup {s}) /\ rank \in Nat
  BY FS_AddElement, FS_CardinalityType DEF Used
<1>2. g = [x \in Sessions |-> IF x = s THEN rank
                              ELSE IF x \in later THEN f[x] - 1 ELSE f[x]]
  BY DEF Stamped
<1>3. \A x \in later : f[x] - 1 \in Nat
  OBVIOUS
<1>4. g \in [Sessions -> Nat]
  <2> HIDE DEF rank, later, g
  <2> QED BY <1>1, <1>2, <1>3
<1>5. Used(g) \subseteq Used(f) \cup {s}
  <2>1. \A x \in later : f[x] # 0
    OBVIOUS
  <2> HIDE DEF rank, later, g
  <2> QED BY <1>2, <2>1 DEF Used
<1>6. IsFiniteSet(Used(g))
  <2> HIDE DEF g
  <2> QED BY <1>1, <1>5, FS_Subset
<1> QED BY <1>4, <1>6

(* A submission that takes a slot is counted once more, one that gives it  *)
(* back once less.                                                         *)
LEMMA SlotTaken ==
  ASSUME IsFiniteSet(SlotTakers), NEW t \in Tasks,
         pc \in [Tasks -> Phases], NEW p, pc' = [pc EXCEPT ![t] = p],
         pc[t] \notin Slotted, p \in Slotted
  PROVE  /\ IsFiniteSet(SlotTakers')
         /\ Cardinality(SlotTakers') = Cardinality(SlotTakers) + 1
<1>1. SlotTakers' = SlotTakers \cup {t} /\ t \notin SlotTakers
  BY DEF SlotTakers, Slotted
<1> QED BY <1>1, FS_AddElement

LEMMA SlotReturned ==
  ASSUME IsFiniteSet(SlotTakers), NEW t \in Tasks,
         pc \in [Tasks -> Phases], NEW p, pc' = [pc EXCEPT ![t] = p],
         pc[t] \in Slotted, p \notin Slotted
  PROVE  /\ IsFiniteSet(SlotTakers')
         /\ Cardinality(SlotTakers') = Cardinality(SlotTakers) - 1
         /\ Cardinality(SlotTakers) >= 1
<1>1. SlotTakers' = SlotTakers \ {t} /\ t \in SlotTakers
  BY DEF SlotTakers, Slotted
<1>2. /\ IsFiniteSet(SlotTakers \ {t})
      /\ Cardinality(SlotTakers \ {t}) = Cardinality(SlotTakers) - 1
  BY <1>1, FS_RemoveElement
<1>3. Cardinality(SlotTakers) \in Nat /\ Cardinality(SlotTakers \ {t}) \in Nat
  BY <1>2, FS_CardinalityType
<1> QED BY <1>1, <1>2, <1>3

LEMMA SlotKept ==
  ASSUME NEW t \in Tasks, pc \in [Tasks -> Phases],
         NEW p, pc' = [pc EXCEPT ![t] = p],
         pc[t] \in Slotted <=> p \in Slotted
  PROVE  SlotTakers' = SlotTakers
BY DEF SlotTakers, Slotted

-----------------------------------------------------------------------------
\* Every step preserves well-formedness.

LEMMA WellFormedInit == Init => WellFormed
<1> SUFFICES ASSUME Init PROVE WellFormed
  OBVIOUS
<1> USE DEF Init
<1>1. TypeOK
  BY DEF TypeOK, Phases, NoRequest
<1>2. Placed
  BY DEF Placed, Claiming, Leaving, Closing, Waiting, Executing
<1>3. FinitelyUsed
  <2>1. Used(lastUsedAt) = {} /\ Used(activity) = {}
    BY DEF Used
  <2> QED BY <2>1, FS_EmptySet DEF FinitelyUsed
<1>4. SlotCount
  <2>1. SlotTakers = {}
    BY DEF SlotTakers, Slotted, Holding, Closing, Leaving, Executing
  <2> QED BY <2>1, FS_EmptySet, ConstantsAssumption DEF SlotCount
<1> QED BY <1>1, <1>2, <1>3, <1>4 DEF WellFormed

LEMMA ClaimTypes ==
  ASSUME TypeOK, NEW t \in Tasks, NEW s \in Sessions, Claim(t, s),
         registered' \subseteq Sessions,
         stored' \in [Sessions -> Profiles \cup {None}],
         activity' \in [Sessions -> Nat],
         UNCHANGED <<req, want, ask, outcome, cancelled, lastUsedAt, streak, lock,
                     sponsored, anchors, slots, board, history, restarts>>
  PROVE  TypeOK'
<1>1. pc' \in [Tasks -> Phases]
  BY DEF TypeOK, Claim, Goto, Phases, Submitting
<1>2. /\ spawning' \in [Sessions -> BOOLEAN]
      /\ sess' \in [Tasks -> Sessions \cup {None}]
  BY DEF TypeOK, Claim
<1> QED BY <1>1, <1>2 DEF TypeOK

(* TypeOK is preserved by every step.                                      *)
LEMMA TypeStep == WellFormed /\ [Next]_vars => TypeOK'
<1> SUFFICES ASSUME WellFormed, [Next]_vars PROVE TypeOK'
  OBVIOUS
<1> USE ConstantsAssumption DEF WellFormed, TypeOK, Phases, Submitting, Waiting,
        Executing, Leaving, Closing, Goto, vars, taskVars, stateVars, storeVars
<1>1. ASSUME NEW t \in Tasks, NEW m \in Mains, NEW x \in Texts,
             NEW p \in Profiles \cup {None}, NEW e \in ExplicitIds \cup {None},
             Submit(t, m, x, p, e)
      PROVE  TypeOK'
  <2>1. req' \in [Tasks -> Request \cup {NoRequest}]
    BY <1>1 DEF Submit, Request
  <2>2. Target(anchors[<<m, x>>], e) \in Sessions \cup {None}
    BY <1>1 DEF Target, Keys
  <2>3. pc' \in [Tasks -> Phases]
    <3>1. \E q \in {"rejected", "find", "locate"} : pc' = [pc EXCEPT ![t] = q]
      BY <1>1 DEF Submit
    <3> QED BY <3>1
  <2>4. want' \in [Tasks -> Sessions \cup {None}]
    BY <1>1, <2>2 DEF Submit
  <2> QED BY <1>1, <2>1, <2>3, <2>4 DEF Submit, Request
<1>2. ASSUME NEW t \in Tasks, ClaimExplicit(t) PROVE TypeOK'
  <2>1. want[t] \in Sessions
    BY <1>2 DEF ClaimExplicit, Placed
  <2>2. CASE Claim(t, want[t]) /\ registered' = registered \cup {want[t]}
    <3>1. registered' \subseteq Sessions
      BY <2>1, <2>2
    <3>2. UNCHANGED <<req, want, ask, outcome, cancelled, lastUsedAt, streak, lock,
                      sponsored, anchors, slots, board, storeVars, restarts>>
      BY <1>2 DEF ClaimExplicit
    <3> QED BY <2>1, <2>2, <3>1, <3>2, ClaimTypes
  <2>3. CASE UNCHANGED <<registered, spawning, sess>> /\ Goto(t, "error")
    BY <1>2, <2>3 DEF ClaimExplicit
  <2> QED BY <1>2, <2>2, <2>3 DEF ClaimExplicit
<1>3. ASSUME NEW t \in Tasks, FindIdle(t) PROVE TypeOK'
  <2>1. CASE \E s \in Idle(req[t].profile) : Claim(t, s)
    <3>1. UNCHANGED <<req, want, ask, outcome, cancelled, registered, lastUsedAt,
                      streak, lock, sponsored, anchors, slots, board, storeVars,
                      restarts>>
      BY <1>3 DEF FindIdle
    <3>2. PICK s \in Sessions : Claim(t, s)
      BY <2>1 DEF Idle
    <3> QED BY <3>1, <3>2, ClaimTypes
  <2>2. CASE UNCHANGED <<spawning, sess>> /\ Goto(t, "list")
    BY <1>3, <2>2 DEF FindIdle
  <2> QED BY <1>3, <2>1, <2>2 DEF FindIdle
<1>4. ASSUME NEW t \in Tasks, ListSessions(t) PROVE TypeOK'
  BY <1>4 DEF ListSessions
<1>5. ASSUME NEW t \in Tasks, Recover(t) PROVE TypeOK'
  <2>1. want[t] \in Sessions
    BY <1>5 DEF Recover, Placed
  <2>2. CASE Claim(t, want[t]) /\ registered' = registered \cup {want[t]}
    <3>1. registered' \subseteq Sessions
      BY <2>1, <2>2
    <3>2. UNCHANGED <<req, want, ask, outcome, cancelled, lastUsedAt, streak, lock,
                      sponsored, anchors, slots, board, storeVars, restarts>>
      BY <1>5, <2>2 DEF Recover
    <3> QED BY <2>1, <2>2, <3>1, <3>2, ClaimTypes
  <2>3. CASE UNCHANGED <<registered, spawning, sess>>
    BY <1>5, <2>3 DEF Recover
  <2> QED BY <1>5, <2>2, <2>3 DEF Recover
<1>6. ASSUME NEW t \in Tasks, Create(t) PROVE TypeOK'
  <2>1. req[t].profile \in Profiles \cup {None}
    BY <1>6 DEF Create, Placed, Request
  <2>2. \A s \in Sessions : Stamped(activity, s) \in [Sessions -> Nat]
    BY StampedRanks DEF FinitelyUsed
  <2>3. stored' \in [Sessions -> Profiles \cup {None}]
        /\ activity' \in [Sessions -> Nat]
    BY <1>6, <2>1, <2>2 DEF Create
  <2>4. UNCHANGED <<req, want, ask, outcome, cancelled, lastUsedAt, streak, lock,
                    sponsored, anchors, slots, board, history, restarts>>
    BY <1>6 DEF Create
  <2>5. ASSUME NEW s \in Sessions, Claim(t, s), registered' = registered \cup {s}
        PROVE  TypeOK'
    <3>1. registered' \subseteq Sessions
      BY <2>5
    <3> QED BY <2>3, <2>4, <2>5, <3>1, ClaimTypes
  <2>6. CASE UNCHANGED <<registered, spawning, sess>> /\ Goto(t, "error")
    BY <2>3, <2>4, <2>6
  <2> QED BY <1>6, <2>5, <2>6 DEF Create
<1>7. ASSUME NEW t \in Tasks, Admit(t) PROVE TypeOK'
  <2>1. req[t].text \in Texts
    BY <1>7 DEF Admit, Placed, Request
  <2> QED BY <1>7, <2>1 DEF Admit
<1>8. ASSUME NEW t \in Tasks, Trip(t) PROVE TypeOK'
  BY <1>8 DEF Trip, ReleaseClaim
<1>9. ASSUME NEW t \in Tasks, Launch(t) PROVE TypeOK'
  BY <1>9 DEF Launch
<1>10. ASSUME NEW t \in Tasks, AcquireSlot(t) PROVE TypeOK'
  BY <1>10 DEF AcquireSlot
<1>11. ASSUME NEW t \in Tasks, AcquireLock(t) PROVE TypeOK'
  <2>1. sess[t] \in Sessions
    BY <1>11 DEF AcquireLock, Placed, Claiming
  <2>2. Stamped(lastUsedAt, sess[t]) \in [Sessions -> Nat]
    BY <2>1, StampedRanks DEF FinitelyUsed
  <2> QED BY <1>11, <2>1, <2>2 DEF AcquireLock
<1>12. ASSUME NEW t \in Tasks, RegisterSponsored(t) PROVE TypeOK'
  BY <1>12 DEF RegisterSponsored
<1>13. ASSUME NEW t \in Tasks, AppendAsk(t) PROVE TypeOK'
  <2>1. sess[t] \in Sessions
    BY <1>13 DEF AppendAsk, Placed, Claiming
  <2>2. Stamped(activity, sess[t]) \in [Sessions -> Nat]
    BY <2>1, StampedRanks DEF FinitelyUsed
  <2> QED BY <1>13, <2>1, <2>2 DEF AppendAsk
<1>14. ASSUME NEW t \in Tasks, NEW o \in Outcomes, Finish(t, o) PROVE TypeOK'
  BY <1>14 DEF Finish, HandlesWithout
<1>15. ASSUME NEW t \in Tasks, ReleaseSpawn(t) PROVE TypeOK'
  BY <1>15 DEF ReleaseSpawn, ReleaseClaim
<1>16. ASSUME NEW t \in Tasks, Unlock(t) PROVE TypeOK'
  BY <1>16 DEF Unlock
<1>17. ASSUME NEW t \in Tasks, Settle(t) PROVE TypeOK'
  BY <1>17 DEF Settle
<1>18. ASSUME NEW t \in Tasks, RecordOutcome(t) PROVE TypeOK'
  <2>1. sess[t] \in Sessions
    BY <1>18 DEF RecordOutcome, Placed
  <2>2. slots >= 1
    <3>1. t \in SlotTakers
      BY <1>18 DEF RecordOutcome, SlotTakers, Slotted
    <3>2. Cardinality(SlotTakers) # 0
      BY <3>1, FS_EmptySet DEF SlotCount
    <3> QED BY <3>2 DEF SlotCount
  <2> QED BY <1>18, <2>1, <2>2 DEF RecordOutcome, StreakAfter, SlotsAfterRecord
<1>19. ASSUME NEW t \in Tasks, RecordAnchor(t) PROVE TypeOK'
  <2>1. sess[t] \in Sessions
    BY <1>19 DEF RecordAnchor, Placed
  <2>2. slots >= 1
    <3>1. t \in SlotTakers
      BY <1>19 DEF RecordAnchor, SlotTakers, Slotted
    <3>2. Cardinality(SlotTakers) # 0
      BY <3>1, FS_EmptySet DEF SlotCount
    <3> QED BY <3>2 DEF SlotCount
  <2> QED BY <1>19, <2>1, <2>2 DEF RecordAnchor
<1>20. ASSUME NEW ms \in SUBSET Mains, Stop(ms) PROVE TypeOK'
  BY <1>20 DEF Stop
<1>21. CASE Restart
  BY <1>21 DEF Restart
<1>22. CASE UNCHANGED vars
  BY <1>22
<1> QED
  BY <1>1, <1>2, <1>3, <1>4, <1>5, <1>6, <1>7, <1>8, <1>9, <1>10, <1>11, <1>12,
     <1>13, <1>14, <1>15, <1>16, <1>17, <1>18, <1>19, <1>20, <1>21, <1>22
     DEF Next, SubmitStep, RunStep, CancelSubAgents, CancelAllSubAgents

(* A submission keeps its request, and its session while it needs one.     *)
LEMMA PlacedStep == WellFormed /\ [Next]_vars => Placed'
<1> SUFFICES ASSUME WellFormed, [Next]_vars PROVE Placed'
  OBVIOUS
<1> USE ConstantsAssumption DEF WellFormed, TypeOK, Placed, Submitting, Waiting,
        Executing, Leaving, Closing, Claiming, Goto, vars, taskVars, stateVars,
        storeVars
<1>1. ASSUME NEW t \in Tasks, NEW m \in Mains, NEW x \in Texts,
             NEW p \in Profiles \cup {None}, NEW e \in ExplicitIds \cup {None},
             Submit(t, m, x, p, e)
      PROVE  Placed'
  <2>1. Target(anchors[<<m, x>>], e) \in Sessions \cup {None}
    BY <1>1 DEF Target, Keys
  <2> QED BY <1>1, <2>1 DEF Submit, Request
<1>2. ASSUME NEW t \in Tasks, ClaimExplicit(t) PROVE Placed'
  BY <1>2 DEF ClaimExplicit, Claim
<1>3. ASSUME NEW t \in Tasks, FindIdle(t) PROVE Placed'
  BY <1>3 DEF FindIdle, Claim, Idle
<1>4. ASSUME NEW t \in Tasks, ListSessions(t) PROVE Placed'
  BY <1>4 DEF ListSessions
<1>5. ASSUME NEW t \in Tasks, Recover(t) PROVE Placed'
  BY <1>5 DEF Recover, Claim
<1>6. ASSUME NEW t \in Tasks, Create(t) PROVE Placed'
  BY <1>6 DEF Create, Claim
<1>7. ASSUME NEW t \in Tasks, Admit(t) PROVE Placed'
  BY <1>7 DEF Admit
<1>8. ASSUME NEW t \in Tasks, Trip(t) PROVE Placed'
  BY <1>8 DEF Trip
<1>9. ASSUME NEW t \in Tasks, Launch(t) PROVE Placed'
  BY <1>9 DEF Launch
<1>10. ASSUME NEW t \in Tasks, AcquireSlot(t) PROVE Placed'
  BY <1>10 DEF AcquireSlot
<1>11. ASSUME NEW t \in Tasks, AcquireLock(t) PROVE Placed'
  BY <1>11 DEF AcquireLock
<1>12. ASSUME NEW t \in Tasks, RegisterSponsored(t) PROVE Placed'
  BY <1>12 DEF RegisterSponsored
<1>13. ASSUME NEW t \in Tasks, AppendAsk(t) PROVE Placed'
  BY <1>13 DEF AppendAsk
<1>14. ASSUME NEW t \in Tasks, NEW o \in Outcomes, Finish(t, o) PROVE Placed'
  BY <1>14 DEF Finish
<1>15. ASSUME NEW t \in Tasks, ReleaseSpawn(t) PROVE Placed'
  BY <1>15 DEF ReleaseSpawn
<1>16. ASSUME NEW t \in Tasks, Unlock(t) PROVE Placed'
  BY <1>16 DEF Unlock
<1>17. ASSUME NEW t \in Tasks, Settle(t) PROVE Placed'
  BY <1>17 DEF Settle
<1>18. ASSUME NEW t \in Tasks, RecordOutcome(t) PROVE Placed'
  BY <1>18 DEF RecordOutcome
<1>19. ASSUME NEW t \in Tasks, RecordAnchor(t) PROVE Placed'
  BY <1>19 DEF RecordAnchor
<1>20. ASSUME NEW ms \in SUBSET Mains, Stop(ms) PROVE Placed'
  BY <1>20 DEF Stop
<1>21. CASE Restart
  BY <1>21 DEF Restart
<1>22. CASE UNCHANGED vars
  BY <1>22
<1> QED
  BY <1>1, <1>2, <1>3, <1>4, <1>5, <1>6, <1>7, <1>8, <1>9, <1>10, <1>11, <1>12,
     <1>13, <1>14, <1>15, <1>16, <1>17, <1>18, <1>19, <1>20, <1>21, <1>22
     DEF Next, SubmitStep, RunStep, CancelSubAgents, CancelAllSubAgents

(* Slots stay accounted for.                                               *)
LEMMA SlotStep == WellFormed /\ [Next]_vars => SlotCount'
<1> SUFFICES ASSUME WellFormed, [Next]_vars PROVE SlotCount'
  OBVIOUS
<1> USE ConstantsAssumption DEF WellFormed, TypeOK, Phases, Submitting, Waiting,
        Executing, Leaving, Closing, Holding, Slotted, Goto, vars, taskVars,
        stateVars, storeVars
<1>0. ASSUME SlotTakers' = SlotTakers, slots' = slots PROVE SlotCount'
  BY <1>0 DEF SlotCount
<1>1. ASSUME NEW t \in Tasks, NEW m \in Mains, NEW x \in Texts,
             NEW p \in Profiles \cup {None}, NEW e \in ExplicitIds \cup {None},
             Submit(t, m, x, p, e)
      PROVE  SlotCount'
  BY <1>1, <1>0 DEF Submit, SlotTakers
<1>2. ASSUME NEW t \in Tasks, ClaimExplicit(t) PROVE SlotCount'
  BY <1>2, <1>0 DEF ClaimExplicit, Claim, SlotTakers
<1>3. ASSUME NEW t \in Tasks, FindIdle(t) PROVE SlotCount'
  BY <1>3, <1>0 DEF FindIdle, Claim, SlotTakers
<1>4. ASSUME NEW t \in Tasks, ListSessions(t) PROVE SlotCount'
  BY <1>4, <1>0 DEF ListSessions, SlotTakers
<1>5. ASSUME NEW t \in Tasks, Recover(t) PROVE SlotCount'
  BY <1>5, <1>0 DEF Recover, Claim, SlotTakers
<1>6. ASSUME NEW t \in Tasks, Create(t) PROVE SlotCount'
  BY <1>6, <1>0 DEF Create, Claim, SlotTakers
<1>7. ASSUME NEW t \in Tasks, Admit(t) PROVE SlotCount'
  BY <1>7, <1>0 DEF Admit, SlotTakers
<1>8. ASSUME NEW t \in Tasks, Trip(t) PROVE SlotCount'
  BY <1>8, <1>0 DEF Trip, SlotTakers
<1>9. ASSUME NEW t \in Tasks, Launch(t) PROVE SlotCount'
  BY <1>9, <1>0 DEF Launch, SlotTakers
<1>10. ASSUME NEW t \in Tasks, AcquireSlot(t) PROVE SlotCount'
  <2>1. /\ IsFiniteSet(SlotTakers')
        /\ Cardinality(SlotTakers') = Cardinality(SlotTakers) + 1
    BY <1>10, SlotTaken DEF AcquireSlot, SlotCount
  <2> QED BY <1>10, <2>1 DEF AcquireSlot, SlotFree, SlotCount
<1>11. ASSUME NEW t \in Tasks, AcquireLock(t) PROVE SlotCount'
  BY <1>11, <1>0 DEF AcquireLock, SlotTakers
<1>12. ASSUME NEW t \in Tasks, RegisterSponsored(t) PROVE SlotCount'
  BY <1>12, <1>0 DEF RegisterSponsored, SlotTakers
<1>13. ASSUME NEW t \in Tasks, AppendAsk(t) PROVE SlotCount'
  BY <1>13, <1>0 DEF AppendAsk, SlotTakers
<1>14. ASSUME NEW t \in Tasks, NEW o \in Outcomes, Finish(t, o) PROVE SlotCount'
  BY <1>14, <1>0 DEF Finish, SlotTakers
<1>15. ASSUME NEW t \in Tasks, ReleaseSpawn(t) PROVE SlotCount'
  BY <1>15, <1>0 DEF ReleaseSpawn, SlotTakers
<1>16. ASSUME NEW t \in Tasks, Unlock(t) PROVE SlotCount'
  BY <1>16, <1>0 DEF Unlock, SlotTakers
<1>17. ASSUME NEW t \in Tasks, Settle(t) PROVE SlotCount'
  BY <1>17, <1>0 DEF Settle, SlotTakers
<1>18. ASSUME NEW t \in Tasks, RecordOutcome(t) PROVE SlotCount'
  <2>1. CASE outcome[t] = "max_iterations"
    BY <1>18, <2>1, <1>0 DEF RecordOutcome, SlotsAfterRecord, SlotTakers
  <2>2. CASE outcome[t] # "max_iterations"
    <3>1. /\ IsFiniteSet(SlotTakers')
          /\ Cardinality(SlotTakers') = Cardinality(SlotTakers) - 1
      BY <1>18, <2>2, SlotReturned DEF RecordOutcome, SlotCount
    <3> QED BY <1>18, <2>2, <3>1 DEF RecordOutcome, SlotsAfterRecord, SlotCount
  <2> QED BY <2>1, <2>2
<1>19. ASSUME NEW t \in Tasks, RecordAnchor(t) PROVE SlotCount'
  <2>1. /\ IsFiniteSet(SlotTakers')
        /\ Cardinality(SlotTakers') = Cardinality(SlotTakers) - 1
    BY <1>19, SlotReturned DEF RecordAnchor, SlotCount
  <2> QED BY <1>19, <2>1 DEF RecordAnchor, SlotCount
<1>20. ASSUME NEW ms \in SUBSET Mains, Stop(ms) PROVE SlotCount'
  BY <1>20, <1>0 DEF Stop, SlotTakers
<1>21. CASE Restart
  <2>1. SlotTakers' = {}
    BY <1>21 DEF Restart, SlotTakers
  <2> QED BY <1>21, <2>1, FS_EmptySet DEF Restart, SlotCount
<1>22. CASE UNCHANGED vars
  BY <1>22, <1>0 DEF SlotTakers
<1> QED
  BY <1>1, <1>2, <1>3, <1>4, <1>5, <1>6, <1>7, <1>8, <1>9, <1>10, <1>11, <1>12,
     <1>13, <1>14, <1>15, <1>16, <1>17, <1>18, <1>19, <1>20, <1>21, <1>22
     DEF Next, SubmitStep, RunStep, CancelSubAgents, CancelAllSubAgents

(* Only finitely many sessions were ever used.                             *)
LEMMA UsedStep == WellFormed /\ [Next]_vars => FinitelyUsed'
<1> SUFFICES ASSUME WellFormed, [Next]_vars PROVE FinitelyUsed'
  OBVIOUS
<1> USE DEF WellFormed, FinitelyUsed, Used, vars, stateVars, storeVars
<1>1. ASSUME NEW t \in Tasks, NEW m \in Mains, NEW x \in Texts,
             NEW p \in Profiles \cup {None}, NEW e \in ExplicitIds \cup {None},
             Submit(t, m, x, p, e)
      PROVE  FinitelyUsed'
  BY <1>1 DEF Submit
<1>2. ASSUME NEW t \in Tasks, ClaimExplicit(t) PROVE FinitelyUsed'
  BY <1>2 DEF ClaimExplicit
<1>3. ASSUME NEW t \in Tasks, FindIdle(t) PROVE FinitelyUsed'
  BY <1>3 DEF FindIdle
<1>4. ASSUME NEW t \in Tasks, ListSessions(t) PROVE FinitelyUsed'
  BY <1>4 DEF ListSessions
<1>5. ASSUME NEW t \in Tasks, Recover(t) PROVE FinitelyUsed'
  BY <1>5 DEF Recover
<1>6. ASSUME NEW t \in Tasks, Create(t) PROVE FinitelyUsed'
  <2>1. CASE \E s \in Sessions : activity' = Stamped(activity, s)
    <3>1. PICK s \in Sessions : activity' = Stamped(activity, s)
      BY <2>1
    <3>2. IsFiniteSet(Used(Stamped(activity, s)))
      BY StampedRanks DEF TypeOK
    <3> QED BY <1>6, <3>1, <3>2 DEF Create
  <2> QED BY <1>6, <2>1 DEF Create
<1>7. ASSUME NEW t \in Tasks, Admit(t) PROVE FinitelyUsed'
  BY <1>7 DEF Admit
<1>8. ASSUME NEW t \in Tasks, Trip(t) PROVE FinitelyUsed'
  BY <1>8 DEF Trip
<1>9. ASSUME NEW t \in Tasks, Launch(t) PROVE FinitelyUsed'
  BY <1>9 DEF Launch
<1>10. ASSUME NEW t \in Tasks, AcquireSlot(t) PROVE FinitelyUsed'
  BY <1>10 DEF AcquireSlot
<1>11. ASSUME NEW t \in Tasks, AcquireLock(t) PROVE FinitelyUsed'
  <2>1. sess[t] \in Sessions
    BY <1>11 DEF AcquireLock, Placed, Claiming, Waiting
  <2>2. IsFiniteSet(Used(Stamped(lastUsedAt, sess[t])))
    BY <2>1, StampedRanks DEF TypeOK
  <2> QED BY <1>11, <2>2 DEF AcquireLock
<1>12. ASSUME NEW t \in Tasks, RegisterSponsored(t) PROVE FinitelyUsed'
  BY <1>12 DEF RegisterSponsored
<1>13. ASSUME NEW t \in Tasks, AppendAsk(t) PROVE FinitelyUsed'
  <2>1. sess[t] \in Sessions
    BY <1>13 DEF AppendAsk, Placed, Claiming, Executing
  <2>2. IsFiniteSet(Used(Stamped(activity, sess[t])))
    BY <2>1, StampedRanks DEF TypeOK
  <2> QED BY <1>13, <2>2 DEF AppendAsk
<1>14. ASSUME NEW t \in Tasks, NEW o \in Outcomes, Finish(t, o) PROVE FinitelyUsed'
  BY <1>14 DEF Finish
<1>15. ASSUME NEW t \in Tasks, ReleaseSpawn(t) PROVE FinitelyUsed'
  BY <1>15 DEF ReleaseSpawn
<1>16. ASSUME NEW t \in Tasks, Unlock(t) PROVE FinitelyUsed'
  BY <1>16 DEF Unlock
<1>17. ASSUME NEW t \in Tasks, Settle(t) PROVE FinitelyUsed'
  BY <1>17 DEF Settle
<1>18. ASSUME NEW t \in Tasks, RecordOutcome(t) PROVE FinitelyUsed'
  BY <1>18 DEF RecordOutcome
<1>19. ASSUME NEW t \in Tasks, RecordAnchor(t) PROVE FinitelyUsed'
  BY <1>19 DEF RecordAnchor
<1>20. ASSUME NEW ms \in SUBSET Mains, Stop(ms) PROVE FinitelyUsed'
  BY <1>20 DEF Stop
<1>21. CASE Restart
  <2>1. Used(lastUsedAt') = {}
    BY <1>21 DEF Restart
  <2> QED BY <1>21, <2>1, FS_EmptySet DEF Restart
<1>22. CASE UNCHANGED vars
  BY <1>22
<1> QED
  BY <1>1, <1>2, <1>3, <1>4, <1>5, <1>6, <1>7, <1>8, <1>9, <1>10, <1>11, <1>12,
     <1>13, <1>14, <1>15, <1>16, <1>17, <1>18, <1>19, <1>20, <1>21, <1>22
     DEF Next, SubmitStep, RunStep, CancelSubAgents, CancelAllSubAgents

LEMMA WellFormedAlways == Spec => []WellFormed
<1>1. WellFormed /\ [Next]_vars => WellFormed'
  BY TypeStep, PlacedStep, UsedStep, SlotStep DEF WellFormed
<1> QED BY WellFormedInit, <1>1, PTL DEF Spec

(* The variables of subAgentManager always hold values of their kind.      *)
THEOREM TypeCorrect == Spec => []TypeOK
BY WellFormedAlways, PTL DEF WellFormed

(* The semaphore is never over-filled and no way out of runTask loses or   *)
(* gives back twice a place of it: whatever its capacity, and however many *)
(* tasks are submitted.                                                    *)
THEOREM SlotsSafe == Spec => []SlotsAccounted
<1>1. WellFormed => SlotsAccounted
  BY DEF WellFormed, SlotCount, SlotsAccounted, SlotTakers
<1> QED BY <1>1, WellFormedAlways, PTL

-----------------------------------------------------------------------------
\* One run at a time, and its stop handle.

(* The mutex of a session is held by the task whose run is under way on    *)
(* it, and by no other.                                                    *)
LockHeld ==
    \A s \in Sessions, t \in Tasks :
        lock[s] = t <=> pc[t] \in Holding /\ sess[t] = s

Locked == WellFormed /\ LockHeld

LEMMA LockInit == Init => LockHeld
BY ConstantsAssumption DEF Init, LockHeld, Holding, Executing, Leaving

(* A session's mutex is taken when free and released by its holder.        *)
LEMMA LockStep == Locked /\ [Next]_vars => LockHeld'
<1> SUFFICES ASSUME Locked, [Next]_vars PROVE LockHeld'
  OBVIOUS
<1> USE ConstantsAssumption DEF Locked, LockHeld, WellFormed, TypeOK, Waiting, Executing,
        Leaving, Closing, Claiming, Holding, Goto, Placed, vars, taskVars, stateVars
<1>1. ASSUME NEW t \in Tasks, NEW m \in Mains, NEW x \in Texts,
             NEW p \in Profiles \cup {None}, NEW e \in ExplicitIds \cup {None},
             Submit(t, m, x, p, e)
      PROVE  LockHeld'
  BY <1>1 DEF Submit
<1>2. ASSUME NEW t \in Tasks, ClaimExplicit(t) PROVE LockHeld'
  BY <1>2 DEF ClaimExplicit, Claim
<1>3. ASSUME NEW t \in Tasks, FindIdle(t) PROVE LockHeld'
  BY <1>3 DEF FindIdle, Claim
<1>4. ASSUME NEW t \in Tasks, ListSessions(t) PROVE LockHeld'
  BY <1>4 DEF ListSessions
<1>5. ASSUME NEW t \in Tasks, Recover(t) PROVE LockHeld'
  BY <1>5 DEF Recover, Claim
<1>6. ASSUME NEW t \in Tasks, Create(t) PROVE LockHeld'
  BY <1>6 DEF Create, Claim
<1>7. ASSUME NEW t \in Tasks, Admit(t) PROVE LockHeld'
  BY <1>7 DEF Admit
<1>8. ASSUME NEW t \in Tasks, Trip(t) PROVE LockHeld'
  BY <1>8 DEF Trip
<1>9. ASSUME NEW t \in Tasks, Launch(t) PROVE LockHeld'
  BY <1>9 DEF Launch
<1>10. ASSUME NEW t \in Tasks, AcquireSlot(t) PROVE LockHeld'
  BY <1>10 DEF AcquireSlot
<1>11. ASSUME NEW t \in Tasks, AcquireLock(t) PROVE LockHeld'
  BY <1>11 DEF AcquireLock, LockFree
<1>12. ASSUME NEW t \in Tasks, RegisterSponsored(t) PROVE LockHeld'
  BY <1>12 DEF RegisterSponsored
<1>13. ASSUME NEW t \in Tasks, AppendAsk(t) PROVE LockHeld'
  BY <1>13 DEF AppendAsk
<1>14. ASSUME NEW t \in Tasks, NEW o \in Outcomes, Finish(t, o) PROVE LockHeld'
  BY <1>14 DEF Finish
<1>15. ASSUME NEW t \in Tasks, ReleaseSpawn(t) PROVE LockHeld'
  BY <1>15 DEF ReleaseSpawn
<1>16. ASSUME NEW t \in Tasks, Unlock(t) PROVE LockHeld'
  BY <1>16 DEF Unlock
<1>17. ASSUME NEW t \in Tasks, Settle(t) PROVE LockHeld'
  BY <1>17 DEF Settle
<1>18. ASSUME NEW t \in Tasks, RecordOutcome(t) PROVE LockHeld'
  BY <1>18 DEF RecordOutcome
<1>19. ASSUME NEW t \in Tasks, RecordAnchor(t) PROVE LockHeld'
  BY <1>19 DEF RecordAnchor
<1>20. ASSUME NEW ms \in SUBSET Mains, Stop(ms) PROVE LockHeld'
  BY <1>20 DEF Stop
<1>21. CASE Restart
  BY <1>21 DEF Restart
<1>22. CASE UNCHANGED vars
  BY <1>22
<1> HIDE DEF Locked, LockHeld, WellFormed, TypeOK, Placed
<1> QED
  BY <1>1, <1>2, <1>3, <1>4, <1>5, <1>6, <1>7, <1>8, <1>9, <1>10, <1>11, <1>12,
     <1>13, <1>14, <1>15, <1>16, <1>17, <1>18, <1>19, <1>20, <1>21, <1>22
     DEF Next, SubmitStep, RunStep, CancelSubAgents, CancelAllSubAgents

LEMMA LockedAlways == Spec => []Locked
<1>1. Init => Locked
  BY WellFormedInit, LockInit DEF Locked
<1>2. Locked /\ [Next]_vars => Locked'
  BY TypeStep, PlacedStep, UsedStep, SlotStep, LockStep DEF Locked, WellFormed
<1> QED BY <1>1, <1>2, PTL DEF Spec

(* Two sub-agent runs never interleave their messages on one session,      *)
(* although a session named explicitly is claimed by several tasks.        *)
THEOREM MutualExclusion == Spec => []OneRunPerSession
<1>1. Locked => OneRunPerSession
  BY DEF Locked, WellFormed, LockHeld, OneRunPerSession, Placed, Holding, Claiming,
         Leaving, Closing
<1> QED BY <1>1, LockedAlways, PTL

(* A run is cancelled only while it is under way, and the stop handles are *)
(* those of the runs nobody stopped.                                       *)
HandlesHeld ==
    /\ StopHandlesExact
    /\ \A t \in Tasks : cancelled[t] => pc[t] \in {"running", "asked"}

Handled == Locked /\ HandlesHeld

LEMMA HandlesInit == Init => HandlesHeld
BY ConstantsAssumption DEF Init, HandlesHeld, StopHandlesExact

(* A stop handle is filed, taken out and dropped with its run.             *)
LEMMA HandlesStep == Handled /\ [Next]_vars => HandlesHeld'
<1> SUFFICES ASSUME Handled, [Next]_vars PROVE HandlesHeld'
  OBVIOUS
<1> USE ConstantsAssumption DEF Handled, Locked, LockHeld, WellFormed, TypeOK, HandlesHeld,
        StopHandlesExact, Placed, Request, Waiting, Executing, Leaving, Closing, Claiming,
        Holding, Goto, vars, taskVars
<1>0. ASSUME sponsored' = sponsored, cancelled' = cancelled,
             \A u \in Tasks :
                /\ pc'[u] \in {"running", "asked"} <=> pc[u] \in {"running", "asked"}
                /\ pc[u] \in {"running", "asked"} => req'[u] = req[u] /\ sess'[u] = sess[u]
      PROVE  HandlesHeld'
  BY <1>0
<1>1. ASSUME NEW t \in Tasks, NEW m \in Mains, NEW x \in Texts,
             NEW p \in Profiles \cup {None}, NEW e \in ExplicitIds \cup {None},
             Submit(t, m, x, p, e)
      PROVE  HandlesHeld'
  <2> HIDE DEF HandlesHeld, StopHandlesExact
  <2> QED BY <1>1, <1>0 DEF Submit
<1>2. ASSUME NEW t \in Tasks, ClaimExplicit(t) PROVE HandlesHeld'
  <2> HIDE DEF HandlesHeld, StopHandlesExact
  <2> QED BY <1>2, <1>0 DEF ClaimExplicit, Claim
<1>3. ASSUME NEW t \in Tasks, FindIdle(t) PROVE HandlesHeld'
  <2> HIDE DEF HandlesHeld, StopHandlesExact
  <2> QED BY <1>3, <1>0 DEF FindIdle, Claim
<1>4. ASSUME NEW t \in Tasks, ListSessions(t) PROVE HandlesHeld'
  <2> HIDE DEF HandlesHeld, StopHandlesExact
  <2> QED BY <1>4, <1>0 DEF ListSessions
<1>5. ASSUME NEW t \in Tasks, Recover(t) PROVE HandlesHeld'
  <2> HIDE DEF HandlesHeld, StopHandlesExact
  <2> QED BY <1>5, <1>0 DEF Recover, Claim
<1>6. ASSUME NEW t \in Tasks, Create(t) PROVE HandlesHeld'
  <2> HIDE DEF HandlesHeld, StopHandlesExact
  <2> QED BY <1>6, <1>0 DEF Create, Claim
<1>7. ASSUME NEW t \in Tasks, Admit(t) PROVE HandlesHeld'
  <2> HIDE DEF HandlesHeld, StopHandlesExact
  <2> QED BY <1>7, <1>0 DEF Admit
<1>8. ASSUME NEW t \in Tasks, Trip(t) PROVE HandlesHeld'
  <2> HIDE DEF HandlesHeld, StopHandlesExact
  <2> QED BY <1>8, <1>0 DEF Trip
<1>9. ASSUME NEW t \in Tasks, Launch(t) PROVE HandlesHeld'
  <2> HIDE DEF HandlesHeld, StopHandlesExact
  <2> QED BY <1>9, <1>0 DEF Launch
<1>10. ASSUME NEW t \in Tasks, AcquireSlot(t) PROVE HandlesHeld'
  <2> HIDE DEF HandlesHeld, StopHandlesExact
  <2> QED BY <1>10, <1>0 DEF AcquireSlot
<1>11. ASSUME NEW t \in Tasks, AcquireLock(t) PROVE HandlesHeld'
  <2> HIDE DEF HandlesHeld, StopHandlesExact
  <2> QED BY <1>11, <1>0 DEF AcquireLock
<1>12. ASSUME NEW t \in Tasks, RegisterSponsored(t) PROVE HandlesHeld'
  BY <1>12 DEF RegisterSponsored
<1>13. ASSUME NEW t \in Tasks, AppendAsk(t) PROVE HandlesHeld'
  <2> HIDE DEF HandlesHeld, StopHandlesExact
  <2> QED BY <1>13, <1>0 DEF AppendAsk
<1>14. ASSUME NEW t \in Tasks, NEW o \in Outcomes, Finish(t, o) PROVE HandlesHeld'
  BY <1>14 DEF Finish, HandlesWithout
<1>15. ASSUME NEW t \in Tasks, ReleaseSpawn(t) PROVE HandlesHeld'
  <2> HIDE DEF HandlesHeld, StopHandlesExact
  <2> QED BY <1>15, <1>0 DEF ReleaseSpawn
<1>16. ASSUME NEW t \in Tasks, Unlock(t) PROVE HandlesHeld'
  <2> HIDE DEF HandlesHeld, StopHandlesExact
  <2> QED BY <1>16, <1>0 DEF Unlock
<1>17. ASSUME NEW t \in Tasks, Settle(t) PROVE HandlesHeld'
  <2> HIDE DEF HandlesHeld, StopHandlesExact
  <2> QED BY <1>17, <1>0 DEF Settle
<1>18. ASSUME NEW t \in Tasks, RecordOutcome(t) PROVE HandlesHeld'
  <2> HIDE DEF HandlesHeld, StopHandlesExact
  <2> QED BY <1>18, <1>0 DEF RecordOutcome
<1>19. ASSUME NEW t \in Tasks, RecordAnchor(t) PROVE HandlesHeld'
  <2> HIDE DEF HandlesHeld, StopHandlesExact
  <2> QED BY <1>19, <1>0 DEF RecordAnchor
<1>20. ASSUME NEW ms \in SUBSET Mains, Stop(ms) PROVE HandlesHeld'
  BY <1>20 DEF Stop
<1>21. CASE Restart
  BY <1>21 DEF Restart
<1>22. CASE UNCHANGED vars
  BY <1>22
<1> HIDE DEF Handled, Locked, LockHeld, WellFormed, TypeOK, HandlesHeld,
        StopHandlesExact, Placed
<1> QED
  BY <1>1, <1>2, <1>3, <1>4, <1>5, <1>6, <1>7, <1>8, <1>9, <1>10, <1>11, <1>12,
     <1>13, <1>14, <1>15, <1>16, <1>17, <1>18, <1>19, <1>20, <1>21, <1>22
     DEF Next, SubmitStep, RunStep, CancelSubAgents, CancelAllSubAgents

(* A stop reaches exactly the runs that are registered: no handle outlives *)
(* its run, none is lost to a later run on the same session, and none is   *)
(* filed under another main session.                                       *)
THEOREM HandlesExact == Spec => []StopHandlesExact
<1>1. Init => Handled
  BY WellFormedInit, LockInit, HandlesInit DEF Handled, Locked
<1>2. Handled /\ [Next]_vars => Handled'
  BY TypeStep, PlacedStep, UsedStep, SlotStep, LockStep, HandlesStep
     DEF Handled, Locked, WellFormed
<1> QED BY <1>1, <1>2, PTL DEF Spec, Handled, HandlesHeld

-----------------------------------------------------------------------------
\* Claims and verdicts.

LEMMA ClaimInit == Init => ClaimHasOwner
BY DEF Init, ClaimHasOwner

(* A claim flag goes down before its last claimant leaves.                 *)
LEMMA ClaimStep == WellFormed /\ ClaimHasOwner /\ [Next]_vars => ClaimHasOwner'
<1> SUFFICES ASSUME WellFormed, ClaimHasOwner, [Next]_vars PROVE ClaimHasOwner'
  OBVIOUS
<1> USE ConstantsAssumption DEF WellFormed, TypeOK, ClaimHasOwner, Waiting,
        Executing, Claiming, Goto, vars, taskVars, stateVars
<1>0. ASSUME NEW t \in Tasks, NEW s \in Sessions, Claim(t, s),
             pc[t] \notin Claiming \cup {"error"}
      PROVE  ClaimHasOwner'
  BY <1>0 DEF Claim
<1>f. ASSUME NEW t \in Tasks, pc[t] \notin Claiming \cup {"error"},
             Goto(t, "error"), UNCHANGED <<spawning, sess>>
      PROVE  ClaimHasOwner'
  <2>1. \A u \in Tasks : pc[u] \in Claiming \cup {"error"} => pc'[u] = pc[u]
    BY <1>f
  <2> HIDE DEF Claiming
  <2> QED BY <1>f, <2>1
<1>1. ASSUME NEW t \in Tasks, NEW m \in Mains, NEW x \in Texts,
             NEW p \in Profiles \cup {None}, NEW e \in ExplicitIds \cup {None},
             Submit(t, m, x, p, e)
      PROVE  ClaimHasOwner'
  <2>1. \A u \in Tasks : pc[u] \in Claiming \cup {"error"} => pc'[u] = pc[u]
    BY <1>1 DEF Submit
  <2> HIDE DEF Claiming
  <2> QED BY <1>1, <2>1 DEF Submit
<1>2. ASSUME NEW t \in Tasks, ClaimExplicit(t) PROVE ClaimHasOwner'
  <2>1. want[t] \in Sessions /\ pc[t] \notin Claiming \cup {"error"}
    BY <1>2 DEF ClaimExplicit, Placed
  <2> HIDE DEF ClaimHasOwner, Claiming, Goto
  <2> QED BY <1>2, <1>0, <1>f, <2>1 DEF ClaimExplicit
<1>3. ASSUME NEW t \in Tasks, FindIdle(t) PROVE ClaimHasOwner'
  BY <1>3 DEF FindIdle, Claim
<1>4. ASSUME NEW t \in Tasks, ListSessions(t) PROVE ClaimHasOwner'
  BY <1>4 DEF ListSessions
<1>5. ASSUME NEW t \in Tasks, Recover(t) PROVE ClaimHasOwner'
  <2>1. want[t] \in Sessions /\ pc[t] \notin Claiming \cup {"error"}
    BY <1>5 DEF Recover, Placed
  <2>2. CASE Claim(t, want[t])
    <3> HIDE DEF ClaimHasOwner, Claiming
    <3> QED BY <1>0, <2>1, <2>2
  <2>3. CASE Goto(t, "create") /\ UNCHANGED <<spawning, sess>>
    <3>1. \A u \in Tasks \ {t} : pc'[u] = pc[u]
      BY <2>3
    <3> HIDE DEF Claiming
    <3> QED BY <2>1, <2>3, <3>1
  <2> QED BY <1>5, <2>2, <2>3 DEF Recover
<1>6. ASSUME NEW t \in Tasks, Create(t) PROVE ClaimHasOwner'
  <2>1. pc[t] \notin Claiming \cup {"error"}
    BY <1>6 DEF Create
  <2> HIDE DEF ClaimHasOwner, Claiming, Goto
  <2> QED BY <1>6, <1>0, <1>f, <2>1 DEF Create
<1>7. ASSUME NEW t \in Tasks, Admit(t) PROVE ClaimHasOwner'
  BY <1>7 DEF Admit
<1>8. ASSUME NEW t \in Tasks, Trip(t) PROVE ClaimHasOwner'
  BY <1>8 DEF Trip, ReleaseClaim
<1>9. ASSUME NEW t \in Tasks, Launch(t) PROVE ClaimHasOwner'
  <2>1. \A u \in Tasks : pc[u] \in Claiming => pc'[u] \in Claiming \cup {"error"}
    BY <1>9 DEF Launch
  <2>2. \A u \in Tasks : pc[u] = "error" => pc'[u] = "error"
    BY <1>9 DEF Launch
  <2> HIDE DEF Claiming
  <2> QED BY <1>9, <2>1, <2>2 DEF Launch
<1>10. ASSUME NEW t \in Tasks, AcquireSlot(t) PROVE ClaimHasOwner'
  BY <1>10 DEF AcquireSlot
<1>11. ASSUME NEW t \in Tasks, AcquireLock(t) PROVE ClaimHasOwner'
  BY <1>11 DEF AcquireLock
<1>12. ASSUME NEW t \in Tasks, RegisterSponsored(t) PROVE ClaimHasOwner'
  BY <1>12 DEF RegisterSponsored
<1>13. ASSUME NEW t \in Tasks, AppendAsk(t) PROVE ClaimHasOwner'
  BY <1>13 DEF AppendAsk
<1>14. ASSUME NEW t \in Tasks, NEW o \in Outcomes, Finish(t, o) PROVE ClaimHasOwner'
  BY <1>14 DEF Finish
<1>15. ASSUME NEW t \in Tasks, ReleaseSpawn(t) PROVE ClaimHasOwner'
  BY <1>15 DEF ReleaseSpawn, ReleaseClaim
<1>16. ASSUME NEW t \in Tasks, Unlock(t) PROVE ClaimHasOwner'
  <2>1. \A u \in Tasks : pc[u] \in Claiming \cup {"error"} => pc'[u] = pc[u]
    BY <1>16 DEF Unlock
  <2> QED BY <1>16, <2>1 DEF Unlock
<1>17. ASSUME NEW t \in Tasks, Settle(t) PROVE ClaimHasOwner'
  BY <1>17 DEF Settle
<1>18. ASSUME NEW t \in Tasks, RecordOutcome(t) PROVE ClaimHasOwner'
  BY <1>18 DEF RecordOutcome
<1>19. ASSUME NEW t \in Tasks, RecordAnchor(t) PROVE ClaimHasOwner'
  BY <1>19 DEF RecordAnchor
<1>20. ASSUME NEW ms \in SUBSET Mains, Stop(ms) PROVE ClaimHasOwner'
  BY <1>20 DEF Stop
<1>21. CASE Restart
  BY <1>21 DEF Restart
<1>22. CASE UNCHANGED vars
  BY <1>22
<1> HIDE DEF ClaimHasOwner, WellFormed, TypeOK
<1> QED
  BY <1>1, <1>2, <1>3, <1>4, <1>5, <1>6, <1>7, <1>8, <1>9, <1>10, <1>11, <1>12,
     <1>13, <1>14, <1>15, <1>16, <1>17, <1>18, <1>19, <1>20, <1>21, <1>22
     DEF Next, SubmitStep, RunStep, CancelSubAgents, CancelAllSubAgents

(* No refusal, and no end of a run, leaves a session claimed by nobody:    *)
(* unless a callback panicked, a session whose flag is up has a task that  *)
(* will clear it.                                                          *)
THEOREM ClaimsOwned == Spec => []ClaimHasOwner
<1>1. Init => ClaimHasOwner
  BY ClaimInit
<1>2. WellFormed /\ ClaimHasOwner /\ [Next]_vars => ClaimHasOwner'
  BY ClaimStep
<1> QED BY <1>1, <1>2, WellFormedAlways, PTL DEF Spec

(* What is held is held by somebody who will give it back: the invariant   *)
(* the runs check is the four above together.                              *)
THEOREM HoldingsSafe == Spec => []HoldingsOwned
BY TypeCorrect, SlotsSafe, HandlesExact, ClaimsOwned, PTL DEF HoldingsOwned

(* A handle is settled only by a task that has nothing left to report.     *)
SettledLast ==
    \A t \in Tasks : board[t] \in {"completed", "failed"}
                      => pc[t] \in {"error", "record", "anchor", "done"}


(* A settled task reports nothing more.                                    *)
LEMMA SettledStep == WellFormed /\ SettledLast /\ [Next]_vars => SettledLast'
<1> SUFFICES ASSUME WellFormed, SettledLast, [Next]_vars PROVE SettledLast'
  OBVIOUS
<1> USE DEF WellFormed, TypeOK, SettledLast, Goto, vars, taskVars
<1>1. ASSUME NEW t \in Tasks, NEW m \in Mains, NEW x \in Texts,
             NEW p \in Profiles \cup {None}, NEW e \in ExplicitIds \cup {None},
             Submit(t, m, x, p, e)
      PROVE  SettledLast'
  BY <1>1 DEF Submit
<1>2. ASSUME NEW t \in Tasks, ClaimExplicit(t) PROVE SettledLast'
  BY <1>2 DEF ClaimExplicit, Claim
<1>3. ASSUME NEW t \in Tasks, FindIdle(t) PROVE SettledLast'
  BY <1>3 DEF FindIdle, Claim
<1>4. ASSUME NEW t \in Tasks, ListSessions(t) PROVE SettledLast'
  BY <1>4 DEF ListSessions
<1>5. ASSUME NEW t \in Tasks, Recover(t) PROVE SettledLast'
  BY <1>5 DEF Recover, Claim
<1>6. ASSUME NEW t \in Tasks, Create(t) PROVE SettledLast'
  BY <1>6 DEF Create, Claim
<1>7. ASSUME NEW t \in Tasks, Admit(t) PROVE SettledLast'
  BY <1>7 DEF Admit
<1>8. ASSUME NEW t \in Tasks, Trip(t) PROVE SettledLast'
  BY <1>8 DEF Trip
<1>9. ASSUME NEW t \in Tasks, Launch(t) PROVE SettledLast'
  BY <1>9 DEF Launch
<1>10. ASSUME NEW t \in Tasks, AcquireSlot(t) PROVE SettledLast'
  BY <1>10 DEF AcquireSlot
<1>11. ASSUME NEW t \in Tasks, AcquireLock(t) PROVE SettledLast'
  BY <1>11 DEF AcquireLock
<1>12. ASSUME NEW t \in Tasks, RegisterSponsored(t) PROVE SettledLast'
  BY <1>12 DEF RegisterSponsored
<1>13. ASSUME NEW t \in Tasks, AppendAsk(t) PROVE SettledLast'
  BY <1>13 DEF AppendAsk
<1>14. ASSUME NEW t \in Tasks, NEW o \in Outcomes, Finish(t, o) PROVE SettledLast'
  BY <1>14 DEF Finish
<1>15. ASSUME NEW t \in Tasks, ReleaseSpawn(t) PROVE SettledLast'
  BY <1>15 DEF ReleaseSpawn
<1>16. ASSUME NEW t \in Tasks, Unlock(t) PROVE SettledLast'
  BY <1>16 DEF Unlock
<1>17. ASSUME NEW t \in Tasks, Settle(t) PROVE SettledLast'
  BY <1>17 DEF Settle
<1>18. ASSUME NEW t \in Tasks, RecordOutcome(t) PROVE SettledLast'
  BY <1>18 DEF RecordOutcome
<1>19. ASSUME NEW t \in Tasks, RecordAnchor(t) PROVE SettledLast'
  BY <1>19 DEF RecordAnchor
<1>20. ASSUME NEW ms \in SUBSET Mains, Stop(ms) PROVE SettledLast'
  BY <1>20 DEF Stop
<1>21. CASE Restart
  BY <1>21 DEF Restart
<1>22. CASE UNCHANGED vars
  BY <1>22
<1> QED
  BY <1>1, <1>2, <1>3, <1>4, <1>5, <1>6, <1>7, <1>8, <1>9, <1>10, <1>11, <1>12,
     <1>13, <1>14, <1>15, <1>16, <1>17, <1>18, <1>19, <1>20, <1>21, <1>22
     DEF Next, SubmitStep, RunStep, CancelSubAgents, CancelAllSubAgents

(* The verdict CollectResults reads for a handle never changes: neither a  *)
(* panic, nor a stop, nor another task on the same session rewrites it.    *)
THEOREM VerdictFinal == Spec => SettledIsFinal
<1>1. Init => SettledLast
  BY DEF Init, SettledLast
<1>2. WellFormed /\ SettledLast /\ [Next]_vars => SettledLast'
  BY SettledStep
<1>3. ASSUME WellFormed, SettledLast, [Next]_vars, NEW t \in Tasks,
             board[t] \in {"completed", "failed"}
      PROVE  board'[t] = board[t] \/ Restart
  <2> USE <1>3 DEF WellFormed, TypeOK, SettledLast
  <2>1. CASE UNCHANGED board
    BY <2>1
  <2>2. ASSUME NEW u \in Tasks, Admit(u) \/ Launch(u) \/ Settle(u)
        PROVE  board'[t] = board[t]
    BY <2>2 DEF Admit, Launch, Settle
  <2>3. UNCHANGED board \/ (\E u \in Tasks : Admit(u) \/ Launch(u) \/ Settle(u))
                         \/ Restart
    <3>1. ASSUME NEW u \in Tasks, SubmitStep(u)
          PROVE  UNCHANGED board \/ Admit(u) \/ Launch(u)
      BY <3>1 DEF SubmitStep, ClaimExplicit, FindIdle, ListSessions, Recover, Create, Trip
    <3>2. ASSUME NEW u \in Tasks, RunStep(u)
          PROVE  UNCHANGED board \/ Settle(u)
      BY <3>2 DEF RunStep, RegisterSponsored, AppendAsk, Finish, ReleaseSpawn,
          Unlock, RecordOutcome, RecordAnchor
    <3>3. ASSUME NEW u \in Tasks,
                 \/ AcquireSlot(u)
                 \/ AcquireLock(u)
                 \/ \E m \in Mains, x \in Texts, p \in Profiles \cup {None},
                      e \in ExplicitIds \cup {None} : Submit(u, m, x, p, e)
          PROVE  UNCHANGED board
      BY <3>3 DEF AcquireSlot, AcquireLock, Submit
    <3>4. ASSUME NEW ms \in SUBSET Mains, Stop(ms) PROVE UNCHANGED board
      BY <3>4 DEF Stop
    <3>5. CASE Next
      <4> HIDE DEF WellFormed, TypeOK, SettledLast
      <4> QED BY <3>1, <3>2, <3>3, <3>4, <3>5
                 DEF Next, CancelSubAgents, CancelAllSubAgents
    <3>6. CASE UNCHANGED vars
      BY <3>6 DEF vars
    <3> QED BY <3>5, <3>6
  <2> QED BY <2>1, <2>2, <2>3
<1>4. WellFormed /\ SettledLast /\ [Next]_vars
        => [\A t \in Tasks : board[t] \in {"completed", "failed"}
                             => board'[t] = board[t] \/ Restart]_vars
  BY <1>3
<1> QED BY <1>1, <1>2, <1>4, WellFormedAlways, PTL DEF Spec, SettledIsFinal

-----------------------------------------------------------------------------
\* Failed tasks and their anchors.

Exhausted(t) == outcome[t] = "max_iterations"

(* A task out of iterations is anchored before its goroutine is done, and  *)
(* the anchor of its text names a session such a task failed in.           *)
AnchorsKept ==
    \A t \in Tasks :
        /\ pc[t] = "anchor" => Exhausted(t)
        /\ pc[t] = "done" /\ Exhausted(t)
             => /\ anchors[Key(t)] \in Sessions
                /\ \E u \in FailedBefore(Key(t)) : anchors[Key(t)] = sess[u]

AnchorsFull == Cardinality({k \in Keys : anchors[k] # None}) >= AnchorLimit
NoOverflow  == AnchorsFull => \A t \in Tasks : ~RecordAnchor(t)

LEMMA AnchorsInit == Init => AnchorsKept
BY DEF Init, AnchorsKept

(* While the table does not overflow, no anchor is lost but with the       *)
(* process, and one is only replaced by another task of the same text.     *)
LEMMA AnchorsStep == WellFormed /\ AnchorsKept /\ [Next]_vars /\ [NoOverflow]_vars => AnchorsKept'
<1> SUFFICES ASSUME WellFormed, AnchorsKept, [Next]_vars, [NoOverflow]_vars PROVE AnchorsKept'
  OBVIOUS
<1> USE DEF WellFormed, TypeOK, Goto, vars, taskVars, stateVars
<1>0. ASSUME anchors' = anchors,
             \A u \in Tasks :
                pc'[u] \in {"anchor", "done"} \/ pc[u] \in {"anchor", "done"}
                  => /\ pc'[u] = pc[u] /\ req'[u] = req[u]
                     /\ sess'[u] = sess[u] /\ outcome'[u] = outcome[u]
      PROVE  AnchorsKept'
  <2>1. \A u \in Tasks : pc[u] \in {"anchor", "done"} => Key(u)' = Key(u)
    BY <1>0 DEF Key
  <2>2. \A u \in Tasks : pc[u] \in {"anchor", "done"} => (Exhausted(u)' <=> Exhausted(u))
    BY <1>0 DEF Exhausted
  <2>3. ASSUME NEW t \in Tasks, pc'[t] = "anchor" PROVE Exhausted(t)'
    BY <1>0, <2>2, <2>3 DEF AnchorsKept
  <2>4. ASSUME NEW t \in Tasks, pc'[t] = "done", Exhausted(t)'
        PROVE  /\ anchors'[Key(t)'] \in Sessions
               /\ \E u \in FailedBefore(Key(t))' : anchors'[Key(t)'] = sess'[u]
    <3>1. pc[t] = "done" /\ Exhausted(t) /\ Key(t)' = Key(t)
      BY <1>0, <2>1, <2>2, <2>4
    <3>2. PICK u \in FailedBefore(Key(t)) : anchors[Key(t)] = sess[u]
      BY <3>1 DEF AnchorsKept
    <3>3. u \in Tasks /\ pc[u] = "done" /\ Key(u) = Key(t) /\ Exhausted(u)
      BY <3>2 DEF FailedBefore, Exhausted
    <3>4. pc'[u] = "done" /\ sess'[u] = sess[u] /\ Key(u)' = Key(t)' /\ Exhausted(u)'
      BY <3>3, <3>1, <1>0, <2>1, <2>2
    <3>5. u \in FailedBefore(Key(t))'
      BY <3>3, <3>4 DEF FailedBefore, Exhausted
    <3>6. anchors[Key(t)] \in Sessions
      BY <3>1 DEF AnchorsKept
    <3> QED BY <1>0, <3>1, <3>2, <3>4, <3>5, <3>6
  <2> QED BY <2>3, <2>4 DEF AnchorsKept
<1>1. ASSUME NEW t \in Tasks, NEW m \in Mains, NEW x \in Texts,
             NEW p \in Profiles \cup {None}, NEW e \in ExplicitIds \cup {None},
             Submit(t, m, x, p, e)
      PROVE  AnchorsKept'
  <2>1. \E q \in {"rejected", "find", "locate"} : pc' = [pc EXCEPT ![t] = q]
    BY <1>1 DEF Submit
  <2> QED BY <1>0, <1>1, <2>1 DEF Submit
<1>2. ASSUME NEW t \in Tasks, ClaimExplicit(t) PROVE AnchorsKept'
  BY <1>0, <1>2 DEF ClaimExplicit, Claim
<1>3. ASSUME NEW t \in Tasks, FindIdle(t) PROVE AnchorsKept'
  BY <1>0, <1>3 DEF FindIdle, Claim
<1>4. ASSUME NEW t \in Tasks, ListSessions(t) PROVE AnchorsKept'
  BY <1>0, <1>4 DEF ListSessions
<1>5. ASSUME NEW t \in Tasks, Recover(t) PROVE AnchorsKept'
  BY <1>0, <1>5 DEF Recover, Claim
<1>6. ASSUME NEW t \in Tasks, Create(t) PROVE AnchorsKept'
  BY <1>0, <1>6 DEF Create, Claim
<1>7. ASSUME NEW t \in Tasks, Admit(t) PROVE AnchorsKept'
  BY <1>0, <1>7 DEF Admit
<1>8. ASSUME NEW t \in Tasks, Trip(t) PROVE AnchorsKept'
  BY <1>0, <1>8 DEF Trip, ReleaseClaim
<1>9. ASSUME NEW t \in Tasks, Launch(t) PROVE AnchorsKept'
  BY <1>0, <1>9 DEF Launch
<1>10. ASSUME NEW t \in Tasks, AcquireSlot(t) PROVE AnchorsKept'
  BY <1>0, <1>10 DEF AcquireSlot
<1>11. ASSUME NEW t \in Tasks, AcquireLock(t) PROVE AnchorsKept'
  BY <1>0, <1>11 DEF AcquireLock
<1>12. ASSUME NEW t \in Tasks, RegisterSponsored(t) PROVE AnchorsKept'
  BY <1>0, <1>12 DEF RegisterSponsored
<1>13. ASSUME NEW t \in Tasks, AppendAsk(t) PROVE AnchorsKept'
  BY <1>0, <1>13 DEF AppendAsk
<1>14. ASSUME NEW t \in Tasks, NEW o \in Outcomes, Finish(t, o) PROVE AnchorsKept'
  BY <1>0, <1>14 DEF Finish
<1>15. ASSUME NEW t \in Tasks, ReleaseSpawn(t) PROVE AnchorsKept'
  BY <1>0, <1>15 DEF ReleaseSpawn, ReleaseClaim
<1>16. ASSUME NEW t \in Tasks, Unlock(t) PROVE AnchorsKept'
  BY <1>0, <1>16 DEF Unlock
<1>17. ASSUME NEW t \in Tasks, Settle(t) PROVE AnchorsKept'
  BY <1>0, <1>17 DEF Settle
<1>18. ASSUME NEW t \in Tasks, RecordOutcome(t) PROVE AnchorsKept'
  <2>1. CASE ~Exhausted(t)
    <3>1. \A u \in Tasks : pc'[u] \in {"anchor", "done"} /\ Exhausted(u)' => pc[u] = pc'[u]
      BY <1>18, <2>1 DEF RecordOutcome, Exhausted
    <3>2. \A u \in Tasks : (Exhausted(u)' <=> Exhausted(u)) /\ Key(u)' = Key(u)
      BY <1>18 DEF RecordOutcome, Exhausted, Key
    <3>3. \A u \in Tasks : pc[u] = "done" => pc'[u] = "done"
      BY <1>18 DEF RecordOutcome
    <3>4. \A u \in Tasks : pc'[u] = "anchor" => Exhausted(u)'
      BY <1>18, <2>1, <3>2 DEF RecordOutcome, Exhausted, AnchorsKept
    <3>5. ASSUME NEW u \in Tasks, pc'[u] = "done", Exhausted(u)'
          PROVE  /\ anchors'[Key(u)'] \in Sessions
                 /\ \E v \in FailedBefore(Key(u))' : anchors'[Key(u)'] = sess'[v]
      <4>1. PICK v \in FailedBefore(Key(u)) : anchors[Key(u)] = sess[v]
        BY <3>1, <3>2, <3>5 DEF AnchorsKept
      <4>2. v \in FailedBefore(Key(u))'
        BY <4>1, <3>2, <3>3 DEF FailedBefore, Exhausted
      <4> QED BY <1>18, <3>1, <3>2, <3>5, <4>1, <4>2 DEF RecordOutcome, AnchorsKept
    <3> QED BY <3>4, <3>5 DEF AnchorsKept
  <2>2. CASE Exhausted(t)
    <3>1. \A u \in Tasks : (Exhausted(u)' <=> Exhausted(u)) /\ Key(u)' = Key(u)
      BY <1>18 DEF RecordOutcome, Exhausted, Key
    <3>2. \A u \in Tasks : pc'[u] = "done" <=> pc[u] = "done"
      BY <1>18, <2>2 DEF RecordOutcome, Exhausted
    <3>3. \A k : FailedBefore(k)' = FailedBefore(k)
      BY <3>1, <3>2 DEF FailedBefore, Exhausted
    <3>4. \A u \in Tasks : pc'[u] = "anchor" => Exhausted(u)'
      BY <1>18, <2>2, <3>1 DEF RecordOutcome, AnchorsKept
    <3> QED BY <1>18, <3>1, <3>2, <3>3, <3>4 DEF RecordOutcome, AnchorsKept
  <2> QED BY <2>1, <2>2
<1>19. ASSUME NEW t \in Tasks, RecordAnchor(t) PROVE AnchorsKept'
  <2>1. ~AnchorsFull
    <3>1. pc' # pc
      BY <1>19 DEF RecordAnchor
    <3> QED BY <1>19, <3>1 DEF NoOverflow
  <2>2. anchors' = [k \in Keys |-> IF k = Key(t) THEN sess[t] ELSE anchors[k]]
    BY <1>19, <2>1 DEF RecordAnchor, AnchorsFull
  <2>3. /\ pc[t] = "anchor" /\ sess[t] \in Sessions /\ req[t] \in Request
        /\ Exhausted(t)
    BY <1>19 DEF RecordAnchor, Placed, Closing, AnchorsKept
  <2>4. \A u \in Tasks : (Exhausted(u)' <=> Exhausted(u)) /\ Key(u)' = Key(u)
    BY <1>19 DEF RecordAnchor, Exhausted, Key
  <2>5. /\ pc'[t] = "done" /\ sess' = sess
        /\ \A u \in Tasks \ {t} : pc'[u] = pc[u]
    BY <1>19 DEF RecordAnchor
  <2>6. \A u \in Tasks : pc[u] = "done" => pc'[u] = "done"
    BY <2>3, <2>5
  <2>7. \A k : FailedBefore(k) \subseteq FailedBefore(k)'
    BY <2>4, <2>6 DEF FailedBefore, Exhausted
  <2>8. t \in FailedBefore(Key(t))'
    BY <2>3, <2>4, <2>5 DEF FailedBefore, Exhausted
  <2>9. \A u \in Tasks : pc[u] = "done" => Key(u) \in Keys
    BY DEF Placed, Request, Key, Keys
  <2>10. Key(t) \in Keys
    BY <2>3 DEF Request, Key, Keys
  <2>11. \A u \in Tasks : pc'[u] = "anchor" => Exhausted(u)'
    BY <2>4, <2>5 DEF AnchorsKept
  <2>12. ASSUME NEW u \in Tasks, pc'[u] = "done", Exhausted(u)'
         PROVE  /\ anchors'[Key(u)'] \in Sessions
                /\ \E v \in FailedBefore(Key(u))' : anchors'[Key(u)'] = sess'[v]
    <3>1. CASE Key(u) = Key(t)
      <4>1. anchors'[Key(u)'] = sess[t] /\ Key(u)' = Key(t)'
        BY <3>1, <2>2, <2>4, <2>10
      <4> QED BY <4>1, <2>3, <2>5, <2>8
    <3>2. CASE Key(u) # Key(t)
      <4>1. pc[u] = "done" /\ Exhausted(u)
        BY <3>2, <2>12, <2>4, <2>5
      <4>2. anchors'[Key(u)'] = anchors[Key(u)]
        BY <4>1, <3>2, <2>2, <2>4, <2>9
      <4>3. PICK v \in FailedBefore(Key(u)) : anchors[Key(u)] = sess[v]
        BY <4>1 DEF AnchorsKept
      <4>4. v \in FailedBefore(Key(u))'
        <5>1. Key(u)' = Key(u)
          BY <2>4
        <5> QED BY <4>3, <5>1, <2>7
      <4>5. anchors[Key(u)] \in Sessions
        BY <4>1 DEF AnchorsKept
      <4> QED BY <4>2, <4>3, <4>4, <4>5, <2>5
    <3> QED BY <3>1, <3>2
  <2> QED BY <2>11, <2>12 DEF AnchorsKept
<1>20. ASSUME NEW ms \in SUBSET Mains, Stop(ms) PROVE AnchorsKept'
  BY <1>0, <1>20 DEF Stop
<1>21. CASE Restart
  BY <1>21 DEF Restart, AnchorsKept
<1>22. CASE UNCHANGED vars
  BY <1>0, <1>22
<1> QED
  BY <1>1, <1>2, <1>3, <1>4, <1>5, <1>6, <1>7, <1>8, <1>9, <1>10, <1>11, <1>12,
     <1>13, <1>14, <1>15, <1>16, <1>17, <1>18, <1>19, <1>20, <1>21, <1>22
     DEF Next, SubmitStep, RunStep, CancelSubAgents, CancelAllSubAgents

(* Until the anchor table overflows, a text that used up the iterations of *)
(* a sub-agent goes back to a session it failed in, whichever session its  *)
(* caller names and however many tasks of that text failed meanwhile.      *)
THEOREM AnchorsHold == Spec /\ [][NoOverflow]_vars => AnchorConverges
<1>1. WellFormed /\ AnchorsKept /\ [Next]_vars /\ [NoOverflow]_vars => AnchorsKept'
  BY AnchorsStep
<1>2. ASSUME WellFormed, AnchorsKept, [Next]_vars, NEW t \in Tasks,
             pc[t] = "new", pc'[t] \in {"find", "locate"}, FailedBefore(Key(t)') # {}
      PROVE  want'[t] \in {sess[u] : u \in FailedBefore(Key(t)')}
  <2> USE DEF WellFormed, TypeOK, Goto
  <2>1. PICK m \in Mains, x \in Texts, p \in Profiles \cup {None},
             e \in ExplicitIds \cup {None} : Submit(t, m, x, p, e)
    <3>1. ASSUME NEW u \in Tasks, NEW m \in Mains, NEW x \in Texts,
                 NEW p \in Profiles \cup {None}, NEW e \in ExplicitIds \cup {None},
                 Submit(u, m, x, p, e)
          PROVE  u = t
      <4>1. \E q \in {"rejected", "find", "locate"} : pc' = [pc EXCEPT ![u] = q]
        BY <3>1 DEF Submit
      <4> QED BY <4>1, <1>2
    <3>2. ASSUME NEW u \in Tasks, SubmitStep(u) \/ RunStep(u) \/ AcquireSlot(u)
                                    \/ AcquireLock(u)
          PROVE  pc[u] # "new" /\ \A v \in Tasks \ {u} : pc'[v] = pc[v]
      <4>1. pc[u] # "new"
        BY <3>2 DEF SubmitStep, RunStep, AcquireSlot, AcquireLock, ClaimExplicit,
             FindIdle, ListSessions, Recover, Create, Admit, Trip, Launch,
             RegisterSponsored, AppendAsk, Finish, ReleaseSpawn, Unlock, Settle,
             RecordOutcome, RecordAnchor
      <4>2. \E q : pc' = [pc EXCEPT ![u] = q]
        <5>1. CASE SubmitStep(u)
          BY <5>1 DEF SubmitStep, ClaimExplicit, FindIdle, ListSessions, Recover,
               Create, Claim, Admit, Trip, Launch
        <5>2. CASE RunStep(u) \/ AcquireSlot(u) \/ AcquireLock(u)
          BY <5>2 DEF RunStep, AcquireSlot, AcquireLock, RegisterSponsored, AppendAsk,
               Finish, ReleaseSpawn, Unlock, Settle, RecordOutcome, RecordAnchor
        <5> QED BY <3>2, <5>1, <5>2
      <4> QED BY <4>1, <4>2
    <3>3. ASSUME NEW ms \in SUBSET Mains, Stop(ms) PROVE pc'[t] = "new"
      BY <3>3, <1>2 DEF Stop
    <3>4. CASE Restart
      BY <3>4, <1>2 DEF Restart
    <3>5. CASE UNCHANGED vars
      BY <3>5, <1>2 DEF vars, taskVars
    <3> HIDE DEF WellFormed, TypeOK
    <3> QED BY <3>1, <3>2, <3>3, <3>4, <3>5, <1>2
               DEF Next, CancelSubAgents, CancelAllSubAgents
  <2>2. Key(t)' = <<m, x>>
    <3>1. req' = [req EXCEPT ![t] = [main |-> m, text |-> x, profile |-> p]]
      BY <2>1 DEF Submit
    <3> QED BY <1>2, <3>1 DEF Key
  <2>3. PICK u \in FailedBefore(<<m, x>>) : TRUE
    BY <1>2, <2>2
  <2>4. u \in Tasks /\ pc[u] = "done" /\ Key(u) = <<m, x>> /\ Exhausted(u)
    BY <2>3 DEF FailedBefore, Exhausted
  <2>5. /\ anchors[<<m, x>>] \in Sessions
        /\ \E v \in FailedBefore(<<m, x>>) : anchors[<<m, x>>] = sess[v]
    <3>1. /\ anchors[Key(u)] \in Sessions
          /\ \E v \in FailedBefore(Key(u)) : anchors[Key(u)] = sess[v]
      BY <1>2, <2>4 DEF AnchorsKept
    <3> QED BY <3>1, <2>4
  <2>6. want'[t] = anchors[<<m, x>>]
    <3>1. pc'[t] # "rejected"
      BY <1>2
    <3>2. anchors[<<m, x>>] # None
      BY <2>5, ConstantsAssumption
    <3>3. \/ pc' = [pc EXCEPT ![t] = "rejected"]
          \/ want' = [want EXCEPT ![t] = Target(anchors[<<m, x>>], e)]
      BY <2>1 DEF Submit
    <3> QED BY <1>2, <3>1, <3>2, <3>3 DEF Target
  <2> QED BY <2>2, <2>5, <2>6
<1>3. WellFormed /\ AnchorsKept /\ [Next]_vars
        => [\A t \in Tasks :
              pc[t] = "new" /\ pc'[t] \in {"find", "locate"}
                => LET failed == FailedBefore(Key(t)')
                   IN  failed # {} => want'[t] \in {sess[u] : u \in failed}]_vars
  BY <1>2
<1> QED BY AnchorsInit, <1>1, <1>3, WellFormedAlways, PTL DEF Spec, AnchorConverges

-----------------------------------------------------------------------------
\* One claim per session, as long as nobody names a session.

NobodyNames == \A t \in Tasks : pc[t] # "locate"

(* Sessions in memory are in the store, and a session claimed by a         *)
(* submission on its way is in memory with its flag up: it is neither idle *)
(* nor to be recovered.                                                    *)
ClaimsMarked ==
    /\ \A t \in Tasks : pc[t] \in {"find", "list", "recover", "create"}
                          => req[t].profile # None
    /\ \A t \in Tasks : pc[t] = "recover" => stored[want[t]] # None
    /\ \A s \in registered : stored[s] # None
    /\ \A t \in Tasks : pc[t] \in Claiming
                          => sess[t] \in registered /\ spawning[sess[t]]
    /\ OneClaimPerSession

LEMMA MarkedInit == Init => ClaimsMarked
BY DEF Init, ClaimsMarked, OneClaimPerSession, Claiming, Waiting, Executing

(* A session is claimed when no submission on its way has it.              *)
LEMMA MarkedClaim ==
  ASSUME WellFormed, ClaimsMarked, NEW t \in Tasks, NEW s \in Sessions, Claim(t, s),
         pc[t] \notin Claiming, s \notin registered \/ ~spawning[s],
         registered' = registered \cup {s}, req' = req, want' = want,
         stored' \in [Sessions -> Profiles \cup {None}], stored'[s] # None,
         \A x \in Sessions : stored[x] # None => stored'[x] # None
  PROVE  ClaimsMarked'
<1> USE DEF Claim, Goto
<1>1. /\ pc' = [pc EXCEPT ![t] = "claimed"] /\ sess' = [sess EXCEPT ![t] = s]
      /\ spawning' = [spawning EXCEPT ![s] = TRUE]
  OBVIOUS
<1>2. /\ pc \in [Tasks -> Phases] /\ sess \in [Tasks -> Sessions \cup {None}]
      /\ spawning \in [Sessions -> BOOLEAN] /\ registered \subseteq Sessions
  BY DEF WellFormed, TypeOK
<1>3. /\ pc'[t] = "claimed" /\ sess'[t] = s
      /\ \A u \in Tasks \ {t} : pc'[u] = pc[u] /\ sess'[u] = sess[u]
  BY <1>1, <1>2
<1>4. \A u \in Tasks : pc[u] \in Claiming
         => sess[u] \in registered /\ spawning[sess[u]] /\ sess[u] \in Sessions /\ sess[u] # s
  BY <1>2 DEF ClaimsMarked
<1>5. \A u \in Tasks : pc'[u] \in Claiming => sess'[u] \in registered' /\ spawning'[sess'[u]]
  BY <1>1, <1>2, <1>3, <1>4
<1>6. OneClaimPerSession'
  <2>1. OneClaimPerSession
    BY DEF ClaimsMarked
  <2> QED BY <1>3, <1>4, <2>1 DEF OneClaimPerSession
<1>7. \A u \in Tasks : pc'[u] \in {"find", "list", "recover", "create"} => req'[u].profile # None
  BY <1>3 DEF ClaimsMarked
<1>8. \A u \in Tasks : pc'[u] = "recover" => stored'[want'[u]] # None
  <2>1. \A u \in Tasks : pc[u] = "recover" => stored[want[u]] # None /\ want[u] \in Sessions
    BY DEF ClaimsMarked, WellFormed, Placed
  <2> QED BY <1>3, <2>1
<1>9. \A x \in registered' : stored'[x] # None
  BY <1>2 DEF ClaimsMarked
<1> QED BY <1>5, <1>6, <1>7, <1>8, <1>9 DEF ClaimsMarked

(* A claim is given up by the only submission that has it.                 *)
LEMMA MarkedRelease ==
  ASSUME WellFormed, ClaimsMarked, NEW t \in Tasks, ReleaseClaim(t), NEW q, Goto(t, q),
         pc[t] \in Claiming, q \in {"rejected", "unlock"},
         UNCHANGED <<registered, stored, req, want, sess>>
  PROVE  ClaimsMarked'
<1>1. /\ pc' = [pc EXCEPT ![t] = q] /\ spawning' = [spawning EXCEPT ![sess[t]] = FALSE]
      /\ pc \in [Tasks -> Phases] /\ spawning \in [Sessions -> BOOLEAN]
  BY DEF ReleaseClaim, Goto, WellFormed, TypeOK
<1>2. pc'[t] \notin Claiming /\ \A u \in Tasks \ {t} : pc'[u] = pc[u]
  BY <1>1 DEF Claiming, Waiting, Executing
<1>3. \A u \in Tasks \ {t} : pc[u] \in Claiming => sess[u] # sess[t]
  BY DEF ClaimsMarked, OneClaimPerSession
<1>4. \A u \in Tasks : pc'[u] \in Claiming => sess'[u] \in registered' /\ spawning'[sess'[u]]
  <2>1. \A u \in Tasks : pc[u] \in Claiming
           => sess[u] \in registered /\ spawning[sess[u]] /\ sess[u] \in Sessions
    BY DEF ClaimsMarked, WellFormed, Placed
  <2> QED BY <1>1, <1>2, <1>3, <2>1
<1>5. OneClaimPerSession'
  BY <1>2 DEF ClaimsMarked, OneClaimPerSession
<1>6. \A u \in Tasks : pc'[u] \in {"find", "list", "recover", "create"} => pc'[u] = pc[u]
  BY <1>1
<1> QED BY <1>4, <1>5, <1>6 DEF ClaimsMarked

(* A step within the phases of a submission that claims nothing.           *)
LEMMA MarkedMove ==
  ASSUME WellFormed, ClaimsMarked, NEW t \in Tasks, NEW p, NEW q, Goto(t, q), pc[t] = p,
         UNCHANGED <<registered, spawning, stored, sess, req, want>>,
         q \in Claiming => p \in Claiming,
         q \notin {"find", "recover"},
         q \in {"list", "create"} => p \in {"find", "list", "recover"}
  PROVE  ClaimsMarked'
<1>1. pc'[t] = q /\ \A u \in Tasks \ {t} : pc'[u] = pc[u]
  BY DEF Goto, WellFormed, TypeOK
<1>2. \A u \in Tasks : pc'[u] \in Claiming => pc[u] \in Claiming
  BY <1>1
<1>3. \A u \in Tasks : pc'[u] \in {"find", "list", "recover", "create"} => req'[u].profile # None
  BY <1>1 DEF ClaimsMarked
<1>4. \A u \in Tasks : pc'[u] = "recover" => stored'[want'[u]] # None
  BY <1>1 DEF ClaimsMarked
<1> QED BY <1>2, <1>3, <1>4 DEF ClaimsMarked, OneClaimPerSession

(* Without a named session every claim is of an idle, a forgotten or a new *)
(* session.                                                                *)
LEMMA MarkedStep == WellFormed /\ ClaimsMarked /\ NobodyNames /\ [Next]_vars => ClaimsMarked'
<1> SUFFICES ASSUME WellFormed, ClaimsMarked, NobodyNames, [Next]_vars PROVE ClaimsMarked'
  OBVIOUS
<1> USE DEF WellFormed, TypeOK, Goto, vars, taskVars, stateVars, storeVars
<1>0. ASSUME UNCHANGED <<registered, spawning, stored, sess>>,
             \A u \in Tasks :
                /\ pc'[u] \in Claiming => pc[u] \in Claiming
                /\ pc'[u] \in {"find", "list", "recover", "create"}
                     => req'[u].profile # None
                /\ pc'[u] = "recover" => stored[want'[u]] # None
      PROVE  ClaimsMarked'
  BY <1>0 DEF ClaimsMarked, OneClaimPerSession
<1>1. ASSUME NEW t \in Tasks, NEW m \in Mains, NEW x \in Texts,
             NEW p \in Profiles \cup {None}, NEW e \in ExplicitIds \cup {None},
             Submit(t, m, x, p, e)
      PROVE  ClaimsMarked'
  <2>1. PICK q \in {"rejected", "find", "locate"} : pc' = [pc EXCEPT ![t] = q]
    BY <1>1 DEF Submit
  <2>2. /\ req' = [req EXCEPT ![t] = [main |-> m, text |-> x, profile |-> p]]
        /\ q = "find" => p # None
        /\ \A u \in Tasks \ {t} : want'[u] = want[u]
        /\ UNCHANGED <<registered, spawning, stored, sess>>
    BY <1>1, <2>1 DEF Submit
  <2>3. /\ pc'[t] = q /\ req'[t].profile = p
        /\ \A u \in Tasks \ {t} : pc'[u] = pc[u] /\ req'[u] = req[u]
    BY <2>1, <2>2
  <2>4. pc'[t] \notin Claiming /\ pc'[t] # "recover"
    BY <2>3 DEF Claiming, Waiting, Executing
  <2>5. \A u \in Tasks : pc'[u] \in {"find", "list", "recover", "create"} => req'[u].profile # None
    BY <2>2, <2>3 DEF ClaimsMarked
  <2>6. \A u \in Tasks : pc'[u] = "recover" => stored[want'[u]] # None
    BY <2>2, <2>3, <2>4 DEF ClaimsMarked
  <2> QED BY <1>0, <2>2, <2>3, <2>4, <2>5, <2>6
<1>2. ASSUME NEW t \in Tasks, ClaimExplicit(t) PROVE ClaimsMarked'
  BY <1>2 DEF ClaimExplicit, NobodyNames
<1>3. ASSUME NEW t \in Tasks, FindIdle(t) PROVE ClaimsMarked'
  <2>1. CASE \E s \in Idle(req[t].profile) : Claim(t, s)
    <3>1. PICK s \in Sessions : s \in registered /\ ~spawning[s] /\ Claim(t, s)
      BY <2>1 DEF Idle
    <3>2. /\ UNCHANGED <<registered, req, want, stored>> /\ pc[t] \notin Claiming
          /\ stored[s] # None
      BY <1>3, <3>1 DEF FindIdle, Claiming, Waiting, Executing, ClaimsMarked
    <3> QED BY <3>1, <3>2, MarkedClaim
  <2>2. CASE UNCHANGED <<spawning, sess>> /\ Goto(t, "list")
    <3>1. UNCHANGED <<registered, stored, req, want>> /\ pc[t] = "find"
      BY <1>3 DEF FindIdle
    <3> HIDE DEF WellFormed, Goto
    <3> QED BY <2>2, <3>1, MarkedMove DEF Claiming, Waiting, Executing
  <2> QED BY <1>3, <2>1, <2>2 DEF FindIdle
<1>4. ASSUME NEW t \in Tasks, ListSessions(t) PROVE ClaimsMarked'
  <2>0. UNCHANGED <<registered, spawning, stored, sess, req>> /\ pc[t] = "list"
    BY <1>4 DEF ListSessions
  <2>1. CASE want' = want /\ Goto(t, "create")
    <3> HIDE DEF WellFormed, Goto
    <3> QED BY <2>0, <2>1, MarkedMove DEF Claiming, Waiting, Executing
  <2>2. CASE \E s \in Sessions : /\ stored[s] = req[t].profile /\ Goto(t, "recover")
                                 /\ want' = [want EXCEPT ![t] = s]
    <3>1. PICK s \in Sessions : /\ stored[s] = req[t].profile /\ Goto(t, "recover")
                                /\ want' = [want EXCEPT ![t] = s]
      BY <2>2
    <3>2. /\ pc'[t] = "recover" /\ want'[t] = s
          /\ \A u \in Tasks \ {t} : pc'[u] = pc[u] /\ want'[u] = want[u]
      BY <3>1
    <3>3. req[t].profile # None
      BY <2>0 DEF ClaimsMarked
    <3>4. \A u \in Tasks : pc'[u] \in Claiming => pc[u] \in Claiming
      BY <3>2 DEF Claiming, Waiting, Executing
    <3>5. \A u \in Tasks : pc'[u] \in {"find", "list", "recover", "create"} => req'[u].profile # None
      BY <2>0, <3>2, <3>3 DEF ClaimsMarked
    <3>6. \A u \in Tasks : pc'[u] = "recover" => stored[want'[u]] # None
      BY <3>1, <3>2, <3>3 DEF ClaimsMarked
    <3> QED BY <1>0, <2>0, <3>4, <3>5, <3>6
  <2> QED BY <1>4, <2>1, <2>2 DEF ListSessions
<1>5. ASSUME NEW t \in Tasks, Recover(t) PROVE ClaimsMarked'
  <2>1. CASE Claim(t, want[t]) /\ want[t] \notin registered
                /\ registered' = registered \cup {want[t]}
    <3>1. /\ UNCHANGED <<req, want, stored>> /\ pc[t] \notin Claiming
          /\ want[t] \in Sessions /\ stored[want[t]] # None
      BY <1>5 DEF Recover, Claiming, Waiting, Executing, ClaimsMarked, Placed
    <3> QED BY <2>1, <3>1, MarkedClaim
  <2>2. CASE UNCHANGED <<registered, spawning, sess>> /\ Goto(t, "create")
    <3>1. UNCHANGED <<stored, req, want>> /\ pc[t] = "recover"
      BY <1>5 DEF Recover
    <3> HIDE DEF WellFormed, Goto
    <3> QED BY <2>2, <3>1, MarkedMove DEF Claiming, Waiting, Executing
  <2> QED BY <1>5, <2>1, <2>2 DEF Recover
<1>6. ASSUME NEW t \in Tasks, Create(t) PROVE ClaimsMarked'
  <2>0. /\ UNCHANGED <<req, want>> /\ pc[t] = "create" /\ pc[t] \notin Claiming
        /\ req[t].profile # None /\ req[t].profile \in Profiles \cup {None}
    BY <1>6 DEF Create, Claiming, Waiting, Executing, ClaimsMarked, Placed, Request
  <2>1. CASE Goto(t, "error") /\ UNCHANGED <<registered, spawning, sess, stored>>
    <3> HIDE DEF WellFormed, Goto
    <3> QED BY <2>0, <2>1, MarkedMove DEF Claiming, Waiting, Executing
  <2>2. ASSUME NEW s \in Sessions, stored[s] = None,
               stored' = [stored EXCEPT ![s] = req[t].profile]
        PROVE  /\ stored' \in [Sessions -> Profiles \cup {None}] /\ stored'[s] # None
               /\ \A x \in Sessions : stored[x] # None => stored'[x] # None /\ stored'[x] = stored[x]
               /\ s \notin registered
    BY <2>0, <2>2 DEF ClaimsMarked
  <2>3. ASSUME NEW s \in Sessions, stored[s] = None,
               stored' = [stored EXCEPT ![s] = req[t].profile],
               registered' = registered \cup {s}, Claim(t, s)
        PROVE  ClaimsMarked'
    <3>1. /\ stored' \in [Sessions -> Profiles \cup {None}] /\ stored'[s] # None
          /\ \A x \in Sessions : stored[x] # None => stored'[x] # None
          /\ s \notin registered
      BY <2>2, <2>3
    <3> HIDE DEF WellFormed
    <3> QED BY <2>0, <2>3, <3>1, MarkedClaim
  <2>4. ASSUME NEW s \in Sessions, stored[s] = None,
               stored' = [stored EXCEPT ![s] = req[t].profile],
               Goto(t, "error"), UNCHANGED <<registered, spawning, sess>>
        PROVE  ClaimsMarked'
    <3>1. \A x \in Sessions : stored[x] # None => stored'[x] # None
      BY <2>2, <2>4
    <3>2. pc'[t] = "error" /\ \A u \in Tasks \ {t} : pc'[u] = pc[u]
      BY <2>4
    <3>3. \A u \in Tasks : pc'[u] \in Claiming => pc[u] \in Claiming
      BY <3>2 DEF Claiming, Waiting, Executing
    <3>4. OneClaimPerSession'
      BY <2>4, <3>3 DEF ClaimsMarked, OneClaimPerSession
    <3>5. \A u \in Tasks : pc'[u] = "recover" => stored'[want'[u]] # None
      <4>1. \A u \in Tasks : pc[u] = "recover" => stored[want[u]] # None /\ want[u] \in Sessions
        BY DEF ClaimsMarked, Placed
      <4> QED BY <2>0, <3>1, <3>2, <4>1
    <3>6. \A u \in Tasks : pc'[u] \in {"find", "list", "recover", "create"} => req'[u].profile # None
      BY <2>0, <3>2 DEF ClaimsMarked
    <3>7. \A x \in registered' : stored'[x] # None
      BY <2>4, <3>1 DEF ClaimsMarked
    <3>8. \A u \in Tasks : pc'[u] \in Claiming => sess'[u] \in registered' /\ spawning'[sess'[u]]
      BY <2>4, <3>3 DEF ClaimsMarked
    <3> QED BY <3>4, <3>5, <3>6, <3>7, <3>8 DEF ClaimsMarked
  <2>5. CASE UNCHANGED stored
    BY <1>6, <2>1, <2>5, <2>3, <2>4 DEF Create
  <2> QED BY <1>6, <2>1, <2>3, <2>4 DEF Create
<1>7. ASSUME NEW t \in Tasks, Admit(t) PROVE ClaimsMarked'
  <2>1. pc[t] = "claimed" /\ (\E q \in {"tripped", "registered"} : Goto(t, q))
    BY <1>7 DEF Admit
  <2>2. UNCHANGED <<registered, spawning, stored, sess, req, want>>
    BY <1>7 DEF Admit
  <2> HIDE DEF WellFormed, Goto
  <2> QED BY <2>1, <2>2, MarkedMove DEF Claiming, Waiting, Executing
<1>8. ASSUME NEW t \in Tasks, Trip(t) PROVE ClaimsMarked'
  <2>1. /\ UNCHANGED <<registered, stored, req, want, sess>> /\ pc[t] \in Claiming
        /\ ReleaseClaim(t) /\ Goto(t, "rejected")
    BY <1>8 DEF Trip, Claiming
  <2> HIDE DEF WellFormed, Goto
  <2> QED BY <2>1, MarkedRelease
<1>9. ASSUME NEW t \in Tasks, Launch(t) PROVE ClaimsMarked'
  <2>1. pc[t] = "registered" /\ (\E q \in {"queued", "error"} : Goto(t, q))
    BY <1>9 DEF Launch
  <2>2. UNCHANGED <<registered, spawning, stored, sess, req, want>>
    BY <1>9 DEF Launch
  <2> HIDE DEF WellFormed, Goto
  <2> QED BY <2>1, <2>2, MarkedMove DEF Claiming, Waiting, Executing
<1>10. ASSUME NEW t \in Tasks, AcquireSlot(t) PROVE ClaimsMarked'
  <2>1. pc[t] = "queued" /\ Goto(t, "slot")
    BY <1>10 DEF AcquireSlot
  <2>2. UNCHANGED <<registered, spawning, stored, sess, req, want>>
    BY <1>10 DEF AcquireSlot
  <2> HIDE DEF WellFormed, Goto
  <2> QED BY <2>1, <2>2, MarkedMove DEF Claiming, Waiting, Executing
<1>11. ASSUME NEW t \in Tasks, AcquireLock(t) PROVE ClaimsMarked'
  <2>1. pc[t] = "slot" /\ Goto(t, "locked")
    BY <1>11 DEF AcquireLock
  <2>2. UNCHANGED <<registered, spawning, stored, sess, req, want>>
    BY <1>11 DEF AcquireLock
  <2> HIDE DEF WellFormed, Goto
  <2> QED BY <2>1, <2>2, MarkedMove DEF Claiming, Waiting, Executing
<1>12. ASSUME NEW t \in Tasks, RegisterSponsored(t) PROVE ClaimsMarked'
  <2>1. pc[t] = "locked" /\ Goto(t, "running")
    BY <1>12 DEF RegisterSponsored
  <2>2. UNCHANGED <<registered, spawning, stored, sess, req, want>>
    BY <1>12 DEF RegisterSponsored
  <2> HIDE DEF WellFormed, Goto
  <2> QED BY <2>1, <2>2, MarkedMove DEF Claiming, Waiting, Executing
<1>13. ASSUME NEW t \in Tasks, AppendAsk(t) PROVE ClaimsMarked'
  <2>1. pc[t] = "running" /\ Goto(t, "asked")
    BY <1>13 DEF AppendAsk
  <2>2. UNCHANGED <<registered, spawning, stored, sess, req, want>>
    BY <1>13 DEF AppendAsk
  <2> HIDE DEF WellFormed, Goto
  <2> QED BY <2>1, <2>2, MarkedMove DEF Claiming, Waiting, Executing
<1>14. ASSUME NEW t \in Tasks, NEW o \in Outcomes, Finish(t, o) PROVE ClaimsMarked'
  <2>1. pc[t] \in {"running", "asked"} /\ Goto(t, "release")
    BY <1>14 DEF Finish
  <2>2. UNCHANGED <<registered, spawning, stored, sess, req, want>>
    BY <1>14 DEF Finish
  <2> HIDE DEF WellFormed, Goto
  <2> QED BY <2>1, <2>2, MarkedMove DEF Claiming, Waiting, Executing
<1>15. ASSUME NEW t \in Tasks, ReleaseSpawn(t) PROVE ClaimsMarked'
  <2>1. /\ UNCHANGED <<registered, stored, req, want, sess>> /\ pc[t] \in Claiming
        /\ ReleaseClaim(t) /\ Goto(t, "unlock")
    BY <1>15 DEF ReleaseSpawn, Claiming
  <2> HIDE DEF WellFormed, Goto
  <2> QED BY <2>1, MarkedRelease
<1>16. ASSUME NEW t \in Tasks, Unlock(t) PROVE ClaimsMarked'
  <2>1. pc[t] = "unlock" /\ Goto(t, "settle")
    BY <1>16 DEF Unlock
  <2>2. UNCHANGED <<registered, spawning, stored, sess, req, want>>
    BY <1>16 DEF Unlock
  <2> HIDE DEF WellFormed, Goto
  <2> QED BY <2>1, <2>2, MarkedMove DEF Claiming, Waiting, Executing
<1>17. ASSUME NEW t \in Tasks, Settle(t) PROVE ClaimsMarked'
  <2>1. pc[t] = "settle" /\ Goto(t, "record")
    BY <1>17 DEF Settle
  <2>2. UNCHANGED <<registered, spawning, stored, sess, req, want>>
    BY <1>17 DEF Settle
  <2> HIDE DEF WellFormed, Goto
  <2> QED BY <2>1, <2>2, MarkedMove DEF Claiming, Waiting, Executing
<1>18. ASSUME NEW t \in Tasks, RecordOutcome(t) PROVE ClaimsMarked'
  <2>1. pc[t] = "record" /\ (\E q \in {"anchor", "done"} : Goto(t, q))
    BY <1>18 DEF RecordOutcome
  <2>2. UNCHANGED <<registered, spawning, stored, sess, req, want>>
    BY <1>18 DEF RecordOutcome
  <2> HIDE DEF WellFormed, Goto
  <2> QED BY <2>1, <2>2, MarkedMove DEF Claiming, Waiting, Executing
<1>19. ASSUME NEW t \in Tasks, RecordAnchor(t) PROVE ClaimsMarked'
  <2>1. pc[t] = "anchor" /\ Goto(t, "done")
    BY <1>19 DEF RecordAnchor
  <2>2. UNCHANGED <<registered, spawning, stored, sess, req, want>>
    BY <1>19 DEF RecordAnchor
  <2> HIDE DEF WellFormed, Goto
  <2> QED BY <2>1, <2>2, MarkedMove DEF Claiming, Waiting, Executing
<1>20. ASSUME NEW ms \in SUBSET Mains, Stop(ms) PROVE ClaimsMarked'
  BY <1>0, <1>20 DEF Stop, ClaimsMarked
<1>21. CASE Restart
  <2>1. /\ registered' = {}
        /\ \A u \in Tasks : pc'[u] \notin Claiming \cup {"find", "list", "recover", "create"}
    BY <1>21 DEF Restart, Claiming, Waiting, Executing
  <2> QED BY <2>1 DEF ClaimsMarked, OneClaimPerSession
<1>22. CASE UNCHANGED vars
  BY <1>0, <1>22 DEF ClaimsMarked
<1> HIDE DEF WellFormed, TypeOK, Goto
<1> QED
  BY <1>1, <1>2, <1>3, <1>4, <1>5, <1>6, <1>7, <1>8, <1>9, <1>10, <1>11, <1>12,
     <1>13, <1>14, <1>15, <1>16, <1>17, <1>18, <1>19, <1>20, <1>21, <1>22
     DEF Next, SubmitStep, RunStep, CancelSubAgents, CancelAllSubAgents

(* As long as no submission is sent to a named session, by its caller or   *)
(* by an anchor, a session is claimed by at most one task on its way,      *)
(* however finding, recovering, creating and releasing interleave.         *)
THEOREM ClaimsDistinct == Spec /\ []NobodyNames => []OneClaimPerSession
<1>1. WellFormed /\ ClaimsMarked /\ NobodyNames /\ [Next]_vars => ClaimsMarked'
  BY MarkedStep
<1>2. ClaimsMarked => OneClaimPerSession
  BY DEF ClaimsMarked
<1> QED BY MarkedInit, <1>1, <1>2, WellFormedAlways, PTL DEF Spec

-----------------------------------------------------------------------------
\* A task runs without its text only to continue the work of another.

TextKnown(t) == req[t].text \in history[sess[t]]

(* A task may be told to continue: its session knows its text, or has the  *)
(* work of another to continue.                                            *)
Excused(t) ==
    \/ TextKnown(t)
    \/ /\ ask[t] = Continue
       /\ \E u \in Spent(sess[t]) : req[u].text # req[t].text

Unclaimed == {"new", "locate", "find", "list", "recover", "create"}

(* A task is asked its text, or is excused; and is excused still when its  *)
(* run used up its iterations.                                             *)
TextKept(t) ==
    /\ pc[t] \in Unclaimed => sess[t] = None
    /\ pc[t] \in {"registered", "queued", "slot", "locked", "running"} =>
          ask[t] = req[t].text \/ Excused(t)
    /\ pc[t] = "asked" => Excused(t)
    /\ pc[t] \in {"release", "unlock", "settle", "record"} /\ outcome[t] = "max_iterations" =>
          Excused(t)

(* A streak is that of a task whose text the session knows.                *)
StreakTold ==
    \A s \in Sessions : streak[s] > 0 => Spent(s) # {}

TextsKept == StreakTold /\ \A t \in Tasks : TextKept(t)

LEMMA TextsInit == Init => TextsKept
BY DEF Init, TextsKept, StreakTold, TextKept

(* A step of one task: the others have what they had, histories grow.      *)
LEMMA TextMove ==
  ASSUME TypeOK, Placed, TextsKept, NEW t \in Tasks, NEW q, Goto(t, q),
         \A u \in Tasks \ {t} : /\ sess'[u] = sess[u] /\ req'[u] = req[u]
                                /\ ask'[u] = ask[u] /\ outcome'[u] = outcome[u],
         sess[t] \in Sessions => sess'[t] = sess[t] /\ req'[t] = req[t],
         pc[t] \in {"anchor", "done"} => q \in {"anchor", "done"} /\ outcome'[t] = outcome[t],
         \A s \in Sessions : history[s] \subseteq history'[s],
         (\A s \in Sessions : Spent(s) \subseteq Spent(s)') => TextKept(t)',
         \A s \in Sessions : streak'[s] > 0 =>
            streak[s] > 0 \/ Spent(s) # {} \/ t \in Spent(s)'
  PROVE  TextsKept'
<1>0. pc'[t] = q /\ \A u \in Tasks \ {t} : pc'[u] = pc[u]
  BY DEF Goto, TypeOK
<1>1. ASSUME NEW s \in Sessions, NEW u \in Spent(s) PROVE u \in Spent(s)'
  <2>1. /\ u \in Tasks /\ sess[u] = s /\ pc[u] \in {"anchor", "done"}
        /\ outcome[u] = "max_iterations" /\ req[u].text \in history[s]
    BY <1>1 DEF Spent
  <2>2. pc'[u] \in {"anchor", "done"} /\ outcome'[u] = outcome[u]
    BY <1>0, <2>1
  <2>3. sess'[u] = sess[u] /\ req'[u] = req[u]
    BY <1>1, <2>1
  <2> QED BY <1>1, <2>1, <2>2, <2>3 DEF Spent
<1>2. StreakTold'
  <2> SUFFICES ASSUME NEW s \in Sessions, streak'[s] > 0
               PROVE  Spent(s)' # {}
    BY DEF StreakTold
  <2>1. Spent(s) # {} \/ t \in Spent(s)'
    BY DEF TextsKept, StreakTold
  <2> QED BY <2>1, <1>1
<1>3. ASSUME NEW u \in Tasks \ {t} PROVE TextKept(u)'
  <2>1. TextKept(u) /\ sess[u] \in Sessions \cup {None}
    BY DEF TextsKept, TypeOK
  <2>2. /\ pc'[u] = pc[u] /\ sess'[u] = sess[u] /\ req'[u] = req[u]
        /\ ask'[u] = ask[u] /\ outcome'[u] = outcome[u]
    BY <1>0
  <2>3. ASSUME Excused(u), sess[u] \in Sessions PROVE Excused(u)'
    <3>1. CASE TextKnown(u)
      BY <2>2, <2>3, <3>1 DEF Excused, TextKnown
    <3>2. CASE ask[u] = Continue /\ \E v \in Spent(sess[u]) : req[v].text # req[u].text
      <4>1. PICK v \in Spent(sess[u]) : req[v].text # req[u].text
        BY <3>2
      <4>2. v \in Spent(sess[u])'
        BY <1>1, <2>2, <2>3, <4>1
      <4>3. req'[v] = req[v]
        BY <2>3, <4>1 DEF Spent
      <4> QED BY <2>2, <3>2, <4>1, <4>2, <4>3 DEF Excused
    <3> QED BY <2>3, <3>1, <3>2 DEF Excused
  <2>4. CASE pc[u] \in Unclaimed
    BY <2>1, <2>2, <2>4 DEF TextKept, Unclaimed
  <2>5. CASE pc[u] \notin Unclaimed
    <3>1. pc[u] \in {"registered", "queued", "slot", "locked", "running", "asked", "release",
                     "unlock", "settle", "record"} => sess[u] \in Sessions
      BY DEF Placed, Claiming, Leaving, Closing, Waiting, Executing
    <3> QED BY <2>1, <2>2, <2>3, <2>5, <3>1 DEF TextKept
  <2> QED BY <2>4, <2>5
<1>4. TextKept(t)'
  BY <1>1
<1> QED BY <1>2, <1>3, <1>4 DEF TextsKept

(* What excuses a task goes on excusing it.                                *)
LEMMA ExcusedStays ==
  ASSUME NEW t \in Tasks, Excused(t), sess[t] \in Sessions,
         \A s \in Sessions : Spent(s) \subseteq Spent(s)',
         \A s \in Sessions : history[s] \subseteq history'[s],
         UNCHANGED <<sess, req, ask>>
  PROVE  Excused(t)'
<1>1. CASE TextKnown(t)
  BY <1>1 DEF Excused, TextKnown
<1>2. CASE ask[t] = Continue /\ \E u \in Spent(sess[t]) : req[u].text # req[t].text
  <2>1. PICK u \in Spent(sess[t]) : req[u].text # req[t].text
    BY <1>2
  <2>2. u \in Spent(sess[t])'
    BY <2>1
  <2> QED BY <1>2, <2>1, <2>2 DEF Excused
<1> QED BY <1>1, <1>2 DEF Excused

(* A step that moves a task on and changes nothing it is told by.          *)
LEMMA TextQuiet ==
  ASSUME TypeOK, Placed, TextsKept, NEW t \in Tasks, NEW q, Goto(t, q),
         UNCHANGED <<sess, req, ask, outcome, history, streak>>,
         q \in Unclaimed => sess[t] = None,
         q \in {"queued", "slot", "locked", "running"} =>
            pc[t] \in {"registered", "queued", "slot", "locked"},
         q \in {"unlock", "settle", "record"} => pc[t] \in {"release", "unlock", "settle"},
         pc[t] \in {"anchor", "done"} => q \in {"anchor", "done"},
         q \notin {"registered", "asked", "release"}
  PROVE  TextsKept'
<1>1. pc'[t] = q
  BY DEF Goto, TypeOK
<1>2. ASSUME \A s \in Sessions : Spent(s) \subseteq Spent(s)'
      PROVE  TextKept(t)'
  <2>0. TextKept(t)
    BY DEF TextsKept
  <2>1. pc'[t] \in Unclaimed => sess'[t] = None
    BY <1>1
  <2>2. ASSUME pc[t] \in {"registered", "queued", "slot", "locked", "release", "unlock", "settle"},
               Excused(t)
        PROVE  Excused(t)'
    <3>1. sess[t] \in Sessions
      BY <2>2 DEF Placed, Claiming, Leaving, Closing, Waiting, Executing
    <3> QED BY <1>2, <2>2, <3>1, ExcusedStays
  <2>3. pc'[t] \in {"registered", "queued", "slot", "locked", "running"} =>
          ask'[t] = req'[t].text \/ Excused(t)'
    BY <1>1, <2>0, <2>2 DEF TextKept
  <2>4. pc'[t] # "asked"
    BY <1>1
  <2>5. pc'[t] \in {"release", "unlock", "settle", "record"} /\ outcome'[t] = "max_iterations" =>
          Excused(t)'
    BY <1>1, <2>0, <2>2 DEF TextKept
  <2> QED BY <2>1, <2>3, <2>4, <2>5 DEF TextKept
<1> QED BY <1>2, TextMove

(* A session is claimed by a task that had none.                           *)
LEMMA TextClaim ==
  ASSUME TypeOK, Placed, TextsKept, NEW t \in Tasks, NEW s \in Sessions, Claim(t, s),
         pc[t] \in Unclaimed, UNCHANGED <<req, ask, outcome, history, streak>>
  PROVE  TextsKept'
<1>1. Goto(t, "claimed") /\ pc'[t] = "claimed"
  BY DEF Claim, Goto, TypeOK
<1>2. sess[t] \notin Sessions
  BY ConstantsAssumption DEF TextsKept, TextKept
<1>3. \A u \in Tasks \ {t} : sess'[u] = sess[u]
  BY DEF Claim, TypeOK
<1>4. TextKept(t)'
  BY <1>1 DEF TextKept, Unclaimed
<1> QED BY <1>1, <1>2, <1>3, <1>4, TextMove DEF Unclaimed

LEMMA TextStep == WellFormed /\ TextsKept /\ [Next]_vars => TextsKept'
<1> SUFFICES ASSUME WellFormed, TextsKept, [Next]_vars PROVE TextsKept'
  OBVIOUS
<1>0. /\ TypeOK /\ Placed
      /\ \A t \in Tasks : TextKept(t)
  BY DEF WellFormed, TextsKept
<1>1. ASSUME NEW t \in Tasks, NEW m \in Mains, NEW x \in Texts, NEW p \in Profiles \cup {None},
             NEW e \in ExplicitIds \cup {None}, Submit(t, m, x, p, e)
      PROVE  TextsKept'
  <2>1. pc[t] = "new" /\ sess[t] = None
    BY <1>0, <1>1 DEF Submit, TextKept, Unclaimed
  <2>2. PICK q \in {"rejected", "find", "locate"} : Goto(t, q)
    BY <1>1 DEF Submit
  <2>3. UNCHANGED <<sess, ask, outcome, history, streak>> /\ \A u \in Tasks \ {t} : req'[u] = req[u]
    BY <1>0, <1>1 DEF Submit, TypeOK, stateVars, storeVars
  <2>4. pc'[t] = q
    BY <1>0, <2>2 DEF Goto, TypeOK
  <2>5. TextKept(t)'
    BY <2>1, <2>2, <2>3, <2>4 DEF TextKept
  <2> QED BY <1>0, <2>1, <2>2, <2>3, <2>5, TextMove, ConstantsAssumption
<1>2. ASSUME NEW t \in Tasks, ClaimExplicit(t) PROVE TextsKept'
  <2>1. pc[t] \in Unclaimed /\ sess[t] = None /\ want[t] \in Sessions
    BY <1>0, <1>2 DEF ClaimExplicit, TextKept, Unclaimed, Placed
  <2>2. UNCHANGED <<req, ask, outcome, history, streak>>
    BY <1>2 DEF ClaimExplicit, storeVars
  <2>3. CASE Claim(t, want[t])
    BY <1>0, <2>1, <2>2, <2>3, TextClaim
  <2>4. CASE Goto(t, "error") /\ UNCHANGED sess
    BY <1>0, <2>1, <2>2, <2>4, TextQuiet DEF Unclaimed
  <2> QED BY <1>2, <2>3, <2>4 DEF ClaimExplicit
<1>3. ASSUME NEW t \in Tasks, FindIdle(t) PROVE TextsKept'
  <2>1. pc[t] \in Unclaimed /\ sess[t] = None
    BY <1>0, <1>3 DEF FindIdle, TextKept, Unclaimed
  <2>2. UNCHANGED <<req, ask, outcome, history, streak>>
    BY <1>3 DEF FindIdle, storeVars
  <2>3. CASE \E s \in Sessions : Claim(t, s)
    BY <1>0, <2>1, <2>2, <2>3, TextClaim
  <2>4. CASE Goto(t, "list") /\ UNCHANGED sess
    BY <1>0, <2>1, <2>2, <2>4, TextQuiet DEF Unclaimed
  <2>5. Idle(req[t].profile) \subseteq Sessions
    BY <1>0 DEF Idle, TypeOK
  <2> QED BY <1>3, <2>3, <2>4, <2>5 DEF FindIdle
<1>4. ASSUME NEW t \in Tasks, ListSessions(t) PROVE TextsKept'
  <2>1. pc[t] \in Unclaimed /\ sess[t] = None
    BY <1>0, <1>4 DEF ListSessions, TextKept, Unclaimed
  <2>2. UNCHANGED <<sess, req, ask, outcome, history, streak>>
    BY <1>4 DEF ListSessions, stateVars, storeVars
  <2>3. PICK q \in {"recover", "create"} : Goto(t, q)
    BY <1>4 DEF ListSessions
  <2> QED BY <1>0, <2>1, <2>2, <2>3, TextQuiet DEF Unclaimed
<1>5. ASSUME NEW t \in Tasks, Recover(t) PROVE TextsKept'
  <2>1. pc[t] \in Unclaimed /\ sess[t] = None /\ want[t] \in Sessions
    BY <1>0, <1>5 DEF Recover, TextKept, Unclaimed, Placed
  <2>2. UNCHANGED <<req, ask, outcome, history, streak>>
    BY <1>5 DEF Recover, storeVars
  <2>3. CASE Claim(t, want[t])
    BY <1>0, <2>1, <2>2, <2>3, TextClaim
  <2>4. CASE Goto(t, "create") /\ UNCHANGED sess
    BY <1>0, <2>1, <2>2, <2>4, TextQuiet DEF Unclaimed
  <2> QED BY <1>5, <2>3, <2>4 DEF Recover
<1>6. ASSUME NEW t \in Tasks, Create(t) PROVE TextsKept'
  <2>1. pc[t] \in Unclaimed /\ sess[t] = None
    BY <1>0, <1>6 DEF Create, TextKept, Unclaimed
  <2>2. UNCHANGED <<req, ask, outcome, history, streak>>
    BY <1>6 DEF Create
  <2>3. CASE \E s \in Sessions : Claim(t, s)
    BY <1>0, <2>1, <2>2, <2>3, TextClaim
  <2>4. CASE Goto(t, "error") /\ UNCHANGED sess
    BY <1>0, <2>1, <2>2, <2>4, TextQuiet DEF Unclaimed
  <2> QED BY <1>6, <2>3, <2>4 DEF Create
<1>7. ASSUME NEW t \in Tasks, Admit(t) PROVE TextsKept'
  <2>1. sess[t] \in Sessions /\ pc[t] = "claimed"
    BY <1>0, <1>7 DEF Admit, Placed, Claiming
  <2>2. UNCHANGED <<sess, req, outcome, history, streak>>
    BY <1>7 DEF Admit, stateVars, storeVars
  <2>3. CASE Goto(t, "tripped") /\ UNCHANGED ask
    BY <1>0, <2>1, <2>2, <2>3, TextQuiet DEF Unclaimed
  <2>4. CASE /\ Goto(t, "registered")
             /\ ask' = [ask EXCEPT ![t] = IF streak[sess[t]] > 0 THEN Continue ELSE req[t].text]
    <3>1. /\ pc'[t] = "registered" /\ \A u \in Tasks \ {t} : ask'[u] = ask[u]
          /\ ask'[t] = IF streak[sess[t]] > 0 THEN Continue ELSE req[t].text
      BY <1>0, <2>4 DEF Goto, TypeOK
    <3>2. ASSUME streak[sess[t]] > 0,
                 \A s \in Sessions : Spent(s) \subseteq Spent(s)'
          PROVE  Excused(t)'
      <4>1. PICK u \in Spent(sess[t]) : TRUE
        BY <2>1, <3>2 DEF TextsKept, StreakTold
      <4>2. req[u].text \in history[sess[t]] /\ u \in Tasks
        BY <4>1 DEF Spent
      <4>3. ask'[t] = Continue
        BY <3>1, <3>2
      <4>4. CASE req[u].text = req[t].text
        BY <2>2, <4>2, <4>4 DEF Excused, TextKnown
      <4>5. CASE req[u].text # req[t].text
        <5>1. PICK s \in Sessions : s = sess[t]
          BY <2>1
        <5>2. u \in Spent(s)'
          BY <3>2, <4>1, <5>1
        <5>3. s = sess'[t] /\ req' = req
          BY <2>2, <5>1
        <5>4. u \in Spent(sess[t])'
          BY <5>2, <5>3 DEF Spent
        <5> QED BY <4>3, <4>5, <5>3, <5>4 DEF Excused
      <4> QED BY <4>4, <4>5
    <3>3. (\A s \in Sessions : Spent(s) \subseteq Spent(s)') =>
             ask'[t] = req'[t].text \/ Excused(t)'
      BY <2>2, <3>1, <3>2
    <3>4. (\A s \in Sessions : Spent(s) \subseteq Spent(s)') => TextKept(t)'
      BY <3>1, <3>3 DEF TextKept, Unclaimed
    <3> QED BY <1>0, <2>1, <2>2, <2>4, <3>1, <3>4, TextMove
  <2> QED BY <1>7, <2>3, <2>4 DEF Admit
<1>8. ASSUME NEW t \in Tasks, Trip(t) PROVE TextsKept'
  <2>1. /\ pc[t] = "tripped" /\ Goto(t, "rejected")
        /\ UNCHANGED <<sess, req, ask, outcome, history, streak>>
    BY <1>8 DEF Trip, storeVars
  <2> QED BY <1>0, <2>1, TextQuiet DEF Unclaimed
<1>9. ASSUME NEW t \in Tasks, Launch(t) PROVE TextsKept'
  <2>1. pc[t] = "registered" /\ \E q \in {"queued", "error"} : Goto(t, q)
    BY <1>9 DEF Launch
  <2>2. UNCHANGED <<sess, req, ask, outcome, history, streak>>
    BY <1>9 DEF Launch, stateVars, storeVars
  <2> QED BY <1>0, <2>1, <2>2, TextQuiet DEF Unclaimed
<1>10. ASSUME NEW t \in Tasks, AcquireSlot(t) PROVE TextsKept'
  <2>1. pc[t] = "queued" /\ Goto(t, "slot")
    BY <1>10 DEF AcquireSlot
  <2>2. UNCHANGED <<sess, req, ask, outcome, history, streak>>
    BY <1>10 DEF AcquireSlot, stateVars, storeVars
  <2> QED BY <1>0, <2>1, <2>2, TextQuiet DEF Unclaimed
<1>11. ASSUME NEW t \in Tasks, AcquireLock(t) PROVE TextsKept'
  <2>1. pc[t] = "slot" /\ Goto(t, "locked")
    BY <1>11 DEF AcquireLock
  <2>2. UNCHANGED <<sess, req, ask, outcome, history, streak>>
    BY <1>11 DEF AcquireLock, storeVars
  <2> QED BY <1>0, <2>1, <2>2, TextQuiet DEF Unclaimed
<1>12. ASSUME NEW t \in Tasks, RegisterSponsored(t) PROVE TextsKept'
  <2>1. pc[t] = "locked" /\ Goto(t, "running")
    BY <1>12 DEF RegisterSponsored
  <2>2. UNCHANGED <<sess, req, ask, outcome, history, streak>>
    BY <1>12 DEF RegisterSponsored, stateVars, storeVars
  <2> QED BY <1>0, <2>1, <2>2, TextQuiet DEF Unclaimed
<1>13. ASSUME NEW t \in Tasks, AppendAsk(t) PROVE TextsKept'
  <2>1. pc[t] = "running" /\ Goto(t, "asked") /\ sess[t] \in Sessions
    BY <1>0, <1>13 DEF AppendAsk, Placed, Claiming, Executing
  <2>2. UNCHANGED <<sess, req, ask, outcome, streak>>
    BY <1>13 DEF AppendAsk, stateVars
  <2>3. /\ \A s \in Sessions : history[s] \subseteq history'[s]
        /\ history'[sess[t]] = history[sess[t]] \cup ({ask[t]} \cap Texts)
    BY <1>0, <1>13, <2>1 DEF AppendAsk, TypeOK
  <2>4. req[t].text \in Texts
    BY <1>0, <2>1 DEF Placed, Request
  <2>5. ask[t] = req[t].text \/ Excused(t)
    BY <1>0, <2>1 DEF TextKept
  <2>6. ASSUME \A s \in Sessions : Spent(s) \subseteq Spent(s)'
        PROVE  Excused(t)'
    <3>1. CASE ask[t] = req[t].text
      BY <2>2, <2>3, <2>4, <3>1 DEF Excused, TextKnown
    <3>2. CASE Excused(t)
      BY <2>1, <2>2, <2>3, <2>6, <3>2, ExcusedStays
    <3> QED BY <2>5, <3>1, <3>2
  <2>7. pc'[t] = "asked"
    BY <1>0, <2>1 DEF Goto, TypeOK
  <2>8. (\A s \in Sessions : Spent(s) \subseteq Spent(s)') => TextKept(t)'
    BY <2>6, <2>7 DEF TextKept, Unclaimed
  <2> QED BY <1>0, <2>1, <2>2, <2>3, <2>8, TextMove
<1>14. ASSUME NEW t \in Tasks, NEW o \in Outcomes, Finish(t, o) PROVE TextsKept'
  <2>1. /\ pc[t] \in {"running", "asked"} /\ Goto(t, "release")
        /\ pc[t] = "running" => o = "failed"
    BY <1>14 DEF Finish
  <2>2. UNCHANGED <<sess, req, ask, history, streak>>
    BY <1>14 DEF Finish, stateVars, storeVars
  <2>3. outcome'[t] = o /\ \A u \in Tasks \ {t} : outcome'[u] = outcome[u]
    BY <1>0, <1>14 DEF Finish, TypeOK
  <2>4. ASSUME outcome'[t] = "max_iterations",
               \A s \in Sessions : Spent(s) \subseteq Spent(s)'
        PROVE  Excused(t)'
    <3>1. pc[t] = "asked" /\ sess[t] \in Sessions
      BY <1>0, <2>1, <2>3, <2>4 DEF Placed, Claiming, Executing
    <3>2. Excused(t)
      BY <1>0, <3>1 DEF TextKept
    <3> QED BY <2>2, <2>4, <3>1, <3>2, ExcusedStays
  <2>5. pc'[t] = "release"
    BY <1>0, <2>1 DEF Goto, TypeOK
  <2>6. (\A s \in Sessions : Spent(s) \subseteq Spent(s)') => TextKept(t)'
    BY <2>4, <2>5 DEF TextKept, Unclaimed
  <2> QED BY <1>0, <2>1, <2>2, <2>3, <2>6, TextMove
<1>15. ASSUME NEW t \in Tasks, ReleaseSpawn(t) PROVE TextsKept'
  <2>1. pc[t] = "release" /\ Goto(t, "unlock")
    BY <1>15 DEF ReleaseSpawn
  <2>2. UNCHANGED <<sess, req, ask, outcome, history, streak>>
    BY <1>15 DEF ReleaseSpawn, storeVars
  <2> QED BY <1>0, <2>1, <2>2, TextQuiet DEF Unclaimed
<1>16. ASSUME NEW t \in Tasks, Unlock(t) PROVE TextsKept'
  <2>1. pc[t] = "unlock" /\ Goto(t, "settle")
    BY <1>16 DEF Unlock
  <2>2. UNCHANGED <<sess, req, ask, outcome, history, streak>>
    BY <1>16 DEF Unlock, storeVars
  <2> QED BY <1>0, <2>1, <2>2, TextQuiet DEF Unclaimed
<1>17. ASSUME NEW t \in Tasks, Settle(t) PROVE TextsKept'
  <2>1. pc[t] = "settle" /\ Goto(t, "record")
    BY <1>17 DEF Settle
  <2>2. UNCHANGED <<sess, req, ask, outcome, history, streak>>
    BY <1>17 DEF Settle, stateVars, storeVars
  <2> QED BY <1>0, <2>1, <2>2, TextQuiet DEF Unclaimed
<1>18. ASSUME NEW t \in Tasks, RecordOutcome(t) PROVE TextsKept'
  <2>1. pc[t] = "record" /\ sess[t] \in Sessions
    BY <1>0, <1>18 DEF RecordOutcome, Placed, Closing
  <2>2. PICK q \in {"anchor", "done"} : Goto(t, q)
    BY <1>18 DEF RecordOutcome
  <2>3. UNCHANGED <<sess, req, ask, outcome, history>>
    BY <1>18 DEF RecordOutcome, storeVars
  <2>4. outcome[t] = "max_iterations" => Excused(t)
    BY <1>0, <2>1 DEF TextKept
  <2>5. pc'[t] = q
    BY <1>0, <2>2 DEF Goto, TypeOK
  <2>6. ASSUME NEW s \in Sessions, streak'[s] > 0
        PROVE  streak[s] > 0 \/ Spent(s) # {} \/ t \in Spent(s)'
    <3>1. CASE s = sess[t]
      <4>1. streak'[s] = StreakAfter(t)
        BY <1>0, <1>18, <2>1, <3>1 DEF RecordOutcome, TypeOK
      <4>2. outcome[t] = "max_iterations"
        BY <2>6, <4>1 DEF StreakAfter
      <4>3. CASE TextKnown(t)
        BY <2>2, <2>3, <2>5, <3>1, <4>2, <4>3 DEF Spent, TextKnown
      <4>4. CASE ~TextKnown(t)
        BY <2>4, <3>1, <4>2, <4>4 DEF Excused
      <4> QED BY <4>3, <4>4
    <3>2. CASE s # sess[t]
      BY <1>0, <1>18, <2>6, <3>2 DEF RecordOutcome, TypeOK
    <3> QED BY <3>1, <3>2
  <2>7. TextKept(t)'
    BY <2>5 DEF TextKept, Unclaimed
  <2> QED BY <1>0, <2>1, <2>2, <2>3, <2>6, <2>7, TextMove
<1>19. ASSUME NEW t \in Tasks, RecordAnchor(t) PROVE TextsKept'
  <2>1. Goto(t, "done") /\ UNCHANGED <<sess, req, ask, outcome, history, streak>>
    BY <1>19 DEF RecordAnchor, stateVars, storeVars
  <2> QED BY <1>0, <2>1, TextQuiet DEF Unclaimed
<1>20. ASSUME NEW ms \in SUBSET Mains, Stop(ms) PROVE TextsKept'
  <2>1. UNCHANGED <<pc, sess, req, ask, outcome, history, streak>>
    BY <1>20 DEF Stop, stateVars, storeVars
  <2> QED BY <2>1 DEF TextsKept, StreakTold, TextKept, Excused, Spent, TextKnown
<1>21. CASE Restart
  <2>1. \A s \in Sessions : streak'[s] = 0
    BY <1>21 DEF Restart
  <2>2. \A u \in Tasks : pc'[u] \in {"new", "lost"} /\ sess'[u] = None
    BY <1>21 DEF Restart
  <2>3. \A u \in Tasks : TextKept(u)'
    BY <1>0, <2>2 DEF TextKept, Unclaimed
  <2> QED BY <2>1, <2>3 DEF TextsKept, StreakTold
<1>22. CASE UNCHANGED vars
  BY <1>22 DEF vars, taskVars, stateVars, storeVars, TextsKept, StreakTold, TextKept, Excused, Spent,
     TextKnown
<1> QED
  BY <1>1, <1>2, <1>3, <1>4, <1>5, <1>6, <1>7, <1>8, <1>9, <1>10, <1>11, <1>12,
     <1>13, <1>14, <1>15, <1>16, <1>17, <1>18, <1>19, <1>20, <1>21, <1>22
     DEF Next, SubmitStep, RunStep, CancelSubAgents, CancelAllSubAgents

(* However many texts share a session, whoever retries, names, finds or    *)
(* recovers it and whatever fails, panics or restarts: a sub-agent that    *)
(* runs without the text of its task was told to continue the work of      *)
(* another text, known to the session, that used up its iterations there.  *)
THEOREM ContinuesWork == Spec => []ContinuesSomething
<1>1. WellFormed /\ TextsKept /\ [Next]_vars => TextsKept'
  BY TextStep
<1>2. TextsKept => ContinuesSomething
  BY DEF TextsKept, TextKept, Excused, TextKnown, ContinuesSomething
<1> QED BY TextsInit, <1>1, <1>2, WellFormedAlways, PTL DEF Spec

-----------------------------------------------------------------------------
\* The dispatcher implements the service, step by step.

(* Where a goroutine stands decides the phase its caller sees; only for a  *)
(* task that went wrong does the board tell a refusal from a settlement.   *)
LEMMA PhaseCases ==
  ASSUME NEW t \in Tasks
  PROVE  /\ pc[t] \in {"new"} \cup (Submitting \ {"registered"}) => PhaseOf(t) = "new"
         /\ pc[t] \in {"registered"} \cup Waiting => PhaseOf(t) = "accepted"
         /\ pc[t] \in Executing \cup Leaving => PhaseOf(t) = "executing"
         /\ pc[t] = "settle" => PhaseOf(t) = "ended"
         /\ pc[t] \in {"record", "anchor", "done"} => PhaseOf(t) = "settled"
         /\ pc[t] = "lost" => PhaseOf(t) = "lost"
         /\ pc[t] = "error" /\ board[t] = "failed" => PhaseOf(t) = "settled"
         /\ pc[t] = "error" /\ board[t] # "failed" => PhaseOf(t) = "refused"
         /\ pc[t] = "rejected" => PhaseOf(t) = "refused"
BY DEF PhaseOf, Submitting, Waiting, Executing, Leaving

LEMMA PhaseCasesNext ==
  ASSUME NEW t \in Tasks
  PROVE  /\ pc'[t] \in {"new"} \cup (Submitting \ {"registered"}) => PhaseOf(t)' = "new"
         /\ pc'[t] \in {"registered"} \cup Waiting => PhaseOf(t)' = "accepted"
         /\ pc'[t] \in Executing \cup Leaving => PhaseOf(t)' = "executing"
         /\ pc'[t] = "settle" => PhaseOf(t)' = "ended"
         /\ pc'[t] \in {"record", "anchor", "done"} => PhaseOf(t)' = "settled"
         /\ pc'[t] = "lost" => PhaseOf(t)' = "lost"
         /\ pc'[t] = "error" /\ board'[t] = "failed" => PhaseOf(t)' = "settled"
         /\ pc'[t] = "error" /\ board'[t] # "failed" => PhaseOf(t)' = "refused"
         /\ pc'[t] = "rejected" => PhaseOf(t)' = "refused"
BY DEF PhaseOf, Submitting, Waiting, Executing, Leaving

(* The others see nothing of a step of one submission.                     *)
LEMMA OthersKeepPhase ==
  ASSUME NEW t \in Tasks, NEW p, pc \in [Tasks -> Phases], pc' = [pc EXCEPT ![t] = p],
         \A u \in Tasks \ {t} : board'[u] = board[u]
  PROVE  \A u \in Tasks \ {t} : PhaseOf(u)' = PhaseOf(u)
<1>1. \A u \in Tasks \ {t} : pc'[u] = pc[u]
  OBVIOUS
<1> QED BY <1>1 DEF PhaseOf

(* A step that moves a submission within its phase is a stutter of the     *)
(* service.                                                                *)
LEMMA PhaseStutter ==
  ASSUME NEW t \in Tasks, NEW p, pc \in [Tasks -> Phases], pc' = [pc EXCEPT ![t] = p],
         board' = board, lock' = lock, PhaseOf(t)' = PhaseOf(t)
  PROVE  UNCHANGED Service!vars
<1>1. \A u \in Tasks : PhaseOf(u)' = PhaseOf(u)
  BY OthersKeepPhase
<1>2. [u \in Tasks |-> PhaseOf(u)'] = [u \in Tasks |-> PhaseOf(u)]
  BY <1>1
<1> QED BY <1>2 DEF Service!vars

LEMMA PhaseMove ==
  ASSUME NEW t \in Tasks, NEW p, pc \in [Tasks -> Phases], pc' = [pc EXCEPT ![t] = p],
         \A u \in Tasks \ {t} : board'[u] = board[u]
  PROVE  [u \in Tasks |-> PhaseOf(u)'] =
           [[u \in Tasks |-> PhaseOf(u)] EXCEPT ![t] = PhaseOf(t)']
<1>1. \A u \in Tasks \ {t} : PhaseOf(u)' = PhaseOf(u)
  BY OthersKeepPhase
<1> QED BY <1>1

LEMMA ServiceInit == Init => Service!Init
<1> SUFFICES ASSUME Init PROVE Service!Init
  OBVIOUS
<1>1. \A t \in Tasks : PhaseOf(t) = "new"
  BY PhaseCases DEF Init
<1> QED BY <1>1 DEF Service!Init, Init

LEMMA ServiceStep == Locked /\ SettledLast /\ [Next]_vars => [Service!Next]_(Service!vars)
<1> SUFFICES ASSUME Locked, SettledLast, [Next]_vars
             PROVE  Service!Next \/ UNCHANGED Service!vars
  OBVIOUS
<1> USE DEF Locked, WellFormed, TypeOK, Goto, vars, taskVars, stateVars
<1>1. ASSUME NEW t \in Tasks, NEW q, Goto(t, q), UNCHANGED <<board, lock>>,
             pc[t] \in {"new"} \cup (Submitting \ {"registered"}),
             q \in {"rejected", "error"} \cup (Submitting \ {"registered"})
      PROVE  Service!Next \/ UNCHANGED Service!vars
  <2>1. PhaseOf(t) = "new" /\ pc'[t] = q
    BY <1>1, PhaseCases
  <2>2. board[t] # "failed"
    BY <1>1 DEF SettledLast, Submitting
  <2>3. CASE q \in Submitting \ {"registered"}
    <3>1. PhaseOf(t)' = "new"
      BY <2>1, <2>3, PhaseCasesNext
    <3> QED BY <1>1, <2>1, <3>1, PhaseStutter
  <2>4. CASE q \in {"rejected", "error"}
    <3>1. PhaseOf(t)' = "refused"
      BY <1>1, <2>1, <2>2, <2>4 DEF PhaseOf, Submitting, Waiting, Executing, Leaving
    <3>2. Service!Refuse(t)
      BY <1>1, <2>1, <3>1, PhaseMove DEF Service!Refuse
    <3> QED BY <3>2 DEF Service!Next
  <2> QED BY <1>1, <2>3, <2>4
<1>2. ASSUME NEW t \in Tasks, NEW q, Goto(t, q), UNCHANGED <<board, lock>>,
             \/ pc[t] \in {"registered"} \cup Waiting /\ q \in {"registered"} \cup Waiting
             \/ pc[t] \in Executing \cup Leaving /\ q \in Executing \cup Leaving
             \/ pc[t] \in {"record", "anchor"} /\ q \in {"record", "anchor", "done"}
      PROVE  UNCHANGED Service!vars
  <2>1. PhaseOf(t)' = PhaseOf(t)
    <3>1. pc'[t] = q
      BY <1>2
    <3>2. CASE pc[t] \in {"registered"} \cup Waiting /\ q \in {"registered"} \cup Waiting
      BY <3>1, <3>2, PhaseCases, PhaseCasesNext
    <3>3. CASE pc[t] \in Executing \cup Leaving /\ q \in Executing \cup Leaving
      BY <3>1, <3>3, PhaseCases, PhaseCasesNext
    <3>4. CASE pc[t] \in {"record", "anchor"} /\ q \in {"record", "anchor", "done"}
      BY <3>1, <3>4, PhaseCases, PhaseCasesNext
    <3> QED BY <1>2, <3>2, <3>3, <3>4
  <2> QED BY <1>2, <2>1, PhaseStutter
<1>3. ASSUME NEW t \in Tasks, SubmitStep(t)
      PROVE  Service!Next \/ UNCHANGED Service!vars
  <2>1. CASE Admit(t)
    <3>1. CASE Goto(t, "tripped") /\ UNCHANGED board
      BY <1>1, <2>1, <3>1 DEF Admit, Submitting
    <3>2. CASE Goto(t, "registered") /\ board' = [board EXCEPT ![t] = "pending"]
      <4>1. PhaseOf(t) = "new" /\ PhaseOf(t)' = "accepted"
        <5>1. pc[t] = "claimed" /\ pc'[t] = "registered"
          BY <2>1, <3>2 DEF Admit
        <5> QED BY <5>1, PhaseCases, PhaseCasesNext DEF Submitting
      <4>2. lock' = lock
        BY <2>1 DEF Admit
      <4>3. Service!Accept(t)
        BY <3>2, <4>1, <4>2, PhaseMove DEF Service!Accept
      <4> QED BY <4>3 DEF Service!Next
    <3> QED BY <2>1, <3>1, <3>2 DEF Admit
  <2>2. CASE Launch(t)
    <3>1. CASE Goto(t, "queued") /\ UNCHANGED board
      BY <1>2, <2>2, <3>1 DEF Launch, Waiting
    <3>2. CASE Goto(t, "error") /\ board' = [board EXCEPT ![t] = "failed"]
      <4>1. PhaseOf(t) = "accepted" /\ PhaseOf(t)' = "settled"
        BY <2>2, <3>2 DEF Launch, PhaseOf, Submitting, Waiting, Executing, Leaving
      <4>2. lock' = lock
        BY <2>2 DEF Launch
      <4>3. Service!Abort(t)
        BY <3>2, <4>1, <4>2, PhaseMove DEF Service!Abort
      <4> QED BY <4>3 DEF Service!Next, Service!TaskStep
    <3> QED BY <2>2, <3>1, <3>2 DEF Launch
  <2>3. CASE ClaimExplicit(t) \/ FindIdle(t) \/ ListSessions(t) \/ Recover(t)
              \/ Create(t) \/ Trip(t)
    <3>1. UNCHANGED <<board, lock>>
      BY <2>3 DEF ClaimExplicit, FindIdle, ListSessions, Recover, Create, Trip
    <3>2. pc[t] \in Submitting \ {"registered"}
      BY <2>3 DEF ClaimExplicit, FindIdle, ListSessions, Recover, Create, Trip, Submitting
    <3>3. \E q \in {"rejected", "error"} \cup (Submitting \ {"registered"}) : Goto(t, q)
      BY <2>3 DEF ClaimExplicit, FindIdle, ListSessions, Recover, Create, Trip, Claim,
                  Submitting
    <3> QED BY <1>1, <3>1, <3>2, <3>3
  <2> QED BY <1>3, <2>1, <2>2, <2>3 DEF SubmitStep
<1>4. ASSUME NEW t \in Tasks, NEW m \in Mains, NEW x \in Texts,
             NEW p \in Profiles \cup {None}, NEW e \in ExplicitIds \cup {None},
             Submit(t, m, x, p, e)
      PROVE  Service!Next \/ UNCHANGED Service!vars
  <2>1. \E q \in {"rejected", "error"} \cup (Submitting \ {"registered"}) : Goto(t, q)
    BY <1>4 DEF Submit, Submitting
  <2> QED BY <1>1, <1>4, <2>1 DEF Submit
<1>5. ASSUME NEW t \in Tasks, AcquireSlot(t) PROVE UNCHANGED Service!vars
  BY <1>2, <1>5 DEF AcquireSlot, Waiting
<1>6. ASSUME NEW t \in Tasks, AcquireLock(t) PROVE Service!Next
  <2>1. sess[t] \in Sessions
    BY <1>6 DEF AcquireLock, Placed, Claiming, Waiting
  <2>2. PhaseOf(t) = "accepted" /\ PhaseOf(t)' = "executing"
    BY <1>6 DEF AcquireLock, PhaseOf, Submitting, Waiting, Executing, Leaving
  <2>3. Service!Start(t, sess[t])
    BY <1>6, <2>2, PhaseMove DEF AcquireLock, LockFree, Service!Start
  <2> QED BY <2>1, <2>3 DEF Service!Next, Service!TaskStep
<1>7. ASSUME NEW t \in Tasks, RunStep(t)
      PROVE  Service!Next \/ UNCHANGED Service!vars
  <2>1. CASE RegisterSponsored(t) \/ AppendAsk(t) \/ ReleaseSpawn(t)
              \/ (\E o \in Outcomes : Finish(t, o))
    <3>1. UNCHANGED <<board, lock>> /\ pc[t] \in Executing \cup Leaving
      BY <2>1 DEF RegisterSponsored, AppendAsk, ReleaseSpawn, Finish, Executing, Leaving
    <3>2. \E q \in Executing \cup Leaving : Goto(t, q)
      BY <2>1 DEF RegisterSponsored, AppendAsk, ReleaseSpawn, Finish, Executing, Leaving
    <3> QED BY <1>2, <3>1, <3>2
  <2>2. CASE RecordOutcome(t) \/ RecordAnchor(t)
    <3>1. UNCHANGED <<board, lock>> /\ pc[t] \in {"record", "anchor"}
      BY <2>2 DEF RecordOutcome, RecordAnchor
    <3>2. \E q \in {"record", "anchor", "done"} : Goto(t, q)
      BY <2>2 DEF RecordOutcome, RecordAnchor
    <3> QED BY <1>2, <3>1, <3>2
  <2>3. CASE Unlock(t)
    <3>1. sess[t] \in Sessions /\ lock[sess[t]] = t
      BY <2>3 DEF Unlock, Placed, Leaving, LockHeld, Holding
    <3>2. PhaseOf(t)' = "ended"
      BY <2>3 DEF Unlock, PhaseOf, Submitting, Waiting, Executing, Leaving
    <3>3. Service!End(t, sess[t])
      BY <2>3, <3>1, <3>2, PhaseMove DEF Unlock, Service!End
    <3> QED BY <3>1, <3>3 DEF Service!Next, Service!TaskStep
  <2>4. CASE Settle(t)
    <3> DEFINE v == IF outcome[t] = "answered" THEN "completed" ELSE "failed"
    <3>1. PhaseOf(t) = "ended" /\ PhaseOf(t)' = "settled"
      BY <2>4 DEF Settle, PhaseOf, Submitting, Waiting, Executing, Leaving
    <3>2. Service!Settle(t, v)
      BY <2>4, <3>1, PhaseMove DEF Settle, Service!Settle
    <3> QED BY <3>2 DEF Service!Next, Service!TaskStep
  <2> QED BY <1>7, <2>1, <2>2, <2>3, <2>4 DEF RunStep
<1>8. ASSUME NEW ms \in SUBSET Mains, Stop(ms) PROVE UNCHANGED Service!vars
  BY <1>8 DEF Stop, Service!vars, PhaseOf
<1>9. CASE Restart
  <2> DEFINE gone == {t \in Tasks : pc[t] # "new"}
  <2>1. \A t \in Tasks : PhaseOf(t)' = IF pc[t] = "new" THEN "new" ELSE "lost"
    BY <1>9 DEF Restart, PhaseOf, Submitting, Waiting, Executing, Leaving
  <2>2. \A t \in Tasks : pc[t] = "new" => PhaseOf(t) = "new"
    BY PhaseCases
  <2>3. [t \in Tasks |-> PhaseOf(t)'] =
          [t \in Tasks |-> IF [u \in Tasks |-> PhaseOf(u)][t] = "new" /\ t \notin gone
                           THEN "new" ELSE "lost"]
    BY <2>1, <2>2
  <2>4. Service!Crash
    <3>1. /\ lock' = [s \in Sessions |-> None]
          /\ board' = [t \in Tasks |-> "none"]
      BY <1>9 DEF Restart
    <3> QED BY <2>3, <3>1 DEF Service!Crash
  <2> QED BY <2>4 DEF Service!Next
<1>10. CASE UNCHANGED vars
  BY <1>10 DEF Service!vars, PhaseOf
<1> HIDE DEF Locked, WellFormed, TypeOK
<1> QED
  BY <1>3, <1>4, <1>5, <1>6, <1>7, <1>8, <1>9, <1>10
     DEF Next, CancelSubAgents, CancelAllSubAgents

(* Claims, slots, the breaker, stops and restarts never break what callers *)
(* of SubAgent and CollectResults rely on: a task is executed at most      *)
(* once, alone on its session, and its handle gets one verdict, after the  *)
(* run or instead of it.  Every step is one of SubAgentService or none.    *)
THEOREM ImplementsService == Spec => Service!Spec
<1>1. Init => SettledLast
  BY DEF Init, SettledLast
<1>2. WellFormed /\ SettledLast /\ [Next]_vars => SettledLast'
  BY SettledStep
<1> QED BY <1>1, <1>2, ServiceInit, ServiceStep, WellFormedAlways, LockedAlways, PTL
        DEF Spec, Service!Spec
=============================================================================
