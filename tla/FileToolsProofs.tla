--------------------------- MODULE FileToolsProofs ---------------------------
(***************************************************************************)
(* What the checks of Read, Edit and Write notice, and what is kept to     *)
(* undo them, for any number of sessions and files, tables of any size,    *)
(* and failures.                                                           *)
(***************************************************************************)
EXTENDS FileTools, TLAPS

-----------------------------------------------------------------------------
\* The inductive invariant, part by part.

(* The functions and the clock.  No time is later than now, and a file     *)
(* that is there has one.                                                  *)
Shape ==
    /\ now \in Nat \ {0}
    /\ mtime \in [Paths -> 0..now]
    /\ DOMAIN disk = Paths /\ DOMAIN unseen = Paths
    /\ \A p \in Paths : Exists(p) => mtime[p] # 0
    /\ DOMAIN stale = Paths /\ \A p \in Paths : stale[p].time \in 0..now
    /\ dedup \in [Sessions -> [Paths -> 0..now]]
    /\ DOMAIN given = Sessions /\ \A s \in Sessions : DOMAIN given[s] = Paths
    /\ DOMAIN call = Sessions
    /\ \A s \in Sessions : ~IsIdle(s) => call[s].path \in Paths

(* A call that read or wrote a file knows what is in it, and one that is   *)
(* to write over a file was shown it.                                      *)
KnowsFile(s) ==
    /\ call[s].at \in {"read", "edited", "written"} => call[s].data = disk[call[s].path]
    /\ call[s].at = "read" => Exists(call[s].path)
    /\ call[s].at = "checked" => ~Exists(call[s].path) \/ ~unseen[call[s].path]

(* A file with the recorded time was seen, or has the recorded content.    *)
RecordTrue(p) ==
    Exists(p) /\ Recorded(p) =>
        /\ stale[p].time = now => mtime[p] = now
        /\ SameTime(p) => ~unseen[p] \/ SameContent(p)

(* A file with the time of a session's last reading is what it was shown.  *)
GivenTrue(s, p) ==
    Exists(p) /\ dedup[s][p] # 0 =>
        /\ dedup[s][p] = now => mtime[p] = now
        /\ dedup[s][p] = mtime[p] => given[s][p] = disk[p]

Known ==
    /\ \A s \in Sessions : KnowsFile(s)
    /\ \A p \in Paths : RecordTrue(p)
    /\ \A s \in Sessions, p \in Paths : GivenTrue(s, p)

(* Until some change falls into a window, all of this holds.               *)
Notices == Shape /\ (~raced => ~lost /\ ~deceived /\ Known)

-----------------------------------------------------------------------------

LEMMA NoticesInit == Init => Notices
<1> SUFFICES ASSUME Init PROVE Notices
  OBVIOUS
<1>1. /\ now = 1 /\ stale = [p \in Paths |-> NoEntry]
      /\ mtime = [p \in Paths |-> IF disk[p] = NoFile THEN 0 ELSE 1]
      /\ dedup = [s \in Sessions |-> [p \in Paths |-> 0]]
      /\ given = NothingGiven /\ call = [s \in Sessions |-> Idle]
      /\ DOMAIN disk = Paths /\ DOMAIN unseen = Paths
  BY DEF Init
<1>2. Shape
  <2>1. \A p \in Paths : Exists(p) => mtime[p] # 0
    BY <1>1 DEF Exists
  <2>2. \A s \in Sessions : IsIdle(s)
    BY <1>1 DEF IsIdle, Idle
  <2>3. mtime \in [Paths -> 0..now] /\ dedup \in [Sessions -> [Paths -> 0..now]]
    BY <1>1
  <2>4. DOMAIN stale = Paths /\ \A p \in Paths : stale[p].time \in 0..now
    BY <1>1 DEF NoEntry
  <2>5. DOMAIN given = Sessions /\ \A s \in Sessions : DOMAIN given[s] = Paths
    BY <1>1 DEF NothingGiven
  <2> QED
    BY <1>1, <2>1, <2>2, <2>3, <2>4, <2>5 DEF Shape
<1>3. Known
  BY <1>1 DEF Known, KnowsFile, RecordTrue, GivenTrue, Recorded, Idle
<1>4. ~lost /\ ~deceived
  BY DEF Init
<1> QED
  BY <1>2, <1>3, <1>4 DEF Notices

\* What a change of a file leaves true when nobody was looking.
LEMMA ChangeKeeps ==
    ASSUME Shape, Known, NEW s, NEW p \in Paths, NEW c, NEW u,
           Change(s, p, c, u), ~raced', now' = now,
           \A q \in Paths : stale'[q] = stale[q] \/ stale'[q] = NoEntry,
           dedup' = dedup, given' = given
    PROVE  /\ \A q \in Paths : RecordTrue(q)'
           /\ \A t \in Sessions, q \in Paths : GivenTrue(t, q)'
           /\ \A t \in Sessions \ {s} : call'[t] = call[t] => KnowsFile(t)'
<1>1. /\ disk' = [disk EXCEPT ![p] = c]
      /\ mtime' = [mtime EXCEPT ![p] = IF c = NoFile THEN 0 ELSE now]
      /\ unseen' = [unseen EXCEPT ![p] = u]
      /\ ~Racing(s, p)
  BY DEF Change
<1>2. /\ DOMAIN disk = Paths /\ DOMAIN mtime = Paths /\ DOMAIN unseen = Paths
      /\ now \in Nat \ {0}
  BY DEF Shape
<1>3. /\ \A t \in Sessions \ {s} : ~Open(t, p)
      /\ stale[p].time # now
      /\ \A t \in Sessions : dedup[t][p] # now
  BY <1>1 DEF Racing
<1>4. /\ disk'[p] = c /\ mtime'[p] = IF c = NoFile THEN 0 ELSE now
      /\ \A q \in Paths \ {p} : /\ disk'[q] = disk[q] /\ mtime'[q] = mtime[q]
                               /\ unseen'[q] = unseen[q]
  BY <1>1, <1>2
<1>5. ASSUME NEW q \in Paths PROVE RecordTrue(q)'
  <2>1. CASE stale'[q] = NoEntry
    BY <2>1 DEF RecordTrue, Recorded
  <2>2. CASE stale'[q] = stale[q] /\ q = p
    BY <1>3, <1>4, <2>2 DEF RecordTrue, SameTime, Exists
  <2>3. CASE stale'[q] = stale[q] /\ q # p
    <3>1. RecordTrue(q)
      BY DEF Known
    <3> QED
      BY <1>4, <2>3, <3>1 DEF RecordTrue, SameTime, SameContent, Exists, Recorded
  <2> QED
    BY <2>1, <2>2, <2>3
<1>6. ASSUME NEW t \in Sessions, NEW q \in Paths PROVE GivenTrue(t, q)'
  <2>1. CASE q = p
    BY <1>3, <1>4, <2>1 DEF GivenTrue, Exists
  <2>2. CASE q # p
    <3>1. GivenTrue(t, q)
      BY DEF Known
    <3> QED
      BY <1>4, <2>2, <3>1 DEF GivenTrue, Exists
  <2> QED
    BY <2>1, <2>2
<1>7. ASSUME NEW t \in Sessions \ {s}, call'[t] = call[t] PROVE KnowsFile(t)'
  <2>1. KnowsFile(t) /\ ~Open(t, p)
    BY <1>3 DEF Known
  <2>2. ~IsIdle(t) => call[t].path \in Paths
    BY DEF Shape
  <2>3. ASSUME call[t].at \in {"read", "edited", "written", "checked"}
        PROVE  call[t].path \in Paths \ {p}
    BY <2>1, <2>2, <2>3 DEF Open, IsIdle
  <2> QED
    BY <1>4, <1>7, <2>1, <2>3 DEF KnowsFile, Exists
<1> QED
  BY <1>5, <1>6, <1>7

\* The parts of Shape: what belongs to the files, to the tables, to the calls.
FilesShape ==
    /\ now \in Nat \ {0}
    /\ mtime \in [Paths -> 0..now]
    /\ DOMAIN disk = Paths /\ DOMAIN unseen = Paths
    /\ \A p \in Paths : Exists(p) => mtime[p] # 0
TablesShape ==
    /\ DOMAIN stale = Paths /\ \A p \in Paths : stale[p].time \in 0..now
    /\ dedup \in [Sessions -> [Paths -> 0..now]]
    /\ DOMAIN given = Sessions /\ \A s \in Sessions : DOMAIN given[s] = Paths
CallsShape ==
    /\ DOMAIN call = Sessions
    /\ \A s \in Sessions : ~IsIdle(s) => call[s].path \in Paths

LEMMA ShapeParts == Shape <=> FilesShape /\ TablesShape /\ CallsShape
  BY DEF Shape, FilesShape, TablesShape, CallsShape

LEMMA ChangeShape ==
    ASSUME Shape, NEW s, NEW p \in Paths, NEW c, NEW u, Change(s, p, c, u), now' = now
    PROVE  FilesShape'
<1>1. /\ disk' = [disk EXCEPT ![p] = c]
      /\ mtime' = [mtime EXCEPT ![p] = IF c = NoFile THEN 0 ELSE now]
      /\ unseen' = [unseen EXCEPT ![p] = u]
  BY DEF Change
<1>2. /\ DOMAIN disk = Paths /\ DOMAIN unseen = Paths
      /\ now \in Nat \ {0} /\ mtime \in [Paths -> 0..now]
      /\ \A q \in Paths : Exists(q) => mtime[q] # 0
  BY DEF Shape
<1>3. DOMAIN disk' = Paths /\ DOMAIN unseen' = Paths
  BY <1>1, <1>2
<1>4. mtime' \in [Paths -> 0..now]
  BY <1>1, <1>2
<1>5. \A q \in Paths : Exists(q)' => mtime'[q] # 0
  BY <1>1, <1>2 DEF Exists
<1> QED
  BY <1>2, <1>3, <1>4, <1>5 DEF FilesShape

\* A call moves on; the path it has is the one it had or one it was given.
LEMMA CallShape ==
    ASSUME Shape, NEW s \in Sessions, NEW k, call' = [call EXCEPT ![s] = k],
           k.at = "idle" \/ k.path \in Paths
    PROVE  /\ CallsShape'
           /\ call'[s] = k
           /\ \A t \in Sessions \ {s} : call'[t] = call[t]
<1>1. /\ DOMAIN call = Sessions
      /\ \A t \in Sessions : call[t].at # "idle" => call[t].path \in Paths
  BY DEF Shape, IsIdle
<1>2. /\ DOMAIN call' = Sessions /\ call'[s] = k
      /\ \A t \in Sessions \ {s} : call'[t] = call[t]
  BY <1>1
<1>3. \A t \in Sessions : call'[t].at # "idle" => call'[t].path \in Paths
  BY <1>1, <1>2
<1> QED
  BY <1>2, <1>3 DEF CallsShape, IsIdle

LEMMA TablesKeep ==
    ASSUME Shape, now' = now, dedup' = dedup, given' = given, DOMAIN stale' = Paths,
           \A q \in Paths : stale'[q] = stale[q] \/ stale'[q] = NoEntry
    PROVE  TablesShape'
<1>1. \A q \in Paths : stale'[q].time \in 0..now
  BY DEF Shape, NoEntry
<1> QED
  BY <1>1 DEF Shape, TablesShape

\* What a step that leaves files and tables alone keeps.
LEMMA LookKeeps ==
    ASSUME Shape, Known, UNCHANGED <<disk, mtime, now>>, stale' = stale, dedup' = dedup,
           given' = given, \A q \in Paths : unseen'[q] => unseen[q]
    PROVE  /\ \A q \in Paths : RecordTrue(q)'
           /\ \A t \in Sessions, q \in Paths : GivenTrue(t, q)'
           /\ \A t \in Sessions : call'[t] = call[t] => KnowsFile(t)'
<1>1. ASSUME NEW q \in Paths PROVE RecordTrue(q)'
  <2>1. RecordTrue(q)
    BY DEF Known
  <2> QED
    BY <2>1 DEF RecordTrue, SameTime, SameContent, Exists, Recorded
<1>2. ASSUME NEW t \in Sessions, NEW q \in Paths PROVE GivenTrue(t, q)'
  <2>1. GivenTrue(t, q)
    BY DEF Known
  <2> QED
    BY <2>1 DEF GivenTrue, Exists
<1>3. ASSUME NEW t \in Sessions, call'[t] = call[t] PROVE KnowsFile(t)'
  <2>1. KnowsFile(t) /\ (call[t].at # "idle" => call[t].path \in Paths)
    BY DEF Known, Shape, IsIdle
  <2>2. call[t].at = "checked" => (unseen'[call[t].path] => unseen[call[t].path])
    BY <2>1
  <2> QED
    BY <1>3, <2>1, <2>2 DEF KnowsFile, Exists
<1> QED
  BY <1>1, <1>2, <1>3

\* A session without a call knows nothing wrong.
LEMMA IdleKnows == ASSUME NEW s \in Sessions, call[s].at = "idle" PROVE KnowsFile(s)
  BY DEF KnowsFile

-----------------------------------------------------------------------------
\* Changes, by a call and by others.

LEMMA ChangeStep ==
    ASSUME Notices, NEW s, NEW p \in Paths, NEW c, NEW u, Change(s, p, c, u), now' = now,
           DOMAIN stale' = Paths, dedup' = dedup, given' = given, deceived' = deceived,
           \A q \in Paths : stale'[q] = stale[q] \/ stale'[q] = NoEntry,
           \A t \in Sessions \ {s} : call'[t] = call[t], CallsShape',
           ~raced' => ~lost',
           s \in Sessions /\ ~raced' => KnowsFile(s)'
    PROVE  Notices'
<1>1. Shape
  BY DEF Notices
<1>2. FilesShape' /\ TablesShape'
  BY <1>1, ChangeShape, TablesKeep
<1>3. Shape'
  BY <1>2 DEF Shape, FilesShape, TablesShape, CallsShape
<1>4. ASSUME ~raced' PROVE ~lost' /\ ~deceived' /\ Known'
  <2>1. ~raced
    BY <1>4 DEF Change
  <2>2. ~deceived /\ Known
    BY <2>1 DEF Notices
  <2>3. Known'
    BY <1>1, <1>4, <2>2, ChangeKeeps DEF Known
  <2> QED
    BY <1>4, <2>2, <2>3
<1> QED
  BY <1>3, <1>4 DEF Notices

LEMMA LookStep ==
    ASSUME Notices, NEW s \in Sessions, UNCHANGED <<disk, mtime, now>>,
           stale' = stale, dedup' = dedup, given' = given, raced' = raced,
           DOMAIN unseen' = Paths, \A q \in Paths : unseen'[q] => unseen[q],
           \A t \in Sessions \ {s} : call'[t] = call[t], CallsShape',
           ~raced /\ Known /\ ~lost /\ ~deceived => ~lost' /\ ~deceived' /\ KnowsFile(s)'
    PROVE  Notices'
<1>1. Shape
  BY DEF Notices
<1>2. Shape'
  BY <1>1 DEF Shape, CallsShape, Exists
<1>3. ASSUME ~raced' PROVE ~lost' /\ ~deceived' /\ Known'
  <2>1. ~lost /\ ~deceived /\ Known /\ ~raced
    BY <1>3 DEF Notices
  <2>2. ~lost' /\ ~deceived' /\ KnowsFile(s)'
    BY <2>1
  <2>3. Known'
    BY <1>1, <2>1, <2>2, LookKeeps DEF Known
  <2> QED
    BY <2>2, <2>3
<1> QED
  BY <1>2, <1>3 DEF Notices

LEMMA ReadBeginStep ==
    ASSUME Notices, NEW s \in Sessions, NEW p \in Paths, ReadBegin(s, p) PROVE Notices'
<1>1. /\ UNCHANGED <<disk, mtime, now>> /\ UNCHANGED <<stale, dedup, given, raced, lost, deceived>>
      /\ Exists(p) /\ Shape
  BY DEF ReadBegin, fileVars, tables, Notices
<1>2. CASE disk[p] = Empty
  <2>1. unseen' = [unseen EXCEPT ![p] = FALSE] /\ call' = call /\ IsIdle(s)
    BY <1>2 DEF ReadBegin
  <2>2. DOMAIN unseen' = Paths /\ \A q \in Paths : unseen'[q] => unseen[q]
    BY <1>1, <2>1 DEF Shape
  <2>3. CallsShape'
    BY <1>1, <2>1 DEF CallsShape, Shape, IsIdle
  <2>4. KnowsFile(s)'
    BY <2>1 DEF KnowsFile, IsIdle
  <2> QED
    BY <1>1, <2>1, <2>2, <2>3, <2>4, LookStep
<1>3. CASE disk[p] # Empty
  <2> DEFINE k == [at |-> "read", path |-> p, data |-> disk[p]]
  <2>1. unseen' = unseen /\ call' = [call EXCEPT ![s] = k]
    BY <1>3 DEF ReadBegin, Step
  <2>2. k.at = "read" /\ k.path = p /\ k.data = disk[p]
    OBVIOUS
  <2>3. CallsShape' /\ call'[s] = k /\ \A t \in Sessions \ {s} : call'[t] = call[t]
    <3> HIDE DEF k
    <3> QED
      BY <1>1, <2>1, <2>2, CallShape
  <2>4. KnowsFile(s)'
    BY <1>1, <2>2, <2>3 DEF KnowsFile, Exists
  <2>5. DOMAIN unseen' = Paths /\ \A q \in Paths : unseen'[q] => unseen[q]
    BY <1>1, <2>1 DEF Shape
  <2> QED
    BY <1>1, <2>3, <2>4, <2>5, LookStep
<1> QED
  BY <1>2, <1>3

LEMMA ReadUnchangedStep ==
    ASSUME Notices, NEW s \in Sessions, ReadUnchanged(s) PROVE Notices'
<1>1. /\ UNCHANGED <<disk, mtime, now>> /\ UNCHANGED <<stale, dedup, given, unseen, raced, lost>>
      /\ Shape /\ call[s].at = "read" /\ Unchanged(s, call[s].path)
      /\ deceived' = (deceived \/ given[s][call[s].path] # call[s].data)
      /\ call' = [call EXCEPT ![s] = Idle]
  BY DEF ReadUnchanged, fileVars, tables, Notices, Finish
<1>2. CallsShape' /\ call'[s] = Idle /\ \A t \in Sessions \ {s} : call'[t] = call[t]
  BY <1>1, CallShape DEF Idle
<1>3. KnowsFile(s)'
  BY <1>2 DEF KnowsFile, Idle
<1>4. ASSUME Known, ~deceived PROVE ~deceived'
  <2>1. call[s].path \in Paths /\ call[s].data = disk[call[s].path]
    BY <1>1, <1>4 DEF Shape, IsIdle, Known, KnowsFile
  <2>2. given[s][call[s].path] = disk[call[s].path]
    BY <1>1, <1>4, <2>1 DEF Known, GivenTrue, Unchanged
  <2> QED
    BY <1>1, <1>4, <2>1, <2>2
<1>5. DOMAIN unseen' = Paths /\ \A q \in Paths : unseen'[q] => unseen[q]
  BY <1>1 DEF Shape
<1> QED
  BY <1>1, <1>2, <1>3, <1>4, <1>5, LookStep

LEMMA EditLoadStep ==
    ASSUME Notices, NEW s \in Sessions, EditLoad(s) PROVE Notices'
<1> DEFINE p == call[s].path
           k == [at |-> "edited", path |-> p, data |-> disk[p]]
<1>1. /\ UNCHANGED <<disk, mtime, now>> /\ UNCHANGED <<stale, dedup, given, raced, lost, deceived>>
      /\ Shape /\ call[s].at = "edit"
      /\ \/ call' = [call EXCEPT ![s] = k] /\ unseen' = [unseen EXCEPT ![p] = FALSE]
         \/ call' = [call EXCEPT ![s] = Idle] /\ unseen' = unseen
  BY DEF EditLoad, fileVars, tables, Notices, Finish, Step
<1>2. p \in Paths
  BY <1>1 DEF Shape, IsIdle
<1>3. k.at = "edited" /\ k.path = p /\ k.data = disk[p] /\ Idle.at = "idle"
  BY DEF Idle
<1>4. /\ CallsShape' /\ \A t \in Sessions \ {s} : call'[t] = call[t]
      /\ call'[s] = k \/ call'[s] = Idle
  <2> HIDE DEF k
  <2> QED
    BY <1>1, <1>2, <1>3, CallShape
<1>5. KnowsFile(s)'
  BY <1>1, <1>3, <1>4 DEF KnowsFile
<1>6. DOMAIN unseen' = Paths /\ \A q \in Paths : unseen'[q] => unseen[q]
  BY <1>1 DEF Shape
<1> QED
  BY <1>1, <1>4, <1>5, <1>6, LookStep

\* Only the calls' bookkeeping and the tracker are concerned.
LEMMA AsideStep ==
    ASSUME Notices, NEW s \in Sessions, UNCHANGED <<disk, mtime, now>>,
           UNCHANGED <<stale, dedup, given, raced, lost, deceived, unseen, call>>
    PROVE  Notices'
<1>1. Shape
  BY DEF Notices
<1>2. CallsShape'
  BY <1>1 DEF Shape, CallsShape, IsIdle
<1>3. Known => KnowsFile(s)'
  BY DEF Known, KnowsFile, Exists
<1>4. DOMAIN unseen' = Paths /\ \A q \in Paths : unseen'[q] => unseen[q]
  BY <1>1 DEF Shape
<1> QED
  BY <1>2, <1>3, <1>4, LookStep

LEMMA CallsStay == ASSUME Shape, call' = call PROVE CallsShape'
  BY DEF Shape, CallsShape, IsIdle

LEMMA EditEmptyStep ==
    ASSUME Notices, NEW s \in Sessions, NEW p \in Paths, EditEmpty(s, p) PROVE Notices'
<1>1. /\ Change(s, p, {next}, FALSE) /\ now' = now /\ IsIdle(s) /\ Shape
      /\ UNCHANGED <<dedup, call, given, lost, deceived>>
      /\ stale' = [stale EXCEPT ![p] = NoEntry]
  BY DEF EditEmpty, DeleteStale, Notices
<1>2. DOMAIN stale' = Paths /\ \A q \in Paths : stale'[q] = stale[q] \/ stale'[q] = NoEntry
  BY <1>1 DEF Shape
<1>3. CallsShape' /\ KnowsFile(s)' /\ (~raced' => ~lost')
  BY <1>1, CallsStay DEF KnowsFile, IsIdle, Change, Notices
<1> QED
  BY <1>1, <1>2, <1>3, ChangeStep

LEMMA EditStoreStep ==
    ASSUME Notices, NEW s \in Sessions, EditStore(s) PROVE Notices'
<1> DEFINE p == call[s].path
<1>1. /\ call[s].at = "edited" /\ Shape
      /\ UNCHANGED <<now, stale, dedup, given, deceived>>
  BY DEF EditStore, tables, Notices
<1>2. p \in Paths /\ DOMAIN stale = Paths
  BY <1>1 DEF Shape, IsIdle
<1>3. PICK old \in call[s].data :
        LET new == (call[s].data \ {old}) \cup {next} IN
        /\ lost' = (lost \/ disk[p] # call[s].data)
        /\ Change(s, p, new, FALSE)
        /\ Step(s, [at |-> "written", path |-> p, data |-> new])
  BY DEF EditStore
<1> DEFINE new == (call[s].data \ {old}) \cup {next}
           k == [at |-> "written", path |-> p, data |-> new]
<1>4. k.at = "written" /\ k.path = p /\ k.data = new
  OBVIOUS
<1>5. call' = [call EXCEPT ![s] = k]
  BY <1>3 DEF Step
<1>6. CallsShape' /\ call'[s] = k /\ \A t \in Sessions \ {s} : call'[t] = call[t]
  <2> HIDE DEF k
  <2> QED
    BY <1>1, <1>2, <1>4, <1>5, CallShape
<1>7. ~raced' => ~lost'
  <2>1. ~raced' => KnowsFile(s) /\ ~lost
    BY <1>3 DEF Change, Notices, Known
  <2> QED
    BY <1>1, <1>3, <2>1 DEF KnowsFile
<1>8. KnowsFile(s)'
  <2>1. disk'[p] = new
    BY <1>1, <1>2, <1>3 DEF Change, Shape
  <2> QED
    BY <1>4, <1>6, <2>1 DEF KnowsFile
<1>9. Change(s, p, new, FALSE)
  BY <1>3
<1> HIDE DEF new, k
<1> QED
  BY <1>1, <1>2, <1>6, <1>7, <1>8, <1>9, ChangeStep

LEMMA WriteStoreStep ==
    ASSUME Notices, NEW s \in Sessions, WriteStore(s) PROVE Notices'
<1> DEFINE p == call[s].path
           k == [at |-> "written", path |-> p, data |-> {next}]
<1>1. /\ call[s].at = "checked" /\ Shape
      /\ UNCHANGED <<now, stale, dedup, given, deceived>>
      /\ lost' = (lost \/ (Exists(p) /\ unseen[p]))
      /\ Change(s, p, {next}, FALSE)
      /\ call' = [call EXCEPT ![s] = k]
  BY DEF WriteStore, tables, Notices, Step
<1>2. p \in Paths /\ DOMAIN stale = Paths
  BY <1>1 DEF Shape, IsIdle
<1>4. k.at = "written" /\ k.path = p /\ k.data = {next}
  OBVIOUS
<1>6. CallsShape' /\ call'[s] = k /\ \A t \in Sessions \ {s} : call'[t] = call[t]
  <2> HIDE DEF k
  <2> QED
    BY <1>1, <1>2, <1>4, CallShape
<1>7. ~raced' => ~lost'
  <2>1. ~raced' => KnowsFile(s) /\ ~lost
    BY <1>1 DEF Change, Notices, Known
  <2> QED
    BY <1>1, <2>1 DEF KnowsFile
<1>8. KnowsFile(s)'
  <2>1. disk'[p] = {next}
    BY <1>1, <1>2 DEF Change, Shape
  <2> QED
    BY <1>4, <1>6, <2>1 DEF KnowsFile
<1> HIDE DEF k
<1> QED
  BY <1>1, <1>2, <1>6, <1>7, <1>8, ChangeStep

LEMMA WriteFailsStep ==
    ASSUME Notices, NEW s \in Sessions, WriteFails(s) PROVE Notices'
<1> DEFINE p == call[s].path
<1>1. /\ call[s].at \in {"checked", "edited"} /\ Shape
      /\ UNCHANGED <<now, stale, dedup, given, deceived>>
      /\ lost' = (lost \/ (call[s].at = "checked" /\ Exists(p) /\ unseen[p])
                       \/ (call[s].at = "edited" /\ disk[p] # call[s].data))
      /\ Change(s, p, Empty, TRUE)
      /\ call' = [call EXCEPT ![s] = Idle]
  BY DEF WriteFails, tables, Notices, Finish
<1>2. p \in Paths /\ DOMAIN stale = Paths
  BY <1>1 DEF Shape, IsIdle
<1>3. CallsShape' /\ call'[s] = Idle /\ \A t \in Sessions \ {s} : call'[t] = call[t]
  BY <1>1, CallShape DEF Idle
<1>4. ~raced' => ~lost'
  <2>1. ~raced' => KnowsFile(s) /\ ~lost
    BY <1>1 DEF Change, Notices, Known
  <2> QED
    BY <1>1, <2>1 DEF KnowsFile
<1>5. KnowsFile(s)'
  BY <1>3 DEF KnowsFile, Idle
<1> QED
  BY <1>1, <1>2, <1>3, <1>4, <1>5, ChangeStep

\* A change that no call of the changing session takes part in.
LEMMA OutsideStep ==
    ASSUME Notices, NEW s, NEW p \in Paths, NEW c, Change(s, p, c, TRUE),
           s \notin Sessions \/ (s \in Sessions /\ IsIdle(s)),
           UNCHANGED <<now, stale, dedup, call, given, lost, deceived>>
    PROVE  Notices'
<1>1. Shape
  BY DEF Notices
<1>2. DOMAIN stale' = Paths /\ \A q \in Paths : stale'[q] = stale[q]
  BY <1>1 DEF Shape
<1>3. CallsShape' /\ (~raced' => ~lost')
  BY <1>1, CallsStay DEF Change, Notices
<1>4. s \in Sessions => KnowsFile(s)'
  BY DEF KnowsFile, IsIdle
<1> QED
  BY <1>2, <1>3, <1>4, ChangeStep

LEMMA ExternalStep ==
    ASSUME Notices, NEW p \in Paths,
           (\E s \in Sessions : WriteAppend(s, p)) \/ ExternalWrite(p) \/ ExternalDelete(p)
    PROVE  Notices'
<1>1. CASE \E s \in Sessions : WriteAppend(s, p)
  <2>1. PICK s \in Sessions : WriteAppend(s, p)
    BY <1>1
  <2> DEFINE c == (IF Exists(p) THEN disk[p] ELSE Empty) \cup {next}
  <2>2. /\ Change(s, p, c, TRUE) /\ IsIdle(s)
        /\ UNCHANGED <<now, stale, dedup, call, given, lost, deceived>>
    BY <2>1 DEF WriteAppend, tables
  <2> HIDE DEF c
  <2> QED
    BY <2>2, OutsideStep
<1>2. CASE ExternalWrite(p)
  <2>1. /\ \E keep : Change(Nobody, p, keep \cup {next}, TRUE)
        /\ UNCHANGED <<now, stale, dedup, call, given, lost, deceived>>
    BY <1>2 DEF ExternalWrite, tables
  <2>2. PICK keep : Change(Nobody, p, keep \cup {next}, TRUE)
    BY <2>1
  <2> DEFINE c == keep \cup {next}
  <2>3. Change(Nobody, p, c, TRUE)
    BY <2>2
  <2> HIDE DEF c
  <2> QED
    BY <2>1, <2>3, NobodyAssumption, OutsideStep
<1>3. CASE ExternalDelete(p)
  <2>1. /\ Change(Nobody, p, NoFile, TRUE)
        /\ UNCHANGED <<now, stale, dedup, call, given, lost, deceived>>
    BY <1>3 DEF ExternalDelete, tables
  <2> QED
    BY <2>1, NobodyAssumption, OutsideStep
<1> QED
  BY <1>1, <1>2, <1>3

-----------------------------------------------------------------------------
\* Steps that look at a file and write the tables.

LEMMA TableStep ==
    ASSUME Notices, NEW s \in Sessions, UNCHANGED <<disk, mtime, now, raced, lost, deceived>>,
           TablesShape', CallsShape', DOMAIN unseen' = Paths,
           \A q \in Paths : unseen'[q] => unseen[q],
           \A t \in Sessions \ {s} : call'[t] = call[t],
           Known => /\ KnowsFile(s)' /\ \A q \in Paths : RecordTrue(q)'
                    /\ \A t \in Sessions, q \in Paths : GivenTrue(t, q)'
    PROVE  Notices'
<1>1. Shape
  BY DEF Notices
<1>2. Shape'
  BY <1>1 DEF Shape, TablesShape, CallsShape, Exists
<1>3. ASSUME ~raced' PROVE ~lost' /\ ~deceived' /\ Known'
  <2>1. ~lost /\ ~deceived /\ Known
    BY <1>3 DEF Notices
  <2>2. ASSUME NEW t \in Sessions \ {s} PROVE KnowsFile(t)'
    <3>1. KnowsFile(t) /\ (call[t].at # "idle" => call[t].path \in Paths)
      BY <1>1, <2>1 DEF Known, Shape, IsIdle
    <3>2. call[t].at = "checked" => (unseen'[call[t].path] => unseen[call[t].path])
      BY <3>1
    <3>3. call'[t] = call[t]
      OBVIOUS
    <3> QED
      BY <3>1, <3>2, <3>3 DEF KnowsFile, Exists
  <2>3. Known'
    BY <2>1, <2>2 DEF Known
  <2> QED
    BY <2>1, <2>3
<1> QED
  BY <1>2, <1>3 DEF Notices

\* GivenTrue looks at nothing else.
LEMMA GivenStays ==
    ASSUME Known, UNCHANGED <<disk, mtime, now, dedup, given>>
    PROVE  \A t \in Sessions, q \in Paths : GivenTrue(t, q)'
  BY DEF Known, GivenTrue, Exists

\* What a session may write over after the check.
LEMMA CheckKeeps ==
    ASSUME Shape, NEW p \in Paths, CheckStale(p) \/ (~Exists(p) /\ stale' = stale),
           UNCHANGED <<disk, mtime, now>>, \A q \in Paths : unseen'[q] => unseen[q]
    PROVE  /\ DOMAIN stale' = Paths /\ \A q \in Paths : stale'[q].time \in 0..now
           /\ Known => /\ \A q \in Paths : RecordTrue(q)'
                       /\ Exists(p) => ~unseen[p] \/ SameContent(p)
<1>1. /\ DOMAIN stale = Paths /\ \A q \in Paths : stale[q].time \in 0..now
      /\ mtime[p] \in 0..now
  BY DEF Shape
<1>2. CASE ~Exists(p) /\ stale' = stale
  <2>1. ASSUME Known, NEW q \in Paths PROVE RecordTrue(q)'
    <3>1. RecordTrue(q)
      BY <2>1 DEF Known
    <3> QED
      BY <1>2, <3>1 DEF RecordTrue, SameTime, SameContent, Exists, Recorded
  <2> QED
    BY <1>1, <1>2, <2>1
<1>3. CASE CheckStale(p)
  <2> DEFINE e == [time |-> mtime[p], content |-> stale[p].content]
  <2>1. /\ stale' = [stale EXCEPT ![p] = e]
        /\ Recorded(p) /\ Exists(p) /\ (SameTime(p) \/ SameContent(p))
    BY <1>1, <1>3 DEF CheckStale
  <2>2. e.time = mtime[p] /\ e.content = stale[p].content
    OBVIOUS
  <2>3. DOMAIN stale' = Paths /\ stale'[p] = e /\ \A q \in Paths \ {p} : stale'[q] = stale[q]
    <3> HIDE DEF e
    <3> QED
      BY <1>1, <2>1
  <2> HIDE DEF e
  <2>4. \A q \in Paths : stale'[q].time \in 0..now
    BY <1>1, <2>2, <2>3
  <2>5. ASSUME Known PROVE ~unseen[p] \/ SameContent(p)
    BY <2>1, <2>5 DEF Known, RecordTrue
  <2>6. ASSUME Known, NEW q \in Paths PROVE RecordTrue(q)'
    <3>1. CASE q = p
      <4>1. unseen'[p] => unseen[p]
        OBVIOUS
      <4> QED
        BY <2>2, <2>3, <2>5, <2>6, <3>1, <4>1 DEF RecordTrue, SameTime, SameContent
    <3>2. CASE q # p
      <4>1. RecordTrue(q)
        BY <2>6 DEF Known
      <4> QED
        BY <2>3, <3>2, <4>1 DEF RecordTrue, SameTime, SameContent, Exists, Recorded
    <3> QED
      BY <3>1, <3>2
  <2> QED
    BY <2>3, <2>4, <2>5, <2>6
<1> QED
  BY <1>2, <1>3

LEMMA EditBeginStep ==
    ASSUME Notices, NEW s \in Sessions, NEW p \in Paths, EditBegin(s, p) PROVE Notices'
<1> DEFINE k == [at |-> "edit", path |-> p]
<1>1. /\ CheckStale(p) /\ call' = [call EXCEPT ![s] = k] /\ Shape
      /\ UNCHANGED <<disk, mtime, now, raced, lost, deceived>>
      /\ dedup' = dedup /\ given' = given /\ unseen' = unseen
  BY DEF EditBegin, Step, fileVars, history, Notices
<1>2. k.at = "edit" /\ k.path = p
  OBVIOUS
<1>3. CallsShape' /\ call'[s] = k /\ \A t \in Sessions \ {s} : call'[t] = call[t]
  <2> HIDE DEF k
  <2> QED
    BY <1>1, <1>2, CallShape
<1>4. KnowsFile(s)'
  BY <1>2, <1>3 DEF KnowsFile
<1>5. DOMAIN unseen' = Paths /\ \A q \in Paths : unseen'[q] => unseen[q]
  BY <1>1 DEF Shape
<1>6. /\ DOMAIN stale' = Paths /\ \A q \in Paths : stale'[q].time \in 0..now
      /\ Known => \A q \in Paths : RecordTrue(q)'
  BY <1>1, <1>5, CheckKeeps
<1>7. TablesShape'
  BY <1>1, <1>6 DEF Shape, TablesShape
<1>8. Known => \A t \in Sessions, q \in Paths : GivenTrue(t, q)'
  BY <1>1, GivenStays
<1> HIDE DEF k
<1> QED
  BY <1>1, <1>3, <1>4, <1>5, <1>6, <1>7, <1>8, TableStep

LEMMA WriteBeginStep ==
    ASSUME Notices, NEW s \in Sessions, NEW p \in Paths, WriteBegin(s, p) PROVE Notices'
<1> DEFINE k == [at |-> "checked", path |-> p]
<1>1. /\ CheckStale(p) \/ (~Exists(p) /\ stale' = stale)
      /\ call' = [call EXCEPT ![s] = k] /\ Shape
      /\ UNCHANGED <<disk, mtime, now, raced, lost, deceived>>
      /\ dedup' = dedup /\ given' = given
      /\ unseen' = [unseen EXCEPT ![p] = @ /\ ~SameContent(p)]
  BY DEF WriteBegin, Step, fileVars, Notices
<1>2. k.at = "checked" /\ k.path = p
  OBVIOUS
<1>3. CallsShape' /\ call'[s] = k /\ \A t \in Sessions \ {s} : call'[t] = call[t]
  <2> HIDE DEF k
  <2> QED
    BY <1>1, <1>2, CallShape
<1>4. DOMAIN unseen = Paths
  BY <1>1 DEF Shape
<1>5. /\ DOMAIN unseen' = Paths /\ \A q \in Paths : unseen'[q] => unseen[q]
      /\ unseen'[p] => unseen[p] /\ ~SameContent(p)
  BY <1>1, <1>4
<1>6. /\ DOMAIN stale' = Paths /\ \A q \in Paths : stale'[q].time \in 0..now
      /\ Known => /\ \A q \in Paths : RecordTrue(q)'
                  /\ Exists(p) => ~unseen[p] \/ SameContent(p)
  BY <1>1, <1>5, CheckKeeps
<1>7. Known => KnowsFile(s)'
  BY <1>1, <1>2, <1>3, <1>5, <1>6 DEF KnowsFile, Exists
<1>8. TablesShape'
  BY <1>1, <1>6 DEF Shape, TablesShape
<1>9. Known => \A t \in Sessions, q \in Paths : GivenTrue(t, q)'
  BY <1>1, GivenStays
<1> HIDE DEF k
<1> QED
  BY <1>1, <1>3, <1>5, <1>6, <1>7, <1>8, <1>9, TableStep

\* SetStale records what is in the file.
LEMMA SetStaleKeeps ==
    ASSUME Shape, NEW p \in Paths, NEW c, SetStale(p, c), UNCHANGED <<disk, mtime, now>>,
           \A q \in Paths : unseen'[q] => unseen[q]
    PROVE  /\ DOMAIN stale' = Paths /\ \A q \in Paths : stale'[q].time \in 0..now
           /\ Known /\ disk[p] = c => \A q \in Paths : RecordTrue(q)'
<1> DEFINE e == [time |-> IF Exists(p) THEN mtime[p] ELSE now, content |-> c]
<1>1. /\ DOMAIN stale = Paths /\ \A q \in Paths : stale[q].time \in 0..now
      /\ mtime[p] \in 0..now /\ now \in Nat \ {0}
  BY DEF Shape
<1>2. e.content = c /\ e.time \in 0..now /\ (Exists(p) => e.time = mtime[p])
  BY <1>1
<1>3. \/ stale' = [q \in Paths |-> IF q = p THEN e ELSE NoEntry]
      \/ stale' = [stale EXCEPT ![p] = e]
  BY DEF SetStale
<1> HIDE DEF e
<1>4. /\ DOMAIN stale' = Paths /\ stale'[p] = e
      /\ \A q \in Paths \ {p} : stale'[q] = stale[q] \/ stale'[q] = NoEntry
  BY <1>1, <1>3
<1>5. ASSUME NEW q \in Paths PROVE stale'[q].time \in 0..now
  <2>1. NoEntry.time = 0
    BY DEF NoEntry
  <2>2. CASE q = p
    BY <1>2, <1>4, <2>2
  <2>3. CASE q # p
    BY <1>1, <1>4, <2>1, <2>3
  <2> QED
    BY <2>2, <2>3
<1>6. ASSUME Known, disk[p] = c, NEW q \in Paths PROVE RecordTrue(q)'
  <2>1. CASE q = p
    BY <1>2, <1>4, <1>6, <2>1 DEF RecordTrue, SameContent, Exists
  <2>2. CASE q # p /\ stale'[q] = NoEntry
    BY <2>2 DEF RecordTrue, Recorded
  <2>3. CASE q # p /\ stale'[q] = stale[q]
    <3>1. RecordTrue(q)
      BY <1>6 DEF Known
    <3> QED
      BY <2>3, <3>1 DEF RecordTrue, SameTime, SameContent, Exists, Recorded
  <2> QED
    BY <1>4, <2>1, <2>2, <2>3
<1> QED
  BY <1>4, <1>5, <1>6

LEMMA NoteWrittenStep ==
    ASSUME Notices, NEW s \in Sessions, NoteWritten(s) PROVE Notices'
<1> DEFINE p == call[s].path
           c == call[s].data
<1>1. /\ call[s].at = "written" /\ SetStale(p, c) /\ call' = [call EXCEPT ![s] = Idle]
      /\ UNCHANGED <<disk, mtime, now, raced, lost, deceived>> /\ Shape
      /\ dedup' = dedup /\ given' = given /\ unseen' = unseen
  BY DEF NoteWritten, Finish, fileVars, history, Notices
<1>2. p \in Paths
  BY <1>1 DEF Shape, IsIdle
<1>3. CallsShape' /\ call'[s] = Idle /\ \A t \in Sessions \ {s} : call'[t] = call[t]
  BY <1>1, CallShape DEF Idle
<1>4. KnowsFile(s)'
  BY <1>3 DEF KnowsFile, Idle
<1>5. DOMAIN unseen' = Paths /\ \A q \in Paths : unseen'[q] => unseen[q]
  BY <1>1 DEF Shape
<1>6. /\ DOMAIN stale' = Paths /\ \A q \in Paths : stale'[q].time \in 0..now
      /\ Known /\ disk[p] = c => \A q \in Paths : RecordTrue(q)'
  BY <1>1, <1>2, <1>5, SetStaleKeeps
<1>7. Known => \A q \in Paths : RecordTrue(q)'
  BY <1>1, <1>6 DEF Known, KnowsFile
<1>8. TablesShape'
  BY <1>1, <1>6 DEF Shape, TablesShape
<1>9. Known => \A t \in Sessions, q \in Paths : GivenTrue(t, q)'
  BY <1>1, GivenStays
<1> QED
  BY <1>1, <1>3, <1>4, <1>5, <1>7, <1>8, <1>9, TableStep

\* What a reading leaves in the table of repeated reads, and its history.
LEMMA GivenKeeps ==
    ASSUME Shape, NEW s \in Sessions, NEW p \in Paths, NEW c, SetReadFileState(s, p),
           given' = IF dedup'[s][p] = 0 THEN NothingGiven ELSE [given EXCEPT ![s][p] = c],
           UNCHANGED <<disk, mtime, now>>
    PROVE  /\ dedup' \in [Sessions -> [Paths -> 0..now]]
           /\ DOMAIN given' = Sessions /\ \A t \in Sessions : DOMAIN given'[t] = Paths
           /\ Known /\ Exists(p) /\ disk[p] = c =>
                 \A t \in Sessions, q \in Paths : GivenTrue(t, q)'
<1> DEFINE time == IF Exists(p) THEN mtime[p] ELSE 0
<1>1. /\ dedup \in [Sessions -> [Paths -> 0..now]] /\ now \in Nat \ {0}
      /\ DOMAIN given = Sessions /\ \A t \in Sessions : DOMAIN given[t] = Paths
      /\ mtime[p] \in 0..now /\ (Exists(p) => mtime[p] # 0)
  BY DEF Shape
<1>2. time \in 0..now /\ (Exists(p) => time = mtime[p] /\ time # 0)
  BY <1>1
<1>3. \/ dedup' = [dedup EXCEPT ![s][p] = time]
      \/ dedup' = [t \in Sessions |-> [q \in Paths |-> 0]]
  BY DEF SetReadFileState
<1> HIDE DEF time
<1>4. dedup' \in [Sessions -> [Paths -> 0..now]]
  <2>1. CASE dedup' = [dedup EXCEPT ![s][p] = time]
    BY <1>1, <1>2, <2>1
  <2>2. CASE dedup' = [t \in Sessions |-> [q \in Paths |-> 0]]
    BY <1>1, <2>2
  <2> QED
    BY <1>3, <2>1, <2>2
<1>5. DOMAIN given' = Sessions /\ \A t \in Sessions : DOMAIN given'[t] = Paths
  <2>1. CASE given' = NothingGiven
    BY <2>1 DEF NothingGiven
  <2>2. CASE given' = [given EXCEPT ![s][p] = c]
    BY <1>1, <2>2
  <2> QED
    BY <2>1, <2>2
<1>6. ASSUME Known, Exists(p), disk[p] = c, NEW t \in Sessions, NEW q \in Paths
      PROVE  GivenTrue(t, q)'
  <2>1. CASE dedup' = [dedup EXCEPT ![s][p] = time]
    <3>1. dedup'[s][p] = time
      BY <1>1, <2>1
    <3>2. given' = [given EXCEPT ![s][p] = c]
      BY <1>2, <1>6, <3>1
    <3>3. CASE t = s /\ q = p
      <4>1. given'[s][p] = c
        BY <1>1, <3>2
      <4> QED
        BY <1>2, <1>6, <3>1, <3>3, <4>1 DEF GivenTrue
    <3>4. CASE t # s \/ q # p
      <4>1. dedup'[t][q] = dedup[t][q] /\ given'[t][q] = given[t][q]
        BY <1>1, <2>1, <3>2, <3>4
      <4>2. GivenTrue(t, q)
        BY <1>6 DEF Known
      <4> QED
        BY <4>1, <4>2 DEF GivenTrue, Exists
    <3> QED
      BY <3>3, <3>4
  <2>2. CASE dedup' = [r \in Sessions |-> [x \in Paths |-> 0]]
    BY <2>2 DEF GivenTrue
  <2> QED
    BY <1>3, <2>1, <2>2
<1> QED
  BY <1>4, <1>5, <1>6

LEMMA ReadEndStep ==
    ASSUME Notices, NEW s \in Sessions, ReadEnd(s) PROVE Notices'
<1> DEFINE p == call[s].path
           c == call[s].data
<1>1. /\ call[s].at = "read" /\ SetReadFileState(s, p) /\ SetStale(p, c)
      /\ given' = IF dedup'[s][p] = 0 THEN NothingGiven ELSE [given EXCEPT ![s][p] = c]
      /\ unseen' = [unseen EXCEPT ![p] = @ /\ disk[p] # c]
      /\ call' = [call EXCEPT ![s] = Idle] /\ Shape
      /\ UNCHANGED <<disk, mtime, now, raced, lost, deceived>>
  BY DEF ReadEnd, Finish, fileVars, Notices
<1>2. p \in Paths /\ DOMAIN unseen = Paths
  BY <1>1 DEF Shape, IsIdle
<1>3. CallsShape' /\ call'[s] = Idle /\ \A t \in Sessions \ {s} : call'[t] = call[t]
  BY <1>1, CallShape DEF Idle
<1>4. KnowsFile(s)'
  BY <1>3 DEF KnowsFile, Idle
<1>5. DOMAIN unseen' = Paths /\ \A q \in Paths : unseen'[q] => unseen[q]
  BY <1>1, <1>2
<1>6. Known => Exists(p) /\ disk[p] = c
  BY <1>1 DEF Known, KnowsFile
<1>7. /\ DOMAIN stale' = Paths /\ \A q \in Paths : stale'[q].time \in 0..now
      /\ Known => \A q \in Paths : RecordTrue(q)'
  BY <1>1, <1>2, <1>5, <1>6, SetStaleKeeps
<1>8. /\ dedup' \in [Sessions -> [Paths -> 0..now]]
      /\ DOMAIN given' = Sessions /\ \A t \in Sessions : DOMAIN given'[t] = Paths
      /\ Known => \A t \in Sessions, q \in Paths : GivenTrue(t, q)'
  BY <1>1, <1>2, <1>6, GivenKeeps
<1>9. TablesShape'
  BY <1>1, <1>7, <1>8 DEF TablesShape
<1> QED
  BY <1>1, <1>3, <1>4, <1>5, <1>7, <1>8, <1>9, TableStep

-----------------------------------------------------------------------------
\* The clock, a new time for an old content, a rollback, a restart.

LEMMA TouchStep ==
    ASSUME Notices, NEW p \in Paths, ExternalTouch(p) PROVE Notices'
<1>1. /\ Exists(p) /\ mtime[p] # now /\ mtime' = [mtime EXCEPT ![p] = now] /\ Shape
      /\ UNCHANGED <<disk, now, stale, dedup, call, given, unseen, raced, lost, deceived>>
  BY DEF ExternalTouch, tables, history, Notices
<1>2. /\ mtime \in [Paths -> 0..now] /\ now \in Nat \ {0}
      /\ \A q \in Paths : Exists(q) => mtime[q] # 0
  BY <1>1 DEF Shape
<1>3. mtime' \in [Paths -> 0..now] /\ mtime'[p] = now
      /\ \A q \in Paths \ {p} : mtime'[q] = mtime[q]
  BY <1>1, <1>2
<1>4. \A q \in Paths : Exists(q)' => mtime'[q] # 0
  BY <1>1, <1>2, <1>3 DEF Exists
<1>5. Shape'
  BY <1>1, <1>2, <1>3, <1>4 DEF Shape, IsIdle
<1>6. ASSUME Known PROVE Known'
  <2>1. ASSUME NEW q \in Paths PROVE RecordTrue(q)'
    <3>1. RecordTrue(q)
      BY <1>6 DEF Known
    <3> QED
      BY <1>1, <1>3, <3>1 DEF RecordTrue, SameTime, SameContent, Exists, Recorded
  <2>2. ASSUME NEW t \in Sessions, NEW q \in Paths PROVE GivenTrue(t, q)'
    <3>1. GivenTrue(t, q)
      BY <1>6 DEF Known
    <3> QED
      BY <1>1, <1>3, <3>1 DEF GivenTrue, Exists
  <2>3. \A t \in Sessions : KnowsFile(t)'
    BY <1>1, <1>6 DEF Known, KnowsFile, Exists
  <2> QED
    BY <2>1, <2>2, <2>3 DEF Known
<1> QED
  BY <1>1, <1>5, <1>6 DEF Notices

LEMMA TickStep == ASSUME Notices, Tick PROVE Notices'
<1>1. /\ now' = now + 1 /\ Shape
      /\ UNCHANGED <<disk, mtime, stale, dedup, call, given, unseen, raced, lost, deceived>>
  BY DEF Tick, tables, history, Notices
<1>2. /\ mtime \in [Paths -> 0..now] /\ now \in Nat \ {0}
      /\ dedup \in [Sessions -> [Paths -> 0..now]]
      /\ \A q \in Paths : stale[q].time \in 0..now
  BY <1>1 DEF Shape
<1>3. now' \in Nat \ {0} /\ now' # now /\ 0..now \subseteq 0..now' /\ now' \notin 0..now
  BY <1>1, <1>2
<1>4. /\ mtime' \in [Paths -> 0..now'] /\ dedup' \in [Sessions -> [Paths -> 0..now']]
      /\ \A q \in Paths : stale'[q].time \in 0..now'
  BY <1>1, <1>2, <1>3
<1>5. Shape'
  BY <1>1, <1>3, <1>4 DEF Shape, IsIdle, Exists
<1>6. ASSUME Known PROVE Known'
  <2>1. ASSUME NEW q \in Paths PROVE RecordTrue(q)'
    <3>1. RecordTrue(q) /\ stale'[q].time # now'
      BY <1>1, <1>2, <1>3, <1>6 DEF Known
    <3> QED
      BY <1>1, <3>1 DEF RecordTrue, SameTime, SameContent, Exists, Recorded
  <2>2. ASSUME NEW t \in Sessions, NEW q \in Paths PROVE GivenTrue(t, q)'
    <3>1. GivenTrue(t, q) /\ dedup'[t][q] # now'
      BY <1>1, <1>2, <1>3, <1>6 DEF Known
    <3> QED
      BY <1>1, <3>1 DEF GivenTrue, Exists
  <2>3. \A t \in Sessions : KnowsFile(t)'
    BY <1>1, <1>6 DEF Known, KnowsFile, Exists
  <2> QED
    BY <2>1, <2>2, <2>3 DEF Known
<1> QED
  BY <1>1, <1>5, <1>6 DEF Notices

LEMMA RestartStep == ASSUME Notices, Restart PROVE Notices'
<1>1. /\ UNCHANGED <<disk, mtime, now, unseen, raced, lost, deceived>> /\ Shape
      /\ stale' = [p \in Paths |-> NoEntry]
      /\ dedup' = [s \in Sessions |-> [p \in Paths |-> 0]]
      /\ call' = [s \in Sessions |-> Idle] /\ given' = NothingGiven
  BY DEF Restart, fileVars, Notices
<1>2. now \in Nat \ {0} /\ NoEntry.time = 0 /\ Idle.at = "idle"
  BY <1>1 DEF Shape, NoEntry, Idle
<1>3. \A p \in Paths : stale'[p] = NoEntry /\ stale'[p].time \in 0..now
  BY <1>1, <1>2
<1>4. DOMAIN given' = Sessions /\ \A s \in Sessions : DOMAIN given'[s] = Paths
  BY <1>1 DEF NothingGiven
<1>5. dedup' \in [Sessions -> [Paths -> 0..now]]
  BY <1>1, <1>2
<1>6. \A s \in Sessions : call'[s].at = "idle"
  BY <1>1, <1>2
<1>7. Shape'
  BY <1>1, <1>3, <1>4, <1>5, <1>6 DEF Shape, IsIdle, Exists
<1>8. Known'
  BY <1>1, <1>3, <1>6 DEF Known, KnowsFile, RecordTrue, GivenTrue, Recorded
<1> QED
  BY <1>1, <1>7, <1>8 DEF Notices

-----------------------------------------------------------------------------
\* The types, part by part, for any failures and whatever a host asks for.

FileValues == {NoFile} \cup Contents

FilesTyped ==
    /\ disk \in [Paths -> FileValues]
    /\ mtime \in [Paths -> 0..MaxNow] /\ now \in 1..MaxNow

ListsTyped ==
    /\ tracked \in [Sessions -> SUBSET Paths]
    /\ stored \in [Sessions -> SUBSET Paths]
    /\ loaded \in [Sessions -> BOOLEAN]
    /\ faults \in 0..MaxFaults
    /\ mislaid \in [Sessions -> SUBSET Paths]

CopiesTyped ==
    /\ backup \in [Sessions -> [Paths -> FileValues]]
    /\ original \in [Sessions -> [Paths -> {NoFile, Settled} \cup Contents]]

StaleTyped ==
    /\ stale \in [Paths -> [time : 0..MaxNow, content : FileValues]]
    /\ staleCount \in 0..MaxStale

DedupTyped ==
    dedup \in [Sessions -> [Paths -> 0..MaxNow]] /\ dedupCount \in 0..MaxDedup

CallsTyped == call \in [Sessions -> CallStates]

FlagsTyped == {raced, lost, deceived} \subseteq BOOLEAN

LEMMA TypeParts ==
    TypeOK <=> /\ FilesTyped /\ ListsTyped /\ CopiesTyped /\ StaleTyped
               /\ DedupTyped /\ CallsTyped /\ FlagsTyped
BY DEF TypeOK, TrackTypeOK, FilesTyped, ListsTyped, CopiesTyped, StaleTyped, DedupTyped,
   CallsTyped, FlagsTyped, FileValues

(* What a call under way knows.                                            *)
LEMMA CallTyped ==
    ASSUME CallsTyped, NEW s \in Sessions
    PROVE  /\ call[s].at \in {"idle", "edit", "checked", "read", "edited", "written"}
           /\ ~IsIdle(s) => call[s].path \in Paths
           /\ call[s].at \in {"read", "edited", "written"} => call[s].data \in Contents
BY DEF CallsTyped, CallStates, IsIdle, Idle

LEMMA TypesInit == Init => TypeOK
<1> SUFFICES ASSUME Init PROVE TypeOK  OBVIOUS
<1>1. MaxNow \in Nat \ {0} /\ MaxStale \in Nat /\ MaxDedup \in Nat /\ 0 \in Marks /\ MaxFaults \in Nat
  BY ToolsAssumption, TrackingAssumption
<1>2. NoFile \in FileValues /\ Empty \in FileValues /\ {0} \in FileValues
  BY <1>1 DEF FileValues, Contents, Empty
<1>3. FilesTyped  BY <1>1, <1>2 DEF Init, FilesTyped
<1>4. ListsTyped  BY <1>1 DEF Init, TrackInit, ListsTyped
<1>5. CopiesTyped  BY <1>2 DEF Init, TrackInit, CopiesTyped
<1>6. StaleTyped  BY <1>1, <1>2 DEF Init, StaleTyped, NoEntry
<1>7. DedupTyped  BY <1>1 DEF Init, DedupTyped
<1>8. CallsTyped  BY DEF Init, CallsTyped, CallStates
<1>9. FlagsTyped  BY DEF Init, FlagsTyped
<1> QED  BY <1>3, <1>4, <1>5, <1>6, <1>7, <1>8, <1>9, TypeParts

-----------------------------------------------------------------------------
\* What the operations of the list do to it.

FailsTyped == faults' \in 0..MaxFaults

LEMMA FaultsCount ==
    ASSUME ListsTyped, Works \/ \E k : Fails(k) PROVE FailsTyped
BY TrackingAssumption DEF ListsTyped, Works, Fails, FailsTyped

LEMMA PersistTyped ==
    ASSUME ListsTyped, NEW s \in Sessions, NEW files \in SUBSET Paths, Persist(s, files)
    PROVE  FailsTyped /\ stored' \in [Sessions -> SUBSET Paths]
BY FaultsCount DEF Persist, ListsTyped

(* What is mislaid is of the lists.                                        *)
LEMMA MislaidTyped ==
    ASSUME ListsTyped, NEW s \in Sessions, loaded' \in [Sessions -> BOOLEAN],
           tracked' \in [Sessions -> SUBSET Paths], stored' \in [Sessions -> SUBSET Paths]
    PROVE  Mislays(s) \in SUBSET Paths
<1>1. InUse(s) \in SUBSET Paths  BY DEF ListsTyped, InUse
<1>2. InUse(s)' \in SUBSET Paths  BY DEF InUse
<1> QED  BY <1>1, <1>2 DEF Mislays

(* TrackModify.                                                            *)
LEMMA TrackTyped ==
    ASSUME FilesTyped, ListsTyped, CopiesTyped, NEW s \in Sessions, NEW p \in Paths,
           BeforeTool(s, p)
    PROVE  ListsTyped' /\ CopiesTyped'
<1>1. CASE UNCHANGED trackVars
  BY <1>1 DEF trackVars, ListsTyped, CopiesTyped
<1>3. CASE /\ backup' = Copied(s, p)
           /\ original' = [original EXCEPT ![s][p] = IF @ = Settled THEN disk[p] ELSE @]
           /\ tracked' = [tracked EXCEPT ![s] = @ \cup {p}]
           /\ Persist(s, tracked'[s])
           /\ UNCHANGED <<loaded, mislaid>>
  <2>1. tracked' \in [Sessions -> SUBSET Paths] /\ tracked'[s] \in SUBSET Paths
    BY <1>3 DEF ListsTyped
  <2>2. ListsTyped'  BY <1>3, <2>1, PersistTyped DEF ListsTyped, FailsTyped
  <2>3. disk[p] \in FileValues  BY DEF FilesTyped
  <2>4. backup' \in [Sessions -> [Paths -> FileValues]]
    BY <1>3, <2>3 DEF Copied, CopiesTyped
  <2>5. original' \in [Sessions -> [Paths -> {NoFile, Settled} \cup Contents]]
    BY <1>3, <2>3 DEF CopiesTyped, FileValues
  <2> QED  BY <2>2, <2>4, <2>5 DEF CopiesTyped
<1> QED  BY <1>1, <1>3 DEF BeforeTool, TrackModify

\* What a failing write leaves is a content, or what was there.
LEMMA HalfIsContent ==
    ASSUME NEW was, NEW c \in FileValues, c # NoFile, NEW part \in HalfWritten(was, c)
    PROVE  part = was \/ (part \in FileValues /\ part # NoFile)
<1>1. c \in SUBSET Marks  BY DEF FileValues, Contents
<1>2. part = was \/ part \in SUBSET Marks  BY <1>1 DEF HalfWritten
<1> QED  BY <1>2, TrackingAssumption DEF FileValues, Contents

(* A call the hook refuses.                                                *)
LEMMA RefusalTyped ==
    ASSUME FilesTyped, ListsTyped, CopiesTyped, NEW s \in Sessions, NEW p \in Paths,
           TrackFails(s, p)
    PROVE  ListsTyped' /\ CopiesTyped'
<1>1. /\ disk[p] \in FileValues /\ disk[p] # NoFile /\ backup[s][p] \in FileValues
      /\ backup \in [Sessions -> [Paths -> FileValues]]
  BY DEF FilesTyped, CopiesTyped, TrackFails, Exists
<1>2. PICK part \in HalfWritten(backup[s][p], disk[p]) :
         backup' = [backup EXCEPT ![s][p] = part]
  BY DEF TrackFails
<1>3. part \in FileValues  BY <1>1, HalfIsContent
<1>4. backup' \in [Sessions -> [Paths -> FileValues]]  BY <1>1, <1>2, <1>3
<1>5. FailsTyped /\ UNCHANGED <<tracked, stored, loaded, original, mislaid>>
  BY FaultsCount DEF TrackFails
<1> QED  BY <1>4, <1>5 DEF ListsTyped, CopiesTyped, FailsTyped

(* What Forget leaves.                                                     *)
LEMMA ForgetTyped ==
    ASSUME ListsTyped, CopiesTyped, NEW s \in Sessions, NEW done, Forget(s, done)
    PROVE  /\ tracked' \in [Sessions -> SUBSET Paths] /\ loaded' = loaded
           /\ tracked'[s] = tracked[s] \ done
           /\ \A t \in Sessions \ {s} : tracked'[t] = tracked[t]
           /\ original' \in [Sessions -> [Paths -> {NoFile, Settled} \cup Contents]]
           /\ \A p \in Paths : original'[s][p] = IF p \in done THEN Settled ELSE original[s][p]
           /\ \A t \in Sessions \ {s} : original'[t] = original[t]
<1>1. /\ tracked \in [Sessions -> SUBSET Paths]
      /\ original \in [Sessions -> [Paths -> {NoFile, Settled} \cup Contents]]
  BY DEF ListsTyped, CopiesTyped
<1>2. /\ tracked' \in [Sessions -> SUBSET Paths] /\ loaded' = loaded
      /\ tracked'[s] = tracked[s] \ done
      /\ \A t \in Sessions \ {s} : tracked'[t] = tracked[t]
  BY <1>1 DEF Forget
<1>3. /\ original' \in [Sessions -> [Paths -> {NoFile, Settled} \cup Contents]]
      /\ \A p \in Paths : original'[s][p] = IF p \in done THEN Settled ELSE original[s][p]
      /\ \A t \in Sessions \ {s} : original'[t] = original[t]
  BY <1>1 DEF Forget
<1> QED  BY <1>2, <1>3

LEMMA WithoutTyped ==
    ASSUME CopiesTyped, NEW s \in Sessions, NEW gone
    PROVE  /\ WithoutBackups(s, gone) \in [Sessions -> [Paths -> FileValues]]
           /\ \A p \in Paths : WithoutBackups(s, gone)[s][p] =
                                   IF p \in gone THEN NoFile ELSE backup[s][p]
           /\ \A t \in Sessions \ {s} : WithoutBackups(s, gone)[t] = backup[t]
<1>1. backup \in [Sessions -> [Paths -> FileValues]] /\ NoFile \in FileValues
  BY DEF CopiesTyped, FileValues
<1> QED  BY <1>1 DEF WithoutBackups

(* ConfirmModify and Rollback forget some of the files they were asked     *)
(* for, and drop the copies of these or of some of them.                   *)
Settles(s, files, done, gone) ==
    /\ gone \subseteq done /\ done \subseteq files \cap tracked[s]
    /\ Forget(s, done)
    /\ backup' = WithoutBackups(s, gone)
    /\ Works \/ \E k : Fails(k)
    /\ stored' = [stored EXCEPT ![s] = tracked[s] \ done] \/ stored' = stored

LEMMA PersistSettles ==
    ASSUME NEW s, NEW files, Persist(s, files)
    PROVE  /\ Works \/ \E k : Fails(k)
           /\ stored' = [stored EXCEPT ![s] = files] \/ stored' = stored
BY DEF Persist

LEMMA ConfirmSettles ==
    ASSUME NEW s \in Sessions, NEW files, ConfirmModify(s, files)
    PROVE  \E done, gone : Settles(s, files, done, gone)
<1> DEFINE all == files \cap tracked[s]
<1>1. CASE /\ Persist(s, tracked[s] \ all) /\ backup' = WithoutBackups(s, all)
           /\ Forget(s, all)
  <2>1. Settles(s, files, all, all)  BY <1>1, PersistSettles DEF Settles
  <2> QED  BY <2>1
<1>2. ASSUME NEW done \in SUBSET all, Fails("remove"), UNCHANGED stored,
             backup' = WithoutBackups(s, done), Forget(s, done)
      PROVE  Settles(s, files, done, done)
  BY <1>2 DEF Settles
<1>3. \/ /\ Persist(s, tracked[s] \ all) /\ backup' = WithoutBackups(s, all)
         /\ Forget(s, all)
      \/ \E done \in SUBSET all :
            /\ Fails("remove") /\ UNCHANGED stored
            /\ backup' = WithoutBackups(s, done) /\ Forget(s, done)
  BY DEF ConfirmModify
<1> HIDE DEF all
<1> QED  BY <1>1, <1>2, <1>3

(* The files a rollback goes back on, but for one it fails at.             *)
UndoneBut(s, files, done) ==
    \A p \in Paths :
       /\ p \in done => disk'[p] = Restored(s, p)
       /\ p \notin done /\ disk'[p] # disk[p] =>
             backup[s][p] # NoFile /\ disk'[p] \in HalfWritten(disk[p], backup[s][p])

LEMMA RollbackSettles ==
    ASSUME NEW s \in Sessions, NEW files, Rollback(s, files)
    PROVE  \E done, gone : Settles(s, files, done, gone) /\ UndoneBut(s, files, done)
<1> DEFINE all == files \cap tracked[s]
<1>1. CASE /\ Persist(s, tracked[s] \ all) /\ backup' = WithoutBackups(s, all)
           /\ disk' = Undone(s, all) /\ Forget(s, all)
  <2>1. Settles(s, files, all, all)  BY <1>1, PersistSettles DEF Settles
  <2>2. UndoneBut(s, files, all)  BY <1>1 DEF UndoneBut, Undone
  <2> QED  BY <2>1, <2>2
<1>2. ASSUME NEW p \in all, Fails("remove"), backup' = WithoutBackups(s, all \ {p}),
             stored' = [stored EXCEPT ![s] = tracked[s] \ all],
             disk' = Undone(s, all), Forget(s, all)
      PROVE  Settles(s, files, all, all \ {p}) /\ UndoneBut(s, files, all)
  <2>1. Settles(s, files, all, all \ {p})  BY <1>2 DEF Settles
  <2>2. UndoneBut(s, files, all)  BY <1>2 DEF UndoneBut, Undone
  <2> QED  BY <2>1, <2>2
<1>3. ASSUME NEW done \in SUBSET all, NEW p \in all \ done, Fails("restore"),
             backup[s][p] # NoFile, UNCHANGED stored,
             NEW part \in HalfWritten(disk[p], backup[s][p]),
             disk' = [Undone(s, done) EXCEPT ![p] = part],
             backup' = WithoutBackups(s, done), Forget(s, done)
      PROVE  Settles(s, files, done, done) /\ UndoneBut(s, files, done)
  <2>1. Settles(s, files, done, done)  BY <1>3 DEF Settles
  <2>2. \A q \in Paths : disk'[q] = IF q = p THEN part ELSE IF q \in done
                                    THEN Restored(s, q) ELSE disk[q]
    BY <1>3 DEF Undone
  <2>3. UndoneBut(s, files, done)  BY <1>3, <2>2 DEF UndoneBut
  <2> QED  BY <2>1, <2>3
<1>4. \/ /\ Persist(s, tracked[s] \ all) /\ backup' = WithoutBackups(s, all)
         /\ disk' = Undone(s, all) /\ Forget(s, all)
      \/ \E p \in all :
            /\ Fails("remove") /\ backup' = WithoutBackups(s, all \ {p})
            /\ stored' = [stored EXCEPT ![s] = tracked[s] \ all]
            /\ disk' = Undone(s, all) /\ Forget(s, all)
      \/ \E done \in SUBSET all : \E p \in all \ done :
            /\ Fails("restore") /\ backup[s][p] # NoFile /\ UNCHANGED stored
            /\ \E part \in HalfWritten(disk[p], backup[s][p]) :
                  disk' = [Undone(s, done) EXCEPT ![p] = part]
            /\ backup' = WithoutBackups(s, done) /\ Forget(s, done)
  BY DEF Rollback
<1> HIDE DEF all
<1> QED  BY <1>1, <1>2, <1>3, <1>4

LEMMA SettlesTyped ==
    ASSUME ListsTyped, CopiesTyped, NEW s \in Sessions, NEW files, NEW done, NEW gone,
           Settles(s, files, done, gone)
    PROVE  ListsTyped' /\ CopiesTyped'
<1>1. /\ tracked' \in [Sessions -> SUBSET Paths] /\ loaded' = loaded
      /\ original' \in [Sessions -> [Paths -> {NoFile, Settled} \cup Contents]]
      /\ WithoutBackups(s, gone) \in [Sessions -> [Paths -> FileValues]]
  BY ForgetTyped, WithoutTyped DEF Settles
<1>2. tracked[s] \ done \in SUBSET Paths  BY DEF ListsTyped
<1>3. FailsTyped /\ stored' \in [Sessions -> SUBSET Paths]
  BY <1>2, FaultsCount DEF Settles, ListsTyped
<1>4. mislaid' \in [Sessions -> SUBSET Paths]
  <2>1. Mislays(s) \in SUBSET Paths
    BY <1>1, <1>3, MislaidTyped DEF ListsTyped
  <2>2. mislaid' \in {mislaid, [mislaid EXCEPT ![s] = @ \cup Mislays(s)]}
    BY DEF Settles, Forget
  <2> QED  BY <2>1, <2>2 DEF ListsTyped
<1>5. CopiesTyped'  BY <1>1 DEF Settles, CopiesTyped
<1> QED  BY <1>1, <1>3, <1>4, <1>5 DEF ListsTyped, FailsTyped

(* The list, its copies and its history under every step.                  *)
LEMMA ListsStep ==
    ASSUME TypeOK, [Next]_vars
    PROVE  ListsTyped' /\ CopiesTyped'
<1>1. FilesTyped /\ ListsTyped /\ CopiesTyped  BY TypeParts
<1>2. CASE UNCHANGED trackVars
  BY <1>1, <1>2 DEF trackVars, ListsTyped, CopiesTyped
<1>3. ASSUME NEW s \in Sessions, NEW p \in Paths, BeforeTool(s, p) PROVE ListsTyped' /\ CopiesTyped'
  BY <1>1, <1>3, TrackTyped
<1>4. ASSUME NEW s \in Sessions, NEW files, ConfirmModify(s, files) \/ Rollback(s, files)
      PROVE  ListsTyped' /\ CopiesTyped'
  <2>1. \E done, gone : Settles(s, files, done, gone)
    BY <1>4, ConfirmSettles, RollbackSettles
  <2> QED  BY <1>1, <2>1, SettlesTyped
<1>5. ASSUME NEW s \in Sessions, Load(s) PROVE ListsTyped' /\ CopiesTyped'
  <2>1. /\ loaded' = [loaded EXCEPT ![s] = TRUE] /\ UNCHANGED <<stored, backup, original>>
        /\ \/ tracked' = [tracked EXCEPT ![s] = stored[s]] /\ Works
           \/ UNCHANGED tracked /\ Fails("load")
        /\ mislaid' = [mislaid EXCEPT ![s] = @ \cup Mislays(s)]
    BY <1>5 DEF Load
  <2>2. FailsTyped  BY <1>1, <2>1, FaultsCount
  <2>3. /\ loaded' \in [Sessions -> BOOLEAN] /\ stored' \in [Sessions -> SUBSET Paths]
        /\ tracked' \in [Sessions -> SUBSET Paths]
    BY <1>1, <2>1 DEF ListsTyped
  <2>4. Mislays(s) \in SUBSET Paths  BY <1>1, <2>3, MislaidTyped
  <2>5. mislaid' \in [Sessions -> SUBSET Paths]  BY <1>1, <2>1, <2>4 DEF ListsTyped
  <2> QED  BY <1>1, <2>1, <2>2, <2>3, <2>5 DEF ListsTyped, CopiesTyped, FailsTyped
<1>6. CASE Restart
  <2>1. /\ tracked' = [s \in Sessions |-> {}] /\ loaded' = [s \in Sessions |-> FALSE]
        /\ UNCHANGED <<stored, backup, faults, original>>
        /\ mislaid' = [s \in Sessions |-> mislaid[s] \cup Mislays(s)]
    BY <1>6 DEF Restart, ForgetMemory
  <2>2. /\ tracked' \in [Sessions -> SUBSET Paths] /\ loaded' \in [Sessions -> BOOLEAN]
        /\ stored' \in [Sessions -> SUBSET Paths]
    BY <1>1, <2>1 DEF ListsTyped
  <2>3. \A s \in Sessions : Mislays(s) \in SUBSET Paths  BY <1>1, <2>2, MislaidTyped
  <2>4. mislaid' \in [Sessions -> SUBSET Paths]  BY <1>1, <2>1, <2>3 DEF ListsTyped
  <2> QED  BY <1>1, <2>1, <2>2, <2>4 DEF ListsTyped, CopiesTyped
<1>12. ASSUME NEW s \in Sessions, NEW p \in Paths, HookRefuses(s, p)
       PROVE  ListsTyped' /\ CopiesTyped'
  BY <1>1, <1>12, RefusalTyped DEF HookRefuses
<1>7. ASSUME NEW s \in Sessions, NEW p \in Paths,
             \/ ReadBegin(s, p) \/ EditEmpty(s, p) \/ EditBegin(s, p)
             \/ WriteBegin(s, p) \/ Refused(s, p) \/ WriteAppend(s, p)
      PROVE  ListsTyped' /\ CopiesTyped'
  BY <1>2, <1>3, <1>7 DEF ReadBegin, EditEmpty, EditBegin, WriteBegin, Refused, WriteAppend
<1>8. ASSUME NEW s \in Sessions,
             \/ ReadUnchanged(s) \/ ReadEnd(s) \/ EditLoad(s) \/ EditStore(s)
             \/ WriteStore(s) \/ WriteFails(s) \/ NoteWritten(s) \/ LoadSession(s)
      PROVE  ListsTyped' /\ CopiesTyped'
  BY <1>2, <1>5, <1>8 DEF ReadUnchanged, ReadEnd, EditLoad, EditStore, WriteStore, WriteFails,
     NoteWritten, LoadSession
<1>9. ASSUME NEW s \in Sessions, NEW files, Confirm(s, files) \/ Undo(s, files)
      PROVE  ListsTyped' /\ CopiesTyped'
  BY <1>4, <1>9 DEF Confirm, Undo
<1>10. ASSUME NEW p \in Paths, ExternalWrite(p) \/ ExternalDelete(p) \/ ExternalTouch(p)
       PROVE  ListsTyped' /\ CopiesTyped'
  BY <1>2, <1>10 DEF ExternalWrite, ExternalDelete, ExternalTouch
<1>11. CASE Tick \/ UNCHANGED vars
  BY <1>2, <1>11 DEF Tick, vars
<1> QED
  BY <1>6, <1>7, <1>8, <1>9, <1>10, <1>11, <1>12 DEF Next

(* The files and the flag that a change raises.                            *)
LEMMA ChangeTyped ==
    ASSUME FilesTyped, FlagsTyped, NEW s, NEW p \in Paths, NEW c \in FileValues, NEW u,
           Change(s, p, c, u), now' = now
    PROVE  FilesTyped' /\ raced' \in BOOLEAN
<1>1. /\ disk' = [disk EXCEPT ![p] = c]
      /\ mtime' = [mtime EXCEPT ![p] = IF c = NoFile THEN 0 ELSE now]
      /\ raced' = (raced \/ Racing(s, p))
  BY DEF Change
<1>2. MaxNow \in Nat  BY ToolsAssumption
<1>3. FilesTyped'  BY <1>1, <1>2 DEF FilesTyped
<1>4. raced' \in BOOLEAN  BY <1>1, Zenon
<1> QED  BY <1>3, <1>4

\* A rollback restores files, and may leave a part of one; it touches no other.
LEMMA RollbackWrites ==
    ASSUME NEW s \in Sessions, NEW files, Rollback(s, files)
    PROVE  \E done \in SUBSET (files \cap tracked[s]) :
              \/ disk' = Undone(s, done)
              \/ \E p \in (files \cap tracked[s]) \ done :
                    /\ backup[s][p] # NoFile
                    /\ \E part \in HalfWritten(disk[p], backup[s][p]) :
                          disk' = [Undone(s, done) EXCEPT ![p] = part]
<1> DEFINE all == files \cap tracked[s]
<1>1. \/ disk' = Undone(s, all)
      \/ \E done \in SUBSET all : \E p \in all \ done :
            /\ backup[s][p] # NoFile
            /\ \E part \in HalfWritten(disk[p], backup[s][p]) :
                  disk' = [Undone(s, done) EXCEPT ![p] = part]
  BY DEF Rollback
<1>2. all \in SUBSET all  OBVIOUS
<1> HIDE DEF all
<1>3. \E done \in SUBSET all :
         \/ disk' = Undone(s, done)
         \/ \E p \in all \ done :
               /\ backup[s][p] # NoFile
               /\ \E part \in HalfWritten(disk[p], backup[s][p]) :
                     disk' = [Undone(s, done) EXCEPT ![p] = part]
  BY <1>1, <1>2
<1> QED  BY <1>3 DEF all

LEMMA RestoredTyped ==
    ASSUME FilesTyped, CopiesTyped, NEW s \in Sessions, NEW files, Rollback(s, files)
    PROVE  disk' \in [Paths -> FileValues]
<1>1. \A p \in Paths : disk[p] \in FileValues /\ backup[s][p] \in FileValues
  BY DEF FilesTyped, CopiesTyped
<1>2. ASSUME NEW done PROVE Undone(s, done) \in [Paths -> FileValues]
  BY <1>1 DEF Undone, Restored
<1>3. PICK done \in SUBSET (files \cap tracked[s]) :
         \/ disk' = Undone(s, done)
         \/ \E p \in (files \cap tracked[s]) \ done :
               /\ backup[s][p] # NoFile
               /\ \E part \in HalfWritten(disk[p], backup[s][p]) :
                     disk' = [Undone(s, done) EXCEPT ![p] = part]
  BY RollbackWrites
<1>4. ASSUME NEW p \in Paths, backup[s][p] # NoFile,
             NEW part \in HalfWritten(disk[p], backup[s][p]),
             disk' = [Undone(s, done) EXCEPT ![p] = part]
      PROVE  disk' \in [Paths -> FileValues]
  <2>1. part \in FileValues  BY <1>1, <1>4, HalfIsContent
  <2> QED  BY <1>2, <1>4, <2>1
<1>5. ASSUME NEW p, p \notin Paths, NEW part, disk' = [Undone(s, done) EXCEPT ![p] = part]
      PROVE  disk' \in [Paths -> FileValues]
  <2>1. disk' = Undone(s, done)  BY <1>2, <1>5
  <2> QED  BY <1>2, <2>1
<1> QED  BY <1>2, <1>3, <1>4, <1>5

\* The files whose content or time a rollback changes.
Rewritten(s, files) ==
    {p \in Paths : \/ disk'[p] # disk[p]
                   \/ /\ p \in files \cap (tracked[s] \ tracked'[s])
                      /\ backup[s][p] # NoFile}

LEMMA FilesStep ==
    ASSUME TypeOK, [Next]_vars
    PROVE  FilesTyped' /\ FlagsTyped'
<1>1. /\ FilesTyped /\ FlagsTyped /\ CallsTyped /\ CopiesTyped /\ ListsTyped
      /\ {raced, lost, deceived} \subseteq BOOLEAN
  BY TypeParts DEF FlagsTyped
<1>2. CASE UNCHANGED <<disk, mtime, now>> /\ UNCHANGED <<raced, lost, deceived>>
  BY <1>1, <1>2 DEF FilesTyped, FlagsTyped
<1>3. /\ \A c \in SUBSET Marks : c \in FileValues
      /\ NoFile \in FileValues /\ Empty \in FileValues
  BY DEF FileValues, Contents, Empty
<1>4. ASSUME next \in Marks PROVE {next} \in FileValues
  BY <1>3, <1>4
<1>5. ASSUME NEW s \in Sessions, NEW p \in Paths, EditEmpty(s, p) PROVE FilesTyped' /\ FlagsTyped'
  <2>1. /\ Change(s, p, {next}, FALSE) /\ next \in Marks
        /\ UNCHANGED <<now, lost, deceived>>
    BY <1>5 DEF EditEmpty, Fresh
  <2> QED  BY <1>1, <1>4, <2>1, ChangeTyped DEF FlagsTyped
<1>6. ASSUME NEW s \in Sessions, NEW p \in Paths, WriteAppend(s, p) PROVE FilesTyped' /\ FlagsTyped'
  <2> DEFINE c == (IF Exists(p) THEN disk[p] ELSE Empty) \cup {next}
  <2>1. /\ Change(s, p, c, TRUE) /\ next \in Marks
        /\ UNCHANGED <<now, lost, deceived>>
    BY <1>6 DEF WriteAppend, Fresh
  <2>2. disk[p] \in FileValues  BY <1>1 DEF FilesTyped
  <2>3. c \in FileValues
    BY <1>3, <2>1, <2>2 DEF FileValues, Contents, Exists, Empty
  <2> HIDE DEF c
  <2> QED  BY <1>1, <2>1, <2>3, ChangeTyped DEF FlagsTyped
<1>7. ASSUME NEW s \in Sessions, ReadUnchanged(s) PROVE FilesTyped' /\ FlagsTyped'
  <2>1. /\ UNCHANGED <<disk, mtime, now, raced, lost>>
        /\ deceived' = (deceived \/ given[s][call[s].path] # call[s].data)
    BY <1>7 DEF ReadUnchanged, fileVars
  <2>2. deceived' \in BOOLEAN  BY <2>1, Zenon
  <2> QED  BY <1>1, <2>1, <2>2 DEF FilesTyped, FlagsTyped
<1>8. ASSUME NEW s \in Sessions, EditStore(s) PROVE FilesTyped' /\ FlagsTyped'
  <2> DEFINE p == call[s].path
  <2>1. p \in Paths /\ call[s].data \in Contents
    BY <1>1, <1>8, CallTyped DEF EditStore, IsIdle
  <2>2. PICK old \in call[s].data :
           /\ lost' = (lost \/ disk[p] # call[s].data)
           /\ Change(s, p, (call[s].data \ {old}) \cup {next}, FALSE)
    BY <1>8 DEF EditStore
  <2> DEFINE c == (call[s].data \ {old}) \cup {next}
  <2>3. next \in Marks /\ UNCHANGED <<now, deceived>>
    BY <1>8 DEF EditStore, Fresh
  <2>4. c \in FileValues  BY <1>3, <2>1, <2>3 DEF Contents
  <2>5. lost' \in BOOLEAN  BY <2>2, Zenon
  <2>6. Change(s, p, c, FALSE)  BY <2>2
  <2> HIDE DEF c, p
  <2> QED  BY <1>1, <2>1, <2>3, <2>4, <2>5, <2>6, ChangeTyped DEF FlagsTyped
<1>9. ASSUME NEW s \in Sessions, WriteStore(s) PROVE FilesTyped' /\ FlagsTyped'
  <2> DEFINE p == call[s].path
  <2>1. p \in Paths
    BY <1>1, <1>9, CallTyped DEF WriteStore, IsIdle
  <2>2. /\ lost' = (lost \/ (Exists(p) /\ unseen[p]))
        /\ Change(s, p, {next}, FALSE) /\ next \in Marks /\ UNCHANGED <<now, deceived>>
    BY <1>9 DEF WriteStore, Fresh
  <2>3. lost' \in BOOLEAN  BY <2>2, Zenon
  <2> HIDE DEF p
  <2> QED  BY <1>1, <1>4, <2>1, <2>2, <2>3, ChangeTyped DEF FlagsTyped
<1>10. ASSUME NEW s \in Sessions, WriteFails(s) PROVE FilesTyped' /\ FlagsTyped'
  <2> DEFINE p == call[s].path
  <2>1. p \in Paths
    BY <1>1, <1>10, CallTyped DEF WriteFails, IsIdle
  <2>2. /\ lost' = (lost \/ (call[s].at = "checked" /\ Exists(p) /\ unseen[p])
                         \/ (call[s].at = "edited" /\ disk[p] # call[s].data))
        /\ Change(s, p, Empty, TRUE) /\ UNCHANGED <<now, deceived>>
    BY <1>10 DEF WriteFails
  <2>3. lost' \in BOOLEAN  BY <2>2, Zenon
  <2> HIDE DEF p
  <2> QED  BY <1>1, <1>3, <2>1, <2>2, <2>3, ChangeTyped DEF FlagsTyped
<1>11. ASSUME NEW p \in Paths, ExternalWrite(p) PROVE FilesTyped' /\ FlagsTyped'
  <2>1. PICK keep \in {Empty} \cup {disk[q] : q \in {p} \cap {x \in Paths : Exists(x)}} :
           Change(Nobody, p, keep \cup {next}, TRUE)
    BY <1>11 DEF ExternalWrite
  <2>2. next \in Marks /\ UNCHANGED <<now, lost, deceived>>
    BY <1>11 DEF ExternalWrite, Fresh
  <2>3. disk[p] \in FileValues  BY <1>1 DEF FilesTyped
  <2>4. keep \in SUBSET Marks
    BY <2>1, <2>3 DEF FileValues, Contents, Exists, Empty
  <2>5. keep \cup {next} \in FileValues  BY <1>3, <2>2, <2>4
  <2> QED  BY <1>1, <2>1, <2>2, <2>5, ChangeTyped DEF FlagsTyped
<1>12. ASSUME NEW p \in Paths, ExternalDelete(p) PROVE FilesTyped' /\ FlagsTyped'
  <2>1. Change(Nobody, p, NoFile, TRUE) /\ UNCHANGED <<now, lost, deceived>>
    BY <1>12 DEF ExternalDelete
  <2> QED  BY <1>1, <1>3, <2>1, ChangeTyped DEF FlagsTyped
<1>13. ASSUME NEW p \in Paths, ExternalTouch(p) PROVE FilesTyped' /\ FlagsTyped'
  <2>1. MaxNow \in Nat  BY ToolsAssumption
  <2> QED  BY <1>1, <1>13, <2>1 DEF ExternalTouch, history, FilesTyped, FlagsTyped
<1>14. CASE Tick
  <2>1. MaxNow \in Nat  BY ToolsAssumption
  <2> QED  BY <1>1, <1>14, <2>1 DEF Tick, history, FilesTyped, FlagsTyped
<1>15. ASSUME NEW s \in Sessions, NEW files, Undo(s, files) PROVE FilesTyped' /\ FlagsTyped'
  <2> DEFINE back == Rewritten(s, files)
  <2>1. /\ Rollback(s, files) /\ UNCHANGED <<now, lost, deceived>>
        /\ mtime' = [p \in Paths |-> IF p \in back THEN now ELSE mtime[p]]
        /\ raced' = (raced \/ \E p \in back : Racing(Nobody, p))
    BY <1>15 DEF Undo, Rewritten
  <2>2. raced' \in BOOLEAN  BY <2>1, Zenon
  <2> HIDE DEF back
  <2>3. MaxNow \in Nat  BY ToolsAssumption
  <2>6. disk' \in [Paths -> FileValues]  BY <1>1, <2>1, RestoredTyped
  <2>7. mtime' \in [Paths -> 0..MaxNow]  BY <1>1, <2>1, <2>3 DEF FilesTyped
  <2> QED  BY <1>1, <2>1, <2>2, <2>6, <2>7 DEF FilesTyped, FlagsTyped
<1>16. ASSUME NEW s \in Sessions, NEW files, Confirm(s, files) PROVE FilesTyped' /\ FlagsTyped'
  BY <1>2, <1>16 DEF Confirm, ConfirmModify, history
<1>17. ASSUME NEW s \in Sessions, NEW p \in Paths,
              \/ ReadBegin(s, p) \/ EditBegin(s, p) \/ WriteBegin(s, p)
              \/ Refused(s, p) \/ HookRefuses(s, p)
       PROVE  FilesTyped' /\ FlagsTyped'
  BY <1>2, <1>17 DEF ReadBegin, EditBegin, WriteBegin, Refused, HookRefuses, fileVars, history
<1>18. ASSUME NEW s \in Sessions, ReadEnd(s) \/ EditLoad(s) \/ NoteWritten(s) \/ LoadSession(s)
       PROVE  FilesTyped' /\ FlagsTyped'
  BY <1>2, <1>18 DEF ReadEnd, EditLoad, NoteWritten, LoadSession, Load, fileVars, history
<1>19. CASE Restart \/ UNCHANGED vars
  BY <1>2, <1>19 DEF Restart, vars, fileVars, history
<1> QED
  BY <1>5, <1>6, <1>7, <1>8, <1>9, <1>10, <1>11, <1>12, <1>13, <1>14, <1>15, <1>16, <1>17,
     <1>18, <1>19 DEF Next

(* The tables.                                                             *)
LEMMA SetStaleTyped ==
    ASSUME FilesTyped, StaleTyped, NEW p \in Paths, NEW c \in Contents, SetStale(p, c)
    PROVE  StaleTyped'
<1>1. /\ MaxStale \in Nat \ {0} /\ MaxNow \in Nat /\ staleCount \in 0..MaxStale
      /\ now \in 0..MaxNow /\ mtime[p] \in 0..MaxNow /\ c \in FileValues
      /\ NoEntry \in [time : 0..MaxNow, content : FileValues]
  BY ToolsAssumption DEF FilesTyped, StaleTyped, FileValues, NoEntry
<1> DEFINE entry == [time |-> IF Exists(p) THEN mtime[p] ELSE now, content |-> c]
<1>2. entry \in [time : 0..MaxNow, content : FileValues]  BY <1>1
<1>3. \/ /\ stale' = [q \in Paths |-> IF q = p THEN entry ELSE NoEntry]
         /\ staleCount' = 1
      \/ /\ ~(staleCount + 1 > MaxStale)
         /\ stale' = [stale EXCEPT ![p] = entry] /\ staleCount' = staleCount + 1
  BY DEF SetStale
<1> HIDE DEF entry
<1>4. staleCount' \in 0..MaxStale  BY <1>1, <1>3
<1>5. stale' \in [Paths -> [time : 0..MaxNow, content : FileValues]]
  BY <1>1, <1>2, <1>3 DEF StaleTyped
<1> QED  BY <1>4, <1>5 DEF StaleTyped

LEMMA CheckStaleTyped ==
    ASSUME FilesTyped, StaleTyped, NEW p \in Paths, CheckStale(p)
    PROVE  stale' \in [Paths -> [time : 0..MaxNow, content : FileValues]]
<1>1. /\ mtime[p] \in 0..MaxNow /\ stale[p].content \in FileValues
      /\ stale \in [Paths -> [time : 0..MaxNow, content : FileValues]]
  BY DEF FilesTyped, StaleTyped
<1> QED  BY <1>1 DEF CheckStale

LEMMA StaleStep == ASSUME TypeOK, [Next]_vars PROVE StaleTyped'
<1>1. FilesTyped /\ StaleTyped /\ CallsTyped  BY TypeParts
<1>2. CASE UNCHANGED <<stale, staleCount>>  BY <1>1, <1>2 DEF StaleTyped
<1>3. MaxNow \in Nat /\ MaxStale \in Nat
      /\ NoEntry \in [time : 0..MaxNow, content : FileValues]
  BY ToolsAssumption DEF NoEntry, FileValues
<1>4. ASSUME NEW s \in Sessions, NEW p \in Paths, EditEmpty(s, p) PROVE StaleTyped'
  BY <1>1, <1>3, <1>4 DEF EditEmpty, DeleteStale, StaleTyped
<1>5. ASSUME NEW s \in Sessions, NEW p \in Paths, EditBegin(s, p) \/ WriteBegin(s, p)
      PROVE  StaleTyped'
  <2>1. staleCount' = staleCount /\ (CheckStale(p) \/ stale' = stale)
    BY <1>5 DEF EditBegin, WriteBegin
  <2> QED  BY <1>1, <2>1, CheckStaleTyped DEF StaleTyped
<1>6. ASSUME NEW s \in Sessions, ReadEnd(s) \/ NoteWritten(s) PROVE StaleTyped'
  <2>1. call[s].at \in {"read", "written"} /\ SetStale(call[s].path, call[s].data)
    BY <1>6 DEF ReadEnd, NoteWritten
  <2>2. call[s].path \in Paths /\ call[s].data \in Contents
    BY <1>1, <2>1, CallTyped DEF IsIdle
  <2> QED  BY <1>1, <2>1, <2>2, SetStaleTyped
<1>7. CASE Restart
  BY <1>3, <1>7 DEF Restart, StaleTyped
<1>8. ASSUME NEW s \in Sessions, NEW p \in Paths,
             ReadBegin(s, p) \/ Refused(s, p) \/ HookRefuses(s, p) \/ WriteAppend(s, p)
      PROVE  StaleTyped'
  BY <1>2, <1>8 DEF ReadBegin, Refused, HookRefuses, WriteAppend, tables
<1>9. ASSUME NEW s \in Sessions,
             \/ ReadUnchanged(s) \/ EditLoad(s) \/ EditStore(s)
             \/ WriteStore(s) \/ WriteFails(s) \/ LoadSession(s)
      PROVE  StaleTyped'
  BY <1>2, <1>9 DEF ReadUnchanged, EditLoad, EditStore, WriteStore, WriteFails, LoadSession,
     tables
<1>10. ASSUME NEW s \in Sessions, NEW files, Confirm(s, files) \/ Undo(s, files)
       PROVE  StaleTyped'
  BY <1>2, <1>10 DEF Confirm, Undo, tables
<1>11. ASSUME NEW p \in Paths, ExternalWrite(p) \/ ExternalDelete(p) \/ ExternalTouch(p)
       PROVE  StaleTyped'
  BY <1>2, <1>11 DEF ExternalWrite, ExternalDelete, ExternalTouch, tables
<1>12. CASE Tick \/ UNCHANGED vars
  BY <1>2, <1>12 DEF Tick, vars, tables
<1> QED
  BY <1>4, <1>5, <1>6, <1>7, <1>8, <1>9, <1>10, <1>11, <1>12 DEF Next

LEMMA DedupStep == ASSUME TypeOK, [Next]_vars PROVE DedupTyped'
<1>1. FilesTyped /\ DedupTyped /\ CallsTyped  BY TypeParts
<1>2. CASE UNCHANGED <<dedup, dedupCount>>  BY <1>1, <1>2 DEF DedupTyped
<1>3. MaxNow \in Nat /\ MaxDedup \in Nat /\ dedupCount \in 0..MaxDedup
      /\ dedup \in [Sessions -> [Paths -> 0..MaxNow]]
  BY <1>1, ToolsAssumption DEF DedupTyped
<1>4. ASSUME NEW s \in Sessions, ReadEnd(s) PROVE DedupTyped'
  <2> DEFINE p == call[s].path
             time == IF Exists(p) THEN mtime[p] ELSE 0
  <2>1. SetReadFileState(s, p)  BY <1>4 DEF ReadEnd
  <2>2. p \in Paths  BY <1>1, <1>4, CallTyped DEF ReadEnd, IsIdle
  <2>3. time \in 0..MaxNow  BY <1>1, <1>3, <2>2 DEF FilesTyped
  <2>4. \/ dedup' = [dedup EXCEPT ![s][p] = time] /\ UNCHANGED dedupCount
        \/ /\ dedup' = [t \in Sessions |-> [q \in Paths |-> 0]]
           /\ dedupCount' = 0
        \/ /\ ~(dedupCount + 1 > MaxDedup)
           /\ dedup' = [dedup EXCEPT ![s][p] = time] /\ dedupCount' = dedupCount + 1
    BY <2>1 DEF SetReadFileState
  <2> HIDE DEF time, p
  <2>5. dedup' \in [Sessions -> [Paths -> 0..MaxNow]]  BY <1>3, <2>2, <2>3, <2>4
  <2>6. dedupCount' \in 0..MaxDedup  BY <1>3, <2>4
  <2> QED  BY <2>5, <2>6 DEF DedupTyped
<1>5. CASE Restart  BY <1>3, <1>5 DEF Restart, DedupTyped
<1>6. ASSUME NEW s \in Sessions, NEW p \in Paths,
             \/ ReadBegin(s, p) \/ EditEmpty(s, p) \/ EditBegin(s, p)
             \/ WriteBegin(s, p) \/ Refused(s, p) \/ HookRefuses(s, p) \/ WriteAppend(s, p)
      PROVE  DedupTyped'
  BY <1>2, <1>6 DEF ReadBegin, EditEmpty, EditBegin, WriteBegin, Refused, HookRefuses,
     WriteAppend, tables
<1>7. ASSUME NEW s \in Sessions,
             \/ ReadUnchanged(s) \/ EditLoad(s) \/ EditStore(s)
             \/ WriteStore(s) \/ WriteFails(s) \/ NoteWritten(s) \/ LoadSession(s)
      PROVE  DedupTyped'
  BY <1>2, <1>7 DEF ReadUnchanged, EditLoad, EditStore, WriteStore, WriteFails, NoteWritten,
     LoadSession, tables
<1>8. ASSUME NEW s \in Sessions, NEW files, Confirm(s, files) \/ Undo(s, files)
      PROVE  DedupTyped'
  BY <1>2, <1>8 DEF Confirm, Undo, tables
<1>9. ASSUME NEW p \in Paths, ExternalWrite(p) \/ ExternalDelete(p) \/ ExternalTouch(p)
      PROVE  DedupTyped'
  BY <1>2, <1>9 DEF ExternalWrite, ExternalDelete, ExternalTouch, tables
<1>10. CASE Tick \/ UNCHANGED vars
  BY <1>2, <1>10 DEF Tick, vars, tables
<1> QED
  BY <1>4, <1>5, <1>6, <1>7, <1>8, <1>9, <1>10 DEF Next

(* The calls.                                                              *)
LEMMA CallsStep == ASSUME TypeOK, [Next]_vars PROVE CallsTyped'
<1>1. FilesTyped /\ CallsTyped  BY TypeParts
<1>2. CASE UNCHANGED call  BY <1>1, <1>2 DEF CallsTyped
<1>3. ASSUME NEW s \in Sessions, NEW k \in CallStates, call' = [call EXCEPT ![s] = k]
      PROVE  CallsTyped'
  BY <1>1, <1>3 DEF CallsTyped
<1>4. ASSUME NEW s \in Sessions, Finish(s) PROVE CallsTyped'
  <2>1. Idle \in CallStates  BY DEF CallStates
  <2> QED  BY <1>3, <1>4, <2>1 DEF Finish
<1>5. ASSUME NEW p \in Paths, Exists(p) PROVE disk[p] \in Contents
  BY <1>1, <1>5 DEF FilesTyped, FileValues, Exists
<1>6. \A p \in Paths, c \in Contents :
         /\ [at |-> "edit", path |-> p] \in CallStates
         /\ [at |-> "checked", path |-> p] \in CallStates
         /\ [at |-> "read", path |-> p, data |-> c] \in CallStates
         /\ [at |-> "edited", path |-> p, data |-> c] \in CallStates
         /\ [at |-> "written", path |-> p, data |-> c] \in CallStates
  BY DEF CallStates
<1>7. ASSUME NEW s \in Sessions, NEW p \in Paths, ReadBegin(s, p) PROVE CallsTyped'
  <2>1. disk[p] \in Contents  BY <1>5, <1>7 DEF ReadBegin
  <2>2. UNCHANGED call \/ call' = [call EXCEPT ![s] = [at |-> "read", path |-> p, data |-> disk[p]]]
    BY <1>7 DEF ReadBegin, Step
  <2> QED  BY <1>2, <1>3, <1>6, <2>1, <2>2
<1>8. ASSUME NEW s \in Sessions, NEW p \in Paths, EditBegin(s, p) \/ WriteBegin(s, p)
      PROVE  CallsTyped'
  <2>1. \/ call' = [call EXCEPT ![s] = [at |-> "edit", path |-> p]]
        \/ call' = [call EXCEPT ![s] = [at |-> "checked", path |-> p]]
    BY <1>8 DEF EditBegin, WriteBegin, Step
  <2>2. {} \in Contents  BY DEF Contents
  <2> QED  BY <1>3, <1>6, <2>1, <2>2
<1>9. ASSUME NEW s \in Sessions, EditLoad(s) PROVE CallsTyped'
  <2>1. call[s].path \in Paths  BY <1>1, <1>9, CallTyped DEF EditLoad, IsIdle
  <2>2. \/ Finish(s)
        \/ /\ Exists(call[s].path)
           /\ call' = [call EXCEPT ![s] = [at |-> "edited", path |-> call[s].path,
                                            data |-> disk[call[s].path]]]
    BY <1>9 DEF EditLoad, Step
  <2> QED  BY <1>3, <1>4, <1>5, <1>6, <2>1, <2>2
<1>10. ASSUME NEW s \in Sessions, EditStore(s) PROVE CallsTyped'
  <2>1. call[s].path \in Paths /\ call[s].data \in Contents
    BY <1>1, <1>10, CallTyped DEF EditStore, IsIdle
  <2>2. PICK old \in call[s].data :
           call' = [call EXCEPT ![s] = [at |-> "written", path |-> call[s].path,
                                        data |-> (call[s].data \ {old}) \cup {next}]]
    BY <1>10 DEF EditStore, Step
  <2>3. next \in Marks  BY <1>10 DEF EditStore, Fresh
  <2>4. (call[s].data \ {old}) \cup {next} \in Contents  BY <2>1, <2>3 DEF Contents
  <2> QED  BY <1>3, <1>6, <2>1, <2>2, <2>4
<1>11. ASSUME NEW s \in Sessions, WriteStore(s) PROVE CallsTyped'
  <2>1. call[s].path \in Paths  BY <1>1, <1>11, CallTyped DEF WriteStore, IsIdle
  <2>2. /\ call' = [call EXCEPT ![s] = [at |-> "written", path |-> call[s].path, data |-> {next}]]
        /\ next \in Marks
    BY <1>11 DEF WriteStore, Step, Fresh
  <2>3. {next} \in Contents  BY <2>2 DEF Contents
  <2> QED  BY <1>3, <1>6, <2>1, <2>2, <2>3
<1>12. ASSUME NEW s \in Sessions,
              ReadUnchanged(s) \/ ReadEnd(s) \/ WriteFails(s) \/ NoteWritten(s)
       PROVE  CallsTyped'
  BY <1>4, <1>12 DEF ReadUnchanged, ReadEnd, WriteFails, NoteWritten
<1>13. CASE Restart
  <2>1. Idle \in CallStates  BY DEF CallStates
  <2> QED  BY <1>13, <2>1 DEF Restart, CallsTyped
<1>14. ASSUME NEW s \in Sessions, NEW p \in Paths,
              EditEmpty(s, p) \/ Refused(s, p) \/ HookRefuses(s, p) \/ WriteAppend(s, p)
       PROVE  CallsTyped'
  BY <1>2, <1>14 DEF EditEmpty, Refused, HookRefuses, WriteAppend
<1>15. ASSUME NEW s \in Sessions, NEW files, LoadSession(s) \/ Confirm(s, files) \/ Undo(s, files)
       PROVE  CallsTyped'
  BY <1>2, <1>15 DEF LoadSession, Confirm, Undo
<1>16. ASSUME NEW p \in Paths, ExternalWrite(p) \/ ExternalDelete(p) \/ ExternalTouch(p)
       PROVE  CallsTyped'
  BY <1>2, <1>16 DEF ExternalWrite, ExternalDelete, ExternalTouch
<1>17. CASE Tick \/ UNCHANGED vars
  BY <1>2, <1>17 DEF Tick, vars
<1>18. ASSUME NEW s \in Sessions, LoadSession(s) PROVE CallsTyped'
  BY <1>2, <1>18 DEF LoadSession
<1> QED
  BY <1>7, <1>8, <1>9, <1>10, <1>11, <1>12, <1>13, <1>14, <1>15, <1>16, <1>17, <1>18 DEF Next

LEMMA TypesStep == TypeOK /\ [Next]_vars => TypeOK'
<1> SUFFICES ASSUME TypeOK, [Next]_vars PROVE TypeOK'  OBVIOUS
<1>1. ListsTyped' /\ CopiesTyped'  BY ListsStep
<1>2. FilesTyped' /\ FlagsTyped'  BY FilesStep
<1>3. StaleTyped' /\ DedupTyped' /\ CallsTyped'  BY StaleStep, DedupStep, CallsStep
<1> QED
  BY <1>1, <1>2, <1>3 DEF TypeOK, TrackTypeOK, FilesTyped, ListsTyped, CopiesTyped, StaleTyped,
     DedupTyped, CallsTyped, FlagsTyped, FileValues

LEMMA TypesKept == Spec => []TypeOK
BY TypesInit, TypesStep, PTL DEF Spec

-----------------------------------------------------------------------------
\* A rollback among the calls of the tools, and what all steps leave noticed.

LEMMA RestoredOnly ==
    ASSUME TypeOK, NEW s \in Sessions, NEW files, Rollback(s, files)
    PROVE  /\ DOMAIN disk' = Paths
           /\ \A p \in Paths : p \notin Rewritten(s, files) => disk'[p] = disk[p]
           /\ \A p \in Rewritten(s, files) : Exists(p)'
<1>1. FilesTyped /\ ListsTyped /\ CopiesTyped  BY TypeParts
<1>2. disk' \in [Paths -> FileValues]  BY <1>1, RestoredTyped
<1>3. \A p \in Paths : disk[p] \in FileValues /\ backup[s][p] \in FileValues
  BY <1>1 DEF FilesTyped, CopiesTyped
<1>4. PICK done, gone : Settles(s, files, done, gone) /\ UndoneBut(s, files, done)
  BY RollbackSettles
<1>5. tracked'[s] = tracked[s] \ done  BY <1>1, <1>4, ForgetTyped DEF Settles
<1>6. ASSUME NEW p \in Rewritten(s, files) PROVE Exists(p)'
  <2>1. p \in Paths  BY DEF Rewritten
  <2>2. CASE p \in done /\ disk'[p] = Restored(s, p)
    <3>1. backup[s][p] # NoFile  BY <1>4, <1>5, <2>2 DEF Rewritten, Restored
    <3> QED  BY <2>2, <3>1 DEF Restored, Exists
  <2>3. CASE p \notin done
    <3>1. disk'[p] # disk[p]  BY <1>5, <2>3 DEF Rewritten
    <3>2. backup[s][p] # NoFile /\ disk'[p] \in HalfWritten(disk[p], backup[s][p])
      BY <1>4, <2>1, <2>3, <3>1 DEF UndoneBut
    <3>3. disk'[p] # NoFile  BY <1>3, <2>1, <3>1, <3>2, HalfIsContent
    <3> QED  BY <3>3 DEF Exists
  <2> QED  BY <1>4, <2>1, <2>2, <2>3 DEF UndoneBut
<1>7. \A p \in Paths : p \notin Rewritten(s, files) => disk'[p] = disk[p]  BY DEF Rewritten
<1> QED  BY <1>2, <1>6, <1>7

LEMMA UndoStep ==
    ASSUME Notices, TypeOK, NEW s \in Sessions, NEW files, Undo(s, files) PROVE Notices'
<1> DEFINE back == Rewritten(s, files)
<1>1. /\ mtime' = [p \in Paths |-> IF p \in back THEN now ELSE mtime[p]]
      /\ unseen' = [p \in Paths |-> unseen[p] \/ p \in back]
      /\ raced' = (raced \/ \E p \in back : Racing(Nobody, p))
      /\ UNCHANGED <<now, stale, dedup, call, given, lost, deceived>>
      /\ Rollback(s, files) /\ Shape
  BY DEF Undo, tables, Notices, Rewritten
<1>2. /\ DOMAIN disk' = Paths
      /\ \A p \in Paths : p \notin back => disk'[p] = disk[p]
      /\ \A p \in back : Exists(p)'
  BY <1>1, RestoredOnly
<1> HIDE DEF back
<1>3. /\ now \in Nat \ {0} /\ mtime \in [Paths -> 0..now]
      /\ \A p \in Paths : Exists(p) => mtime[p] # 0
  BY <1>1 DEF Shape
<1>4. /\ mtime' \in [Paths -> 0..now] /\ DOMAIN unseen' = Paths
      /\ \A p \in Paths : mtime'[p] = IF p \in back THEN now ELSE mtime[p]
      /\ \A p \in Paths : p \notin back => (unseen'[p] => unseen[p])
  <2>1. mtime' \in [Paths -> 0..now]
    BY <1>1, <1>3
  <2>2. \A p \in Paths : mtime'[p] = IF p \in back THEN now ELSE mtime[p]
    BY <1>1, <1>3
  <2>3. DOMAIN unseen' = Paths /\ \A p \in Paths : unseen'[p] = (unseen[p] \/ p \in back)
    BY <1>1
  <2> QED
    BY <2>1, <2>2, <2>3
<1>5. \A p \in Paths : Exists(p)' => mtime'[p] # 0
  BY <1>2, <1>3, <1>4 DEF Exists
<1>6. Shape'
  BY <1>1, <1>2, <1>3, <1>4, <1>5 DEF Shape, IsIdle
<1>7. ASSUME ~raced' PROVE ~lost' /\ ~deceived' /\ Known'
  <2>1. /\ ~lost' /\ ~deceived' /\ Known
        /\ \A p \in back : ~Racing(Nobody, p)
    BY <1>1, <1>7 DEF Notices
  <2>2. \A p \in back : /\ \A t \in Sessions : ~Open(t, p) /\ dedup[t][p] # now
                        /\ stale[p].time # now
    BY <2>1, NobodyAssumption DEF Racing
  <2>3. ASSUME NEW t \in Sessions PROVE KnowsFile(t)'
    <3>1. KnowsFile(t) /\ (~IsIdle(t) => call[t].path \in Paths)
      BY <1>1, <2>1 DEF Known, Shape
    <3>2. call'[t] = call[t]
      BY <1>1
    <3>3. CASE call[t].at \in {"read", "checked", "edited", "written"}
      <4>1. call[t].path \in Paths /\ call[t].path \notin back
        BY <2>2, <3>1, <3>3 DEF Open, IsIdle
      <4> QED
        BY <1>2, <1>4, <3>1, <3>2, <4>1 DEF KnowsFile, Exists
    <3>4. CASE call[t].at \notin {"read", "checked", "edited", "written"}
      BY <3>2, <3>4 DEF KnowsFile
    <3> QED
      BY <3>3, <3>4
  <2>4. ASSUME NEW p \in Paths PROVE RecordTrue(p)'
    <3>1. CASE p \in back
      BY <1>1, <1>4, <2>2, <3>1 DEF RecordTrue, SameTime
    <3>2. CASE p \notin back
      <4>1. RecordTrue(p) /\ disk'[p] = disk[p] /\ mtime'[p] = mtime[p]
            /\ (unseen'[p] => unseen[p])
        BY <1>2, <1>4, <2>1, <3>2 DEF Known
      <4> QED
        BY <1>1, <4>1 DEF RecordTrue, SameTime, SameContent, Exists, Recorded
    <3> QED
      BY <3>1, <3>2
  <2>5. ASSUME NEW t \in Sessions, NEW p \in Paths PROVE GivenTrue(t, p)'
    <3>1. CASE p \in back
      BY <1>1, <1>4, <2>2, <3>1 DEF GivenTrue
    <3>2. CASE p \notin back
      <4>1. GivenTrue(t, p) /\ disk'[p] = disk[p] /\ mtime'[p] = mtime[p]
        BY <1>2, <1>4, <2>1, <3>2 DEF Known
      <4> QED
        BY <1>1, <4>1 DEF GivenTrue, Exists
    <3> QED
      BY <3>1, <3>2
  <2> QED
    BY <2>1, <2>3, <2>4, <2>5 DEF Known
<1> QED
  BY <1>6, <1>7 DEF Notices

-----------------------------------------------------------------------------

LEMMA NoticesStep == ASSUME Notices, TypeOK, [Next]_vars PROVE Notices'
<1>1. ASSUME NEW s \in Sessions, NEW p \in Paths,
             \/ ReadBegin(s, p) \/ EditEmpty(s, p) \/ EditBegin(s, p)
             \/ WriteBegin(s, p) \/ WriteAppend(s, p)
      PROVE  Notices'
  BY <1>1, ReadBeginStep, EditEmptyStep, EditBeginStep, WriteBeginStep, ExternalStep
<1>2. ASSUME NEW s \in Sessions, NEW p \in Paths, Refused(s, p) \/ HookRefuses(s, p)
      PROVE  Notices'
  BY <1>2, AsideStep DEF Refused, HookRefuses, fileVars, tables, history
<1>3. ASSUME NEW s \in Sessions,
             \/ ReadUnchanged(s) \/ ReadEnd(s) \/ EditLoad(s) \/ EditStore(s)
             \/ WriteStore(s) \/ WriteFails(s) \/ NoteWritten(s)
      PROVE  Notices'
  BY <1>3, ReadUnchangedStep, ReadEndStep, EditLoadStep, EditStoreStep, WriteStoreStep,
     WriteFailsStep, NoteWrittenStep
<1>4. ASSUME NEW s \in Sessions, LoadSession(s) PROVE Notices'
  BY <1>4, AsideStep DEF LoadSession, Load, tables, history
<1>5. ASSUME NEW s \in Sessions, NEW files, Confirm(s, files) PROVE Notices'
  BY <1>5, AsideStep DEF Confirm, ConfirmModify, tables, history
<1>6. ASSUME NEW s \in Sessions, NEW files, Undo(s, files) PROVE Notices'
  BY <1>6, UndoStep
<1>7. ASSUME NEW p \in Paths, ExternalWrite(p) \/ ExternalDelete(p) \/ ExternalTouch(p)
      PROVE  Notices'
  BY <1>7, ExternalStep, TouchStep
<1>8. CASE Tick \/ Restart
  BY <1>8, TickStep, RestartStep
<1>9. CASE UNCHANGED vars
  BY <1>9 DEF vars, fileVars, tables, history, Notices, Shape, Known, KnowsFile, RecordTrue,
     GivenTrue, SameTime, SameContent, Exists, Recorded, IsIdle
<1> QED
  BY <1>1, <1>2, <1>3, <1>4, <1>5, <1>6, <1>7, <1>8, <1>9 DEF Next

(* Nothing that no tool has seen is written over, and no Read answers that *)
(* nothing changed when something did, unless a change fell between two    *)
(* looks of one call at the file or into a millisecond on record: for any  *)
(* sessions, files and sizes of the tables (edit.go, write.go, read.go).   *)
THEOREM UnnoticedNeedsRace == Spec => []NothingUnnoticed
<1>1. Init => Notices  BY NoticesInit
<1>2. TypeOK /\ Notices /\ [Next]_vars => Notices'  BY NoticesStep
<1>3. Notices => NothingUnnoticed
  BY DEF Notices, NothingUnnoticed, LossNeedsRace, DeceitNeedsRace
<1> QED
  BY <1>1, <1>2, <1>3, TypesKept, PTL DEF Spec

-----------------------------------------------------------------------------
\* The list in use and the copies.

(* Of a session, for every file that is not mislaid: see TrackedAsFound.   *)
Kept(s) ==
    /\ ~loaded[s] => tracked[s] = {}
    /\ \A p \in Paths \ mislaid[s] :
          /\ p \in InUse(s) <=> original[s][p] # Settled
          /\ original[s][p] \notin {NoFile, Settled} => backup[s][p] = original[s][p]
ListsKept == \A s \in Sessions : Kept(s)

(* Nothing of a session changes but its list, and what that changes of the *)
(* list in use is mislaid.                                                 *)
LEMMA MislaidKeeps ==
    ASSUME NEW s \in Sessions, Kept(s), mislaid'[s] = mislaid[s] \cup Mislays(s),
           backup'[s] = backup[s], original'[s] = original[s],
           ~loaded'[s] => tracked'[s] = {}
    PROVE  Kept(s)'
<1>1. ASSUME NEW p \in Paths \ mislaid'[s]
      PROVE  p \notin mislaid[s] /\ (p \in InUse(s)' <=> p \in InUse(s))
  BY DEF Mislays
<1> QED  BY <1>1 DEF Kept

LEMMA SettlesKeeps ==
    ASSUME ListsTyped, CopiesTyped, ListsKept, NEW s \in Sessions, NEW files,
           NEW done, NEW gone, Settles(s, files, done, gone)
    PROVE  ListsKept'
<1>1. /\ tracked' \in [Sessions -> SUBSET Paths] /\ loaded' = loaded
      /\ tracked'[s] = tracked[s] \ done
      /\ \A t \in Sessions \ {s} : tracked'[t] = tracked[t]
      /\ \A p \in Paths : original'[s][p] = IF p \in done THEN Settled ELSE original[s][p]
      /\ \A t \in Sessions \ {s} : original'[t] = original[t]
  BY ForgetTyped DEF Settles
<1>2. /\ \A p \in Paths \ done : backup'[s][p] = backup[s][p]
      /\ \A t \in Sessions \ {s} : backup'[t] = backup[t]
  BY WithoutTyped DEF Settles
<1>3. stored \in [Sessions -> SUBSET Paths] /\ mislaid \in [Sessions -> SUBSET Paths]
  BY DEF ListsTyped
<1>4. \A t \in Sessions \ {s} : stored'[t] = stored[t]  BY <1>3 DEF Settles
<1>5. Kept(s) /\ done \subseteq tracked[s]  BY DEF ListsKept, Settles
<1>6. mislaid' = IF loaded[s] THEN mislaid
                 ELSE [mislaid EXCEPT ![s] = @ \cup Mislays(s)]
  BY DEF Settles, Forget
<1>7. ASSUME loaded[s] PROVE Kept(s)'
  <2>1. InUse(s) = tracked[s] /\ InUse(s)' = tracked[s] \ done /\ mislaid' = mislaid
    BY <1>1, <1>6, <1>7 DEF InUse
  <2>2. ASSUME NEW p \in Paths \ mislaid'[s]
        PROVE  /\ p \in InUse(s)' <=> original'[s][p] # Settled
               /\ original'[s][p] \notin {NoFile, Settled} => backup'[s][p] = original'[s][p]
    <3>1. /\ p \in tracked[s] <=> original[s][p] # Settled
          /\ original[s][p] \notin {NoFile, Settled} => backup[s][p] = original[s][p]
      BY <1>5, <2>1, <2>2 DEF Kept
    <3> QED  BY <1>1, <1>2, <2>1, <3>1
  <2> QED  BY <1>1, <1>7, <2>2 DEF Kept
<1>8. ASSUME ~loaded[s] PROVE Kept(s)'
  <2>1. done = {}  BY <1>5, <1>8 DEF Kept
  <2>2. mislaid'[s] = mislaid[s] \cup Mislays(s)  BY <1>3, <1>6, <1>8
  <2>3. ASSUME NEW p \in Paths \ mislaid'[s]
        PROVE  /\ p \in InUse(s)' <=> original'[s][p] # Settled
               /\ original'[s][p] \notin {NoFile, Settled} => backup'[s][p] = original'[s][p]
    <3>1. p \notin mislaid[s] /\ (p \in InUse(s)' <=> p \in InUse(s))
      BY <2>2, <2>3 DEF Mislays
    <3>2. original'[s][p] = original[s][p] /\ backup'[s][p] = backup[s][p]
      BY <1>1, <1>2, <2>1
    <3> QED  BY <1>5, <3>1, <3>2 DEF Kept
  <2> QED  BY <1>1, <1>5, <2>1, <2>3 DEF Kept
<1>9. ASSUME NEW t \in Sessions \ {s} PROVE Kept(t)'
  <2>1. Kept(t)  BY DEF ListsKept
  <2>2. mislaid'[t] = mislaid[t]  BY <1>3, <1>6
  <2>3. InUse(t)' = InUse(t)  BY <1>1, <1>4 DEF InUse
  <2> QED  BY <1>1, <1>2, <2>1, <2>2, <2>3 DEF Kept
<1>10. Kept(s)'  BY <1>7, <1>8
<1> QED  BY <1>9, <1>10 DEF ListsKept

LEMMA TrackKeeps ==
    ASSUME TypeOK, ListsKept, NEW s \in Sessions, NEW p \in Paths, BeforeTool(s, p)
    PROVE  ListsKept'
<1>1. FilesTyped /\ ListsTyped /\ CopiesTyped  BY TypeParts
<1>2. CASE UNCHANGED trackVars  BY <1>2 DEF trackVars, ListsKept, Kept, InUse
<1>3. CASE /\ loaded[s] /\ p \notin tracked[s]
           /\ backup' = Copied(s, p)
           /\ original' = [original EXCEPT ![s][p] = IF @ = Settled THEN disk[p] ELSE @]
           /\ tracked' = [tracked EXCEPT ![s] = @ \cup {p}]
           /\ Persist(s, tracked'[s])
           /\ UNCHANGED <<loaded, mislaid>>
  <2>1. /\ tracked \in [Sessions -> SUBSET Paths] /\ stored \in [Sessions -> SUBSET Paths]
        /\ backup \in [Sessions -> [Paths -> FileValues]]
        /\ original \in [Sessions -> [Paths -> {NoFile, Settled} \cup Contents]]
        /\ disk[p] \in FileValues
    BY <1>1 DEF ListsTyped, CopiesTyped, FilesTyped
  <2>2. disk[p] # Settled
    BY <2>1, TrackingAssumption DEF FileValues, Contents
  <2>3. Kept(s) /\ InUse(s) = tracked[s]  BY <1>3 DEF ListsKept, InUse
  <2>4. \A t \in Sessions \ {s} : stored'[t] = stored[t]
    BY <1>3, <2>1 DEF Persist
  <2>5. InUse(s)' = tracked[s] \cup {p}
    BY <1>3, <2>1 DEF InUse
  <2>6. p \notin mislaid[s] => original[s][p] = Settled  BY <1>3, <2>3 DEF Kept
  <2>7. /\ original[s][p] = Settled => original'[s][p] = disk[p]
        /\ \A q \in Paths \ {p} : original'[s][q] = original[s][q]
        /\ \A t \in Sessions \ {s} : original'[t] = original[t]
    BY <1>3, <2>1
  <2>8. /\ disk[p] # NoFile => backup'[s][p] = disk[p]
        /\ \A q \in Paths \ {p} : backup'[s][q] = backup[s][q]
        /\ \A t \in Sessions \ {s} : backup'[t] = backup[t]
    BY <1>3, <2>1 DEF Copied, Exists
  <2>9. ASSUME NEW q \in Paths \ mislaid[s]
        PROVE  /\ q \in InUse(s)' <=> original'[s][q] # Settled
               /\ original'[s][q] \notin {NoFile, Settled} => backup'[s][q] = original'[s][q]
    <3>1. CASE q = p
      <4>1. original'[s][p] = disk[p]  BY <2>6, <2>7, <2>9, <3>1
      <4> QED  BY <2>2, <2>5, <2>8, <3>1, <4>1
    <3>2. CASE q # p
      <4>1. /\ q \in tracked[s] <=> original[s][q] # Settled
            /\ original[s][q] \notin {NoFile, Settled} => backup[s][q] = original[s][q]
        BY <2>3, <2>9 DEF Kept
      <4>2. original'[s][q] = original[s][q] /\ backup'[s][q] = backup[s][q]
        BY <2>7, <2>8, <2>9, <3>2
      <4> QED  BY <2>5, <3>2, <4>1, <4>2
    <3> QED  BY <3>1, <3>2
  <2>10. Kept(s)'  BY <1>3, <2>9 DEF Kept
  <2>11. ASSUME NEW t \in Sessions \ {s} PROVE Kept(t)'
    <3>1. Kept(t)  BY DEF ListsKept
    <3>2. tracked'[t] = tracked[t] /\ stored'[t] = stored[t] /\ loaded'[t] = loaded[t]
      BY <1>3, <2>1, <2>4
    <3>3. InUse(t)' = InUse(t)  BY <3>2 DEF InUse
    <3> QED  BY <1>3, <2>7, <2>8, <3>1, <3>2, <3>3 DEF Kept
  <2> QED  BY <2>10, <2>11 DEF ListsKept
<1> QED  BY <1>2, <1>3 DEF BeforeTool, TrackModify

(* A copy that cannot be made is of a file that is not listed.             *)
LEMMA RefusalKeeps ==
    ASSUME TypeOK, ListsKept, NEW s \in Sessions, NEW p \in Paths, HookRefuses(s, p)
    PROVE  ListsKept'
<1>1. ListsTyped /\ CopiesTyped  BY TypeParts
<1>2. /\ loaded[s] /\ p \notin tracked[s]
      /\ UNCHANGED <<tracked, stored, loaded, original, mislaid>>
      /\ \E part : backup' = [backup EXCEPT ![s][p] = part]
  BY DEF HookRefuses, TrackFails
<1>3. /\ \A q \in Paths \ {p} : backup'[s][q] = backup[s][q]
      /\ \A t \in Sessions \ {s} : backup'[t] = backup[t]
  BY <1>1, <1>2 DEF CopiesTyped
<1>4. ASSUME NEW t \in Sessions \ {s} PROVE Kept(t)'
  <2>1. Kept(t)  BY DEF ListsKept
  <2>2. InUse(t)' = InUse(t)  BY <1>2 DEF InUse
  <2> QED  BY <1>2, <1>3, <2>1, <2>2 DEF Kept
<1>5. Kept(s)'
  <2>1. Kept(s)  BY DEF ListsKept
  <2>2. InUse(s)' = tracked[s] /\ InUse(s) = tracked[s]  BY <1>2 DEF InUse
  <2>3. ASSUME NEW q \in Paths \ mislaid[s]
        PROVE  original[s][q] \notin {NoFile, Settled} => backup'[s][q] = original[s][q]
    <3>1. CASE q = p
      <4>1. original[s][p] = Settled  BY <1>2, <2>1, <2>2, <2>3, <3>1 DEF Kept
      <4> QED  BY <3>1, <4>1
    <3>2. CASE q # p  BY <1>3, <2>1, <2>3, <3>2 DEF Kept
    <3> QED  BY <3>1, <3>2
  <2> QED  BY <1>2, <2>1, <2>2, <2>3 DEF Kept
<1> QED  BY <1>4, <1>5 DEF ListsKept

LEMMA ListsKeptStep ==
    ASSUME TypeOK, ListsKept, [Next]_vars
    PROVE  ListsKept'
<1>1. ListsTyped /\ CopiesTyped  BY TypeParts
<1>2. CASE UNCHANGED trackVars  BY <1>2 DEF trackVars, ListsKept, Kept, InUse
<1>3. ASSUME NEW s \in Sessions, NEW p \in Paths, BeforeTool(s, p) PROVE ListsKept'
  BY <1>3, TrackKeeps
<1>4. ASSUME NEW s \in Sessions, NEW files, ConfirmModify(s, files) \/ Rollback(s, files)
      PROVE  ListsKept'
  <2>1. \E done, gone : Settles(s, files, done, gone)
    BY <1>4, ConfirmSettles, RollbackSettles
  <2> QED  BY <1>1, <2>1, SettlesKeeps
<1>5. ASSUME NEW s \in Sessions, Load(s) PROVE ListsKept'
  <2>1. /\ loaded' = [loaded EXCEPT ![s] = TRUE]
        /\ \/ tracked' = [tracked EXCEPT ![s] = stored[s]]
           \/ UNCHANGED tracked
        /\ UNCHANGED <<stored, backup, original>>
        /\ mislaid' = [mislaid EXCEPT ![s] = @ \cup Mislays(s)]
    BY <1>5 DEF Load
  <2>2. /\ loaded'[s] /\ mislaid'[s] = mislaid[s] \cup Mislays(s)
        /\ \A t \in Sessions \ {s} : /\ loaded'[t] = loaded[t] /\ tracked'[t] = tracked[t]
                                      /\ mislaid'[t] = mislaid[t]
    BY <1>1, <2>1 DEF ListsTyped
  <2>3. Kept(s)'  BY <2>1, <2>2, MislaidKeeps DEF ListsKept
  <2>4. ASSUME NEW t \in Sessions \ {s} PROVE Kept(t)'
    <3>1. Kept(t)  BY DEF ListsKept
    <3>2. InUse(t)' = InUse(t)  BY <2>1, <2>2 DEF InUse
    <3> QED  BY <2>1, <2>2, <3>1, <3>2 DEF Kept
  <2> QED  BY <2>3, <2>4 DEF ListsKept
<1>6. CASE Restart
  <2>1. /\ tracked' = [s \in Sessions |-> {}] /\ loaded' = [s \in Sessions |-> FALSE]
        /\ UNCHANGED <<stored, backup, original>>
        /\ mislaid' = [s \in Sessions |-> mislaid[s] \cup Mislays(s)]
    BY <1>6 DEF Restart, ForgetMemory
  <2>2. ASSUME NEW s \in Sessions PROVE Kept(s)'
    <3>1. mislaid'[s] = mislaid[s] \cup Mislays(s) /\ tracked'[s] = {}  BY <2>1
    <3> QED  BY <2>1, <3>1, MislaidKeeps DEF ListsKept
  <2> QED  BY <2>2 DEF ListsKept
<1>7. ASSUME NEW s \in Sessions, NEW p \in Paths,
             \/ ReadBegin(s, p) \/ EditEmpty(s, p) \/ EditBegin(s, p)
             \/ WriteBegin(s, p) \/ Refused(s, p) \/ WriteAppend(s, p)
      PROVE  ListsKept'
  BY <1>2, <1>3, <1>7 DEF ReadBegin, EditEmpty, EditBegin, WriteBegin, Refused, WriteAppend
<1>8. ASSUME NEW s \in Sessions,
             \/ ReadUnchanged(s) \/ ReadEnd(s) \/ EditLoad(s) \/ EditStore(s)
             \/ WriteStore(s) \/ WriteFails(s) \/ NoteWritten(s) \/ LoadSession(s)
      PROVE  ListsKept'
  BY <1>2, <1>5, <1>8 DEF ReadUnchanged, ReadEnd, EditLoad, EditStore, WriteStore, WriteFails,
     NoteWritten, LoadSession
<1>9. ASSUME NEW s \in Sessions, NEW files, Confirm(s, files) \/ Undo(s, files)
      PROVE  ListsKept'
  BY <1>4, <1>9 DEF Confirm, Undo
<1>10. ASSUME NEW p \in Paths, ExternalWrite(p) \/ ExternalDelete(p) \/ ExternalTouch(p)
       PROVE  ListsKept'
  BY <1>2, <1>10 DEF ExternalWrite, ExternalDelete, ExternalTouch
<1>11. CASE Tick \/ UNCHANGED vars
  BY <1>2, <1>11 DEF Tick, vars
<1>12. ASSUME NEW s \in Sessions, NEW p \in Paths, HookRefuses(s, p) PROVE ListsKept'
  BY <1>12, RefusalKeeps
<1> QED
  BY <1>6, <1>7, <1>8, <1>9, <1>10, <1>11, <1>12 DEF Next

LEMMA TrackingInvariant == Spec => [](TypeOK /\ ListsKept)
<1>1. Init => TypeOK /\ ListsKept
  <2>1. Init => ListsKept  BY DEF Init, TrackInit, ListsKept, Kept, InUse
  <2> QED  BY <2>1, TypesInit
<1>2. TypeOK /\ ListsKept /\ [Next]_vars => (TypeOK /\ ListsKept)'
  BY TypesStep, ListsKeptStep
<1> QED  BY <1>1, <1>2, PTL DEF Spec

(* What is needed to undo a session's changes is kept, for every file that *)
(* was not mislaid: through any number of writes, sessions and restarts,   *)
(* any of the failures, calls that name any files, and hosts that settle   *)
(* files before the session is read (session/file_modify.go).              *)
THEOREM TrackingIsSound == Spec => []TrackingSound
<1>1. TypeOK /\ ListsKept => TrackingSound
  BY DEF TrackingSound, TrackedAsFound, ListsKept, Kept
<1> QED  BY <1>1, TrackingInvariant, PTL

(* A rollback gives a file that was not mislaid back the content it had    *)
(* when the session listed it, whatever tools, users and other programs    *)
(* made of it since; or, where it fails, it keeps the file on the list and *)
(* its copy whole (Session.Rollback).                                      *)
THEOREM RollbacksRestore == Spec => UndoRestores
<1> DEFINE Restores == \A s \in Sessions, files \in Requests :
              \A p \in (files \cap tracked[s]) \ mislaid[s] :
                 original[s][p] # NoFile /\ Undo(s, files) =>
                 \/ p \notin tracked'[s] /\ disk'[p] = original[s][p]
                 \/ p \in tracked'[s] /\ backup'[s][p] = original[s][p]
<1>1. TypeOK /\ ListsKept /\ [Next]_vars => [Restores]_vars
  <2> SUFFICES ASSUME TypeOK, ListsKept, NEW s \in Sessions, NEW files \in Requests,
                      Undo(s, files), NEW p \in (files \cap tracked[s]) \ mislaid[s],
                      original[s][p] # NoFile
               PROVE  \/ p \notin tracked'[s] /\ disk'[p] = original[s][p]
                      \/ p \in tracked'[s] /\ backup'[s][p] = original[s][p]
    OBVIOUS
  <2>1. ListsTyped /\ CopiesTyped  BY TypeParts
  <2>2. PICK done, gone : Settles(s, files, done, gone) /\ UndoneBut(s, files, done)
    BY RollbackSettles DEF Undo
  <2>3. tracked'[s] = tracked[s] \ done  BY <2>1, <2>2, ForgetTyped DEF Settles
  <2>4. p \in Paths /\ loaded[s] /\ p \in InUse(s)
    BY <2>1 DEF ListsKept, Kept, ListsTyped, InUse
  <2>5. backup[s][p] = original[s][p]  BY <2>4 DEF ListsKept, Kept
  <2>6. CASE p \in done  BY <2>2, <2>3, <2>4, <2>5, <2>6 DEF UndoneBut, Restored
  <2>7. CASE p \notin done
    <3>1. backup'[s][p] = backup[s][p]
      BY <2>1, <2>2, <2>4, <2>7, WithoutTyped DEF Settles
    <3> QED  BY <2>3, <2>5, <2>7, <3>1
  <2> QED  BY <2>6, <2>7
<1>2. Spec => [][Restores]_vars
  BY <1>1, TrackingInvariant, PTL DEF Spec
<1> QED  BY <1>2 DEF UndoRestores
=============================================================================
