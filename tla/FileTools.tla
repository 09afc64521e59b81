------------------------------ MODULE FileTools ------------------------------
(***************************************************************************)
(* Read, Edit and Write (tools/read.go, read_text.go, edit.go, write.go),  *)
(* called by several sessions and, in the same files, other programs.      *)
(* Two tables of the process stand between them:                           *)
(*                                                                         *)
(*   tools/filestate   what was last read of each path: Edit and Write     *)
(*                     refuse a path that is not there, or whose file      *)
(*                     changed since;                                      *)
(*   tools/read_dedup  the modification time of each path as a session     *)
(*                     last read it: a Read that meets the same time       *)
(*                     answers "unchanged" and nothing else.               *)
(*                                                                         *)
(* Both compare modification times in milliseconds; now is that clock.     *)
(* No lock is held while a tool works: a call is cut where it goes to the  *)
(* file again.                                                             *)
(***************************************************************************)
EXTENDS FileTracking

CONSTANTS
    MaxNow,        \* bound on the clock
    MaxStale,      \* maxStaleEntries
    MaxDedup,      \* dedupMaxEntries
    WritesFail     \* whether a write may stop after it emptied the file

ASSUME ToolsAssumption ==
    /\ MaxNow \in Nat \ {0} /\ MaxStale \in Nat \ {0} /\ MaxDedup \in Nat \ {0}
    /\ WritesFail \in BOOLEAN
    /\ 0 \in Marks /\ Marks \subseteq Nat

VARIABLES
    mtime,       \* the modification time of each path
    now,
    next,        \* the next mark; 0 is what a file held at first
    stale,       \* staleStates: the time and content recorded for each path
    staleCount,  \* staleStateCount
    dedup,       \* readFileStates: the time each session's last reading met
    dedupCount,  \* readStateCount
    call,        \* the tool call under way in each session
    given,       \* history: what a session was shown of each path it has an
                 \* entry in dedup for
    unseen,      \* history: paths whose content no tool has read or written
    raced,       \* history: some change fell into a window (see Racing)
    lost,        \* history: a tool wrote over a content no tool had seen
    deceived     \* history: a Read said "unchanged" of what had changed

tables   == <<stale, staleCount, dedup, dedupCount>>
history  == <<given, unseen, raced, lost, deceived>>
fileVars == <<disk, mtime, now, next>>
vars     == <<fileVars, trackVars, tables, call, history>>

NoEntry  == [time |-> 0, content |-> NoFile]
NothingGiven == [s \in Sessions |-> [p \in Paths |-> NoFile]]
Idle     == [at |-> "idle"]
IsIdle(s) == call[s].at = "idle"
Empty    == {}

Init ==
    /\ disk \in [Paths -> {NoFile, Empty, {0}}]
    /\ TrackInit
    /\ mtime = [p \in Paths |-> IF disk[p] = NoFile THEN 0 ELSE 1]
    /\ now = 1
    /\ next = 1
    /\ stale = [p \in Paths |-> NoEntry]
    /\ staleCount = 0
    /\ dedup = [s \in Sessions |-> [p \in Paths |-> 0]]
    /\ dedupCount = 0
    /\ call = [s \in Sessions |-> Idle]
    /\ given = NothingGiven
    /\ unseen = [p \in Paths |-> TRUE]
    /\ raced = FALSE /\ lost = FALSE /\ deceived = FALSE

-----------------------------------------------------------------------------
(* A call that will go to p's file once more and believes to know it.      *)
Open(s, p) == call[s].at \in {"read", "checked", "edited", "written"}
              /\ call[s].path = p

(* A change of p, by session s or by nobody, that no comparison of times   *)
(* can show: within a call of another session, or in the millisecond that  *)
(* one of the tables has recorded.                                         *)
Racing(s, p) ==
    \/ \E t \in Sessions \ {s} : Open(t, p)
    \/ stale[p].time = now
    \/ \E t \in Sessions : dedup[t][p] = now

Nobody == "nobody"
ASSUME NobodyAssumption == Nobody \notin Sessions

(* p's file becomes c, by s.  unknown: no tool has seen c.                 *)
Change(s, p, c, unknown) ==
    /\ disk' = [disk EXCEPT ![p] = c]
    /\ mtime' = [mtime EXCEPT ![p] = IF c = NoFile THEN 0 ELSE now]
    /\ unseen' = [unseen EXCEPT ![p] = unknown]
    /\ raced' = (raced \/ Racing(s, p))

Fresh  == next \in Marks /\ next' = next + 1
Finish(s) == call' = [call EXCEPT ![s] = Idle]
Step(s, to) == call' = [call EXCEPT ![s] = to]

(* Mutant: the table only grows.                                           *)
GrowingStale(p, c) ==
    /\ stale' = [stale EXCEPT ![p] = [time |-> mtime[p], content |-> c]]
    /\ staleCount' = staleCount + 1

(* SetStale.  Every call counts, also one for a path that is there; beyond *)
(* the limit the table is emptied first.  A file that is gone by now gets  *)
(* the time of the clock.                                                  *)
SetStale(p, c) ==
    LET entry == [time |-> IF Exists(p) THEN mtime[p] ELSE now, content |-> c]
    IN  IF staleCount + 1 > MaxStale
        THEN /\ stale' = [q \in Paths |-> IF q = p THEN entry ELSE NoEntry]
             /\ staleCount' = 1
        ELSE /\ stale' = [stale EXCEPT ![p] = entry]
             /\ staleCount' = staleCount + 1

DeleteStale(p) == stale' = [stale EXCEPT ![p] = NoEntry] /\ UNCHANGED staleCount

Recorded(p)    == stale[p] # NoEntry
SameTime(p)    == mtime[p] = stale[p].time
SameContent(p) == disk[p] = stale[p].content

(* Mutant: a changed file passes as long as it exists.                     *)
AnyKnownFile(p) ==
    /\ Recorded(p) /\ Exists(p)
    /\ stale' = [stale EXCEPT ![p].time = mtime[p]]

(* CheckStale: the file is the recorded one when the times are equal, or   *)
(* else the contents; then the time is recorded anew.                      *)
CheckStale(p) ==
    /\ Recorded(p) /\ Exists(p)
    /\ SameTime(p) \/ SameContent(p)
    /\ stale' = [stale EXCEPT ![p] = [time |-> mtime[p], content |-> @.content]]
StaleRefused(p) ==
    ~(Recorded(p) /\ Exists(p) /\ (SameTime(p) \/ SameContent(p)))

(* setReadFileState: a new key counts, and beyond the limit the table is   *)
(* emptied, the new key included.  A file that is gone has no time.        *)
SetReadFileState(s, p) ==
    LET time == IF Exists(p) THEN mtime[p] ELSE 0
    IN  IF dedup[s][p] # 0
        THEN dedup' = [dedup EXCEPT ![s][p] = time] /\ UNCHANGED dedupCount
        ELSE IF dedupCount + 1 > MaxDedup
        THEN /\ dedup' = [t \in Sessions |-> [q \in Paths |-> 0]]
             /\ dedupCount' = 0
        ELSE /\ dedup' = [dedup EXCEPT ![s][p] = time]
             /\ dedupCount' = dedupCount + 1

-----------------------------------------------------------------------------
(* Read.  A missing file is refused (the cache of missing paths is checked *)
(* against the file system whenever it is hit, so that it changes no       *)
(* answer); an empty file is answered at once and nothing is recorded; the *)
(* content of any other is read.                                           *)
ReadBegin(s, p) ==
    /\ IsIdle(s) /\ Exists(p)
    /\ IF disk[p] = Empty
       THEN unseen' = [unseen EXCEPT ![p] = FALSE] /\ UNCHANGED call
       ELSE /\ Step(s, [at |-> "read", path |-> p, data |-> disk[p]])
            /\ UNCHANGED unseen
    /\ UNCHANGED <<fileVars, trackVars, tables, given, raced, lost, deceived>>

(* Mutant: the time is not compared.                                       *)
ReadBefore(s, p) == dedup[s][p] # 0 /\ Exists(p)

(* buildTextResult, after the content was read: the file's time is asked   *)
(* for again, to answer "unchanged" or to be recorded with the content.    *)
Unchanged(s, p) ==
    dedup[s][p] # 0 /\ Exists(p) /\ dedup[s][p] = mtime[p]

ReadUnchanged(s) ==
    /\ call[s].at = "read" /\ Unchanged(s, call[s].path)
    /\ deceived' = (deceived \/ given[s][call[s].path] # call[s].data)
    /\ Finish(s)
    /\ UNCHANGED <<fileVars, trackVars, tables, given, unseen, raced, lost>>

ReadEnd(s) ==
    /\ call[s].at = "read"
    /\ LET p == call[s].path IN
       /\ ~Unchanged(s, p)
       /\ SetReadFileState(s, p)
       /\ SetStale(p, call[s].data)
       /\ given' = IF dedup'[s][p] = 0 THEN NothingGiven
                   ELSE [given EXCEPT ![s][p] = call[s].data]
       /\ unseen' = [unseen EXCEPT ![p] = @ /\ disk[p] # call[s].data]
    /\ Finish(s)
    /\ UNCHANGED <<fileVars, trackVars, raced, lost, deceived>>

-----------------------------------------------------------------------------
(* Edit.  The hook comes first.  An empty file is given its content; any   *)
(* other must be the recorded one, is read, and must hold the text the     *)
(* call replaces: here one mark by another.                                *)
EditEmpty(s, p) ==
    /\ IsIdle(s) /\ BeforeTool(s, p)
    /\ disk[p] = Empty
    /\ Fresh
    /\ Change(s, p, {next}, FALSE)
    /\ DeleteStale(p)
    /\ UNCHANGED <<now, dedup, dedupCount, call, given, lost, deceived>>

EditBegin(s, p) ==
    /\ IsIdle(s) /\ BeforeTool(s, p)
    /\ CheckStale(p)
    /\ Step(s, [at |-> "edit", path |-> p])
    /\ UNCHANGED <<fileVars, staleCount, dedup, dedupCount, history>>

EditLoad(s) ==
    /\ call[s].at = "edit"
    /\ LET p == call[s].path IN
       IF Exists(p) /\ disk[p] # Empty
       THEN /\ Step(s, [at |-> "edited", path |-> p, data |-> disk[p]])
            /\ unseen' = [unseen EXCEPT ![p] = FALSE]
       ELSE Finish(s) /\ UNCHANGED unseen
    /\ UNCHANGED <<fileVars, trackVars, tables, given, raced, lost, deceived>>

EditStore(s) ==
    /\ call[s].at = "edited"
    /\ Fresh
    /\ LET p == call[s].path IN
       \E old \in call[s].data :
          LET new == (call[s].data \ {old}) \cup {next} IN
          /\ lost' = (lost \/ disk[p] # call[s].data)
          /\ Change(s, p, new, FALSE)
          /\ Step(s, [at |-> "written", path |-> p, data |-> new])
    /\ UNCHANGED <<now, trackVars, tables, given, deceived>>

(* Write, over a file that must be the recorded one, or a new file.        *)
WriteBegin(s, p) ==
    /\ IsIdle(s) /\ BeforeTool(s, p)
    /\ \/ CheckStale(p)
       \/ ~Exists(p) /\ UNCHANGED stale
    /\ unseen' = [unseen EXCEPT ![p] = @ /\ ~SameContent(p)]
    /\ Step(s, [at |-> "checked", path |-> p])
    /\ UNCHANGED <<fileVars, staleCount, dedup, dedupCount, given, raced, lost,
                   deceived>>

WriteStore(s) ==
    /\ call[s].at = "checked"
    /\ Fresh
    /\ LET p == call[s].path IN
       /\ lost' = (lost \/ (Exists(p) /\ unseen[p]))
       /\ Change(s, p, {next}, FALSE)
       /\ Step(s, [at |-> "written", path |-> p, data |-> {next}])
    /\ UNCHANGED <<now, trackVars, tables, given, deceived>>

(* os.WriteFile empties the file first and may fail before it is filled.   *)
WriteFails(s) ==
    /\ WritesFail
    /\ call[s].at \in {"checked", "edited"}
    /\ LET p == call[s].path IN
       /\ lost' = (lost \/ (call[s].at = "checked" /\ Exists(p) /\ unseen[p])
                        \/ (call[s].at = "edited" /\ disk[p] # call[s].data))
       /\ Change(s, p, Empty, TRUE)
    /\ Finish(s)
    /\ UNCHANGED <<now, next, trackVars, tables, given, deceived>>

(* After a write, Edit and Write record the content they wrote with the    *)
(* time the file has then.                                                 *)
NoteWritten(s) ==
    /\ call[s].at = "written"
    /\ LET p == call[s].path IN
       /\ SetStale(p, call[s].data)
       /\ Finish(s)
    /\ UNCHANGED <<fileVars, trackVars, dedup, dedupCount, history>>

(* A call that is refused, after the hook: the path was never read, or the *)
(* file changed, or an Edit finds no file.                                 *)
Refused(s, p) ==
    /\ IsIdle(s) /\ BeforeTool(s, p)
    /\ StaleRefused(p)
    /\ UNCHANGED <<fileVars, tables, call, history>>

(* A call that the hook refuses, because the file could not be copied.     *)
HookRefuses(s, p) ==
    /\ IsIdle(s) /\ s \in Trackers /\ loaded[s]
    /\ TrackFails(s, p)
    /\ UNCHANGED <<fileVars, tables, call, history>>

(* Write with append: no check, and nothing is recorded or forgotten.      *)
WriteAppend(s, p) ==
    /\ IsIdle(s) /\ BeforeTool(s, p)
    /\ Fresh
    /\ Change(s, p, (IF Exists(p) THEN disk[p] ELSE Empty) \cup {next}, TRUE)
    /\ UNCHANGED <<now, tables, call, given, lost, deceived>>

-----------------------------------------------------------------------------
(* Other programs change a file, delete it, or only its time.              *)
ExternalWrite(p) ==
    /\ Fresh
    /\ \E keep \in {Empty} \cup {disk[q] : q \in {p} \cap {x \in Paths : Exists(x)}} :
          Change(Nobody, p, keep \cup {next}, TRUE)
    /\ UNCHANGED <<now, trackVars, tables, call, given, lost, deceived>>

ExternalDelete(p) ==
    /\ Exists(p)
    /\ Change(Nobody, p, NoFile, TRUE)
    /\ UNCHANGED <<now, next, trackVars, tables, call, given, lost, deceived>>

ExternalTouch(p) ==
    /\ Exists(p) /\ mtime[p] # now
    /\ mtime' = [mtime EXCEPT ![p] = now]
    /\ UNCHANGED <<disk, now, next, trackVars, tables, call, history>>

Tick ==
    /\ now < MaxNow /\ now' = now + 1
    /\ UNCHANGED <<disk, mtime, next, trackVars, tables, call, history>>

(* The host settles what a session modified.  A file that was restored, or *)
(* was to be, is changed like by any other program; the tables are not     *)
(* told.                                                                   *)
Confirm(s, files) ==
    /\ ConfirmModify(s, files)
    /\ UNCHANGED <<mtime, now, next, tables, call, history>>

Undo(s, files) ==
    /\ Rollback(s, files)
    /\ LET back == {p \in Paths : \/ disk'[p] # disk[p]
                                  \/ /\ p \in files \cap (tracked[s] \ tracked'[s])
                                     /\ backup[s][p] # NoFile}
       IN  /\ mtime' = [p \in Paths |-> IF p \in back THEN now ELSE mtime[p]]
           /\ unseen' = [p \in Paths |-> unseen[p] \/ p \in back]
           /\ raced' = (raced \/ \E p \in back : Racing(Nobody, p))
    /\ UNCHANGED <<now, next, tables, call, given, lost, deceived>>

LoadSession(s) ==
    /\ Load(s)
    /\ UNCHANGED <<mtime, now, next, tables, call, history>>

(* The process ends, in the middle of any call, and starts again.          *)
Restart ==
    /\ ForgetMemory
    /\ stale' = [p \in Paths |-> NoEntry] /\ staleCount' = 0
    /\ dedup' = [s \in Sessions |-> [p \in Paths |-> 0]] /\ dedupCount' = 0
    /\ call' = [s \in Sessions |-> Idle]
    /\ given' = NothingGiven
    /\ UNCHANGED <<fileVars, unseen, raced, lost, deceived>>

Next ==
    \/ \E s \in Sessions, p \in Paths :
          \/ ReadBegin(s, p)
          \/ EditEmpty(s, p) \/ EditBegin(s, p) \/ WriteBegin(s, p)
          \/ Refused(s, p) \/ HookRefuses(s, p) \/ WriteAppend(s, p)
    \/ \E s \in Sessions :
          \/ ReadUnchanged(s) \/ ReadEnd(s) \/ EditLoad(s) \/ EditStore(s)
          \/ WriteStore(s) \/ WriteFails(s) \/ NoteWritten(s) \/ LoadSession(s)
    \/ \E s \in Sessions, files \in Requests : Confirm(s, files) \/ Undo(s, files)
    \/ \E p \in Paths : ExternalWrite(p) \/ ExternalDelete(p) \/ ExternalTouch(p)
    \/ Tick
    \/ Restart

Spec == Init /\ [][Next]_vars

-----------------------------------------------------------------------------
CallStates ==
    {Idle} \cup [at : {"edit", "checked"}, path : Paths]
           \cup [at : {"read", "edited", "written"}, path : Paths, data : Contents]

(* Every variable keeps its type, the counters within their limits.        *)
TypeOK ==
    /\ TrackTypeOK
    /\ mtime \in [Paths -> 0..MaxNow] /\ now \in 1..MaxNow
    /\ stale \in [Paths -> [time : 0..MaxNow, content : {NoFile} \cup Contents]]
    /\ staleCount \in 0..MaxStale
    /\ dedup \in [Sessions -> [Paths -> 0..MaxNow]] /\ dedupCount \in 0..MaxDedup
    /\ call \in [Sessions -> CallStates]
    /\ {raced, lost, deceived} \subseteq BOOLEAN

(* The check before a write holds off every change it could notice: a tool *)
(* writes over a content no tool has seen only when a change fell between  *)
(* two looks of one call at the file, or into the millisecond on record.   *)
LossNeedsRace == lost => raced

(* The same of the answer "unchanged": what the session was last shown of  *)
(* the file is what is in it.                                              *)
DeceitNeedsRace == deceived => raced

(* No session writes over, or is told unchanged, what others changed in    *)
(* time to be seen.                                                        *)
NothingUnnoticed == LossNeedsRace /\ DeceitNeedsRace

(* After a Read that showed or confirmed the content of a file, no entry   *)
(* is missing that Edit and Write ask for.                                 *)
ReadRecords ==
    [][\A s \in Sessions : ReadUnchanged(s) => Recorded(call[s].path)]_vars

(* What is needed to undo a session's changes is kept.                     *)
TrackingSound == TypeOK /\ TrackedAsFound

(* However a rollback ends, of each file it was asked for that had a       *)
(* content and is not mislaid: it is off the list and holds that content   *)
(* again, whatever the tools of all sessions did to it since; or it is     *)
(* still listed and its copy is whole, so that the rollback can be tried   *)
(* again, also where it left the file half written.                        *)
UndoRestores ==
    [][\A s \in Sessions, files \in Requests :
          \A p \in (files \cap tracked[s]) \ mislaid[s] :
             original[s][p] # NoFile /\ Undo(s, files) =>
             \/ p \notin tracked'[s] /\ disk'[p] = original[s][p]
             \/ p \in tracked'[s] /\ backup'[s][p] = original[s][p]]_vars

(* What the hook's comment promises, that a tool runs whatever becomes of  *)
(* the copy (hooks/action/file_modify.go:57-58), is not what it does: its  *)
(* error refuses the call.                                                 *)
NeverRefuses == [][\A s \in Sessions, p \in Paths : ~HookRefuses(s, p)]_vars
=============================================================================
