---------------------------- MODULE FileTracking ----------------------------
(***************************************************************************)
(* The files a session modified (session/file_modify.go), which the host   *)
(* lets a user confirm or roll back.  A hook (hooks/action/file_modify.go) *)
(* calls TrackModify before Write and Edit run: the first time it copies   *)
(* the file into the session's backup directory and adds it to the list    *)
(* the session keeps in memory and in its store.  All three operations     *)
(* hold the session's lock; the files themselves belong to nobody.         *)
(*                                                                         *)
(* A content is a set of marks: every write that adds something adds a     *)
(* mark nobody used before.                                                *)
(***************************************************************************)
EXTENDS Naturals, FiniteSets

CONSTANTS
    Sessions,
    Trackers,     \* the sessions whose host provided a tracker to the hook
    Paths,
    Marks,        \* what a write may add to a file
    NoFile,       \* in place of a content: there is no file
    Settled,      \* in place of a content: no modification is open
    MaxFaults,    \* bound on the operations that fail, at most one in a call
    Faults,       \* which of them may: "backup", "remove", "restore",
                  \* "save", "load"
    EarlyCalls,   \* whether a host confirms or rolls back in a session that
                  \* nothing has loaded yet
    SeveralFiles  \* whether one call may name several files

ASSUME TrackingAssumption ==
    /\ Trackers \subseteq Sessions
    /\ MaxFaults \in Nat
    /\ Faults \subseteq {"backup", "remove", "restore", "save", "load"}
    /\ EarlyCalls \in BOOLEAN /\ SeveralFiles \in BOOLEAN
    /\ NoFile # Settled /\ \A c \in SUBSET Marks : c # NoFile /\ c # Settled

Contents == SUBSET Marks

VARIABLES
    disk,      \* the content of each path
    tracked,   \* the modified files of each session, in memory
    stored,    \* the same list in its store
    loaded,    \* whether the session read its store since the process began
    backup,    \* the session's copy of each file
    faults,    \* file operations that failed so far
    original,  \* history: what a file was when the session first listed it
    mislaid    \* history: files that left the list in use, or came back to
               \* it, without being tracked, confirmed or rolled back

trackVars == <<tracked, stored, loaded, backup, faults, original, mislaid>>

TrackInit ==
    /\ tracked = [s \in Sessions |-> {}]
    /\ stored = [s \in Sessions |-> {}]
    /\ loaded = [s \in Sessions |-> FALSE]
    /\ backup = [s \in Sessions |-> [p \in Paths |-> NoFile]]
    /\ faults = 0
    /\ original = [s \in Sessions |-> [p \in Paths |-> Settled]]
    /\ mislaid = [s \in Sessions |-> {}]

Exists(p) == disk[p] # NoFile

-----------------------------------------------------------------------------
(* An operation fails, or does not.                                        *)
Fails(kind) == kind \in Faults /\ faults < MaxFaults /\ faults' = faults + 1
Works       == UNCHANGED faults

(* persistModifyFilesLocked: an error of the store is not looked at.       *)
Persist(s, files) ==
    \/ stored' = [stored EXCEPT ![s] = files] /\ Works
    \/ UNCHANGED stored /\ Fails("save")

(* The list a session goes by, and what a step that should not touch it    *)
(* changes of it.                                                          *)
InUse(s)   == IF loaded[s] THEN tracked[s] ELSE stored[s]
Mislays(s) == (InUse(s) \ InUse(s)') \cup (InUse(s)' \ InUse(s))

(* ensureLoaded: the list of the store replaces the one in memory.  When   *)
(* the messages cannot be read, nothing is, and it is not tried again.     *)
Load(s) ==
    /\ s \in Trackers /\ ~loaded[s]
    /\ loaded' = [loaded EXCEPT ![s] = TRUE]
    /\ \/ tracked' = [tracked EXCEPT ![s] = stored[s]] /\ Works
       \/ UNCHANGED tracked /\ Fails("load")
    /\ UNCHANGED <<disk, stored, backup, original>>
    /\ mislaid' = [mislaid EXCEPT ![s] = @ \cup Mislays(s)]

(* TrackModify.  A file that is tracked is not copied again; one that does *)
(* not exist is tracked without a copy.                                    *)
Copied(s, p) == [backup EXCEPT ![s][p] = IF Exists(p) THEN disk[p] ELSE @]

(* Mutant: a file that is on the list is copied once more.                 *)
CopyAgain(s, p) ==
    /\ backup' = Copied(s, p)
    /\ original' = [original EXCEPT ![s][p] = IF @ = Settled THEN disk[p] ELSE @]
    /\ tracked' = [tracked EXCEPT ![s] = @ \cup {p}]
    /\ Persist(s, tracked'[s])
    /\ UNCHANGED <<loaded, mislaid>>

TrackModify(s, p) ==
    \/ p \in tracked[s] /\ UNCHANGED trackVars
    \/ /\ p \notin tracked[s]
       /\ backup' = Copied(s, p)
       /\ original' = [original EXCEPT ![s][p] = IF @ = Settled THEN disk[p] ELSE @]
       /\ tracked' = [tracked EXCEPT ![s] = @ \cup {p}]
       /\ Persist(s, tracked'[s])
       /\ UNCHANGED <<loaded, mislaid>>

(* What os.WriteFile may leave when it fails: what was there, or a part of *)
(* what it was to write.                                                   *)
HalfWritten(was, content) == {was} \cup SUBSET content

(* Mutant: the file is on the list although its copy could not be made.    *)
ListedAnyway(s, p) ==
    /\ p \notin tracked[s] /\ Exists(p)
    /\ Fails("backup")
    /\ tracked' = [tracked EXCEPT ![s] = @ \cup {p}]
    /\ original' = [original EXCEPT ![s][p] = IF @ = Settled THEN disk[p] ELSE @]
    /\ UNCHANGED <<stored, loaded, backup, mislaid>>

(* The copy cannot be made: the file is not tracked.                       *)
TrackFails(s, p) ==
    /\ p \notin tracked[s] /\ Exists(p)
    /\ Fails("backup")
    /\ \E part \in HalfWritten(backup[s][p], disk[p]) :
          backup' = [backup EXCEPT ![s][p] = part]
    /\ UNCHANGED <<tracked, stored, loaded, original, mislaid>>

(* FileModifyHook.Before, where it lets the tool run: the file is tracked, *)
(* or nobody tracks for this session.  A tool runs in a session whose      *)
(* messages were read.                                                     *)
BeforeTool(s, p) ==
    IF s \in Trackers THEN loaded[s] /\ TrackModify(s, p) ELSE UNCHANGED trackVars

-----------------------------------------------------------------------------
(* The files a host may name; none is all of them.                         *)
Requests == IF SeveralFiles THEN SUBSET Paths \ {{}} ELSE {{p} : p \in Paths}
May(s)   == s \in Trackers /\ (loaded[s] \/ EarlyCalls)

(* ConfirmModify and Rollback go through the targets and stop at the first *)
(* that fails: what was done until then is off the list in memory, and     *)
(* the list is stored only at the end.                                     *)
Forget(s, done) ==
    /\ tracked' = [tracked EXCEPT ![s] = @ \ done]
    /\ original' = [original EXCEPT ![s] =
                       [p \in Paths |-> IF p \in done THEN Settled ELSE @[p]]]
    /\ UNCHANGED loaded
    /\ mislaid' = IF loaded[s] THEN mislaid
                  ELSE [mislaid EXCEPT ![s] = @ \cup Mislays(s)]

WithoutBackups(s, done) ==
    [backup EXCEPT ![s] = [p \in Paths |-> IF p \in done THEN NoFile ELSE @[p]]]

ConfirmModify(s, files) ==
    /\ May(s)
    /\ LET targets == files \cap tracked[s]
       IN  \/ /\ Persist(s, tracked[s] \ targets)
              /\ backup' = WithoutBackups(s, targets)
              /\ Forget(s, targets)
           \/ \E done \in SUBSET targets :
                /\ \E p \in targets \ done : backup[s][p] # NoFile
                /\ Fails("remove")
                /\ UNCHANGED stored
                /\ backup' = WithoutBackups(s, done)
                /\ Forget(s, done)
    /\ UNCHANGED disk

(* Mutant: only a file that is gone is restored.                           *)
OnlyMissing(s, p) ==
    IF backup[s][p] = NoFile \/ Exists(p) THEN disk[p] ELSE backup[s][p]

(* What Rollback makes of a file: a file without a copy stays as it is.    *)
Restored(s, p) == IF backup[s][p] = NoFile THEN disk[p] ELSE backup[s][p]
Undone(s, done) == [p \in Paths |-> IF p \in done THEN Restored(s, p) ELSE disk[p]]

(* Rollback.  That the copy of a restored file could not be removed goes   *)
(* unnoticed; a restoration that fails may have begun to write the file.   *)
Rollback(s, files) ==
    /\ May(s)
    /\ LET targets == files \cap tracked[s]
       IN  \/ /\ \/ /\ Persist(s, tracked[s] \ targets)
                    /\ backup' = WithoutBackups(s, targets)
                 \/ \E p \in targets :
                      /\ backup[s][p] # NoFile
                      /\ Fails("remove")
                      /\ stored' = [stored EXCEPT ![s] = tracked[s] \ targets]
                      /\ backup' = WithoutBackups(s, targets \ {p})
              /\ disk' = Undone(s, targets)
              /\ Forget(s, targets)
           \/ \E done \in SUBSET targets : \E p \in targets \ done :
                /\ backup[s][p] # NoFile
                /\ Fails("restore")
                /\ \E part \in HalfWritten(disk[p], backup[s][p]) :
                      disk' = [Undone(s, done) EXCEPT ![p] = part]
                /\ UNCHANGED stored
                /\ backup' = WithoutBackups(s, done)
                /\ Forget(s, done)

(* The process ends: a session keeps its store and its backups.            *)
ForgetMemory ==
    /\ tracked' = [s \in Sessions |-> {}]
    /\ loaded' = [s \in Sessions |-> FALSE]
    /\ UNCHANGED <<stored, backup, faults, original>>
    /\ mislaid' = [s \in Sessions |-> mislaid[s] \cup Mislays(s)]

-----------------------------------------------------------------------------
TrackTypeOK ==
    /\ disk \in [Paths -> {NoFile} \cup Contents]
    /\ tracked \in [Sessions -> SUBSET Paths]
    /\ stored \in [Sessions -> SUBSET Paths]
    /\ loaded \in [Sessions -> BOOLEAN]
    /\ backup \in [Sessions -> [Paths -> {NoFile} \cup Contents]]
    /\ faults \in 0..MaxFaults
    /\ original \in [Sessions -> [Paths -> {NoFile, Settled} \cup Contents]]
    /\ mislaid \in [Sessions -> SUBSET Paths]

(* A file is on the list a session goes by exactly while a modification of *)
(* it is open, and then the session's copy of it is what it was before:    *)
(* through repeated writes, copies, removals and restorations that fail    *)
(* half way, calls that stop between two files, restarts, and whatever the *)
(* other sessions do to the file.  It may only have been mislaid: when the *)
(* store could not be read or written, when the process ended while a call *)
(* had stopped before it stored the list, or when a host settled files of  *)
(* a session that nothing had loaded.                                      *)
TrackedAsFound ==
    \A s \in Sessions : \A p \in Paths \ mislaid[s] :
        /\ p \in InUse(s) <=> original[s][p] # Settled
        /\ original[s][p] \notin {NoFile, Settled} => backup[s][p] = original[s][p]
=============================================================================
