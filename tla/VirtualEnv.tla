----------------------------- MODULE VirtualEnv -----------------------------
(***************************************************************************)
(* The Python environments RunScript keeps, one per directory              *)
(* (src/tools/run_script.go: platformScriptExecutor.venvManagers and       *)
(* venvManager).  Every session of the process shares the tool, so calls   *)
(* for one directory meet in ensureVenv: it makes the environment when its *)
(* directory is missing, and installs requirements.txt when the file's     *)
(* hash is not the one of the last installation.                           *)
(*                                                                         *)
(* A content of requirements.txt is a version number, 0 when there is no   *)
(* file, and stands for its hash (0 for the empty reqHash).  Files change  *)
(* and environments are deleted behind the tool's back.                    *)
(***************************************************************************)
EXTENDS Integers, Sequences, SequencesExt, FiniteSets

CONSTANTS
    Calls,        \* calls of the tools
    Roots,        \* directories scripts run in
    RootOf,       \* the directory of each call
    MaxEdits,     \* bound: versions of a requirements.txt
    MaxRemovals   \* bound: deletions of an environment

VARIABLES
    disk,       \* per directory: the .venv, what is installed, requirements.txt
    managers,   \* the venvManagers made so far: reqHash, and the holder of mu
    managerOf,  \* venvManagers: directory -> index in managers, 0 for none
    use,        \* per call: how far it is in ensureVenv
    removals,   \* deletions so far
    wiped       \* history: the environment was deleted since the last installation

envVars == <<disk, managers, managerOf, use, removals, wiped>>

NoCall == "nobody"

ASSUME EnvAssumption ==
    /\ RootOf \in [Calls -> Roots]
    /\ MaxEdits \in Nat /\ MaxRemovals \in Nat
    /\ NoCall \notin Calls

Steps == {"idle", "lock", "create", "read", "install", "ready", "failed"}
Manager == [hash : 0..MaxEdits, holder : Calls \cup {NoCall}]
Unused == [at |-> "idle", vm |-> 0, hash |-> 0]

EnvTypeOK ==
    /\ disk \in [Roots -> [venv : {"none", "broken", "made"}, has : 0..MaxEdits, req : 0..MaxEdits]]
    /\ managers \in Seq(Manager)
    /\ managerOf \in [Roots -> 0..Len(managers)]
    /\ use \in [Calls -> [at : Steps, vm : 0..Len(managers), hash : 0..MaxEdits]]
    /\ removals \in 0..MaxRemovals
    /\ wiped \in [Roots -> BOOLEAN]

EnvInit ==
    /\ disk = [r \in Roots |-> [venv |-> "none", has |-> 0, req |-> 0]]
    /\ managers = <<>>
    /\ managerOf = [r \in Roots |-> 0]
    /\ use = [c \in Calls |-> Unused]
    /\ removals = 0
    /\ wiped = [r \in Roots |-> FALSE]

-----------------------------------------------------------------------------

Move(c, step) == use' = [use EXCEPT ![c].at = step]
Unlocked(c) == [managers EXCEPT ![use[c].vm].holder = NoCall]

\* A plausible bug: each call makes a manager of its own.
LookUpNew(c) ==
    /\ managers' = Append(managers, [hash |-> 0, holder |-> NoCall])
    /\ managerOf' = [managerOf EXCEPT ![RootOf[c]] = Len(managers) + 1]
    /\ use' = [use EXCEPT ![c] = [at |-> "lock", vm |-> Len(managers) + 1, hash |-> 0]]
    /\ UNCHANGED <<disk, removals, wiped>>

\* executePython finds the directory's manager, or makes it, under e.mu.
LookUp(c) ==
    LET r == RootOf[c]
        new == managerOf[r] = 0
        h == IF new THEN Len(managers) + 1 ELSE managerOf[r]
    IN  /\ managers' = IF new THEN Append(managers, [hash |-> 0, holder |-> NoCall]) ELSE managers
        /\ managerOf' = [managerOf EXCEPT ![r] = h]
        /\ use' = [use EXCEPT ![c] = [at |-> "lock", vm |-> h, hash |-> 0]]
        /\ UNCHANGED <<disk, removals, wiped>>

\* m.mu.Lock, and whether .venv is a directory: a broken one passes.
Lock(c) ==
    /\ use[c].at = "lock"
    /\ managers[use[c].vm].holder = NoCall
    /\ managers' = [managers EXCEPT ![use[c].vm].holder = c]
    /\ Move(c, IF disk[RootOf[c]].venv = "none" THEN "create" ELSE "read")
    /\ UNCHANGED <<disk, managerOf, removals, wiped>>

\* createVenv: python -m venv.
Create(c) ==
    /\ use[c].at = "create"
    /\ disk' = [disk EXCEPT ![RootOf[c]].venv = "made"]
    /\ Move(c, "read")
    /\ UNCHANGED <<managers, managerOf, removals, wiped>>

\* A plausible bug: the early return does not unlock.
CreateFailsLocked(c) ==
    /\ use[c].at = "create"
    /\ disk' = [disk EXCEPT ![RootOf[c]].venv = "broken"]
    /\ Move(c, "failed")
    /\ UNCHANGED <<managers, managerOf, removals, wiped>>

\* ... or it fails, and may leave the directory behind.
CreateFails(c) ==
    /\ use[c].at = "create"
    /\ \E left \in {"none", "broken"} : disk' = [disk EXCEPT ![RootOf[c]].venv = left]
    /\ managers' = Unlocked(c)
    /\ Move(c, "failed")
    /\ UNCHANGED <<managerOf, removals, wiped>>

\* os.Stat and hashFile: nothing to do without a file, or with the hash kept.
ReadRequirements(c) ==
    LET req == disk[RootOf[c]].req
        done == req = 0 \/ req = managers[use[c].vm].hash
    IN  /\ use[c].at = "read"
        /\ use' = [use EXCEPT ![c] = [at |-> IF done THEN "ready" ELSE "install", vm |-> @.vm, hash |-> req]]
        /\ managers' = IF done THEN Unlocked(c) ELSE managers
        /\ UNCHANGED <<disk, managerOf, removals, wiped>>

\* installRequirements: pip reads the file itself; then the hash read before is kept.
Install(c) ==
    LET r == RootOf[c] IN
    /\ use[c].at = "install"
    /\ disk[r].venv = "made"
    /\ disk' = [disk EXCEPT ![r].has = disk[r].req]
    /\ managers' = [managers EXCEPT ![use[c].vm] = [hash |-> use[c].hash, holder |-> NoCall]]
    /\ wiped' = [wiped EXCEPT ![r] = FALSE]
    /\ Move(c, "ready")
    /\ UNCHANGED <<managerOf, removals>>

\* A plausible bug: the hash is kept before pip ran.
InstallFailsKept(c) ==
    /\ use[c].at = "install"
    /\ managers' = [managers EXCEPT ![use[c].vm] = [hash |-> use[c].hash, holder |-> NoCall]]
    /\ Move(c, "failed")
    /\ UNCHANGED <<disk, managerOf, removals, wiped>>

\* pip fails, is not there, or is killed with the call's context.
InstallFails(c) ==
    /\ use[c].at = "install"
    /\ managers' = Unlocked(c)
    /\ Move(c, "failed")
    /\ UNCHANGED <<disk, managerOf, removals, wiped>>

(* Files change under a directory's manager; before there is one nothing   *)
(* has looked, so a change then is no different from one just after.       *)

\* Somebody writes a new requirements.txt; an old content does not come back.
EditRequirements(r) ==
    /\ managerOf[r] # 0
    /\ disk[r].req < MaxEdits
    /\ disk' = [disk EXCEPT ![r].req = @ + 1]
    /\ UNCHANGED <<managers, managerOf, use, removals, wiped>>

\* Somebody deletes .venv.
RemoveVenv(r) ==
    /\ managerOf[r] # 0
    /\ removals < MaxRemovals
    /\ disk[r].venv # "none"
    /\ disk' = [disk EXCEPT ![r] = [venv |-> "none", has |-> 0, req |-> @.req]]
    /\ wiped' = [wiped EXCEPT ![r] = TRUE]
    /\ removals' = removals + 1
    /\ UNCHANGED <<managers, managerOf, use>>

\* The process starts again: managers live in memory, environments on disk.
EnvRestart ==
    /\ managers' = <<>>
    /\ managerOf' = [r \in Roots |-> 0]
    /\ use' = [c \in Calls |-> Unused]
    /\ wiped' = [r \in Roots |-> FALSE]
    /\ UNCHANGED <<disk, removals>>

EnsureStep(c) == Create(c) \/ CreateFails(c) \/ ReadRequirements(c) \/ Install(c) \/ InstallFails(c)
Outside == \E r \in Roots : EditRequirements(r) \/ RemoveVenv(r)

-----------------------------------------------------------------------------

(* A script is let run with what requirements.txt asked for when its call  *)
(* looked: another call's installation, a failed or killed one, a restart  *)
(* between making and installing, and edits in the middle change nothing   *)
(* of that.  Only an environment deleted after its installation is reused  *)
(* without it (wiped), because the hash outlives it.                       *)
PreparedForScript ==
    \A c \in Calls : use[c].at = "ready" =>
        \/ disk[RootOf[c]].has >= use[c].hash
        \/ wiped[RootOf[c]]

(* Two calls never make or fill the same environment at once, although     *)
(* each session calls the shared tool from its own goroutine.              *)
OneInstaller ==
    \A r \in Roots :
        Cardinality({c \in Calls : RootOf[c] = r /\ use[c].at \in {"create", "read", "install"}}) <= 1

(* Environments are filled by one call at a time, and used when filled.    *)
EnvironmentSound == EnvTypeOK /\ PreparedForScript /\ OneInstaller

(* ensureVenv's comment (run_script.go:326-328) promises that deleted      *)
(* environments are handled: false of the code after an installation.      *)
RebuiltWhole ==
    \A c \in Calls : use[c].at = "ready" => disk[RootOf[c]].has >= use[c].hash
=============================================================================
