--------------------------- MODULE CommandsProofs ---------------------------
(***************************************************************************)
(* What holds of the tools that run processes for every number of calls    *)
(* and directories, whatever the programs write, leave behind and never    *)
(* end, and whatever happens to the files; and of what Bash shows, for     *)
(* every size of its two caps that fit each other.                         *)
(***************************************************************************)
EXTENDS Commands, FiniteSetTheorems, SequenceTheorems, WellFoundedInduction, TLAPS

-----------------------------------------------------------------------------
\* The Python environments: the inductive invariant, part by part.

Locked == {"create", "read", "install"}

(* A call waits for, or holds, the lock of its directory's manager.        *)
Owned ==
    \A c \in Calls :
        /\ use[c].at \in Locked \cup {"lock"} =>
              use[c].vm = managerOf[RootOf[c]] /\ use[c].vm # 0
        /\ use[c].at \in Locked => managers[use[c].vm].holder = c

\* No two directories share a manager.
Apart ==
    \A r, q \in Roots : managerOf[r] = managerOf[q] /\ managerOf[r] # 0 => r = q

(* What is installed, and the hash a call read, are versions that were     *)
(* there; and the hash kept is of something installed, unless the          *)
(* environment went since.                                                 *)
Versions ==
    /\ \A r \in Roots : disk[r].has <= disk[r].req
    /\ \A c \in Calls : use[c].hash <= disk[RootOf[c]].req
    /\ \A r \in Roots : managerOf[r] # 0 =>
          /\ managers[managerOf[r]].hash <= disk[r].req
          /\ managers[managerOf[r]].hash <= disk[r].has \/ wiped[r]

EnvSound == EnvTypeOK /\ Owned /\ Apart /\ Versions /\ PreparedForScript

(* A call returns, or starts its script.                                   *)
Leave(c) ==
    /\ use' = [use EXCEPT ![c] = Unused]
    /\ UNCHANGED <<disk, managers, managerOf, removals, wiped>>

(* Everything a tool call, the world or a restart does to the environments *)
EnvNext ==
    \/ \E c \in Calls :
         \/ use[c].at = "idle" /\ LookUp(c)
         \/ Lock(c) \/ EnsureStep(c) \/ Leave(c)
    \/ Outside
    \/ EnvRestart
    \/ UNCHANGED envVars

-----------------------------------------------------------------------------

LEMMA EnvSoundInit == EnvInit => EnvSound
<1> SUFFICES ASSUME EnvInit PROVE EnvSound
  OBVIOUS
<1> USE EnvAssumption DEF EnvInit
<1>1. EnvTypeOK
  BY EmptySeq DEF EnvTypeOK, Unused, Steps
<1>2. Owned /\ Apart /\ PreparedForScript
  BY DEF Owned, Apart, PreparedForScript, Unused, Locked
<1>3. Versions
  BY DEF Versions, Unused
<1> QED BY <1>1, <1>2, <1>3 DEF EnvSound

(* Where a call that waits for a lock, or holds it, stands.                *)
LEMMA OfItsRoot ==
  ASSUME EnvSound, NEW c \in Calls, use[c].at \in Locked \cup {"lock"}
  PROVE  /\ RootOf[c] \in Roots
         /\ use[c].vm \in 1..Len(managers)
         /\ use[c].vm = managerOf[RootOf[c]]
         /\ managers[use[c].vm] \in Manager
<1>1. RootOf[c] \in Roots
  BY EnvAssumption
<1>2. Len(managers) \in Nat
  BY LenProperties DEF EnvSound, EnvTypeOK
<1>3. use[c].vm \in 1..Len(managers) /\ use[c].vm = managerOf[RootOf[c]]
  BY <1>1, <1>2 DEF EnvSound, EnvTypeOK, Owned
<1>4. managers[use[c].vm] \in Manager
  BY <1>3, ElementOfSeq DEF EnvSound, EnvTypeOK
<1> QED BY <1>1, <1>3, <1>4

(* A step of one call under its own manager: when it was free or the       *)
(* call's own, what the step writes is typed, versions only go forward,    *)
(* and a call let run has what it asked for, everything sound stays so.    *)
LEMMA ManagerStep ==
  ASSUME EnvSound, NEW c \in Calls, use[c].at \in Locked \cup {"lock"},
         managers[use[c].vm].holder \in {c, NoCall},
         NEW m \in Manager, managers' = [managers EXCEPT ![use[c].vm] = m],
         NEW step \in Steps, step \in Locked => m.holder = c, step # "lock",
         NEW hash \in 0..MaxEdits, hash <= disk[RootOf[c]].req,
         use' = [use EXCEPT ![c] = [at |-> step, vm |-> use[c].vm, hash |-> hash]],
         managerOf' = managerOf, removals' = removals,
         disk' \in [Roots -> [venv : {"none", "broken", "made"},
                              has : 0..MaxEdits, req : 0..MaxEdits]],
         wiped' \in [Roots -> BOOLEAN],
         \A r \in Roots : /\ disk'[r].req = disk[r].req
                          /\ disk[r].has <= disk'[r].has
                          /\ disk'[r].has <= disk[r].req
                          /\ wiped[r] => wiped'[r] \/ disk'[r].has = disk[r].req,
         m.hash <= disk[RootOf[c]].req,
         m.hash <= disk'[RootOf[c]].has \/ wiped'[RootOf[c]],
         step = "ready" => hash <= disk'[RootOf[c]].has \/ wiped'[RootOf[c]]
  PROVE  EnvSound'
<1>1. /\ RootOf[c] \in Roots
      /\ use[c].vm \in 1..Len(managers)
      /\ use[c].vm = managerOf[RootOf[c]]
  BY OfItsRoot
<1>2. managers \in Seq(Manager) /\ Len(managers) \in Nat
  BY LenProperties DEF EnvSound, EnvTypeOK
<1>3. /\ managers' \in Seq(Manager)
      /\ Len(managers') = Len(managers)
      /\ \A j \in 1..Len(managers) :
            managers'[j] = IF j = use[c].vm THEN m ELSE managers[j]
  BY <1>1, <1>2, ExceptSeq
<1>4. use \in [Calls -> [at : Steps, vm : 0..Len(managers), hash : 0..MaxEdits]]
  BY DEF EnvSound, EnvTypeOK
<1>5. /\ use'[c] = [at |-> step, vm |-> use[c].vm, hash |-> hash]
      /\ \A d \in Calls : d # c => use'[d] = use[d]
  BY <1>4
<1>6. use' \in [Calls -> [at : Steps, vm : 0..Len(managers), hash : 0..MaxEdits]]
  BY <1>1, <1>4
<1>7. managerOf \in [Roots -> 0..Len(managers)]
  BY DEF EnvSound, EnvTypeOK
<1>8. EnvTypeOK'
  BY <1>3, <1>6, <1>7 DEF EnvSound, EnvTypeOK
<1>9. Owned'
  <2>1. ASSUME NEW d \in Calls, d # c, use[d].at \in Locked
        PROVE  managers'[use[d].vm].holder = d
    <3>1. use[d].vm \in 1..Len(managers) /\ managers[use[d].vm].holder = d
      BY <2>1, OfItsRoot DEF EnvSound, Owned
    <3>2. use[d].vm # use[c].vm
      BY <2>1, <3>1, EnvAssumption
    <3> QED BY <1>3, <3>1, <3>2
  <2>2. managers'[use[c].vm] = m
    BY <1>1, <1>3
  <2> QED BY <1>1, <1>5, <2>1, <2>2 DEF EnvSound, Owned
<1>10. Apart'
  BY DEF EnvSound, Apart
<1>11. Versions'
  <2>1. \A r \in Roots : disk'[r].has <= disk'[r].req
    OBVIOUS
  <2>2. ASSUME NEW d \in Calls PROVE use'[d].hash <= disk'[RootOf[d]].req
    BY <1>5, EnvAssumption DEF EnvSound, Versions
  <2>3. ASSUME NEW r \in Roots, managerOf[r] # 0
        PROVE  /\ managers'[managerOf[r]].hash <= disk'[r].req
               /\ managers'[managerOf[r]].hash <= disk'[r].has \/ wiped'[r]
    <3>1. CASE managerOf[r] = use[c].vm
      <4>1. r = RootOf[c]
        BY <1>1, <2>3, <3>1 DEF EnvSound, Apart
      <4> QED BY <1>1, <1>3, <4>1
    <3>2. CASE managerOf[r] # use[c].vm
      <4>1. managerOf[r] \in 1..Len(managers)
        BY <1>2, <1>7, <2>3
      <4>2. managers'[managerOf[r]].hash = managers[managerOf[r]].hash
        BY <1>3, <3>2, <4>1
      <4>3. managers[managerOf[r]].hash \in Nat
        <5>1. managers[managerOf[r]] \in Manager
          BY <1>2, <4>1, ElementOfSeq
        <5> QED BY <5>1, EnvAssumption DEF Manager
      <4>4. /\ managers[managerOf[r]].hash <= disk[r].req
            /\ managers[managerOf[r]].hash <= disk[r].has \/ wiped[r]
        BY <2>3 DEF EnvSound, Versions
      <4>5. disk[r].has \in Nat /\ disk'[r].has \in Nat
        BY EnvAssumption DEF EnvSound, EnvTypeOK
      <4> QED BY <4>2, <4>3, <4>4, <4>5, EnvAssumption
    <3> QED BY <3>1, <3>2
  <2> QED BY <2>1, <2>2, <2>3 DEF Versions
<1>12. PreparedForScript'
  <2>1. ASSUME NEW d \in Calls, d # c, use[d].at = "ready"
        PROVE  use[d].hash <= disk'[RootOf[d]].has \/ wiped'[RootOf[d]]
    <3>1. RootOf[d] \in Roots
      BY EnvAssumption
    <3>2. use[d].hash <= disk[RootOf[d]].req
          /\ (use[d].hash <= disk[RootOf[d]].has \/ wiped[RootOf[d]])
      BY <2>1 DEF EnvSound, Versions, PreparedForScript
    <3>3. use[d].hash \in Nat /\ disk[RootOf[d]].has \in Nat
          /\ disk'[RootOf[d]].has \in Nat
      BY <1>4, <3>1, EnvAssumption DEF EnvSound, EnvTypeOK
    <3> QED BY <3>1, <3>2, <3>3
  <2>2. RootOf \in [Calls -> Roots]
    BY EnvAssumption
  <2> QED BY <1>5, <2>1, <2>2 DEF PreparedForScript
<1> QED BY <1>8, <1>9, <1>10, <1>11, <1>12 DEF EnvSound

(* A move changes the step and nothing else; releasing the lock keeps the  *)
(* hash.                                                                   *)
LEMMA Records ==
  ASSUME EnvSound, NEW c \in Calls
  PROVE  /\ use[c] = [at |-> use[c].at, vm |-> use[c].vm, hash |-> use[c].hash]
         /\ use[c].hash \in 0..MaxEdits
         /\ use[c].hash <= disk[RootOf[c]].req
         /\ \A step \in Steps : Move(c, step) =>
              use' = [use EXCEPT ![c] = [at |-> step, vm |-> use[c].vm, hash |-> use[c].hash]]
<1>1. use \in [Calls -> [at : Steps, vm : 0..Len(managers), hash : 0..MaxEdits]]
  BY DEF EnvSound, EnvTypeOK
<1>2. use[c] = [at |-> use[c].at, vm |-> use[c].vm, hash |-> use[c].hash]
      /\ use[c].hash \in 0..MaxEdits
  BY <1>1
<1>3. use[c].hash <= disk[RootOf[c]].req
  BY DEF EnvSound, Versions
<1> QED BY <1>2, <1>3 DEF Move

LEMMA Unlocking ==
  ASSUME EnvSound, NEW c \in Calls, use[c].at \in Locked \cup {"lock"},
         NEW holder \in {c, NoCall}
  PROVE  LET m == [hash |-> managers[use[c].vm].hash, holder |-> holder] IN
         /\ m \in Manager
         /\ [managers EXCEPT ![use[c].vm].holder = holder] = [managers EXCEPT ![use[c].vm] = m]
         /\ m.hash <= disk[RootOf[c]].req
         /\ m.hash <= disk[RootOf[c]].has \/ wiped[RootOf[c]]
         /\ RootOf[c] \in Roots
<1>1. /\ RootOf[c] \in Roots
      /\ use[c].vm \in 1..Len(managers)
      /\ use[c].vm = managerOf[RootOf[c]]
      /\ managers[use[c].vm] \in Manager
  BY OfItsRoot
<1>2. /\ managers[use[c].vm].hash \in 0..MaxEdits
      /\ managers[use[c].vm] = [hash |-> managers[use[c].vm].hash,
                                holder |-> managers[use[c].vm].holder]
  BY <1>1 DEF Manager
<1>3. /\ managers[use[c].vm].hash <= disk[RootOf[c]].req
      /\ managers[use[c].vm].hash <= disk[RootOf[c]].has \/ wiped[RootOf[c]]
  <2>1. managerOf[RootOf[c]] # 0
    BY <1>1
  <2> QED BY <1>1, <2>1 DEF EnvSound, Versions
<1> DEFINE m == [hash |-> managers[use[c].vm].hash, holder |-> holder]
<1>4. m \in Manager
  BY <1>2 DEF Manager
<1>5. [managers EXCEPT ![use[c].vm].holder = holder] = [managers EXCEPT ![use[c].vm] = m]
  <2>1. [managers[use[c].vm] EXCEPT !.holder = holder] = m
    BY <1>2
  <2> QED BY <2>1
<1>6. m.hash = managers[use[c].vm].hash
  OBVIOUS
<1> QED BY <1>1, <1>3, <1>4, <1>5, <1>6

\* What the disk holds is typed, and versions installed are not ahead.
LEMMA OnDisk ==
  ASSUME EnvSound
  PROVE  /\ disk \in [Roots -> [venv : {"none", "broken", "made"},
                                has : 0..MaxEdits, req : 0..MaxEdits]]
         /\ wiped \in [Roots -> BOOLEAN]
         /\ \A r \in Roots : /\ disk[r].has \in Nat /\ disk[r].req \in Nat
                             /\ disk[r].has <= disk[r].req
BY EnvAssumption DEF EnvSound, EnvTypeOK, Versions

\* What a call read of requirements.txt was there.
LEMMA Reading ==
  ASSUME EnvSound, NEW c \in Calls
  PROVE  /\ RootOf[c] \in Roots
         /\ use[c].hash \in Nat
         /\ use[c].hash <= disk[RootOf[c]].req
<1>1. use[c].hash \in 0..MaxEdits /\ use[c].hash <= disk[RootOf[c]].req
  BY Records
<1> QED BY <1>1, EnvAssumption

LEMMA LockStep == ASSUME EnvSound, NEW c \in Calls, Lock(c) PROVE EnvSound'
<1> DEFINE step == IF disk[RootOf[c]].venv = "none" THEN "create" ELSE "read"
           m == [hash |-> managers[use[c].vm].hash, holder |-> c]
<1>1. /\ use[c].at \in Locked \cup {"lock"}
      /\ managers[use[c].vm].holder \in {c, NoCall}
      /\ step \in Steps /\ step # "lock" /\ step # "ready"
      /\ UNCHANGED <<disk, managerOf, removals, wiped>>
  BY DEF Lock, Steps
<1>2. /\ m \in Manager
      /\ managers' = [managers EXCEPT ![use[c].vm] = m]
      /\ m.hash <= disk[RootOf[c]].req
      /\ m.hash <= disk'[RootOf[c]].has \/ wiped'[RootOf[c]]
      /\ m.holder = c
  BY <1>1, Unlocking DEF Lock
<1>3. use' = [use EXCEPT ![c] = [at |-> step, vm |-> use[c].vm, hash |-> use[c].hash]]
  BY <1>1, Records DEF Lock
<1>4. /\ use[c].hash \in 0..MaxEdits
      /\ use[c].hash <= disk[RootOf[c]].req
  BY Records
<1>5. /\ disk' \in [Roots -> [venv : {"none", "broken", "made"},
                              has : 0..MaxEdits, req : 0..MaxEdits]]
      /\ wiped' \in [Roots -> BOOLEAN]
      /\ \A r \in Roots : /\ disk'[r].req = disk[r].req
                          /\ disk[r].has <= disk'[r].has
                          /\ disk'[r].has <= disk[r].req
                          /\ wiped[r] => wiped'[r] \/ disk'[r].has = disk[r].req
  BY <1>1, OnDisk
<1> HIDE DEF step, m
<1> QED BY <1>1, <1>2, <1>3, <1>4, <1>5, ManagerStep

(* python -m venv, whatever comes of it, changes no version.               *)
LEMMA CreateStep ==
  ASSUME EnvSound, NEW c \in Calls, Create(c) \/ CreateFails(c)
  PROVE  EnvSound'
<1>1. PICK left \in {"none", "broken", "made"} : disk' = [disk EXCEPT ![RootOf[c]].venv = left]
  BY DEF Create, CreateFails
<1>2. /\ use[c].at \in Locked \cup {"lock"}
      /\ managers[use[c].vm].holder = c
      /\ UNCHANGED <<managerOf, removals, wiped>>
  BY DEF Create, CreateFails, Locked, EnvSound, Owned
<1>3. PICK step \in {"read", "failed"}, holder \in {c, NoCall} :
          /\ Move(c, step)
          /\ managers' = [managers EXCEPT ![use[c].vm].holder = holder]
          /\ step \in Locked => holder = c
  <2>1. CASE Create(c)
    <3>1. managers' = [managers EXCEPT ![use[c].vm].holder = c]
      <4>1. managers \in Seq(Manager) /\ use[c].vm \in 1..Len(managers)
            /\ managers[use[c].vm] \in Manager
        BY <1>2, OfItsRoot DEF EnvSound, EnvTypeOK
      <4>2. managers[use[c].vm] = [managers[use[c].vm] EXCEPT !.holder = c]
        BY <1>2, <4>1 DEF Manager
      <4>3. managers = [managers EXCEPT ![use[c].vm] = managers[use[c].vm]]
        BY <4>1
      <4> QED BY <2>1, <4>2, <4>3 DEF Create
    <3> QED BY <2>1, <3>1 DEF Create
  <2>2. CASE CreateFails(c)
    BY <2>2 DEF CreateFails, Unlocked, Locked
  <2> QED BY <2>1, <2>2
<1> DEFINE m == [hash |-> managers[use[c].vm].hash, holder |-> holder]
<1>4. /\ disk' \in [Roots -> [venv : {"none", "broken", "made"},
                              has : 0..MaxEdits, req : 0..MaxEdits]]
      /\ \A r \in Roots : disk'[r].req = disk[r].req /\ disk'[r].has = disk[r].has
  BY <1>1, OnDisk
<1>5. /\ m \in Manager
      /\ managers' = [managers EXCEPT ![use[c].vm] = m]
      /\ m.hash <= disk[RootOf[c]].req
      /\ m.hash <= disk[RootOf[c]].has \/ wiped[RootOf[c]]
      /\ m.holder = holder
      /\ RootOf[c] \in Roots
  BY <1>2, <1>3, Unlocking
<1>6. /\ step \in Steps /\ step # "lock" /\ step # "ready"
      /\ use' = [use EXCEPT ![c] = [at |-> step, vm |-> use[c].vm, hash |-> use[c].hash]]
  BY <1>3, Records DEF Steps
<1>7. /\ use[c].hash \in 0..MaxEdits
      /\ use[c].hash <= disk[RootOf[c]].req
  BY Records
<1>8. /\ wiped' \in [Roots -> BOOLEAN]
      /\ \A r \in Roots : /\ disk'[r].req = disk[r].req
                          /\ disk[r].has <= disk'[r].has
                          /\ disk'[r].has <= disk[r].req
                          /\ wiped[r] => wiped'[r] \/ disk'[r].has = disk[r].req
  BY <1>2, <1>4, OnDisk
<1>9. /\ managers[use[c].vm].holder \in {c, NoCall}
      /\ step \in Locked => m.holder = c
      /\ m.hash <= disk'[RootOf[c]].has \/ wiped'[RootOf[c]]
  BY <1>2, <1>3, <1>4, <1>5
<1> HIDE DEF m
<1> QED BY <1>2, <1>4, <1>5, <1>6, <1>7, <1>8, <1>9, ManagerStep

\* The manager under the caller's own lock, written back as it is.
LEMMA Untouched ==
  ASSUME EnvSound, NEW c \in Calls, use[c].at \in Locked
  PROVE  managers = [managers EXCEPT ![use[c].vm].holder = c]
<1>1. managers \in Seq(Manager) /\ use[c].vm \in 1..Len(managers)
      /\ managers[use[c].vm] \in Manager
  BY OfItsRoot DEF EnvSound, EnvTypeOK
<1>2. managers[use[c].vm].holder = c
  BY DEF EnvSound, Owned
<1>3. managers[use[c].vm] = [managers[use[c].vm] EXCEPT !.holder = c]
  BY <1>1, <1>2 DEF Manager
<1>4. managers = [managers EXCEPT ![use[c].vm] = managers[use[c].vm]]
  BY <1>1
<1> QED BY <1>3, <1>4

(* A call that finds nothing to install asked for nothing, or for what     *)
(* the manager remembers.                                                  *)
LEMMA ReadStep == ASSUME EnvSound, NEW c \in Calls, ReadRequirements(c) PROVE EnvSound'
<1> DEFINE req == disk[RootOf[c]].req
           done == req = 0 \/ req = managers[use[c].vm].hash
           step == IF done THEN "ready" ELSE "install"
           holder == IF done THEN NoCall ELSE c
           m == [hash |-> managers[use[c].vm].hash, holder |-> holder]
<1>1. /\ use[c].at \in Locked /\ use[c].at \in Locked \cup {"lock"}
      /\ managers[use[c].vm].holder \in {c, NoCall}
      /\ step \in Steps /\ step # "lock"
      /\ step \in Locked => m.holder = c
      /\ UNCHANGED <<disk, managerOf, removals, wiped>>
  BY DEF ReadRequirements, Steps, Locked, EnvSound, Owned
<1>2. managers' = [managers EXCEPT ![use[c].vm].holder = holder]
  BY <1>1, Untouched DEF ReadRequirements, Unlocked
<1>3. /\ m \in Manager
      /\ managers' = [managers EXCEPT ![use[c].vm] = m]
      /\ m.hash = managers[use[c].vm].hash
      /\ m.hash <= disk[RootOf[c]].req
      /\ m.hash <= disk'[RootOf[c]].has \/ wiped'[RootOf[c]]
      /\ RootOf[c] \in Roots
  <2>1. holder \in {c, NoCall}
    OBVIOUS
  <2> HIDE DEF holder
  <2> QED BY <1>1, <1>2, <2>1, Unlocking
<1>4. req \in 0..MaxEdits /\ req <= disk[RootOf[c]].req /\ disk[RootOf[c]].has \in Nat
  BY <1>3, OnDisk
<1>5. use' = [use EXCEPT ![c] = [at |-> step, vm |-> use[c].vm, hash |-> req]]
  BY DEF ReadRequirements
<1>6. step = "ready" => req <= disk'[RootOf[c]].has \/ wiped'[RootOf[c]]
  BY <1>1, <1>3, <1>4
<1>7. /\ disk' \in [Roots -> [venv : {"none", "broken", "made"},
                              has : 0..MaxEdits, req : 0..MaxEdits]]
      /\ wiped' \in [Roots -> BOOLEAN]
      /\ \A r \in Roots : /\ disk'[r].req = disk[r].req
                          /\ disk[r].has <= disk'[r].has
                          /\ disk'[r].has <= disk[r].req
                          /\ wiped[r] => wiped'[r] \/ disk'[r].has = disk[r].req
  BY <1>1, OnDisk
<1> HIDE DEF req, done, step, holder, m
<1> QED BY <1>1, <1>3, <1>4, <1>5, <1>6, <1>7, ManagerStep

(* pip reads requirements.txt itself, so what is installed is at least     *)
(* what the call read, and no other call of the directory asked for more.  *)
LEMMA InstallStep == ASSUME EnvSound, NEW c \in Calls, Install(c) PROVE EnvSound'
<1> DEFINE m == [hash |-> use[c].hash, holder |-> NoCall]
<1>1. /\ use[c].at \in Locked \cup {"lock"}
      /\ managers[use[c].vm].holder \in {c, NoCall}
      /\ managers' = [managers EXCEPT ![use[c].vm] = m]
      /\ UNCHANGED <<managerOf, removals>>
  BY DEF Install, Locked, EnvSound, Owned
<1>2. RootOf[c] \in Roots
  BY EnvAssumption
<1>3. /\ disk' = [disk EXCEPT ![RootOf[c]].has = disk[RootOf[c]].req]
      /\ wiped' = [wiped EXCEPT ![RootOf[c]] = FALSE]
  BY DEF Install
<1>4. /\ disk' \in [Roots -> [venv : {"none", "broken", "made"},
                              has : 0..MaxEdits, req : 0..MaxEdits]]
      /\ \A r \in Roots : /\ disk'[r].req = disk[r].req
                          /\ disk'[r].has = IF r = RootOf[c] THEN disk[r].req ELSE disk[r].has
  BY <1>2, <1>3, OnDisk
<1>5. /\ wiped' \in [Roots -> BOOLEAN]
      /\ \A r \in Roots : /\ disk'[r].req = disk[r].req
                          /\ disk[r].has <= disk'[r].has
                          /\ disk'[r].has <= disk[r].req
                          /\ wiped[r] => wiped'[r] \/ disk'[r].has = disk[r].req
  BY <1>2, <1>3, <1>4, OnDisk
<1>6. use' = [use EXCEPT ![c] = [at |-> "ready", vm |-> use[c].vm, hash |-> use[c].hash]]
      /\ use[c].hash \in 0..MaxEdits /\ use[c].hash <= disk[RootOf[c]].req
  BY Records DEF Install, Steps
<1>7. /\ m \in Manager
      /\ m.hash = use[c].hash
      /\ m.hash <= disk[RootOf[c]].req
      /\ m.hash <= disk'[RootOf[c]].has \/ wiped'[RootOf[c]]
      /\ use[c].hash <= disk'[RootOf[c]].has \/ wiped'[RootOf[c]]
  BY <1>2, <1>4, <1>6 DEF Manager
<1>8. "ready" \in Steps /\ "ready" # "lock" /\ ("ready" \in Locked => m.holder = c)
  BY DEF Steps, Locked
<1> HIDE DEF m
<1> QED BY <1>1, <1>4, <1>5, <1>6, <1>7, <1>8, ManagerStep

LEMMA InstallFailsStep ==
  ASSUME EnvSound, NEW c \in Calls, InstallFails(c)
  PROVE  EnvSound'
<1> DEFINE m == [hash |-> managers[use[c].vm].hash, holder |-> NoCall]
<1>1. /\ use[c].at \in Locked \cup {"lock"}
      /\ managers[use[c].vm].holder \in {c, NoCall}
      /\ UNCHANGED <<disk, managerOf, removals, wiped>>
  BY DEF InstallFails, Locked, EnvSound, Owned
<1>2. /\ m \in Manager
      /\ managers' = [managers EXCEPT ![use[c].vm] = m]
      /\ m.hash <= disk[RootOf[c]].req
      /\ m.hash <= disk'[RootOf[c]].has \/ wiped'[RootOf[c]]
  BY <1>1, Unlocking DEF InstallFails, Unlocked
<1>3. /\ use' = [use EXCEPT ![c] = [at |-> "failed", vm |-> use[c].vm, hash |-> use[c].hash]]
      /\ use[c].hash \in 0..MaxEdits /\ use[c].hash <= disk[RootOf[c]].req
  BY Records DEF InstallFails, Steps
<1>4. /\ disk' \in [Roots -> [venv : {"none", "broken", "made"},
                              has : 0..MaxEdits, req : 0..MaxEdits]]
      /\ wiped' \in [Roots -> BOOLEAN]
      /\ \A r \in Roots : /\ disk'[r].req = disk[r].req
                          /\ disk[r].has <= disk'[r].has
                          /\ disk'[r].has <= disk[r].req
                          /\ wiped[r] => wiped'[r] \/ disk'[r].has = disk[r].req
  BY <1>1, OnDisk
<1>5. /\ "failed" \in Steps /\ "failed" # "lock" /\ "failed" # "ready"
      /\ "failed" \in Locked => m.holder = c
  BY DEF Steps, Locked
<1> HIDE DEF m
<1> QED BY <1>1, <1>2, <1>3, <1>4, <1>5, ManagerStep

-----------------------------------------------------------------------------

\* executePython, while no call of this one is under way.
LEMMA LookUpStep ==
  ASSUME EnvSound, NEW c \in Calls, LookUp(c)
  PROVE  EnvSound'
<1> DEFINE r == RootOf[c]
           new == managerOf[r] = 0
           v == IF new THEN Len(managers) + 1 ELSE managerOf[r]
           fresh == [hash |-> 0, holder |-> NoCall]
<1>1. /\ r \in Roots
      /\ managers \in Seq(Manager) /\ Len(managers) \in Nat
      /\ managerOf \in [Roots -> 0..Len(managers)]
      /\ use \in [Calls -> [at : Steps, vm : 0..Len(managers), hash : 0..MaxEdits]]
  BY EnvAssumption, LenProperties DEF EnvSound, EnvTypeOK
<1>2. /\ managers' = IF new THEN Append(managers, fresh) ELSE managers
      /\ managerOf' = [managerOf EXCEPT ![r] = v]
      /\ use' = [use EXCEPT ![c] = [at |-> "lock", vm |-> v, hash |-> 0]]
      /\ UNCHANGED <<disk, removals, wiped>>
  BY DEF LookUp
<1>3. fresh \in Manager /\ fresh.hash = 0
  BY EnvAssumption DEF Manager
<1>4. /\ managers' \in Seq(Manager)
      /\ Len(managers') \in Nat /\ Len(managers) <= Len(managers')
      /\ v \in 1..Len(managers')
      /\ \A i \in 1..Len(managers) : managers'[i] = managers[i]
      /\ new => managers'[v] = fresh /\ v > Len(managers)
  <2>1. CASE new
    BY <1>1, <1>2, <1>3, <2>1, AppendProperties
  <2>2. CASE ~new
    BY <1>1, <1>2, <2>2
  <2> QED BY <2>1, <2>2
<1>5. /\ ~new => v = managerOf[r]
      /\ \A q \in Roots : managerOf'[q] = IF q = r THEN v ELSE managerOf[q]
      /\ \A d \in Calls : use'[d] = IF d = c THEN [at |-> "lock", vm |-> v, hash |-> 0]
                                    ELSE use[d]
  BY <1>1, <1>2
<1> HIDE DEF r, new, v, fresh
<1>6. EnvTypeOK'
  <2>1. managerOf' \in [Roots -> 0..Len(managers')]
    BY <1>1, <1>2, <1>4
  <2>2. use' \in [Calls -> [at : Steps, vm : 0..Len(managers'), hash : 0..MaxEdits]]
    <3>1. [at |-> "lock", vm |-> v, hash |-> 0]
             \in [at : Steps, vm : 0..Len(managers'), hash : 0..MaxEdits]
      BY <1>4, EnvAssumption DEF Steps
    <3>2. \A d \in Calls : use[d] \in [at : Steps, vm : 0..Len(managers'), hash : 0..MaxEdits]
      BY <1>1, <1>4
    <3> QED BY <1>1, <1>2, <3>1, <3>2
  <2> QED BY <1>2, <1>4, <2>1, <2>2 DEF EnvSound, EnvTypeOK
<1>7. ASSUME NEW d \in Calls, d # c, use[d].at \in Locked \cup {"lock"}
      PROVE  /\ use[d].vm = managerOf'[RootOf[d]] /\ use[d].vm # 0
             /\ use[d].at \in Locked => managers'[use[d].vm].holder = d
  <2>1. /\ RootOf[d] \in Roots
        /\ use[d].vm \in 1..Len(managers)
        /\ use[d].vm = managerOf[RootOf[d]]
    BY <1>7, OfItsRoot
  <2>2. RootOf[d] = r => ~new
    BY <2>1 DEF new, r
  <2>3. managerOf'[RootOf[d]] = managerOf[RootOf[d]]
    BY <1>5, <2>1, <2>2
  <2>4. use[d].at \in Locked => managers[use[d].vm].holder = d
    BY DEF EnvSound, Owned
  <2> QED BY <1>4, <2>1, <2>3, <2>4
<1>8. Owned'
  <2>1. RootOf[c] = r
    BY DEF r
  <2>2. "lock" \notin Locked
    BY DEF Locked
  <2> QED BY <1>1, <1>4, <1>5, <1>7, <2>1, <2>2 DEF Owned
<1>9. Apart'
  <2>1. new => \A q \in Roots : managerOf[q] # v
    BY <1>1, <1>4
  <2> QED BY <1>5, <2>1 DEF EnvSound, Apart
<1>10. Versions'
  <2>1. ASSUME NEW q \in Roots, managerOf'[q] # 0
        PROVE  /\ managers'[managerOf'[q]].hash <= disk[q].req
               /\ managers'[managerOf'[q]].hash <= disk[q].has \/ wiped[q]
    <3>1. CASE q = r /\ new
      <4>1. managers'[managerOf'[q]].hash = 0
        BY <1>3, <1>4, <1>5, <3>1
      <4> QED BY <4>1, OnDisk
    <3>2. CASE ~(q = r /\ new)
      <4>1. managerOf'[q] = managerOf[q]
        BY <1>5, <3>2
      <4>2. managerOf[q] \in 1..Len(managers)
        BY <1>1, <2>1, <4>1
      <4>3. managers'[managerOf'[q]] = managers[managerOf[q]]
        BY <1>4, <4>1, <4>2
      <4> QED BY <2>1, <4>1, <4>3 DEF EnvSound, Versions
    <3> QED BY <3>1, <3>2
  <2>2. \A d \in Calls : use'[d].hash <= disk[RootOf[d]].req
    BY <1>5, OnDisk, EnvAssumption DEF EnvSound, Versions
  <2> QED BY <1>2, <2>1, <2>2 DEF EnvSound, Versions
<1>11. PreparedForScript'
  BY <1>2, <1>5 DEF EnvSound, PreparedForScript
<1> QED BY <1>6, <1>8, <1>9, <1>10, <1>11 DEF EnvSound

LEMMA LeaveStep == ASSUME EnvSound, NEW c \in Calls, Leave(c) PROVE EnvSound'
<1>1. use \in [Calls -> [at : Steps, vm : 0..Len(managers), hash : 0..MaxEdits]]
      /\ Len(managers) \in Nat
  BY LenProperties DEF EnvSound, EnvTypeOK
<1>2. Unused \in [at : Steps, vm : 0..Len(managers), hash : 0..MaxEdits]
      /\ Unused.at = "idle" /\ Unused.hash = 0
  BY <1>1, EnvAssumption DEF Unused, Steps
<1>3. /\ use' \in [Calls -> [at : Steps, vm : 0..Len(managers), hash : 0..MaxEdits]]
      /\ \A d \in Calls : use'[d] = IF d = c THEN Unused ELSE use[d]
      /\ UNCHANGED <<disk, managers, managerOf, removals, wiped>>
  BY <1>1, <1>2 DEF Leave
<1>4. EnvTypeOK'
  BY <1>3 DEF EnvSound, EnvTypeOK
<1>5. Owned' /\ PreparedForScript'
  BY <1>2, <1>3 DEF EnvSound, Owned, PreparedForScript, Locked
<1>6. Apart'
  BY <1>3 DEF EnvSound, Apart
<1>7. Versions'
  <2>1. ASSUME NEW d \in Calls PROVE use'[d].hash <= disk[RootOf[d]].req
    <3>1. disk[RootOf[d]].req \in Nat /\ use[d].hash <= disk[RootOf[d]].req
      BY Reading, OnDisk
    <3> QED BY <1>2, <1>3, <3>1
  <2> QED BY <1>3, <2>1 DEF EnvSound, Versions
<1> QED BY <1>4, <1>5, <1>6, <1>7 DEF EnvSound

(* Somebody edits requirements.txt or deletes .venv.                       *)
LEMMA OutsideStep == ASSUME EnvSound, Outside PROVE EnvSound'
<1>1. PICK r \in Roots : EditRequirements(r) \/ RemoveVenv(r)
  BY DEF Outside
<1>2. /\ UNCHANGED <<managers, managerOf, use>>
      /\ removals' \in 0..MaxRemovals
  BY <1>1, EnvAssumption DEF EditRequirements, RemoveVenv, EnvSound, EnvTypeOK
<1>3. /\ disk' \in [Roots -> [venv : {"none", "broken", "made"},
                              has : 0..MaxEdits, req : 0..MaxEdits]]
      /\ wiped' \in [Roots -> BOOLEAN]
      /\ \A q \in Roots : /\ disk[q].req <= disk'[q].req
                          /\ disk'[q].has <= disk'[q].req
                          /\ disk'[q].has = disk[q].has \/ wiped'[q]
                          /\ wiped[q] => wiped'[q]
  <2>1. CASE EditRequirements(r)
    <3>1. disk[r].req + 1 \in 0..MaxEdits
      BY <2>1, OnDisk, EnvAssumption DEF EditRequirements
    <3> QED BY <2>1, <3>1, OnDisk DEF EditRequirements
  <2>2. CASE RemoveVenv(r)
    <3>1. 0 \in 0..MaxEdits
      BY EnvAssumption
    <3> QED BY <2>2, <3>1, OnDisk DEF RemoveVenv
  <2> QED BY <1>1, <2>1, <2>2
<1>4. EnvTypeOK' /\ Owned' /\ Apart'
  BY <1>2, <1>3 DEF EnvSound, EnvTypeOK, Owned, Apart
<1>5. \A q \in Roots : disk'[q].req \in Nat /\ disk'[q].has \in Nat
  BY <1>3, EnvAssumption
<1>6. ASSUME NEW q \in Roots, NEW h \in Nat, h <= disk[q].req
      PROVE  /\ h <= disk'[q].req
             /\ (h <= disk[q].has \/ wiped[q]) => (h <= disk'[q].has \/ wiped'[q])
  BY <1>3, <1>5, <1>6, OnDisk
<1>7. Versions'
  <2>1. ASSUME NEW d \in Calls PROVE use[d].hash <= disk'[RootOf[d]].req
    BY <1>6, Reading
  <2>2. ASSUME NEW q \in Roots, managerOf[q] # 0
        PROVE  /\ managers[managerOf[q]].hash <= disk'[q].req
               /\ managers[managerOf[q]].hash <= disk'[q].has \/ wiped'[q]
    <3>1. managers[managerOf[q]] \in Manager
      <4>1. managers \in Seq(Manager) /\ managerOf[q] \in 1..Len(managers)
        BY <2>2, LenProperties DEF EnvSound, EnvTypeOK
      <4> QED BY <4>1, ElementOfSeq
    <3>2. managers[managerOf[q]].hash \in Nat
      BY <3>1, EnvAssumption DEF Manager
    <3>3. /\ managers[managerOf[q]].hash <= disk[q].req
          /\ managers[managerOf[q]].hash <= disk[q].has \/ wiped[q]
      BY <2>2 DEF EnvSound, Versions
    <3> QED BY <1>6, <3>2, <3>3
  <2> QED BY <1>2, <1>3, <2>1, <2>2 DEF Versions
<1>8. PreparedForScript'
  <2>1. ASSUME NEW d \in Calls, use[d].at = "ready"
        PROVE  use[d].hash <= disk'[RootOf[d]].has \/ wiped'[RootOf[d]]
    <3>1. use[d].hash \in Nat /\ use[d].hash <= disk[RootOf[d]].req /\ RootOf[d] \in Roots
      BY Reading
    <3>2. use[d].hash <= disk[RootOf[d]].has \/ wiped[RootOf[d]]
      BY <2>1 DEF EnvSound, PreparedForScript
    <3> QED BY <1>6, <3>1, <3>2
  <2> QED BY <1>2, <2>1 DEF PreparedForScript
<1> QED BY <1>4, <1>7, <1>8 DEF EnvSound

LEMMA EnvRestartStep == ASSUME EnvSound, EnvRestart PROVE EnvSound'
<1>1. /\ managers' = <<>>
      /\ managerOf' = [r \in Roots |-> 0]
      /\ use' = [c \in Calls |-> Unused]
      /\ wiped' = [r \in Roots |-> FALSE]
      /\ UNCHANGED <<disk, removals>>
  BY DEF EnvRestart
<1>2. EnvTypeOK'
  BY <1>1, EmptySeq, EnvAssumption DEF EnvSound, EnvTypeOK, Unused, Steps
<1>3. Owned' /\ Apart' /\ PreparedForScript'
  BY <1>1 DEF Owned, Apart, PreparedForScript, Unused, Locked
<1>4. Versions'
  BY <1>1, OnDisk, EnvAssumption DEF Versions, Unused
<1> QED BY <1>2, <1>3, <1>4 DEF EnvSound

(* The environments stay sound whatever tool calls, others and restarts    *)
(* do.                                                                     *)
LEMMA EnvSoundStep == EnvSound /\ EnvNext => EnvSound'
<1> SUFFICES ASSUME EnvSound, EnvNext PROVE EnvSound'
  OBVIOUS
<1>1. ASSUME NEW c \in Calls, EnsureStep(c) PROVE EnvSound'
  BY <1>1, CreateStep, ReadStep, InstallStep, InstallFailsStep DEF EnsureStep
<1>2. CASE UNCHANGED envVars
  BY <1>2 DEF envVars, EnvSound, EnvTypeOK, Owned, Apart, Versions, PreparedForScript
<1> QED BY <1>1, <1>2, LookUpStep, LockStep, LeaveStep, OutsideStep, EnvRestartStep DEF EnvNext

(* The lock lets one call at a time into an environment.                   *)
LEMMA SoundExcludes == EnvSound => OneInstaller
<1> SUFFICES ASSUME EnvSound, NEW r \in Roots
             PROVE  Cardinality({c \in Calls : RootOf[c] = r /\ use[c].at \in Locked}) <= 1
  BY DEF OneInstaller, Locked
<1> DEFINE inside == {c \in Calls : RootOf[c] = r /\ use[c].at \in Locked}
<1>1. \A c, d \in inside : c = d
  BY DEF EnvSound, Owned
<1> HIDE DEF inside
<1>2. CASE inside = {}
  BY <1>2, FS_EmptySet DEF inside
<1>3. CASE inside # {}
  <2>1. PICK c : inside = {c}
    BY <1>1, <1>3
  <2>2. Cardinality({c}) = 1
    BY FS_Singleton
  <2>3. Cardinality(inside) = 1
    BY <2>1, <2>2
  <2> QED BY <2>3 DEF inside
<1> QED BY <1>2, <1>3

-----------------------------------------------------------------------------
\* The environments.

(* Every step of a call, of its program and of a restart is, for the       *)
(* environments, one of theirs.                                            *)
LEMMA StepsOfEnvironments == [Next]_vars => EnvNext
<1> SUFFICES ASSUME [Next]_vars PROVE EnvNext
  OBVIOUS
<1>1. ASSUME NEW c \in Calls, Proceed(c) PROVE EnvNext
  <2>1. CASE Prepare(c)
    BY <2>1 DEF Prepare, EnvNext
  <2>2. CASE Refuse(c) \/ PythonFails(c) \/ Report(c)
    <3>1. Leave(c)
      BY <2>2 DEF Refuse, PythonFails, Report, Return, Leave
    <3> QED BY <3>1 DEF EnvNext
  <2>3. CASE Start(c) \/ StartFails(c)
    <3>1. Leave(c)
      BY <2>3 DEF Start, StartFails, Begin, Leave
    <3> QED BY <3>1 DEF EnvNext
  <2>4. CASE Reap(c) \/ GiveUp(c)
    BY <2>4 DEF Reap, GiveUp, Only, EnvNext
  <2> QED BY <1>1, <2>1, <2>2, <2>3, <2>4 DEF Proceed
<1>2. ASSUME NEW c \in Calls, Ensure(c) \/ TakeLock(c) PROVE EnvNext
  BY <1>2 DEF Ensure, TakeLock, EnvNext
<1>3. ASSUME NEW c \in Calls,
             Program(c) \/ Copy(c) \/ Deadline(c) \/ Cancelled(c) \/ Kill(c) \/ Invoke(c)
      PROVE  EnvNext
  <2>1. UNCHANGED envVars
    BY <1>3 DEF Program, Prints, Complains, Forks, BackgroundEnds, Exits, Copy, Deadline,
                Cancelled, Kill, Only, Invoke
  <2> QED BY <2>1 DEF EnvNext
<1>4. CASE Environment
  BY <1>4 DEF Environment, EnvNext
<1>5. CASE Restart
  BY <1>5 DEF Restart, EnvNext
<1>6. CASE UNCHANGED vars
  BY <1>6 DEF vars, EnvNext
<1> QED BY <1>1, <1>2, <1>3, <1>4, <1>5, <1>6 DEF Next

LEMMA EnvSoundAlways == Spec => []EnvSound
<1>1. Init => EnvSound
  BY EnvSoundInit DEF Init
<1>2. EnvSound /\ [Next]_vars => EnvSound'
  BY EnvSoundStep, StepsOfEnvironments
<1> QED BY <1>1, <1>2, PTL DEF Spec

(* However many calls, directories, edits, deletions, failed installations *)
(* and restarts there are: a script is let run with what its call found    *)
(* required, unless the environment was deleted after it was filled, and   *)
(* no two calls fill one environment at once.                              *)
THEOREM EnvironmentsSound == Spec => []EnvironmentSound
<1>1. EnvSound => EnvironmentSound
  BY SoundExcludes DEF EnvSound, EnvironmentSound
<1> QED BY <1>1, EnvSoundAlways, PTL

-----------------------------------------------------------------------------
\* The processes.

CallFields == {"phase", "ctx", "child", "code", "bg", "killed", "out", "errs", "taken",
               "buf", "err", "result"}
Empty(k) == k.bg = {} /\ k.taken = Len(k.out)

(* What the states of one call mean, phase by phase.                       *)
Sane(c, k) ==
    /\ DOMAIN k = CallFields
    /\ k.phase \in {"start", "run", "reaped", "closed", "returned"}
    /\ k.phase = "start" => ~k.killed /\ k.err = "nil" /\ k.child = "none"
    /\ k.child = "alive" => k.phase = "run"
    /\ k.phase = "run" => k.child \in {"alive", "exited"}
    /\ k.killed => k.child = "exited" /\ (Bash(c) => "group" \notin k.bg)
    /\ k.phase = "reaped" => /\ k.child = "exited"
                             /\ k.err \in {"exit", "ctx", "nil"}
                             /\ k.err = "exit" <=> k.code # 0
    /\ k.phase = "closed" => /\ k.err # "nil"
                             /\ k.err = "exit" => k.code # 0
                             /\ ~Bash(c) => k.err = "start"
    /\ k.phase = "returned" /\ k.result.kind = "told" /\ k.result.exit = 0
          /\ ~k.result.interrupted => k.child = "exited" /\ k.code = 0 /\ Empty(k)

CallsSane == DOMAIN call = Calls /\ \A c \in Calls : Sane(c, call[c])

LEMMA FreshSane ==
  ASSUME NEW c \in Calls
  PROVE  Sane(c, Fresh) /\ Sane(c, [Fresh EXCEPT !.phase = "returned"])
BY DEF Sane, Fresh, Nothing, CallFields

\* A step changes one call, and leaves it sane.
LEMMA OneCall ==
  ASSUME CallsSane, NEW c \in Calls, NEW k, Sane(c, k), call' = [call EXCEPT ![c] = k]
  PROVE  CallsSane'
BY DEF CallsSane

LEMMA ProgramStep == ASSUME CallsSane, NEW c \in Calls, Program(c) PROVE CallsSane'
<1> DEFINE k == call[c]
<1>1. Sane(c, k) /\ DOMAIN k = CallFields
  BY DEF CallsSane, Sane
<1>2. ASSUME NEW ch \in Chars, Prints(c, ch) PROVE CallsSane'
  <2> DEFINE n == [k EXCEPT !.out = @ \o BytesOf(ch)]
  <2>1. k.phase # "returned" /\ call' = [call EXCEPT ![c] = n]
    BY <1>2 DEF Prints, InRun, Only
  <2>2. Sane(c, n)
    BY <1>1, <2>1 DEF Sane, CallFields
  <2> QED BY <2>1, <2>2, OneCall
<1>3. CASE Complains(c)
  <2> DEFINE n == [k EXCEPT !.errs = TRUE]
  <2>1. call' = [call EXCEPT ![c] = n]
    BY <1>3 DEF Complains, Only
  <2>2. Sane(c, n)
    BY <1>1 DEF Sane, CallFields, Empty
  <2> QED BY <2>1, <2>2, OneCall
<1>4. ASSUME NEW b \in Leaves[c], Forks(c, b) PROVE CallsSane'
  <2> DEFINE n == [k EXCEPT !.bg = @ \cup {b}]
  <2>1. k.child = "alive" /\ call' = [call EXCEPT ![c] = n]
    BY <1>4 DEF Forks, Only
  <2>2. Sane(c, n)
    BY <1>1, <2>1 DEF Sane, CallFields
  <2> QED BY <2>1, <2>2, OneCall
<1>5. ASSUME NEW b \in Leaves[c], BackgroundEnds(c, b) PROVE CallsSane'
  <2> DEFINE n == [k EXCEPT !.bg = @ \ {b}]
  <2>1. k.phase # "returned" /\ call' = [call EXCEPT ![c] = n]
    BY <1>5 DEF BackgroundEnds, InRun, Only
  <2>2. Sane(c, n)
    BY <1>1, <2>1 DEF Sane, CallFields
  <2> QED BY <2>1, <2>2, OneCall
<1>6. ASSUME NEW code \in {0, 1}, Exits(c, code) PROVE CallsSane'
  <2> DEFINE n == [k EXCEPT !.child = "exited", !.code = code]
  <2>1. k.child = "alive" /\ call' = [call EXCEPT ![c] = n]
    BY <1>6 DEF Exits, Only
  <2>2. Sane(c, n)
    BY <1>1, <2>1 DEF Sane, CallFields
  <2> QED BY <2>1, <2>2, OneCall
<1> QED BY <1>2, <1>3, <1>4, <1>5, <1>6 DEF Program

(* A kill takes Bash's group along; a child that is waited for is told by  *)
(* its code; a pipe given up is told as an error.                          *)
LEMMA WaitingStep ==
  ASSUME CallsSane, NEW c \in Calls,
         Copy(c) \/ Deadline(c) \/ Cancelled(c) \/ Kill(c) \/ Reap(c) \/ GiveUp(c)
  PROVE  CallsSane'
<1> DEFINE k == call[c]
<1>1. Sane(c, k) /\ DOMAIN k = CallFields
  BY DEF CallsSane, Sane
<1>2. CASE Copy(c)
  <2>1. PICK taken, buf : /\ k.phase # "returned"
                          /\ call' = [call EXCEPT ![c] = [k EXCEPT !.taken = taken, !.buf = buf]]
    BY <1>2 DEF Copy, InRun, Only
  <2>2. Sane(c, [k EXCEPT !.taken = taken, !.buf = buf])
    BY <1>1, <2>1 DEF Sane, CallFields
  <2> QED BY <2>1, <2>2, OneCall
<1>3. CASE Deadline(c) \/ Cancelled(c)
  <2>1. PICK ctx : k.phase # "returned" /\ call' = [call EXCEPT ![c] = [k EXCEPT !.ctx = ctx]]
    BY <1>3 DEF Deadline, Cancelled, InRun, Only
  <2>2. Sane(c, [k EXCEPT !.ctx = ctx])
    BY <1>1, <2>1 DEF Sane, CallFields
  <2> QED BY <2>1, <2>2, OneCall
<1>4. CASE Kill(c)
  <2> DEFINE code == IF k.child = "alive" THEN -1 ELSE k.code
             bg == IF Bash(c) THEN k.bg \ {"group"} ELSE k.bg
             n == [k EXCEPT !.killed = TRUE, !.child = "exited", !.code = code, !.bg = bg]
  <2>1. k.phase = "run" /\ call' = [call EXCEPT ![c] = n]
    BY <1>4 DEF Kill, Only
  <2>2. Bash(c) => "group" \notin bg
    OBVIOUS
  <2>3. Sane(c, n)
    <3> HIDE DEF code, bg, k
    <3> QED BY <1>1, <2>1, <2>2 DEF Sane, CallFields
  <2> QED BY <2>1, <2>3, OneCall
<1>5. CASE Reap(c)
  <2> DEFINE err == IF k.code # 0 THEN "exit" ELSE IF k.killed THEN "ctx" ELSE "nil"
             n == [k EXCEPT !.phase = "reaped", !.err = err]
  <2>1. /\ k.phase = "run" /\ k.child = "exited"
        /\ call' = [call EXCEPT ![c] = n]
    BY <1>5 DEF Reap, Only
  <2>2. err \in {"exit", "ctx", "nil"} /\ (err = "exit" <=> k.code # 0)
    OBVIOUS
  <2>3. Sane(c, n)
    <3> HIDE DEF err, k
    <3> QED BY <1>1, <2>1, <2>2 DEF Sane, CallFields
  <2> QED BY <2>1, <2>3, OneCall
<1>6. CASE GiveUp(c)
  <2> DEFINE err == IF k.err = "nil" THEN "delay" ELSE k.err
             n == [k EXCEPT !.phase = "closed", !.err = err]
  <2>1. /\ Bash(c) /\ k.phase = "reaped"
        /\ call' = [call EXCEPT ![c] = n]
    BY <1>6 DEF GiveUp, Only
  <2>2. err # "nil" /\ (err = "exit" => k.code # 0)
    BY <1>1, <2>1 DEF Sane
  <2>3. Sane(c, n)
    <3> HIDE DEF err, k
    <3> QED BY <1>1, <2>1, <2>2 DEF Sane, CallFields
  <2> QED BY <2>1, <2>3, OneCall
<1> QED BY <1>2, <1>3, <1>4, <1>5, <1>6

(* What is told: a success only of a child that exited with 0 and whose    *)
(* pipe was read to its end.                                               *)
LEMMA ReturnStep ==
  ASSUME CallsSane, NEW c \in Calls, Refuse(c) \/ PythonFails(c) \/ Report(c)
  PROVE  CallsSane'
<1> DEFINE k == call[c]
<1>1. Sane(c, k) /\ DOMAIN k = CallFields
  BY DEF CallsSane, Sane
<1>2. ASSUME NEW result, Return(c, result),
             k.child # "alive",
             result.kind = "told" /\ result.exit = 0 /\ ~result.interrupted
                => k.child = "exited" /\ k.code = 0 /\ Empty(k)
      PROVE  CallsSane'
  <2> DEFINE n == [k EXCEPT !.phase = "returned", !.result = result]
  <2>1. call' = [call EXCEPT ![c] = n]
    BY <1>2 DEF Return
  <2>2. Sane(c, n)
    <3> HIDE DEF k
    <3> QED BY <1>1, <1>2 DEF Sane, CallFields, Empty
  <2> QED BY <2>1, <2>2, OneCall
<1>3. CASE Refuse(c) \/ PythonFails(c)
  <2>1. PICK kind \in {"refused", "failed"} : Return(c, [Nothing EXCEPT !.kind = kind])
    BY <1>3 DEF Refuse, PythonFails
  <2>2. k.phase = "start"
    BY <1>3 DEF Refuse, PythonFails
  <2>3. [Nothing EXCEPT !.kind = kind].kind # "told"
    BY DEF Nothing
  <2>4. k.child # "alive"
    BY <1>1, <2>2 DEF Sane
  <2> QED BY <1>2, <2>1, <2>3, <2>4
<1>4. CASE Report(c)
  <2>1. /\ k.phase = "closed" \/ (k.phase = "reaped" /\ Empty(k))
        /\ k.child # "alive"
    BY <1>1, <1>4 DEF Report, Drained, Size, Empty, Sane
  <2>2. CASE Bash(c)
    <3>1. /\ BashResult(c).interrupted <=> k.err \notin {"nil", "exit"} /\ k.ctx = "deadline"
          /\ BashResult(c).exit = IF k.err = "exit" THEN k.code
                                  ELSE IF k.err = "nil" \/ BashResult(c).interrupted THEN 0 ELSE -1
      BY DEF BashResult
    <3>2. BashResult(c).exit = 0 /\ ~BashResult(c).interrupted
             => k.child = "exited" /\ k.code = 0 /\ Empty(k)
      BY <1>1, <2>1, <3>1 DEF Sane
    <3> QED BY <1>2, <1>4, <2>1, <2>2, <3>2 DEF Report
  <2>3. CASE ~Bash(c)
    <3>1. /\ ScriptResult(c).kind = "told" => k.err \in {"nil", "exit"}
          /\ ScriptResult(c).kind = "told" => ScriptResult(c).exit = k.code
      BY DEF ScriptResult, Nothing
    <3>2. ScriptResult(c).kind = "told" /\ ScriptResult(c).exit = 0
             => k.child = "exited" /\ k.code = 0 /\ Empty(k)
      BY <1>1, <2>1, <2>3, <3>1 DEF Sane
    <3> QED BY <1>2, <1>4, <2>1, <2>3, <3>2 DEF Report
  <2> QED BY <2>2, <2>3
<1> QED BY <1>3, <1>4

LEMMA StartStep ==
  ASSUME CallsSane, NEW c \in Calls, Invoke(c) \/ Start(c) \/ StartFails(c)
  PROVE  CallsSane'
<1> DEFINE k == call[c]
<1>1. Sane(c, k) /\ DOMAIN k = CallFields
  BY DEF CallsSane, Sane
<1>2. CASE Invoke(c)
  <2>1. call' = [call EXCEPT ![c] = Fresh]
    BY <1>2 DEF Invoke
  <2> QED BY <2>1, FreshSane, OneCall
<1>3. CASE Start(c)
  <2> DEFINE n == [k EXCEPT !.phase = "run", !.child = "alive"]
  <2>1. k.phase = "start" /\ call' = [call EXCEPT ![c] = n]
    BY <1>3 DEF Start, MayStart, Begin
  <2>2. Sane(c, n)
    BY <1>1, <2>1 DEF Sane, CallFields
  <2> QED BY <2>1, <2>2, OneCall
<1>4. CASE StartFails(c)
  <2> DEFINE n == [k EXCEPT !.phase = "closed", !.err = "start"]
  <2>1. k.phase = "start" /\ call' = [call EXCEPT ![c] = n]
    BY <1>4 DEF StartFails, MayStart, Begin
  <2>2. Sane(c, n)
    BY <1>1, <2>1 DEF Sane, CallFields
  <2> QED BY <2>1, <2>2, OneCall
<1> QED BY <1>2, <1>3, <1>4

LEMMA CallsSaneStep == CallsSane /\ [Next]_vars => CallsSane'
<1> SUFFICES ASSUME CallsSane, [Next]_vars PROVE CallsSane'
  OBVIOUS
<1>1. CASE UNCHANGED call
  BY <1>1 DEF CallsSane, Sane, Empty, Bash
<1>2. ASSUME NEW c \in Calls, Proceed(c) PROVE CallsSane'
  <2>1. CASE Prepare(c)
    BY <1>1, <2>1 DEF Prepare
  <2> QED BY <1>2, <2>1, ReturnStep, StartStep, WaitingStep DEF Proceed
<1>3. ASSUME NEW c \in Calls, Ensure(c) \/ TakeLock(c) PROVE CallsSane'
  BY <1>1, <1>3 DEF Ensure, TakeLock
<1>4. CASE Environment
  BY <1>1, <1>4 DEF Environment
<1>5. CASE Restart
  <2>1. call' = [c \in Calls |-> [Fresh EXCEPT !.phase = "returned"]]
    BY <1>5 DEF Restart
  <2> QED BY <2>1, FreshSane DEF CallsSane
<1>6. CASE UNCHANGED vars
  BY <1>1, <1>6 DEF vars
<1> QED BY <1>2, <1>3, <1>4, <1>5, <1>6, StartStep, ProgramStep, WaitingStep DEF Next

(* For any programs, any number of calls, and whatever the deadline, a     *)
(* stop, bashWaitDelay, the exit and the copying race: a success told is   *)
(* one, and a killed Bash call returns without its process group.          *)
THEOREM ProcessesTold == Spec => []ProcessesSound
<1>1. Init => CallsSane
  BY FreshSane DEF Init, CallsSane
<1>2. CallsSane => ProcessesSound
  BY DEF CallsSane, Sane, ProcessesSound, SuccessIsComplete, KilledWithGroup, Drained, Size, Empty
<1> QED BY <1>1, <1>2, CallsSaneStep, PTL DEF Spec

-----------------------------------------------------------------------------
\* The output: what the buffer keeps of it.

\* What whole characters are written as: a lead byte has its continuation bytes, and these
\* have their lead byte.
WellFormed(s) ==
    \A i \in DOMAIN s :
        /\ s[i] = "l" => i + 2 \in DOMAIN s /\ s[i + 1] = "c" /\ s[i + 2] = "c"
        /\ s[i] = "c" => \E lead \in {i - 1, i - 2} \cap DOMAIN s : s[lead] = "l"

\* Two outputs begin with the same bytes, up to one that begins a character.
Alike(s, t, e) ==
    /\ e \in DOMAIN s /\ e \in DOMAIN t
    /\ s[e] # "c"
    /\ \A p \in 1..e : s[p] = t[p]

\* The buffer of the first "taken" bytes: all of them, or, where the cap cut, enough whole
\* characters and the first byte of the next.
KeptOf(out, taken, buf) ==
    \/ taken <= CapBytes /\ buf = SubSeq(out, 1, taken)
    \/ /\ taken > CapBytes
       /\ Len(buf) <= CapBytes
       /\ \E e \in (CapBytes - 4)..(CapBytes - 2) : Alike(out, buf, e)

\* One byte, or a lead byte with two others.
LEMMA WrittenAs ==
    ASSUME NEW ch \in Chars
    PROVE  /\ BytesOf(ch) \in Seq(ByteSet)
           /\ \/ Len(BytesOf(ch)) = 1 /\ BytesOf(ch)[1] = "a"
              \/ /\ Len(BytesOf(ch)) = 3 /\ BytesOf(ch)[1] = "l"
                 /\ BytesOf(ch)[2] = "c" /\ BytesOf(ch)[3] = "c"
<1>1. CASE ch = "a"
  <2>1. BytesOf(ch) = <<"a">>
    BY <1>1 DEF BytesOf
  <2> QED BY <2>1 DEF ByteSet
<1>2. CASE ch = "z"
  <2>1. BytesOf(ch) = <<"l", "c", "c">>
    BY <1>2 DEF BytesOf
  <2> QED BY <2>1 DEF ByteSet
<1> QED BY <1>1, <1>2 DEF Chars

\* A whole character more.
LEMMA PrintsWhole ==
    ASSUME NEW s \in Seq(ByteSet), WellFormed(s), NEW ch \in Chars
    PROVE  /\ s \o BytesOf(ch) \in Seq(ByteSet)
           /\ WellFormed(s \o BytesOf(ch))
<1>1. /\ BytesOf(ch) \in Seq(ByteSet)
      /\ \/ Len(BytesOf(ch)) = 1 /\ BytesOf(ch)[1] = "a"
         \/ /\ Len(BytesOf(ch)) = 3 /\ BytesOf(ch)[1] = "l"
            /\ BytesOf(ch)[2] = "c" /\ BytesOf(ch)[3] = "c"
  BY WrittenAs
<1> DEFINE u == BytesOf(ch)
           t == s \o u
<1> HIDE DEF u
<1>2. /\ t \in Seq(ByteSet) /\ Len(t) = Len(s) + Len(u)
      /\ \A i \in 1..Len(t) : t[i] = IF i <= Len(s) THEN s[i] ELSE u[i - Len(s)]
      /\ DOMAIN t = 1..Len(t) /\ DOMAIN s = 1..Len(s)
      /\ Len(s) \in Nat /\ Len(u) \in 1..3
  BY <1>1, ConcatProperties DEF u
<1> HIDE DEF t
<1>3. ASSUME NEW i \in 1..Len(t), i <= Len(s)
      PROVE  /\ t[i] = "l" => i + 2 \in DOMAIN t /\ t[i + 1] = "c" /\ t[i + 2] = "c"
             /\ t[i] = "c" => \E lead \in {i - 1, i - 2} \cap DOMAIN t : t[lead] = "l"
  <2>1. i \in DOMAIN s /\ t[i] = s[i]
    BY <1>2, <1>3
  <2>2. s[i] = "l" => i + 2 \in 1..Len(s) /\ s[i + 1] = "c" /\ s[i + 2] = "c"
    BY <1>2, <2>1 DEF WellFormed
  <2>3. t[i] = "l" => i + 2 \in DOMAIN t /\ t[i + 1] = "c" /\ t[i + 2] = "c"
    BY <1>2, <2>1, <2>2
  <2>4. s[i] = "c" => \E lead \in {i - 1, i - 2} \cap 1..Len(s) : s[lead] = "l"
    BY <1>2, <2>1 DEF WellFormed
  <2>5. t[i] = "c" => \E lead \in {i - 1, i - 2} \cap DOMAIN t : t[lead] = "l"
    BY <1>2, <2>1, <2>4
  <2> QED BY <2>3, <2>5
<1>4. ASSUME NEW i \in 1..Len(t), ~(i <= Len(s))
      PROVE  /\ t[i] = "l" => i + 2 \in DOMAIN t /\ t[i + 1] = "c" /\ t[i + 2] = "c"
             /\ t[i] = "c" => \E lead \in {i - 1, i - 2} \cap DOMAIN t : t[lead] = "l"
  <2> DEFINE n == Len(s)
  <2> HIDE DEF n
  <2>1. /\ DOMAIN t = 1..(n + Len(u)) /\ n \in Nat /\ i \in (n + 1)..(n + Len(u))
        /\ \A j \in 1..Len(u) : n + j \in 1..(n + Len(u)) /\ t[n + j] = u[j]
    <3>1. /\ n \in Nat /\ Len(u) \in 1..3 /\ Len(t) = n + Len(u) /\ DOMAIN t = 1..Len(t)
          /\ i \in 1..Len(t) /\ ~(i <= n)
          /\ \A j \in 1..Len(t) : t[j] = IF j <= n THEN s[j] ELSE u[j - n]
      BY <1>2, <1>4, Zenon DEF n
    <3>2. DOMAIN t = 1..(n + Len(u)) /\ n \in Nat /\ i \in (n + 1)..(n + Len(u))
      BY <3>1
    <3>3. ASSUME NEW j \in 1..Len(u)
          PROVE  n + j \in 1..(n + Len(u)) /\ t[n + j] = u[j]
      <4>1. n + j \in 1..Len(t) /\ ~(n + j <= n) /\ (n + j) - n = j
        BY <3>1
      <4>2. t[n + j] = u[(n + j) - n]
        BY <3>1, <4>1
      <4> QED BY <3>1, <4>1, <4>2
    <3> QED BY <3>2, <3>3
  <2>2. CASE Len(u) = 1
    <3>1. i = n + 1 /\ t[i] = "a"
      BY <1>1, <2>1, <2>2 DEF u
    <3> QED BY <3>1
  <2>3. CASE Len(u) = 3
    <3>1. t[n + 1] = "l" /\ t[n + 2] = "c" /\ t[n + 3] = "c"
      BY <1>1, <2>1, <2>3 DEF u
    <3>2. i = n + 1 \/ i = n + 2 \/ i = n + 3
      BY <2>1, <2>3
    <3>3. n + 1 \in DOMAIN t /\ n + 3 \in DOMAIN t
      BY <2>1, <2>3
    <3>4. CASE i = n + 1
      BY <2>1, <3>1, <3>3, <3>4
    <3>5. CASE i = n + 2
      <4>1. i - 1 = n + 1 /\ t[i] = "c"
        BY <2>1, <3>1, <3>5
      <4> QED BY <3>1, <3>3, <4>1
    <3>6. CASE i = n + 3
      <4>1. i - 2 = n + 1 /\ t[i] = "c"
        BY <2>1, <3>1, <3>6
      <4> QED BY <3>1, <3>3, <4>1
    <3> QED BY <3>2, <3>4, <3>5, <3>6
  <2> QED BY <1>1, <2>2, <2>3 DEF u
<1>5. WellFormed(t)
  BY <1>2, <1>3, <1>4 DEF WellFormed
<1> QED
  BY <1>2, <1>5 DEF t, u

\* Where a cut stops: not before a byte near the end that begins a character and has two
\* after it.
LEMMA CutsBehind ==
    ASSUME NEW s \in Seq(ByteSet), NEW e \in 1..Len(s), e >= Len(s) - 4, e <= Len(s) - 2,
           s[e] # "c"
    PROVE  CutPoint(s) \in e..Len(s)
<1> DEFINE Opening(i) == /\ i = 0 \/ s[i] # "c"
                         /\ \A j \in (i + 1)..Len(s) : s[j] = "c"
           start == CHOOSE i \in 0..Len(s) : Opening(i)
<1>0. Len(s) \in Nat
  OBVIOUS
<1>1. \E i \in e..Len(s) : Opening(i)
  <2> DEFINE n == Len(s)
  <2> HIDE DEF n
  <2>0. n \in Nat /\ e \in 1..n /\ e >= n - 4 /\ e <= n - 2
    BY <1>0 DEF n
  <2>1. CASE s[n] # "c"
    <3>1. n \in e..n /\ \A j \in (n + 1)..n : s[j] = "c"
      BY <2>0
    <3> QED BY <2>1, <3>1 DEF n
  <2>2. CASE s[n] = "c" /\ s[n - 1] # "c"
    <3>1. n - 1 \in e..n /\ \A j \in ((n - 1) + 1)..n : s[j] = "c"
      BY <2>0, <2>2
    <3> QED BY <2>2, <3>1 DEF n
  <2>3. CASE s[n] = "c" /\ s[n - 1] = "c" /\ s[n - 2] # "c"
    <3>1. n - 2 \in e..n /\ \A j \in ((n - 2) + 1)..n : s[j] = "c"
      BY <2>0, <2>3
    <3> QED BY <2>3, <3>1 DEF n
  <2>4. CASE s[n] = "c" /\ s[n - 1] = "c" /\ s[n - 2] = "c" /\ s[n - 3] # "c"
    <3>1. n - 3 \in e..n /\ \A j \in ((n - 3) + 1)..n : s[j] = "c"
      BY <2>0, <2>4
    <3> QED BY <2>4, <3>1 DEF n
  <2>5. CASE s[n] = "c" /\ s[n - 1] = "c" /\ s[n - 2] = "c" /\ s[n - 3] = "c"
    <3>1. n - 4 = e
      BY <2>0, <2>5
    <3>2. \A j \in (e + 1)..n : s[j] = "c"
      BY <2>0, <2>5, <3>1
    <3>3. e \in e..n
      BY <2>0
    <3> QED BY <3>2, <3>3 DEF n
  <2> QED BY <2>1, <2>2, <2>3, <2>4, <2>5
<1>2. start \in 0..Len(s) /\ Opening(start)
  <2>1. \E i \in 0..Len(s) : Opening(i)
    BY <1>0, <1>1
  <2> HIDE DEF Last
  <2> QED BY <2>1
<1>3. CutPoint(s) = IF start > 0 /\ Len(s) - start < SeqLen(s[start]) - 1 THEN start - 1 ELSE start
  BY DEF CutPoint
<1> HIDE DEF start
<1>4. start >= e
  BY <1>0, <1>2
<1>5. SeqLen(s[start]) \in {1, 3}
  BY DEF SeqLen, CharBytes
<1> QED
  BY <1>0, <1>2, <1>3, <1>4, <1>5

\* Shortly before the cap a character begins.
LEMMA BeginsBeforeCap ==
    ASSUME NEW out \in Seq(ByteSet), WellFormed(out), Len(out) >= CapBytes
    PROVE  \E e \in (CapBytes - 4)..(CapBytes - 2) : e \in 1..Len(out) /\ out[e] # "c"
<1>1. CapBytes \in Nat /\ CapBytes >= 6
  BY CapAssumption DEF CharBytes
<1> DEFINE p == CapBytes - 2
<1>2. /\ p \in DOMAIN out /\ p \in Nat /\ p >= 4 /\ p = CapBytes - 2
      /\ DOMAIN out = 1..Len(out) /\ Len(out) \in Nat
  BY <1>1
<1> HIDE DEF p
<1>3. CASE out[p] # "c"
  BY <1>1, <1>2, <1>3
<1>4. CASE out[p] = "c"
  <2>1. PICK lead \in {p - 1, p - 2} \cap DOMAIN out : out[lead] = "l"
    BY <1>2, <1>4 DEF WellFormed
  <2>2. lead \in (CapBytes - 4)..(CapBytes - 2) /\ lead \in 1..Len(out)
    BY <1>1, <1>2, <2>1
  <2> QED BY <2>1, <2>2
<1> QED BY <1>3, <1>4

\* A chunk written into the buffer, when there is room for all of it, for some, for none.
LEMMA WriteKeeps ==
    ASSUME NEW out \in Seq(ByteSet), WellFormed(out), NEW buf \in Seq(ByteSet),
           NEW taken \in Nat, NEW n \in (taken + 1)..Len(out), KeptOf(out, taken, buf)
    PROVE  LET new == Write(buf, SubSeq(out, taken + 1, n))
           IN  /\ new \in Seq(ByteSet) /\ Len(new) <= CapBytes
               /\ KeptOf(out, n, new)
<1> DEFINE chunk == SubSeq(out, taken + 1, n)
           room == CapBytes - Len(buf)
           full == buf \o SubSeq(chunk, 1, room)
           new == Write(buf, chunk)
<1>1. /\ CapBytes \in Nat /\ CapBytes >= 6
      /\ Len(buf) \in Nat /\ Len(out) \in Nat /\ n \in Nat
  BY CapAssumption DEF CharBytes
<1>2. /\ chunk \in Seq(ByteSet) /\ Len(chunk) = n - taken
      /\ \A i \in 1..Len(chunk) : chunk[i] = out[taken + i]
  BY <1>1
<1> HIDE DEF chunk
<1>3. new = IF room <= 0 THEN buf
            ELSE IF room >= Len(chunk) THEN buf \o chunk
            ELSE SubSeq(full, 1, CutPoint(full))
  BY DEF Write
<1>4. Len(buf) <= CapBytes /\ room \in Int /\ room = CapBytes - Len(buf)
  BY <1>1 DEF KeptOf
<1> HIDE DEF new, room, full
<1>5. ASSUME room > 0, ~(room >= Len(chunk))
      PROVE  /\ full \in Seq(ByteSet) /\ Len(full) = CapBytes
             /\ \A i \in 1..CapBytes :
                   full[i] = IF i <= Len(buf) THEN buf[i] ELSE out[taken + i - Len(buf)]
  <2>1. /\ SubSeq(chunk, 1, room) \in Seq(ByteSet) /\ Len(SubSeq(chunk, 1, room)) = room
        /\ \A i \in 1..room : SubSeq(chunk, 1, room)[i] = out[taken + i]
    BY <1>1, <1>2, <1>4, <1>5
  <2>2. /\ full \in Seq(ByteSet) /\ Len(full) = Len(buf) + room
        /\ \A i \in 1..Len(buf) + room :
              full[i] = IF i <= Len(buf) THEN buf[i] ELSE SubSeq(chunk, 1, room)[i - Len(buf)]
    BY <2>1, ConcatProperties DEF full
  <2>3. Len(buf) + room = CapBytes /\ room \in Nat
    BY <1>1, <1>4, <1>5
  <2>4. ASSUME NEW i \in 1..CapBytes
        PROVE  full[i] = IF i <= Len(buf) THEN buf[i] ELSE out[taken + i - Len(buf)]
    <3>1. CASE i <= Len(buf)
      BY <1>1, <2>2, <2>3, <3>1
    <3>2. CASE ~(i <= Len(buf))
      <4> DEFINE j == i - Len(buf)
      <4>1. j \in 1..room /\ taken + j = taken + i - Len(buf)
        BY <1>1, <2>3, <3>2
      <4> QED BY <1>1, <2>1, <2>2, <2>3, <3>2, <4>1
    <3> QED BY <3>1, <3>2
  <2> QED BY <2>2, <2>3, <2>4
<1>6. ASSUME room > 0, room >= Len(chunk)
      PROVE  /\ new = buf \o chunk /\ new \in Seq(ByteSet) /\ Len(new) = Len(buf) + n - taken
             /\ \A i \in 1..Len(new) :
                   new[i] = IF i <= Len(buf) THEN buf[i] ELSE out[taken + i - Len(buf)]
  <2>1. new = buf \o chunk
    BY <1>1, <1>3, <1>4, <1>6
  <2>2. /\ buf \o chunk \in Seq(ByteSet) /\ Len(buf \o chunk) = Len(buf) + Len(chunk)
        /\ \A i \in 1..Len(buf) + Len(chunk) :
              (buf \o chunk)[i] = IF i <= Len(buf) THEN buf[i] ELSE chunk[i - Len(buf)]
    BY <1>2, ConcatProperties
  <2>3. Len(new) = Len(buf) + n - taken
    BY <1>1, <1>2, <2>1, <2>2
  <2>4. ASSUME NEW i \in 1..Len(new)
        PROVE  new[i] = IF i <= Len(buf) THEN buf[i] ELSE out[taken + i - Len(buf)]
    BY <1>1, <1>2, <2>1, <2>2, <2>3
  <2> QED BY <2>1, <2>2, <2>3, <2>4
\* What holds of a buffer of which a byte near the cap is known.
<1>7. ASSUME NEW e \in (CapBytes - 4)..(CapBytes - 2), Alike(out, buf, e), taken > CapBytes
             \/ room <= 0
      PROVE  Alike(out, new, e) /\ new \in Seq(ByteSet) /\ Len(new) <= CapBytes
  <2>1. e \in 1..Len(buf) /\ e \in Nat /\ DOMAIN buf = 1..Len(buf)
    BY <1>1, <1>7 DEF Alike
  <2>2. CASE room <= 0
    BY <1>3, <1>4, <1>7, <2>2
  <2>3. CASE room > 0 /\ room >= Len(chunk)
    <3>1. Len(new) <= CapBytes /\ new \in Seq(ByteSet) /\ Len(new) >= Len(buf)
      BY <1>1, <1>2, <1>4, <1>6, <2>3
    <3>2. \A i \in 1..Len(buf) : new[i] = buf[i]
      BY <1>1, <1>6, <2>3, <3>1
    <3>3. e \in DOMAIN new
      BY <2>1, <3>1
    <3> QED BY <1>7, <2>1, <3>1, <3>2, <3>3 DEF Alike
  <2>4. CASE room > 0 /\ ~(room >= Len(chunk))
    <3>1. new = SubSeq(full, 1, CutPoint(full))
      <4>1. ~(room <= 0)
        BY <1>4, <2>4
      <4> QED BY <1>3, <2>4, <4>1
    <3>2. \A i \in 1..e : full[i] = out[i]
      <4>1. \A i \in 1..e : i <= Len(buf) /\ i \in 1..CapBytes /\ buf[i] = out[i]
        BY <1>1, <1>7, <2>1 DEF Alike
      <4> QED BY <1>5, <2>4, <4>1
    <3>3. full \in Seq(ByteSet) /\ Len(full) = CapBytes
      BY <1>5, <2>4
    <3>4. full[e] # "c"
      BY <1>7, <2>1, <3>2 DEF Alike
    <3>5. CutPoint(full) \in e..CapBytes
      <4>1. e \in 1..Len(full) /\ e >= Len(full) - 4 /\ e <= Len(full) - 2
        BY <1>1, <2>1, <3>3
      <4>2. CutPoint(full) \in e..Len(full)
        BY <3>3, <3>4, <4>1, CutsBehind
      <4> QED BY <3>3, <4>2
    <3>6. /\ new \in Seq(ByteSet) /\ Len(new) = CutPoint(full)
          /\ \A i \in 1..Len(new) : new[i] = full[i]
      BY <1>1, <2>1, <3>1, <3>3, <3>5
    <3>7. e \in DOMAIN new /\ e \in DOMAIN out
      BY <1>7, <2>1, <3>5, <3>6 DEF Alike
    <3> QED BY <1>1, <1>7, <2>1, <3>2, <3>5, <3>6, <3>7 DEF Alike
  <2> QED BY <1>2, <1>4, <1>1, <2>2, <2>3, <2>4
<1>8. CASE taken > CapBytes
  <2>1. PICK e \in (CapBytes - 4)..(CapBytes - 2) : Alike(out, buf, e)
    BY <1>1, <1>8 DEF KeptOf
  <2>2. Alike(out, new, e) /\ new \in Seq(ByteSet) /\ Len(new) <= CapBytes
    BY <1>7, <1>8, <2>1
  <2>3. n > CapBytes
    BY <1>1, <1>8
  <2> QED BY <2>1, <2>2, <2>3 DEF KeptOf, new, chunk
<1>9. CASE taken <= CapBytes
  <2>1. buf = SubSeq(out, 1, taken)
    BY <1>1, <1>9 DEF KeptOf
  <2>2. Len(buf) = taken /\ \A i \in 1..taken : buf[i] = out[i]
    BY <1>1, <2>1
  <2>3. room = CapBytes - taken
    BY <1>4, <2>2
  <2>4. CASE n <= CapBytes
    <3>1. room > 0 /\ room >= Len(chunk)
      BY <1>1, <1>2, <2>3, <2>4
    <3>2. /\ new \in Seq(ByteSet) /\ Len(new) = n
          /\ \A i \in 1..n : new[i] = out[i]
      BY <1>1, <1>6, <2>2, <3>1
    <3>3. SubSeq(out, 1, n) \in Seq(ByteSet) /\ Len(SubSeq(out, 1, n)) = n
          /\ \A i \in 1..n : SubSeq(out, 1, n)[i] = out[i]
      BY <1>1
    <3>4. new = SubSeq(out, 1, n)
      <4> DEFINE whole == SubSeq(out, 1, n)
      <4> HIDE DEF whole
      <4>1. whole \in Seq(ByteSet) /\ Len(whole) = n /\ \A i \in 1..n : whole[i] = out[i]
        BY <3>3 DEF whole
      <4>2. new = whole
        BY <3>2, <4>1, SeqEqual
      <4> QED BY <4>2 DEF whole
    <3>5. KeptOf(out, n, new)
      BY <2>4, <3>4 DEF KeptOf
    <3> QED BY <1>1, <2>4, <3>2, <3>5 DEF new, chunk
  <2>5. CASE n > CapBytes
    <3>1. PICK e \in (CapBytes - 4)..(CapBytes - 2) : e \in 1..Len(out) /\ out[e] # "c"
      BY <1>1, <2>5, BeginsBeforeCap
    <3>2. CASE room <= 0
      <4>1. taken = CapBytes
        BY <1>1, <1>9, <2>3, <3>2
      <4>2. e \in DOMAIN buf /\ e \in DOMAIN out
        BY <1>1, <2>2, <3>1, <4>1
      <4>3. Alike(out, buf, e)
        BY <1>1, <2>2, <3>1, <4>1, <4>2 DEF Alike
      <4>4. Alike(out, new, e) /\ new \in Seq(ByteSet) /\ Len(new) <= CapBytes
        BY <1>7, <3>2, <4>3
      <4> QED BY <2>5, <3>1, <4>4 DEF KeptOf, new, chunk
    <3>3. CASE room > 0
      <4>1. ~(room >= Len(chunk))
        BY <1>1, <1>2, <2>3, <2>5
      <4>2. new = SubSeq(full, 1, CutPoint(full))
        <5>1. ~(room <= 0)
          BY <1>4, <3>3
        <5> QED BY <1>3, <4>1, <5>1
      <4>3. full \in Seq(ByteSet) /\ Len(full) = CapBytes
        BY <1>5, <3>3, <4>1
      <4>4. \A i \in 1..CapBytes : full[i] = out[i]
        BY <1>1, <1>5, <1>9, <2>2, <3>3, <4>1
      <4>5. e \in 1..CapBytes /\ e \in Nat
        BY <1>1, <3>1
      <4>6. CutPoint(full) \in e..CapBytes
        <5>1. e \in 1..Len(full) /\ e >= Len(full) - 4 /\ e <= Len(full) - 2 /\ full[e] # "c"
          BY <1>1, <3>1, <4>3, <4>4, <4>5
        <5>2. CutPoint(full) \in e..Len(full)
          BY <4>3, <5>1, CutsBehind
        <5> QED BY <4>3, <5>2
      <4>7. /\ new \in Seq(ByteSet) /\ Len(new) = CutPoint(full)
            /\ \A i \in 1..Len(new) : new[i] = full[i]
        BY <1>1, <4>2, <4>3, <4>5, <4>6
      <4>8. e \in DOMAIN new /\ e \in DOMAIN out
        BY <3>1, <4>5, <4>6, <4>7
      <4>9. Alike(out, new, e)
        BY <1>1, <3>1, <4>4, <4>5, <4>6, <4>7, <4>8 DEF Alike
      <4>10. Len(new) <= CapBytes
        BY <1>1, <4>5, <4>6, <4>7
      <4> QED BY <2>5, <3>1, <4>7, <4>9, <4>10 DEF KeptOf, new, chunk
    <3> QED BY <1>1, <2>3, <3>2, <3>3
  <2> QED BY <1>1, <2>4, <2>5
<1> QED
  BY <1>1, <1>8, <1>9

-----------------------------------------------------------------------------
\* The runes.

\* How many runes begin up to a byte.
Upto(s, i) == {j \in Starts(s) : j <= i}
Rank(s, i) == Cardinality(Upto(s, i))

LEMMA UptoFinite ==
    ASSUME NEW s \in Seq(ByteSet), NEW i \in Nat
    PROVE  /\ IsFiniteSet(Upto(s, i)) /\ Rank(s, i) \in Nat
           /\ Starts(s) = Upto(s, Len(s)) /\ Starts(s) \subseteq 1..Len(s)
<1>1. DOMAIN s = 1..Len(s) /\ Len(s) \in Nat
  OBVIOUS
<1>2. IsFiniteSet(1..Len(s))
  BY <1>1, FS_Interval
<1>3. Upto(s, i) \in SUBSET (1..Len(s)) /\ Starts(s) \subseteq 1..Len(s)
  BY <1>1 DEF Upto, Starts
<1>4. IsFiniteSet(Upto(s, i)) /\ Rank(s, i) \in Nat
  BY <1>2, <1>3, FS_Subset, FS_CardinalityType DEF Rank
<1>5. Starts(s) = Upto(s, Len(s))
  BY <1>1, <1>3 DEF Upto
<1> QED BY <1>3, <1>4, <1>5

\* One more where a rune begins.
LEMMA RankNext ==
    ASSUME NEW s \in Seq(ByteSet), NEW i \in Nat
    PROVE  /\ Rank(s, 0) = 0
           /\ Rank(s, i + 1) = Rank(s, i) + (IF i + 1 \in Starts(s) THEN 1 ELSE 0)
<1>1. Starts(s) \subseteq Nat /\ 0 \notin Starts(s)
  BY UptoFinite
<1>2. Upto(s, 0) = {}
  BY <1>1, UptoFinite DEF Upto
<1>3. Rank(s, 0) = 0
  BY <1>2, FS_EmptySet DEF Rank
<1>4. IsFiniteSet(Upto(s, i)) /\ i + 1 \notin Upto(s, i)
  BY UptoFinite DEF Upto
<1>5. CASE i + 1 \in Starts(s)
  <2>1. Upto(s, i + 1) = Upto(s, i) \cup {i + 1}
    BY <1>1, <1>5 DEF Upto
  <2> QED BY <1>3, <1>4, <1>5, <2>1, FS_AddElement DEF Rank
<1>6. CASE i + 1 \notin Starts(s)
  <2>1. Upto(s, i + 1) = Upto(s, i)
    BY <1>1, <1>6 DEF Upto
  <2>2. Rank(s, i + 1) = Rank(s, i) /\ Rank(s, i) \in Nat
    BY <2>1, UptoFinite DEF Rank
  <2> QED BY <1>3, <1>6, <2>2
<1> QED BY <1>5, <1>6

LEMMA RankGrows ==
    ASSUME NEW s \in Seq(ByteSet), NEW i \in Nat, NEW j \in Nat, i <= j
    PROVE  /\ Rank(s, i) <= Rank(s, j)
           /\ i < j /\ j \in Starts(s) => Rank(s, i) < Rank(s, j)
<1>1. Upto(s, i) \in SUBSET Upto(s, j) /\ IsFiniteSet(Upto(s, j))
  BY UptoFinite DEF Upto
<1>2. /\ Rank(s, i) <= Rank(s, j) /\ Rank(s, i) \in Nat /\ Rank(s, j) \in Nat
      /\ Rank(s, j) = Rank(s, i) => Upto(s, j) = Upto(s, i)
  BY <1>1, UptoFinite, FS_Subset DEF Rank
<1>3. ASSUME i < j, j \in Starts(s) PROVE Upto(s, j) # Upto(s, i)
  BY <1>3 DEF Upto
<1> QED BY <1>2, <1>3

\* The least of a set of numbers.
LEMMA Least ==
    ASSUME NEW S \in SUBSET Nat, S # {}
    PROVE  \E i \in S : \A j \in S : i <= j
<1>1. PICK i \in S : \A j \in S : ~(<<j, i>> \in OpToRel(<, Nat))
  BY NatLessThanWellFounded, WFMin
<1>2. \A j \in S : ~(j < i)
  BY <1>1 DEF OpToRel
<1> QED BY <1>2

\* Of so many runes each one begins somewhere.
LEMMA BeginsSomewhere ==
    ASSUME NEW s \in Seq(ByteSet), NEW m \in Nat, NEW n \in 1..Rank(s, m)
    PROVE  \E i \in Starts(s) : i <= m /\ Rank(s, i) = n
<1> DEFINE S == {i \in Nat : Rank(s, i) >= n}
<1>1. m \in S /\ S \in SUBSET Nat /\ n \in Nat /\ Rank(s, m) \in Nat
  BY UptoFinite
<1>2. PICK i \in S : \A j \in S : i <= j
  BY <1>1, Least
<1>3. i \in Nat /\ i <= m /\ Rank(s, i) >= n
  BY <1>1, <1>2
<1>4. Rank(s, i) \in Nat
  BY <1>3, UptoFinite
<1>5. i # 0
  BY <1>1, <1>3, RankNext
<1>6. i - 1 \in Nat /\ (i - 1) + 1 = i
  BY <1>3, <1>5
<1>7. ~(Rank(s, i - 1) >= n) /\ Rank(s, i - 1) \in Nat
  <2>1. i - 1 \notin S
    BY <1>2, <1>3, <1>6
  <2>2. Rank(s, i - 1) \in Nat
    BY <1>6, UptoFinite
  <2> QED BY <1>6, <2>1, <2>2
<1>8. Rank(s, i) = Rank(s, i - 1) + (IF i \in Starts(s) THEN 1 ELSE 0)
  BY <1>6, RankNext
<1>9. i \in Starts(s) /\ Rank(s, i) = n
  BY <1>1, <1>3, <1>4, <1>7, <1>8
<1> QED BY <1>3, <1>9

\* The n-th rune begins where n have begun, and nowhere else.
LEMMA NthIs ==
    ASSUME NEW s \in Seq(ByteSet), NEW i \in Starts(s), NEW n, Rank(s, i) = n
    PROVE  NthStart(s, n) = i
<1>1. Starts(s) \subseteq Nat
  BY UptoFinite
<1>2. ASSUME NEW j \in Starts(s), Rank(s, j) = n PROVE j = i
  <2>1. i \in Nat /\ j \in Nat /\ Rank(s, i) \in Nat
    BY <1>1, UptoFinite
  <2>2. ~(i < j)
    BY <1>2, <2>1, RankGrows
  <2>3. ~(j < i)
    BY <1>2, <2>1, RankGrows
  <2> QED BY <2>1, <2>2, <2>3
<1>3. NthStart(s, n) = CHOOSE j \in Starts(s) : Rank(s, j) = n
  BY DEF NthStart, Rank, Upto
<1> QED BY <1>2, <1>3

\* The numbers of a finite set, each moved by the same distance.
LEMMA Shifted ==
    ASSUME NEW S \in SUBSET Nat, IsFiniteSet(S), NEW d \in Nat
    PROVE  LET T == {i + d : i \in S}
           IN  IsFiniteSet(T) /\ Cardinality(T) <= Cardinality(S)
<1> DEFINE T == {i + d : i \in S}
           f == [i \in S |-> i + d]
<1>1. f \in Surjection(S, T)
  BY DEF Surjection
<1> QED BY <1>1, FS_Surjection

\* A rune has three bytes at most.
LEMMA RunesAreShort ==
    ASSUME NEW out \in Seq(ByteSet), WellFormed(out), NEW m \in 0..Len(out)
    PROVE  m <= 3 * Rank(out, m)
<1> DEFINE A == Upto(out, m)
           B == {i + 1 : i \in A}
           C == {i + 2 : i \in A}
<1>1. /\ IsFiniteSet(A) /\ A \in SUBSET Nat /\ m \in Nat /\ Rank(out, m) = Cardinality(A)
      /\ DOMAIN out = 1..Len(out) /\ Len(out) \in Nat
  BY UptoFinite DEF Upto, Rank
<1>2. IsFiniteSet(B) /\ Cardinality(B) <= Cardinality(A)
  BY <1>1, Shifted
<1>3. IsFiniteSet(C) /\ Cardinality(C) <= Cardinality(A)
  BY <1>1, Shifted
<1>4. 1..m \subseteq (A \cup B) \cup C
  <2> SUFFICES ASSUME NEW p \in 1..m PROVE p \in A \/ p \in B \/ p \in C
    OBVIOUS
  <2>1. p \in DOMAIN out /\ p \in Nat /\ p <= m
    BY <1>1
  <2>2. CASE out[p] # "c"
    <3>1. ~Continues(out, p)
      <4> SUFFICES ASSUME NEW lead \in {p - 1, p - 2},
                          out[lead + 1] = "c", out[lead + 2] = "c"
                   PROVE  FALSE
        BY DEF Continues
      <4>1. lead + 1 = p \/ lead + 2 = p
        BY <2>1
      <4> QED BY <2>2, <4>1
    <3> QED BY <2>1, <3>1 DEF Starts, Upto
  <2>3. CASE out[p] = "c"
    <3>1. PICK lead \in {p - 1, p - 2} \cap DOMAIN out : out[lead] = "l"
      BY <2>1, <2>3 DEF WellFormed
    <3>2. ~Continues(out, lead)
      <4> SUFFICES ASSUME NEW l \in {lead - 1, lead - 2},
                          out[l + 1] = "c", out[l + 2] = "c"
                   PROVE  FALSE
        BY DEF Continues
      <4>1. l + 1 = lead \/ l + 2 = lead
        BY <1>1, <3>1
      <4> QED BY <3>1, <4>1
    <3>3. lead \in A
      BY <1>1, <2>1, <3>1, <3>2 DEF Starts, Upto
    <3>4. p = lead + 1 \/ p = lead + 2
      BY <2>1, <3>1
    <3> QED BY <3>3, <3>4
  <2> QED BY <2>2, <2>3
<1> HIDE DEF A, B, C
<1>5. /\ IsFiniteSet(A \cup B)
      /\ Cardinality(A \cup B) = Cardinality(A) + Cardinality(B) - Cardinality(A \cap B)
      /\ Cardinality(A \cap B) \in Nat /\ Cardinality(A) \in Nat /\ Cardinality(B) \in Nat
  BY <1>1, <1>2, FS_Union, FS_Intersection, FS_CardinalityType
<1>6. /\ IsFiniteSet((A \cup B) \cup C)
      /\ Cardinality((A \cup B) \cup C)
           = Cardinality(A \cup B) + Cardinality(C) - Cardinality((A \cup B) \cap C)
      /\ Cardinality((A \cup B) \cap C) \in Nat /\ Cardinality(C) \in Nat
      /\ Cardinality(A \cup B) \in Nat
  BY <1>3, <1>5, FS_Union, FS_Intersection, FS_CardinalityType
<1>7. Cardinality(1..m) <= Cardinality((A \cup B) \cup C)
  BY <1>4, <1>6, FS_Subset
<1>8. Cardinality(1..m) = m
  BY <1>1, FS_Interval
<1> QED BY <1>1, <1>2, <1>3, <1>5, <1>6, <1>7, <1>8

\* Outputs that begin alike have the same runes up to there.
LEMMA AlikeRunes ==
    ASSUME NEW s \in Seq(ByteSet), NEW t \in Seq(ByteSet), NEW e \in Nat, Alike(s, t, e)
    PROVE  /\ e \in Starts(s) /\ e \in Starts(t)
           /\ \A i \in 0..e : Upto(s, i) = Upto(t, i)
           /\ \A i \in 1..e - 1 : RuneAt(s, i) = RuneAt(t, i)
<1>1. /\ e \in 1..Len(s) /\ e \in 1..Len(t) /\ DOMAIN s = 1..Len(s) /\ DOMAIN t = 1..Len(t)
      /\ Len(s) \in Nat /\ Len(t) \in Nat
      /\ s[e] # "c" /\ t[e] # "c" /\ \A p \in 1..e : s[p] = t[p]
  BY DEF Alike
\* Nothing before them continues past them.
<1>2. ASSUME NEW u \in {s, t}, NEW i \in 1..e, Continues(u, i)
      PROVE  \E lead \in {i - 1, i - 2} : /\ lead \in 1..e /\ lead + 1 \in 1..e /\ lead + 2 \in 1..e
                                         /\ u[lead] = "l" /\ u[lead + 1] = "c" /\ u[lead + 2] = "c"
  <2>1. PICK lead \in {i - 1, i - 2} \cap DOMAIN u :
             u[lead] = "l" /\ lead + 2 \in DOMAIN u /\ u[lead + 1] = "c" /\ u[lead + 2] = "c"
    BY <1>2 DEF Continues
  <2>2. lead >= 1 /\ lead \in Nat /\ u[e] # "c"
    BY <1>1, <2>1
  <2>3. lead + 1 # e /\ lead + 2 # e
    BY <2>1, <2>2
  <2>4. lead + 2 <= e
    BY <2>1, <2>2, <2>3
  <2> QED BY <1>1, <2>1, <2>2, <2>4
<1>3. ASSUME NEW i \in 1..e, NEW u \in {s, t}, NEW v \in {s, t}, Continues(u, i)
      PROVE  Continues(v, i)
  <2>1. PICK lead \in {i - 1, i - 2} :
             /\ lead \in 1..e /\ lead + 1 \in 1..e /\ lead + 2 \in 1..e
             /\ u[lead] = "l" /\ u[lead + 1] = "c" /\ u[lead + 2] = "c"
    BY <1>2, <1>3
  <2>2. v[lead] = "l" /\ v[lead + 1] = "c" /\ v[lead + 2] = "c"
    BY <1>1, <2>1
  <2>3. lead \in DOMAIN v /\ lead + 2 \in DOMAIN v
    BY <1>1, <2>1
  <2> QED BY <2>1, <2>2, <2>3 DEF Continues
<1>4. \A i \in 1..e : i \in Starts(s) <=> i \in Starts(t)
  BY <1>1, <1>3 DEF Starts
<1>5. \A u \in {s, t} : ~Continues(u, e)
  <2> SUFFICES ASSUME NEW u \in {s, t}, Continues(u, e) PROVE FALSE
    OBVIOUS
  <2>1. PICK lead \in {e - 1, e - 2} : u[lead + 1] = "c" /\ u[lead + 2] = "c"
    BY DEF Continues
  <2>2. lead + 1 = e \/ lead + 2 = e
    BY <1>1
  <2> QED BY <1>1, <2>1, <2>2
<1>6. e \in Starts(s) /\ e \in Starts(t)
  BY <1>1, <1>5 DEF Starts
<1>7. ASSUME NEW i \in 0..e PROVE Upto(s, i) = Upto(t, i)
  <2>1. Starts(s) \subseteq 1..Len(s) /\ Starts(t) \subseteq 1..Len(t)
    BY UptoFinite
  <2> QED BY <1>1, <1>4, <2>1 DEF Upto
<1>8. ASSUME NEW i \in 1..e - 1 PROVE RuneAt(s, i) = RuneAt(t, i)
  <2>1. i \in 1..e /\ i + 1 \in 1..e
    BY <1>1
  <2>2. s[i] = t[i] /\ (Continues(s, i + 1) <=> Continues(t, i + 1))
    BY <1>1, <1>3, <2>1
  <2> QED BY <2>2 DEF RuneAt
<1> QED BY <1>6, <1>7, <1>8

\* What is made of bytes, and of whole characters.
LEMMA RunesOf ==
    ASSUME NEW s \in Seq(ByteSet)
    PROVE  /\ Runes(s) \in Seq({"a", "z", "?"})
           /\ Len(Runes(s)) = Rank(s, Len(s))
           /\ \A n \in 1..Len(Runes(s)) : Runes(s)[n] = RuneAt(s, NthStart(s, n))
           /\ WellFormed(s) => Runes(s) \in Seq(Chars)
<1> DEFINE m == Rank(s, Len(s))
<1>1. m \in Nat /\ Len(s) \in Nat /\ DOMAIN s = 1..Len(s) /\ Starts(s) = Upto(s, Len(s))
      /\ Starts(s) \subseteq 1..Len(s)
  BY UptoFinite
<1>2. Runes(s) = [n \in 1..m |-> RuneAt(s, NthStart(s, n))]
  BY <1>1 DEF Runes, Rank
<1>3. \A n \in 1..m : RuneAt(s, NthStart(s, n)) \in {"a", "z", "?"}
  BY DEF RuneAt
<1> HIDE DEF m
<1>4. /\ Runes(s) \in Seq({"a", "z", "?"}) /\ Len(Runes(s)) = m
      /\ \A n \in 1..m : Runes(s)[n] = RuneAt(s, NthStart(s, n))
  BY <1>1, <1>2, <1>3
<1>5. ASSUME WellFormed(s), NEW n \in 1..m PROVE RuneAt(s, NthStart(s, n)) \in Chars
  <2>1. PICK i \in Starts(s) : Rank(s, i) = n
    BY <1>1, <1>5, BeginsSomewhere DEF m
  <2>2. NthStart(s, n) = i
    BY <2>1, NthIs
  <2>3. i \in 1..Len(s) /\ s[i] \in ByteSet /\ ~Continues(s, i)
    BY <1>1, ElementOfSeq DEF Starts
  <2>4. CASE s[i] = "l"
    <3>1. i + 2 \in DOMAIN s /\ s[i + 1] = "c" /\ s[i + 2] = "c"
      BY <1>1, <1>5, <2>3, <2>4 DEF WellFormed
    <3>2. i \in {(i + 1) - 1, (i + 1) - 2} \cap DOMAIN s
      BY <1>1, <2>3
    <3>3. Continues(s, i + 1)
      BY <2>4, <3>1, <3>2 DEF Continues
    <3> QED BY <2>2, <3>3 DEF RuneAt, Chars
  <2>5. CASE s[i] = "c"
    <3>1. PICK lead \in {i - 1, i - 2} \cap DOMAIN s : s[lead] = "l"
      BY <1>1, <1>5, <2>3, <2>5 DEF WellFormed
    <3>2. lead + 2 \in DOMAIN s /\ s[lead + 1] = "c" /\ s[lead + 2] = "c"
      BY <1>5, <3>1 DEF WellFormed
    <3> QED BY <2>3, <3>1, <3>2 DEF Continues
  <2>6. CASE s[i] = "a"
    BY <2>2, <2>6 DEF RuneAt, Chars
  <2> QED BY <2>3, <2>4, <2>5, <2>6 DEF ByteSet
<1>6. WellFormed(s) => Runes(s) \in Seq(Chars)
  BY <1>1, <1>2, <1>5
<1> QED BY <1>4, <1>6 DEF m

\* What is shown of a buffer is what would be shown of the whole output.
LEMMA ShownOfKept ==
    ASSUME NEW out \in Seq(ByteSet), WellFormed(out), NEW buf \in Seq(ByteSet),
           KeptOf(out, Len(out), buf)
    PROVE  /\ Shown(buf).truncated <=> Len(Runes(out)) > MaxRunes
           /\ Shown(buf).text = SubSeq(Runes(out), 1, Len(Shown(buf).text))
           /\ ~Shown(buf).truncated => Shown(buf).text = Runes(out)
           /\ Shown(buf).text \in Seq(Chars)
           /\ Shown(buf).truncated => Len(Shown(buf).text) = MaxRunes
<1> DEFINE r == Runes(out)
           b == Runes(buf)
<1>1. /\ r \in Seq(Chars) /\ Len(r) = Rank(out, Len(out)) /\ Len(r) \in Nat
      /\ \A n \in 1..Len(r) : r[n] = RuneAt(out, NthStart(out, n))
  BY RunesOf
<1>2. /\ b \in Seq({"a", "z", "?"}) /\ Len(b) = Rank(buf, Len(buf)) /\ Len(b) \in Nat
      /\ \A n \in 1..Len(b) : b[n] = RuneAt(buf, NthStart(buf, n))
  BY RunesOf
<1>3. MaxRunes \in Nat /\ CapBytes \in Nat /\ CapBytes >= 3 * MaxRunes + 3 /\ MaxRunes >= 1
  BY CapAssumption DEF CharBytes
<1> DEFINE text == Shown(buf).text
           Faithful == /\ Shown(buf).truncated <=> Len(r) > MaxRunes
                       /\ text = SubSeq(r, 1, Len(text))
                       /\ ~Shown(buf).truncated => text = r
                       /\ text \in Seq(Chars)
                       /\ Shown(buf).truncated => Len(text) = MaxRunes
<1>4. /\ text = SubSeq(b, 1, IF Len(b) <= MaxRunes THEN Len(b) ELSE MaxRunes)
      /\ Shown(buf).truncated = (Len(b) > MaxRunes)
  BY DEF Shown
<1> HIDE DEF r, b, text
<1>5. \/ b = r
      \/ /\ Len(b) > MaxRunes /\ Len(r) > MaxRunes
         /\ \A n \in 1..MaxRunes : b[n] = r[n]
  <2>1. CASE buf = SubSeq(out, 1, Len(out))
    <3>1. buf = out
      BY <2>1, SubSeqFull
    <3> QED BY <3>1 DEF r, b
  <2>2. CASE \E e \in (CapBytes - 4)..(CapBytes - 2) : Alike(out, buf, e)
    <3>1. PICK e \in (CapBytes - 4)..(CapBytes - 2) : Alike(out, buf, e)
      BY <2>2
    <3>2. e \in Nat /\ e - 1 \in Nat /\ e - 1 >= 3 * MaxRunes - 2 /\ (e - 1) + 1 = e
      BY <1>3
    <3>3. e \in 1..Len(out) /\ e \in 1..Len(buf) /\ Len(out) \in Nat /\ Len(buf) \in Nat
      BY <3>1 DEF Alike
    <3>4. /\ e \in Starts(out) /\ e \in Starts(buf)
          /\ \A i \in 0..e : Upto(out, i) = Upto(buf, i)
          /\ \A i \in 1..e - 1 : RuneAt(out, i) = RuneAt(buf, i)
      BY <3>1, <3>2, AlikeRunes
    <3>5. \A i \in 0..e : Rank(out, i) = Rank(buf, i)
      BY <3>4 DEF Rank
    <3>6. e - 1 <= 3 * Rank(out, e - 1) /\ Rank(out, e - 1) \in Nat
      BY <3>2, <3>3, RunesAreShort, UptoFinite
    <3>7. Rank(out, e - 1) >= MaxRunes
      BY <1>3, <3>2, <3>6
    <3>8. Rank(out, e) = Rank(out, e - 1) + 1 /\ Rank(buf, e) = Rank(out, e)
      BY <3>2, <3>4, <3>5, RankNext
    <3>9. Rank(out, e) <= Rank(out, Len(out)) /\ Rank(buf, e) <= Rank(buf, Len(buf))
      BY <3>2, <3>3, RankGrows
    <3>10. Len(b) > MaxRunes /\ Len(r) > MaxRunes
      BY <1>1, <1>2, <1>3, <3>6, <3>7, <3>8, <3>9
    <3>11. ASSUME NEW n \in 1..MaxRunes PROVE b[n] = r[n]
      <4>1. n \in 1..Rank(out, e - 1)
        BY <1>3, <3>6, <3>7
      <4>2. PICK i \in Starts(out) : i <= e - 1 /\ Rank(out, i) = n
        BY <3>2, <4>1, BeginsSomewhere
      <4>3. i \in 1..e - 1 /\ i \in 0..e /\ i \in Nat
        <5>1. Starts(out) \subseteq 1..Len(out)
          BY UptoFinite
        <5> QED BY <3>2, <3>3, <4>2, <5>1
      <4>4. i \in Starts(buf) /\ Rank(buf, i) = n
        <5>1. i \in Upto(out, i)
          BY <4>2, <4>3 DEF Upto
        <5> QED BY <3>4, <3>5, <4>2, <4>3, <5>1 DEF Upto
      <4>5. NthStart(out, n) = i /\ NthStart(buf, n) = i
        BY <4>2, <4>4, NthIs
      <4>6. n \in 1..Len(b) /\ n \in 1..Len(r)
        BY <1>1, <1>2, <1>3, <3>10
      <4>7. b[n] = RuneAt(buf, i) /\ r[n] = RuneAt(out, i)
        BY <1>1, <1>2, <4>5, <4>6
      <4> QED BY <3>4, <4>3, <4>7
    <3> QED BY <3>10, <3>11
  <2> QED BY <2>1, <2>2 DEF KeptOf
<1>6. SubSeq(r, 1, Len(r)) = r
  BY <1>1, SubSeqFull
<1>7. MaxRunes < Len(r) =>
         SubSeq(r, 1, MaxRunes) \in Seq(Chars) /\ Len(SubSeq(r, 1, MaxRunes)) = MaxRunes
  BY <1>1, <1>3
<1>8. ASSUME b = r PROVE Faithful
  <2>1. CASE Len(r) <= MaxRunes
    <3>1. text = r /\ ~(Len(r) > MaxRunes)
      BY <1>1, <1>3, <1>4, <1>6, <1>8, <2>1
    <3>2. ~Shown(buf).truncated
      BY <1>4, <1>8, <3>1
    <3> QED BY <1>1, <1>6, <3>1, <3>2
  <2>2. CASE ~(Len(r) <= MaxRunes)
    <3>1. text = SubSeq(r, 1, MaxRunes) /\ MaxRunes < Len(r)
      BY <1>1, <1>3, <1>4, <1>8, <2>2
    <3>2. Shown(buf).truncated
      BY <1>1, <1>3, <1>4, <1>8, <3>1
    <3>3. text \in Seq(Chars) /\ Len(text) = MaxRunes
      BY <1>7, <3>1
    <3> QED BY <1>1, <1>3, <3>1, <3>2, <3>3
  <2> QED BY <2>1, <2>2
<1>9. ASSUME /\ Len(b) > MaxRunes /\ Len(r) > MaxRunes
             /\ \A n \in 1..MaxRunes : b[n] = r[n]
      PROVE  Faithful
  <2> DEFINE x == SubSeq(b, 1, MaxRunes)
             y == SubSeq(r, 1, MaxRunes)
  <2>1. text = x /\ Shown(buf).truncated
    <3>1. ~(Len(b) <= MaxRunes)
      BY <1>2, <1>3, <1>9
    <3>2. text = x
      BY <1>4, <3>1
    <3>3. Shown(buf).truncated
      BY <1>4, <1>9
    <3> QED BY <3>2, <3>3
  <2>2. /\ x \in Seq({"a", "z", "?"}) /\ Len(x) = MaxRunes
        /\ \A n \in 1..MaxRunes : x[n] = b[n]
    BY <1>2, <1>3, <1>9
  <2>3. /\ y \in Seq(Chars) /\ Len(y) = MaxRunes
        /\ \A n \in 1..MaxRunes : y[n] = r[n]
    BY <1>1, <1>3, <1>9
  <2> HIDE DEF x
  <2>4. x = y
    <3> HIDE DEF y
    <3>1. y \in Seq({"a", "z", "?"})
      BY <2>3, SeqMonotonic DEF Chars
    <3>2. \A n \in 1..Len(x) : x[n] = y[n]
      BY <1>9, <2>2, <2>3
    <3> QED BY <2>2, <2>3, <3>1, <3>2, SeqEqual
  <2>5. text \in Seq(Chars) /\ Len(text) = MaxRunes /\ text = SubSeq(r, 1, MaxRunes)
    BY <2>1, <2>3, <2>4
  <2> QED BY <1>9, <2>1, <2>5
<1>10. Faithful
  BY <1>5, <1>8, <1>9
<1> QED BY <1>10 DEF r, text

-----------------------------------------------------------------------------
\* The calls.

Told(c, k) == Bash(c) /\ k.phase = "returned" /\ k.result.kind = "told"

\* What the buffer of a call holds of its output, and what its result shows of the buffer.
Kept(c, k) ==
    /\ k \in CallRecords
    /\ WellFormed(k.out) /\ k.taken <= Len(k.out)
    /\ Bash(c) => KeptOf(k.out, k.taken, k.buf)
    /\ Told(c, k) => /\ k.result.text = Shown(k.buf).text
                     /\ k.result.truncated = Shown(k.buf).truncated

AllKept == call \in [Calls -> CallRecords] /\ \A c \in Calls : Kept(c, call[c])

\* A call that prints nothing and copies nothing.
LEMMA Rewritten ==
    ASSUME NEW c \in Calls, NEW k, Kept(c, k), NEW n \in CallRecords,
           n.out = k.out, n.taken = k.taken, n.buf = k.buf,
           Told(c, n) => /\ n.result.text = Shown(n.buf).text
                         /\ n.result.truncated = Shown(n.buf).truncated
    PROVE  Kept(c, n)
BY DEF Kept

LEMMA OneKept ==
    ASSUME AllKept, NEW c \in Calls, NEW n, Kept(c, n), call' = [call EXCEPT ![c] = n]
    PROVE  AllKept'
<1>1. n \in CallRecords
  BY DEF Kept
<1>2. call' \in [Calls -> CallRecords]
  BY <1>1 DEF AllKept
<1>3. ASSUME NEW d \in Calls PROVE Kept(d, call'[d])
  BY DEF AllKept
<1>4. \A d \in Calls : Kept(d, call[d])'
  BY <1>3 DEF Kept, Told, Bash
<1> QED BY <1>2, <1>4 DEF AllKept

LEMMA NothingIsResult ==
    /\ Nothing \in Results
    /\ \A kind \in {"refused", "failed"} :
          [Nothing EXCEPT !.kind = kind] \in Results /\ [Nothing EXCEPT !.kind = kind].kind # "told"
<1>1. NoOutput \in Seq(Chars \cup ByteSet \cup {"?", "stderr"})
  BY DEF NoOutput
<1> HIDE DEF NoOutput
<1> QED BY <1>1 DEF Nothing, Results

LEMMA FreshKept ==
    ASSUME NEW c \in Calls
    PROVE  Kept(c, Fresh) /\ Kept(c, [Fresh EXCEPT !.phase = "returned"])
<1>1. Nothing \in Results /\ Nothing.kind # "told"
  BY NothingIsResult DEF Nothing
<1>2. NoOutput \in Seq(ByteSet) /\ Len(NoOutput) = 0 /\ DOMAIN NoOutput = {}
  BY DEF NoOutput
<1> DEFINE again == [Fresh EXCEPT !.phase = "returned"]
<1>3. /\ Fresh \in CallRecords /\ again \in CallRecords
      /\ Fresh.phase = "start" /\ Fresh.out = NoOutput /\ Fresh.taken = 0 /\ Fresh.buf = NoOutput
      /\ again.out = NoOutput /\ again.taken = 0 /\ again.buf = NoOutput /\ again.result = Nothing
  <2> HIDE DEF NoOutput, Nothing
  <2> QED BY <1>1, <1>2 DEF Fresh, CallRecords
<1>4. WellFormed(NoOutput)
  BY <1>2 DEF WellFormed
<1>5. KeptOf(NoOutput, 0, NoOutput)
  <2>1. SubSeq(NoOutput, 1, 0) = NoOutput
    BY DEF NoOutput
  <2> QED BY <2>1, CapAssumption DEF KeptOf
<1> HIDE DEF again, NoOutput
<1>6. Kept(c, Fresh)
  BY <1>2, <1>3, <1>4, <1>5 DEF Kept, Told
<1>7. Kept(c, again)
  BY <1>1, <1>2, <1>3, <1>4, <1>5 DEF Kept, Told
<1> QED BY <1>6, <1>7 DEF again

\* A program, a kill and the waiting leave what was copied alone; printing adds to it.
LEMMA PrintsKept ==
    ASSUME AllKept, NEW c \in Calls, NEW ch \in Chars, Prints(c, ch)
    PROVE  AllKept'
<1> DEFINE k == call[c]
           more == k.out \o BytesOf(ch)
           n == [k EXCEPT !.out = more]
<1>1. Kept(c, k) /\ k \in CallRecords
  BY DEF AllKept
<1>2. k.out \in Seq(ByteSet) /\ k.taken \in Nat /\ k.buf \in Seq(ByteSet)
  BY <1>1 DEF CallRecords
<1>3. WellFormed(k.out) /\ k.taken <= Len(k.out)
  BY <1>1 DEF Kept
<1>4. more \in Seq(ByteSet) /\ WellFormed(more)
  BY <1>2, <1>3, PrintsWhole
<1>5. /\ Len(more) \in Nat /\ Len(k.out) \in Nat /\ Len(k.out) <= Len(more)
      /\ \A p \in 1..Len(k.out) : more[p] = k.out[p]
  <2>1. BytesOf(ch) \in Seq(ByteSet) /\ Len(BytesOf(ch)) \in Nat
    BY WrittenAs
  <2> HIDE DEF k
  <2> QED BY <1>2, <2>1, ConcatProperties
<1> HIDE DEF k, more
<1>6. /\ n \in CallRecords /\ n.out = more /\ n.taken = k.taken /\ n.buf = k.buf
      /\ n.phase = k.phase
  BY <1>1, <1>4 DEF CallRecords
<1>7. call' = [call EXCEPT ![c] = n] /\ k.phase # "returned"
  BY DEF Prints, Only, InRun, k, more
<1>8. ASSUME Bash(c) PROVE KeptOf(more, k.taken, k.buf)
  <2>1. KeptOf(k.out, k.taken, k.buf)
    BY <1>1, <1>8 DEF Kept
  <2>2. ASSUME k.buf = SubSeq(k.out, 1, k.taken) PROVE k.buf = SubSeq(more, 1, k.taken)
    <3>1. /\ SubSeq(more, 1, k.taken) \in Seq(ByteSet) /\ Len(SubSeq(more, 1, k.taken)) = k.taken
          /\ \A p \in 1..k.taken : SubSeq(more, 1, k.taken)[p] = more[p]
      BY <1>2, <1>3, <1>4, <1>5
    <3>2. /\ Len(k.buf) = k.taken
          /\ \A p \in 1..k.taken : k.buf[p] = k.out[p]
      BY <1>2, <1>3, <2>2
    <3>3. \A p \in 1..k.taken : p \in 1..Len(k.out)
      BY <1>2, <1>3, <1>5
    <3> DEFINE whole == SubSeq(more, 1, k.taken)
    <3>4. /\ whole \in Seq(ByteSet) /\ Len(whole) = Len(k.buf)
          /\ \A p \in 1..Len(k.buf) : whole[p] = k.buf[p]
      BY <1>5, <3>1, <3>2, <3>3
    <3> HIDE DEF whole
    <3>5. k.buf = whole
      BY <1>2, <3>4, SeqEqual
    <3> QED BY <3>5 DEF whole
  <2>3. ASSUME NEW e \in (CapBytes - 4)..(CapBytes - 2), Alike(k.out, k.buf, e)
        PROVE  Alike(more, k.buf, e)
    <3>1. e \in 1..Len(k.out) /\ e \in Nat
      BY <1>2, <2>3 DEF Alike
    <3>2. e \in DOMAIN more /\ \A p \in 1..e : more[p] = k.out[p]
      BY <1>4, <1>5, <3>1
    <3>3. e \in 1..e
      BY <3>1
    <3> QED BY <2>3, <3>2, <3>3 DEF Alike
  <2> QED BY <2>1, <2>2, <2>3 DEF KeptOf
<1>9. k.taken <= Len(more)
  BY <1>2, <1>3, <1>5
<1> HIDE DEF n
<1>10. Kept(c, n)
  BY <1>4, <1>6, <1>7, <1>8, <1>9 DEF Kept, Told
<1> QED BY <1>7, <1>10, OneKept

LEMMA CopyKept ==
    ASSUME AllKept, NEW c \in Calls, Copy(c)
    PROVE  AllKept'
<1> DEFINE k == call[c]
<1>1. Kept(c, k) /\ k \in CallRecords
  BY DEF AllKept
<1>2. /\ k.out \in Seq(ByteSet) /\ k.taken \in Nat /\ k.buf \in Seq(ByteSet)
      /\ WellFormed(k.out) /\ k.taken <= Len(k.out) /\ k.phase # "returned"
  BY <1>1 DEF CallRecords, Kept, Copy, InRun
<1>3. PICK m \in (k.taken + 1)..Len(k.out) :
           call' = [call EXCEPT ![c] = [k EXCEPT !.taken = m,
                        !.buf = IF Bash(c) THEN Write(k.buf, SubSeq(k.out, k.taken + 1, m))
                                ELSE k.buf \o SubSeq(k.out, k.taken + 1, m)]]
  BY DEF Copy, Only, Size
<1> DEFINE chunk == SubSeq(k.out, k.taken + 1, m)
           new == IF Bash(c) THEN Write(k.buf, chunk) ELSE k.buf \o chunk
           n == [k EXCEPT !.taken = m, !.buf = new]
<1> HIDE DEF k
<1>4. m \in Nat /\ m <= Len(k.out)
  BY <1>2
<1>5. /\ new \in Seq(ByteSet)
      /\ Bash(c) => KeptOf(k.out, m, new)
  <2>1. CASE Bash(c)
    <3>1. KeptOf(k.out, k.taken, k.buf)
      BY <1>1, <2>1 DEF Kept
    <3> QED BY <1>2, <2>1, <3>1, WriteKeeps
  <2>2. CASE ~Bash(c)
    <3>1. chunk \in Seq(ByteSet)
      BY <1>2, <1>4
    <3> HIDE DEF chunk
    <3>2. k.buf \o chunk \in Seq(ByteSet)
      BY <1>2, <3>1, ConcatProperties
    <3> QED BY <2>2, <3>2
  <2> QED BY <2>1, <2>2
<1> HIDE DEF new
<1>6. /\ n \in CallRecords /\ n.out = k.out /\ n.taken = m /\ n.buf = new /\ n.phase = k.phase
  BY <1>1, <1>4, <1>5 DEF CallRecords
<1>7. call' = [call EXCEPT ![c] = n]
  BY <1>3 DEF new
<1> HIDE DEF n
<1>8. Kept(c, n)
  BY <1>2, <1>4, <1>5, <1>6 DEF Kept, Told
<1> QED BY <1>7, <1>8, OneKept

LEMMA ProgramKept ==
    ASSUME AllKept, NEW c \in Calls, Program(c)
    PROVE  AllKept'
<1> DEFINE k == call[c]
<1>1. Kept(c, k) /\ k \in CallRecords
  BY DEF AllKept
<1>2. Told(c, k) => /\ k.result.text = Shown(k.buf).text
                    /\ k.result.truncated = Shown(k.buf).truncated
  BY <1>1 DEF Kept
<1>3. CASE Complains(c)
  <2> DEFINE n == [k EXCEPT !.errs = TRUE]
  <2>1. call' = [call EXCEPT ![c] = n]
    BY <1>3 DEF Complains, Only
  <2> HIDE DEF k
  <2>2. /\ n \in CallRecords /\ n.out = k.out /\ n.taken = k.taken /\ n.buf = k.buf
        /\ n.phase = k.phase /\ n.result = k.result
    BY <1>1 DEF CallRecords
  <2>3. Kept(c, n)
    BY <1>1, <1>2, <2>2, Rewritten DEF Told
  <2> QED BY <2>1, <2>3, OneKept
<1>4. ASSUME NEW b \in Leaves[c], Forks(c, b) \/ BackgroundEnds(c, b) PROVE AllKept'
  <2>1. b \in Background
    BY CommandsAssumption DEF Background
  <2>2. PICK bg \in {k.bg \cup {b}, k.bg \ {b}} : call' = [call EXCEPT ![c] = [k EXCEPT !.bg = bg]]
    BY <1>4 DEF Forks, BackgroundEnds, Only
  <2> DEFINE n == [k EXCEPT !.bg = bg]
  <2> HIDE DEF k
  <2>3. bg \in SUBSET Background
    BY <1>1, <2>1, <2>2 DEF CallRecords
  <2>4. /\ n \in CallRecords /\ n.out = k.out /\ n.taken = k.taken /\ n.buf = k.buf
        /\ n.phase = k.phase /\ n.result = k.result
    BY <1>1, <2>3 DEF CallRecords
  <2>5. Kept(c, n)
    BY <1>1, <1>2, <2>4, Rewritten DEF Told
  <2> QED BY <2>2, <2>5, OneKept DEF k
<1>5. ASSUME NEW code \in {0, 1}, Exits(c, code) PROVE AllKept'
  <2> DEFINE n == [k EXCEPT !.child = "exited", !.code = code]
  <2>1. call' = [call EXCEPT ![c] = n]
    BY <1>5 DEF Exits, Only
  <2> HIDE DEF k
  <2>2. /\ n \in CallRecords /\ n.out = k.out /\ n.taken = k.taken /\ n.buf = k.buf
        /\ n.phase = k.phase /\ n.result = k.result
    BY <1>1 DEF CallRecords
  <2>3. Kept(c, n)
    BY <1>1, <1>2, <2>2, Rewritten DEF Told
  <2> QED BY <2>1, <2>3, OneKept
<1> QED BY <1>3, <1>4, <1>5, PrintsKept DEF Program

LEMMA WaitingKept ==
    ASSUME AllKept, NEW c \in Calls,
           Deadline(c) \/ Cancelled(c) \/ Kill(c) \/ Reap(c) \/ GiveUp(c)
    PROVE  AllKept'
<1> DEFINE k == call[c]
<1>1. Kept(c, k) /\ k \in CallRecords
  BY DEF AllKept
<1>2. CASE Deadline(c) \/ Cancelled(c)
  <2>1. PICK ctx \in {"deadline", "cancelled"} :
             k.phase # "returned" /\ call' = [call EXCEPT ![c] = [k EXCEPT !.ctx = ctx]]
    BY <1>2 DEF Deadline, Cancelled, InRun, Only
  <2> DEFINE n == [k EXCEPT !.ctx = ctx]
  <2> HIDE DEF k
  <2>2. /\ n \in CallRecords /\ n.out = k.out /\ n.taken = k.taken /\ n.buf = k.buf
        /\ n.phase = k.phase
    BY <1>1 DEF CallRecords
  <2>3. Kept(c, n)
    BY <1>1, <2>1, <2>2, Rewritten DEF Told
  <2> QED BY <2>1, <2>3, OneKept
<1>3. CASE Kill(c)
  <2> DEFINE code == IF k.child = "alive" THEN -1 ELSE k.code
             bg == IF Bash(c) THEN k.bg \ {"group"} ELSE k.bg
             n == [k EXCEPT !.killed = TRUE, !.child = "exited", !.code = code, !.bg = bg]
  <2>1. k.phase = "run" /\ call' = [call EXCEPT ![c] = n]
    BY <1>3 DEF Kill, Only
  <2>2. code \in {-1, 0, 1} /\ bg \in SUBSET Background
    BY <1>1 DEF CallRecords
  <2> HIDE DEF k, code, bg
  <2>3. /\ n \in CallRecords /\ n.out = k.out /\ n.taken = k.taken /\ n.buf = k.buf
        /\ n.phase = k.phase
    BY <1>1, <2>2 DEF CallRecords
  <2>4. Kept(c, n)
    BY <1>1, <2>1, <2>3, Rewritten DEF Told
  <2> QED BY <2>1, <2>4, OneKept
<1>4. CASE Reap(c) \/ GiveUp(c)
  <2>1. PICK phase \in {"reaped", "closed"}, err \in {"nil", "exit", "ctx", "delay", "start"} :
             call' = [call EXCEPT ![c] = [k EXCEPT !.phase = phase, !.err = err]]
    <3>1. CASE Reap(c)
      BY <3>1 DEF Reap, Only
    <3>2. CASE GiveUp(c)
      <4>1. k.err \in {"nil", "exit", "ctx", "delay", "start"}
        BY <1>1 DEF CallRecords
      <4> QED BY <3>2, <4>1 DEF GiveUp, Only
    <3> QED BY <1>4, <3>1, <3>2
  <2> DEFINE n == [k EXCEPT !.phase = phase, !.err = err]
  <2> HIDE DEF k
  <2>2. /\ n \in CallRecords /\ n.out = k.out /\ n.taken = k.taken /\ n.buf = k.buf
        /\ n.phase = phase
    BY <1>1 DEF CallRecords
  <2>3. Kept(c, n)
    BY <1>1, <2>2, Rewritten DEF Told
  <2> QED BY <2>1, <2>3, OneKept DEF k
<1> QED BY <1>2, <1>3, <1>4

\* What a call returns.
LEMMA ReturnKept ==
    ASSUME AllKept, NEW c \in Calls, Refuse(c) \/ PythonFails(c) \/ Report(c)
    PROVE  AllKept'
<1> DEFINE k == call[c]
<1>1. Kept(c, k) /\ k \in CallRecords
  BY DEF AllKept
<1>2. ASSUME NEW result \in Results, Return(c, result),
             Bash(c) /\ result.kind = "told" => /\ result.text = Shown(k.buf).text
                                                /\ result.truncated = Shown(k.buf).truncated
      PROVE  AllKept'
  <2> DEFINE n == [k EXCEPT !.phase = "returned", !.result = result]
  <2>1. call' = [call EXCEPT ![c] = n]
    BY <1>2 DEF Return
  <2> HIDE DEF k
  <2>2. /\ n \in CallRecords /\ n.out = k.out /\ n.taken = k.taken /\ n.buf = k.buf
        /\ n.result = result
    BY <1>1, <1>2 DEF CallRecords
  <2>3. Kept(c, n)
    BY <1>1, <1>2, <2>2, Rewritten DEF Told
  <2> QED BY <2>1, <2>3, OneKept
<1>3. CASE Refuse(c) \/ PythonFails(c)
  <2>1. PICK kind \in {"refused", "failed"} : Return(c, [Nothing EXCEPT !.kind = kind])
    BY <1>3 DEF Refuse, PythonFails
  <2>2. [Nothing EXCEPT !.kind = kind] \in Results /\ [Nothing EXCEPT !.kind = kind].kind # "told"
    BY <2>1, NothingIsResult
  <2> QED BY <1>2, <2>1, <2>2
<1>4. /\ k.code \in {-1, 0, 1} /\ k.buf \in Seq(ByteSet)
      /\ k.err \in {"nil", "exit", "ctx", "delay", "start"}
  BY <1>1 DEF CallRecords
<1>5. ASSUME Report(c), Bash(c) PROVE AllKept'
  <2> DEFINE shown == Shown(k.buf)
  <2>1. /\ shown.text \in Seq({"a", "z", "?"}) /\ shown.truncated \in BOOLEAN
    <3> DEFINE r == Runes(k.buf)
               m == IF Len(r) <= MaxRunes THEN Len(r) ELSE MaxRunes
    <3>1. r \in Seq({"a", "z", "?"})
      BY <1>4, RunesOf
    <3>5. shown = [text |-> SubSeq(r, 1, m), truncated |-> Len(r) > MaxRunes]
      BY DEF Shown
    <3> HIDE DEF r
    <3>2. MaxRunes \in Nat
      BY CapAssumption
    <3>3. m \in 0..Len(r)
      BY <3>1, <3>2
    <3> HIDE DEF m
    <3>4. SubSeq(r, 1, m) \in Seq({"a", "z", "?"})
      BY <3>1, <3>3
    <3>6. Len(r) \in Nat
      BY <3>1
    <3> HIDE DEF shown
    <3> QED BY <3>4, <3>5, <3>6
  <2>2. shown.text \in Seq(Chars \cup ByteSet \cup {"?", "stderr"})
    <3>1. {"a", "z", "?"} \subseteq Chars \cup ByteSet \cup {"?", "stderr"}
      BY DEF Chars
    <3> HIDE DEF shown
    <3> QED BY <2>1, <3>1, SeqMonotonic
  <2>3. /\ BashResult(c).kind = "told" /\ BashResult(c).text = shown.text
        /\ BashResult(c).truncated = shown.truncated
    BY DEF BashResult
  <2>4. BashResult(c) \in Results
    <3> DEFINE interrupted == k.err \notin {"nil", "exit"} /\ k.ctx = "deadline"
               exit == IF k.err = "exit" THEN k.code
                       ELSE IF k.err = "nil" \/ interrupted THEN 0 ELSE -1
    <3>1. BashResult(c) = [kind |-> "told", interrupted |-> interrupted, text |-> shown.text,
                           truncated |-> shown.truncated, exit |-> exit]
      BY DEF BashResult
    <3>2. interrupted \in BOOLEAN /\ exit \in {-1, 0, 1}
      BY <1>4
    <3> HIDE DEF shown, interrupted, exit
    <3> QED BY <2>1, <2>2, <3>1, <3>2 DEF Results
  <2> QED BY <1>2, <1>5, <2>3, <2>4 DEF Report
<1>6. ASSUME Report(c), ~Bash(c) PROVE AllKept'
  <2> DEFINE text == IF k.buf = NoOutput /\ k.errs /\ k.err = "exit" THEN <<"stderr">> ELSE k.buf
             told == [Nothing EXCEPT !.kind = "told", !.exit = k.code, !.text = text]
             failed == [Nothing EXCEPT !.kind = "failed"]
  <2>1. text \in Seq(Chars \cup ByteSet \cup {"?", "stderr"})
    <3>1. k.buf \in Seq(Chars \cup ByteSet \cup {"?", "stderr"})
      BY <1>4, SeqMonotonic
    <3>2. <<"stderr">> \in Seq(Chars \cup ByteSet \cup {"?", "stderr"})
      OBVIOUS
    <3> QED BY <3>1, <3>2
  <2>2. ScriptResult(c) = told \/ ScriptResult(c) = failed
    BY DEF ScriptResult
  <2> HIDE DEF k, text
  <2>3. told \in Results
    BY <1>4, <2>1, NothingIsResult DEF Results
  <2>4. failed \in Results
    BY NothingIsResult
  <2> HIDE DEF told, failed
  <2>5. ScriptResult(c) \in Results
    BY <2>2, <2>3, <2>4
  <2> QED BY <1>2, <1>6, <2>5 DEF Report
<1> QED BY <1>3, <1>5, <1>6

LEMMA StartKept ==
    ASSUME AllKept, NEW c \in Calls, Invoke(c) \/ Start(c) \/ StartFails(c)
    PROVE  AllKept'
<1> DEFINE k == call[c]
<1>1. Kept(c, k) /\ k \in CallRecords
  BY DEF AllKept
<1>2. CASE Invoke(c)
  <2>1. call' = [call EXCEPT ![c] = Fresh]
    BY <1>2 DEF Invoke
  <2> QED BY <2>1, FreshKept, OneKept
<1>3. CASE Start(c)
  <2> DEFINE n == [k EXCEPT !.phase = "run", !.child = "alive"]
  <2>1. call' = [call EXCEPT ![c] = n]
    BY <1>3 DEF Start, Begin
  <2> HIDE DEF k
  <2>2. /\ n \in CallRecords /\ n.out = k.out /\ n.taken = k.taken /\ n.buf = k.buf
        /\ n.phase = "run"
    BY <1>1 DEF CallRecords
  <2>3. Kept(c, n)
    BY <1>1, <2>2, Rewritten DEF Told
  <2> QED BY <2>1, <2>3, OneKept
<1>4. CASE StartFails(c)
  <2> DEFINE n == [k EXCEPT !.phase = "closed", !.err = "start"]
  <2>1. call' = [call EXCEPT ![c] = n]
    BY <1>4 DEF StartFails, Begin
  <2> HIDE DEF k
  <2>2. /\ n \in CallRecords /\ n.out = k.out /\ n.taken = k.taken /\ n.buf = k.buf
        /\ n.phase = "closed"
    BY <1>1 DEF CallRecords
  <2>3. Kept(c, n)
    BY <1>1, <2>2, Rewritten DEF Told
  <2> QED BY <2>1, <2>3, OneKept
<1> QED BY <1>2, <1>3, <1>4

\* How often a call was made, and the harness started again.
Counted == runs \in [Calls -> 0..MaxRuns] /\ restarts \in 0..MaxRestarts

LEMMA KeptInit == Init => AllKept /\ Counted
<1> SUFFICES ASSUME Init PROVE AllKept /\ Counted
  OBVIOUS
<1> DEFINE fresh == [Fresh EXCEPT !.phase = "returned"]
<1>1. call = [c \in Calls |-> fresh]
  BY DEF Init
<1>2. \A c \in Calls : Kept(c, fresh)
  BY FreshKept
<1> HIDE DEF fresh
<1>3. AllKept
  BY <1>1, <1>2 DEF AllKept, Kept
<1>4. Counted
  BY CommandsAssumption DEF Init, Counted
<1> QED BY <1>3, <1>4

LEMMA KeptStep == AllKept /\ [Next]_vars => AllKept'
<1> SUFFICES ASSUME AllKept, [Next]_vars PROVE AllKept'
  OBVIOUS
<1>1. CASE UNCHANGED call
  BY <1>1 DEF AllKept, Kept, Told, Bash
<1>2. ASSUME NEW c \in Calls, Proceed(c) PROVE AllKept'
  <2>1. CASE Prepare(c)
    BY <1>1, <2>1 DEF Prepare
  <2> QED BY <1>2, <2>1, ReturnKept, StartKept, WaitingKept DEF Proceed
<1>3. ASSUME NEW c \in Calls, Ensure(c) \/ TakeLock(c) PROVE AllKept'
  BY <1>1, <1>3 DEF Ensure, TakeLock
<1>4. CASE Environment
  BY <1>1, <1>4 DEF Environment
<1>5. CASE Restart
  <2> DEFINE fresh == [Fresh EXCEPT !.phase = "returned"]
  <2>1. call' = [c \in Calls |-> fresh]
    BY <1>5 DEF Restart
  <2>2. \A c \in Calls : Kept(c, fresh)
    BY FreshKept
  <2> HIDE DEF fresh
  <2>3. call' \in [Calls -> CallRecords] /\ \A c \in Calls : Kept(c, call'[c])
    BY <2>1, <2>2 DEF Kept
  <2>4. \A c \in Calls : Kept(c, call[c])'
    BY <2>3 DEF Kept, Told, Bash
  <2> QED BY <2>3, <2>4 DEF AllKept
<1>6. CASE UNCHANGED vars
  BY <1>1, <1>6 DEF vars
<1> QED BY <1>2, <1>3, <1>4, <1>5, <1>6, StartKept, ProgramKept, CopyKept, WaitingKept DEF Next

LEMMA CountedStep == Counted /\ [Next]_vars => Counted'
<1> SUFFICES ASSUME Counted, [Next]_vars PROVE Counted'
  OBVIOUS
<1>1. CASE UNCHANGED <<runs, restarts>>
  BY <1>1 DEF Counted
<1>2. ASSUME NEW c \in Calls, Invoke(c) PROVE Counted'
  <2>1. runs[c] \in Nat /\ runs[c] + 1 \in 0..MaxRuns
    BY <1>2, CommandsAssumption DEF Counted, Invoke
  <2> QED BY <1>2, <2>1 DEF Counted, Invoke
<1>3. CASE Restart
  BY <1>3, CommandsAssumption DEF Counted, Restart
<1>4. ASSUME NEW c \in Calls, Proceed(c) PROVE Counted'
  BY <1>1, <1>4 DEF Proceed, Refuse, Prepare, PythonFails, Start, StartFails, Reap, GiveUp,
                    Report, Return, Begin, Only
<1>5. ASSUME NEW c \in Calls,
             Ensure(c) \/ TakeLock(c) \/ Program(c) \/ Copy(c) \/ Deadline(c) \/ Cancelled(c)
                \/ Kill(c)
      PROVE  Counted'
  BY <1>1, <1>5 DEF Ensure, TakeLock, Program, Prints, Complains, Forks, BackgroundEnds, Exits,
                    Copy, Deadline, Cancelled, Kill, Only
<1>6. CASE Environment
  BY <1>1, <1>6 DEF Environment
<1>7. CASE UNCHANGED vars
  BY <1>1, <1>7 DEF vars
<1> QED BY <1>2, <1>3, <1>4, <1>5, <1>6, <1>7 DEF Next

(* For every cap and every limit that fits it, any programs and any number *)
(* of calls: whatever chunks an output comes in, Bash shows its first      *)
(* characters, none of them halved, and says when there are more.          *)
THEOREM OutputsShown == Spec => []OutputSound
<1>1. EnvSound /\ AllKept /\ Counted => OutputSound
  <2> SUFFICES ASSUME EnvSound, AllKept, Counted PROVE OutputSound
    OBVIOUS
  <2>1. ASSUME NEW c \in Calls
        PROVE  /\ call[c].taken <= Size(c)
               /\ Bash(c) => Len(call[c].buf) <= CapBytes
    <3>1. Kept(c, call[c]) /\ call[c] \in CallRecords
      BY DEF AllKept
    <3>2. /\ call[c].out \in Seq(ByteSet) /\ call[c].taken \in Nat
          /\ call[c].taken <= Len(call[c].out)
          /\ Bash(c) => KeptOf(call[c].out, call[c].taken, call[c].buf)
      BY <3>1 DEF Kept, CallRecords
    <3>3. CapBytes \in Nat
      BY CapAssumption
    <3>4. ASSUME Bash(c) PROVE Len(call[c].buf) <= CapBytes
      <4>1. CASE call[c].taken <= CapBytes /\ call[c].buf = SubSeq(call[c].out, 1, call[c].taken)
        BY <3>2, <3>3, <4>1
      <4> QED BY <3>2, <3>4, <4>1 DEF KeptOf
    <3> QED BY <3>2, <3>4 DEF Size
  <2>2. TypeOK
    BY <2>1 DEF TypeOK, EnvSound, AllKept, Counted
  <2>3. ShownFaithful
    <3> SUFFICES ASSUME NEW c \in Calls, Bash(c), call[c].phase = "returned",
                        call[c].result.kind = "told", call[c].taken = Size(c)
                 PROVE  /\ call[c].result.truncated <=> Len(Runes(call[c].out)) > MaxRunes
                        /\ call[c].result.text
                              = SubSeq(Runes(call[c].out), 1, Len(call[c].result.text))
                        /\ ~call[c].result.truncated => call[c].result.text = Runes(call[c].out)
                        /\ call[c].result.text \in Seq(Chars)
                        /\ call[c].result.truncated => Len(call[c].result.text) = MaxRunes
      BY DEF ShownFaithful
    <3>1. Kept(c, call[c]) /\ call[c] \in CallRecords
      BY DEF AllKept
    <3>2. /\ call[c].out \in Seq(ByteSet) /\ call[c].buf \in Seq(ByteSet)
          /\ WellFormed(call[c].out)
          /\ KeptOf(call[c].out, Len(call[c].out), call[c].buf)
          /\ call[c].result.text = Shown(call[c].buf).text
          /\ call[c].result.truncated = Shown(call[c].buf).truncated
      BY <3>1 DEF Kept, CallRecords, Told, Size
    <3> QED BY <3>2, ShownOfKept
  <2> QED BY <2>2, <2>3 DEF OutputSound
<1>2. Spec => []EnvSound
  BY EnvSoundAlways
<1> QED BY <1>1, <1>2, KeptInit, KeptStep, CountedStep, PTL DEF Spec
=============================================================================
