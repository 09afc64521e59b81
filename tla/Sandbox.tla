------------------------------- MODULE Sandbox -------------------------------
(***************************************************************************)
(* The decisions of the sandbox (sandbox/): CheckFile, CheckCommand and    *)
(* CheckURL are asked before a tool runs and may answer that the user must *)
(* be asked; EnforceFile and EnforceURL are asked again when it runs.  All *)
(* read the policy in force, which the host replaces as a whole, and the   *)
(* world: the files, a symbolic link, and the addresses of hosts.          *)
(*                                                                         *)
(* A path is a sequence of names, the root the empty one.  A name pattern  *)
(* is the set of names it matches, a command pattern the set of commands,  *)
(* a subnet the set of addresses; letter case is left out.                 *)
(***************************************************************************)
EXTENDS Naturals, Sequences

CONSTANTS
    Names, Files,  \* names, and the paths a file or a directory may have
    Hosts, Addresses,
    Policies,      \* what the host may configure
    Blank,         \* an entry of white space, in any list of a policy
    LinkAt, LinkTo,\* the directory that may be a link, and what it points to
    MaxChanges     \* bound on the changes of the policy and the world

Lists == {"allowedDirs", "allowedPaths", "allowedNames", "deniedNames",
          "deniedPaths", "deniedDirs", "devices", "allowedCommands",
          "netCommands", "deniedCommands", "denySubnets", "allowSubnets"}

ASSUME SandboxAssumption ==
    /\ Files \subseteq Seq(Names) /\ LinkAt \in Seq(Names) /\ LinkTo \in Seq(Names)
    /\ LinkAt # <<>> /\ LinkTo # <<>>
    /\ Blank \notin Names /\ Blank \notin Files
    /\ \A p \in Policies : p["allowedDirs"] \ {Blank} \subseteq Seq(Names)
    /\ MaxChanges \in Nat

VARIABLES
    policy,   \* the compiled policy in force
    files,    \* the real paths that exist
    linked,   \* whether LinkAt is a link
    dns,      \* the addresses of each host; none if it cannot be resolved
    changes   \* changes so far

world == <<policy, files, linked, dns, changes>>

-----------------------------------------------------------------------------
(* Compile: blank entries are dropped; a policy with a missing subnet or   *)
(* pattern (here a blank one) is refused and the old one stays in force.   *)
Dropped == Lists \ {"deniedCommands", "denySubnets", "allowSubnets"}
Valid(p)   == \A l \in Lists \ Dropped : Blank \notin p[l]
Compile(p) == [l \in Lists |-> IF l \in Dropped THEN p[l] \ {Blank} ELSE p[l]]

Within(path, dir) ==
    path = dir \/ (dir # <<>> /\ Len(dir) <= Len(path) /\ SubSeq(path, 1, Len(dir)) = dir)

(* The link does not lead to itself, into itself or back to where it is.   *)
ASSUME LinkAssumption == ~Within(LinkTo, LinkAt) /\ ~Within(LinkAt, LinkTo)

(* EvalSymlinks of what exists; anything else keeps its name.              *)
Behind(path) == linked /\ Within(path, LinkAt)
Followed(path) ==
    IF Behind(path)
    THEN LinkTo \o SubSeq(path, Len(LinkAt) + 1, Len(path)) ELSE path
Exists(path) == Followed(path) \in files

(* Mutant: every path is taken for what it is called.                      *)
Unresolved(path) == path

Real(path) == IF Exists(path) THEN Followed(path) ELSE path

LastName(path) == IF path = <<>> THEN Blank ELSE path[Len(path)]

IsDevice(path) == path \in policy.devices
IsAllowedFile(path, allowedPaths) ==
    LastName(path) \in policy.allowedNames \/ path \in allowedPaths
IsSensitive(path) ==
    \/ LastName(path) \in policy.deniedNames
    \/ \E i \in DOMAIN path : path[i] \in policy.deniedDirs
    \/ path \in policy.deniedPaths
IsOutside(path, base, dirs) == \A d \in {base} \cup dirs : ~Within(path, d)

(* CheckFile, before the tool runs.                                        *)
CheckFile(path, base) ==
    IF ~Exists(path) THEN "allow"
    ELSE IF IsDevice(path) THEN "deny"
    ELSE IF /\ IsSensitive(path)
            /\ \A p \in {path, Real(path)} : ~IsAllowedFile(p, policy.allowedPaths)
    THEN "deny"
    ELSE IF IsOutside(path, base, policy.allowedDirs) THEN "ask" ELSE "allow"

Resolved(path, dirs) == IF Exists(path) THEN {Real(d) : d \in dirs} ELSE dirs

(* EnforceFile, when it runs: on the real path.  The directories are       *)
(* resolved too when the path exists.                                      *)
EnforceFile(path, base, extra) ==
    LET real == Real(path)
    IN  /\ ~IsDevice(real)
        /\ IsSensitive(real) => IsAllowedFile(real, Resolved(path, policy.allowedPaths))
        /\ \E d \in Resolved(path, {base} \cup policy.allowedDirs \cup extra) : Within(real, d)

(* CheckCommand; of a command, base is what it takes for the name, first   *)
(* the first word, names the command names of its syntax tree, and hosts   *)
(* the hosts of its URLs.  An empty list of commands allows all.       *)
CheckCommand(c) ==
    IF c \in policy.deniedCommands THEN "deny"
    ELSE IF policy.allowedCommands # {} /\ c.base \notin policy.allowedCommands THEN "ask"
    ELSE "allow"
NeedURLCheck(c) == c.base \in policy.netCommands

CheckURL(host) ==
    IF dns[host] = {} THEN "deny"
    ELSE IF \E a \in dns[host] \ policy.allowSubnets : a \in policy.denySubnets
    THEN "ask" ELSE "allow"
EnforceURL(host, hosts) ==
    CheckURL(host) = "allow" \/ (CheckURL(host) = "ask" /\ host \in hosts)

-----------------------------------------------------------------------------
InitWorld ==
    /\ policy \in {Compile(p) : p \in {q \in Policies : Valid(q)}}
    /\ files = Files /\ linked \in BOOLEAN
    /\ dns \in [Hosts -> SUBSET Addresses] /\ changes = 0

Changing == changes < MaxChanges /\ changes' = changes + 1

(* Mutant: the new policy takes effect as it was given.                    *)
Uncompiled(p) ==
    Changing /\ policy' = p /\ UNCHANGED <<files, linked, dns>>

UpdatePolicy(p) ==
    /\ Changing
    /\ policy' = IF Valid(p) THEN Compile(p) ELSE policy
    /\ UNCHANGED <<files, linked, dns>>

(* Other programs.                                                         *)
CreateOrRemove(path) ==
    /\ Changing
    /\ files' = IF path \in files THEN files \ {path} ELSE files \cup {path}
    /\ UNCHANGED <<policy, linked, dns>>
Relink  == Changing /\ linked' = ~linked /\ UNCHANGED <<policy, files, dns>>
Rename(host, addresses) ==
    /\ Changing
    /\ dns' = [dns EXCEPT ![host] = addresses]
    /\ UNCHANGED <<policy, files, linked>>

WorldChanges ==
    \/ \E p \in Policies : UpdatePolicy(p)
    \/ \E path \in Files : CreateOrRemove(path)
    \/ Relink
    \/ \E h \in Hosts, a \in SUBSET Addresses : Rename(h, a)
=============================================================================
