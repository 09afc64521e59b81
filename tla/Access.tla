-------------------------------- MODULE Access --------------------------------
(***************************************************************************)
(* How a tool call gets permission.  Grant asks the sandbox, and the list  *)
(* of what the user allowed for the session, whether the user must be      *)
(* asked; then the call is kept with the session, and a later message of   *)
(* the user (a magic word) runs it, runs and remembers it, or refuses it.  *)
(* Execute asks the sandbox again.  The list and the pending call live in  *)
(* the session instance and in two files of its directory; a host may open *)
(* the session anew for every message.                                     *)
(***************************************************************************)
EXTENDS Sandbox

CONSTANTS
    Calls,        \* records: tool and path and base (Read, Write, Edit, Ls,
                  \* RunScript), or tool and command (Bash), or host (WebFetch)
    Unreadable,   \* paths Read never takes: devices and binary files
    None,         \* no call
    SavesFail,    \* whether a write of the list may fail
    NotLoaded     \* the instance has not read the list yet

Buckets == {"bash", "write", "edit", "run_script", "read", "ls", "network"}
Empty   == [b \in Buckets |-> {}]
Words   == {"PermissionAllow", "PermissionAllowSession", "PermissionDeny"}

VARIABLES
    whitelist,   \* the list in the instance
    stored,      \* session-wl.json
    pending,     \* the call that waits for a word; session-permission.json
    current,     \* the call between Grant and Execute
    outcome,     \* what became of the last call, and by which word
    fresh,       \* history: nothing changed since Grant let it through
    given,       \* history: what the user allowed for the session
    blind        \* history: a word came to an instance that had not read
                 \* the list in the file, or a write of the list failed

vars == <<world, whitelist, stored, pending, current, outcome, fresh, given, blind>>

PathTools == {"Read", "Write", "Edit", "Ls", "RunScript"}
PathCalls == {c \in Calls : c.tool \in PathTools}

ASSUME AccessAssumption ==
    /\ None \notin Calls
    /\ \A c \in Calls : c.tool \in PathTools \cup {"Bash", "WebFetch"}
    /\ \A c \in PathCalls : c.path \in Seq(Names) /\ c.base \in Seq(Names)

NoOutcome == [was |-> "none", word |-> "none"]

Init ==
    /\ InitWorld
    /\ whitelist = NotLoaded /\ stored = Empty
    /\ pending = None /\ current = None /\ outcome = NoOutcome
    /\ fresh = FALSE /\ given = Empty /\ blind = FALSE

-----------------------------------------------------------------------------
(* Mutant: a new instance starts with an empty list.                       *)
EmptyFirst == IF whitelist = NotLoaded THEN Empty ELSE whitelist

(* Whitelist reads the file once; a call and its execution both come by.   *)
Loaded == IF whitelist = NotLoaded THEN stored ELSE whitelist

Bucket(tool) ==
    [Read |-> "read", Write |-> "write", Edit |-> "edit", Ls |-> "ls",
     RunScript |-> "run_script", Bash |-> "bash", WebFetch |-> "network"][tool]

URLsPass(hosts, wl) == \A h \in hosts : EnforceURL(h, wl["network"])
InWhitelist(c, wl)  == c.names # {} /\ c.names \subseteq wl["bash"]

(* Mutant: a directory the user allowed does not cover what is in it.      *)
ExactPath(c, wl) ==
    \/ CheckFile(c.path, c.base) = "allow"
    \/ CheckFile(c.path, c.base) = "ask" /\ c.path \in wl[Bucket(c.tool)]

(* Grant of the tools: whether the call runs without a question.           *)
GrantPath(c, wl) ==
    \/ CheckFile(c.path, c.base) = "allow"
    \/ /\ CheckFile(c.path, c.base) = "ask"
       /\ \E d \in wl[Bucket(c.tool)] : Within(c.path, d)
GrantBash(c, wl) ==
    \/ CheckCommand(c) = "ask" /\ InWhitelist(c, wl) /\ URLsPass(c.hosts, wl)
    \/ CheckCommand(c) = "allow" /\ (NeedURLCheck(c) => URLsPass(c.hosts, wl))
Grant(c, wl) ==
    CASE c.tool \in PathTools  -> GrantPath(c, wl)
      [] c.tool = "Bash"       -> GrantBash(c.command, wl)
      [] c.tool = "WebFetch"   -> EnforceURL(c.host, wl["network"])

(* Mutant: Execute does not know what the user allowed.                    *)
Forgetful(c, wl) == EnforceFile(c.path, c.base, {})

(* Mutant: what was allowed for one tool opens the place to all of them.   *)
AnyTool(c, wl) ==
    EnforceFile(c.path, c.base, UNION {wl[Bucket(t)] : t \in PathTools})

(* The checks of Execute.                                                  *)
ExecutePath(c, wl) ==
    /\ c.tool = "Read" => c.path \notin Unreadable
    /\ EnforceFile(c.path, c.base, wl[Bucket(c.tool)])
ExecuteBash(c, wl) ==
    \/ CheckCommand(c) = "ask" /\ InWhitelist(c, wl) /\ URLsPass(c.hosts, wl)
    \/ CheckCommand(c) = "allow" /\ URLsPass(c.hosts, wl)
Executes(c, wl) ==
    CASE c.tool \in PathTools  -> ExecutePath(c, wl)
      [] c.tool = "Bash"       -> ExecuteBash(c.command, wl)
      [] c.tool = "WebFetch"   -> EnforceURL(c.host, wl["network"])

Result(c, wl) == IF Executes(c, wl) THEN "ran" ELSE "refused"

-----------------------------------------------------------------------------
(* buildWhitelistEntry and buildWhitelistNetworkHosts.  Both look the tool *)
(* up under its name in lower case, where run_script and web_fetch are     *)
(* spelled with an underscore: RunScript and WebFetch leave no entry.      *)
Entries(c) ==
    IF c.tool \in PathTools \ {"RunScript"} THEN {<<Bucket(c.tool), c.path>>}
    ELSE IF c.tool = "Bash"
    THEN {<<"bash", c.command.first>>}
         \cup {<<"network", h>> : h \in {g \in c.command.hosts : CheckURL(g) = "ask"}}
    ELSE {}

With(wl, entries) ==
    [b \in Buckets |-> wl[b] \cup {e[2] : e \in {f \in entries : f[1] = b}}]

(* Mutant: an entry is added to what the other tools may do, too.          *)
EveryBucket(c) ==
    /\ whitelist' = [b \in Buckets |->
          (IF whitelist = NotLoaded THEN {} ELSE whitelist[b]) \cup {e[2] : e \in Entries(c)}]
    /\ stored' = whitelist'
    /\ given' = With(given, Entries(c))
    /\ UNCHANGED blind

(* AddToWhitelist, for each entry.  An instance that has not read the list *)
(* starts a new one; what is new is written, and the file replaced.        *)
Remember(c) ==
    LET known == IF whitelist = NotLoaded THEN Empty ELSE whitelist
        added == With(known, Entries(c))
        new   == added # known
    IN  /\ whitelist' = IF Entries(c) = {} THEN Loaded ELSE added
        /\ given' = With(given, Entries(c))
        /\ \/ stored' = (IF new THEN added ELSE stored)
              /\ blind' = (blind \/ (new /\ whitelist = NotLoaded /\ stored # Empty))
           \/ new /\ SavesFail /\ UNCHANGED stored /\ blind' = TRUE

(* A call that Grant lets through, and one that waits for the user.  A new *)
(* question takes the place of the old one.                                *)
CallGranted(c) ==
    /\ current = None /\ Grant(c, Loaded)
    /\ current' = c /\ fresh' = TRUE
    /\ whitelist' = Loaded /\ outcome' = NoOutcome
    /\ UNCHANGED <<world, stored, pending, given, blind>>

CallAsks(c) ==
    /\ current = None /\ ~Grant(c, Loaded)
    /\ pending' = c
    /\ whitelist' = Loaded /\ outcome' = NoOutcome
    /\ UNCHANGED <<world, stored, current, fresh, given, blind>>

Execute ==
    /\ current # None
    /\ whitelist' = Loaded
    /\ outcome' = [was |-> Result(current, Loaded), word |-> "none"]
    /\ current' = None /\ fresh' = FALSE
    /\ UNCHANGED <<world, stored, pending, given, blind>>

(* The user answers: the pending call is taken, and run with what the      *)
(* session knows then.  PermissionAllow leaves no trace Execute could see. *)
Allow ==
    /\ whitelist' = Loaded
    /\ outcome' = [was |-> Result(pending, Loaded), word |-> "PermissionAllow"]
    /\ UNCHANGED <<stored, given, blind>>
AllowSession ==
    /\ Remember(pending)
    /\ outcome' = [was |-> Result(pending, whitelist'), word |-> "PermissionAllowSession"]
Deny ==
    /\ outcome' = [was |-> "denied", word |-> "PermissionDeny"]
    /\ UNCHANGED <<whitelist, stored, given, blind>>

MagicWord ==
    /\ current = None /\ pending # None
    /\ Allow \/ AllowSession \/ Deny
    /\ pending' = None
    /\ UNCHANGED <<world, current, fresh>>

(* The host opens the session anew, or the process ends: the files remain. *)
Reopen ==
    /\ whitelist' = NotLoaded
    /\ current' = None /\ fresh' = FALSE /\ outcome' = NoOutcome
    /\ UNCHANGED <<world, stored, pending, given, blind>>

Elsewhere ==
    /\ WorldChanges
    /\ fresh' = FALSE
    /\ UNCHANGED <<whitelist, stored, pending, current, outcome, given, blind>>

Next ==
    \/ \E c \in Calls : CallGranted(c) \/ CallAsks(c)
    \/ Execute \/ MagicWord \/ Reopen \/ Elsewhere

Spec == Init /\ [][Next]_vars

-----------------------------------------------------------------------------
IsList(wl) == wl = [b \in Buckets |-> wl[b]]

TypeOK ==
    /\ policy \in {Compile(p) : p \in {q \in Policies : Valid(q)}}
    /\ files \subseteq Files /\ linked \in BOOLEAN
    /\ dns \in [Hosts -> SUBSET Addresses] /\ changes \in 0..MaxChanges
    /\ whitelist # NotLoaded => IsList(whitelist)
    /\ IsList(stored) /\ IsList(given)
    /\ pending \in Calls \cup {None} /\ current \in Calls \cup {None}
    /\ outcome \in [was: {"none", "ran", "refused", "denied"}, word: Words \cup {"none"}]
    /\ fresh \in BOOLEAN /\ blind \in BOOLEAN
    /\ fresh => current # None

(* Nothing is on the list of a session, in the instance or in the file,    *)
(* that the user did not allow for the session under that tool.            *)
ListedWasGiven ==
    \A b \in Buckets : stored[b] \subseteq given[b] /\ Loaded[b] \subseteq given[b]

(* What the user allowed for the session stays on the list, through new    *)
(* instances of the session, unless a word came to an instance that had    *)
(* not read the list, or a write of it failed.                             *)
NothingForgotten == ~blind => stored = given /\ Loaded = given

(* The list in memory and the one stored are what the user gave, in every  *)
(* bucket and over instances: nothing more, and nothing less.              *)
WhitelistSound == TypeOK /\ ListedWasGiven /\ NothingForgotten

(* A call that Grant let through without a question is refused when it     *)
(* runs, with nothing changed in between, only where the two stages look   *)
(* at different things: Grant at what a path is called and Execute at what *)
(* it leads to; Grant not at all at a path that does not exist, at what    *)
(* Read never reads, and at the URLs of a command that is no network one.  *)
Led(c) == {c.path, c.base} \cup policy.allowedDirs \cup policy.allowedPaths \cup Loaded[Bucket(c.tool)]
LooksElsewhere(c) ==
    \/ /\ c \in PathCalls
       /\ \/ ~Exists(c.path) \/ (c.tool = "Read" /\ c.path \in Unreadable)
          \/ \E p \in Led(c) : Real(p) # p
    \/ c.tool = "Bash" /\ ~NeedURLCheck(c.command) /\ ~URLsPass(c.command.hosts, Loaded)

GrantedRuns ==
    [][fresh /\ outcome'.was = "refused" /\ Execute
          => LooksElsewhere(current)]_vars

(* The user is asked again about a path allowed for the session only when  *)
(* the sandbox denies it outright, or the answer was forgotten.            *)
AskedOnce ==
    [][\A c \in PathCalls :
          (\E d \in given[Bucket(c.tool)] : Within(c.path, d)) /\ CallAsks(c)
             => blind \/ CheckFile(c.path, c.base) = "deny"]_vars

(* The stage that asks and the stage that runs agree about what the user   *)
(* was, and was not, asked.                                                *)
DecisionsAgree == GrantedRuns /\ AskedOnce

(* A tool of paths runs on a file that lies outside the workspace, under   *)
(* whatever name, only after the user allowed it, or a directory it is in, *)
(* for the session and for that tool.  Both sides are judged by where the  *)
(* links lead.  The exception is a file that is not there yet behind a     *)
(* link: EvalSymlinks fails on it, enforceFile takes its name for its      *)
(* place, and Write makes the file where the link leads.                   *)
In(path, dir)     == Within(Followed(path), Followed(dir))
LiesOutside(c)    == \A d \in {c.base} \cup policy.allowedDirs : ~In(c.path, d)
NewBehindLink(c)  == ~Exists(c.path) /\ Behind(c.path)
UserAllowed(c)    == \E d \in given'[Bucket(c.tool)] : In(c.path, d)

Handled(c) == (c = current /\ Execute) \/ (c = pending /\ MagicWord)

OutsideWasAllowed ==
    [][\A c \in PathCalls :
          Handled(c) /\ outcome'.was = "ran" /\ LiesOutside(c)
             => UserAllowed(c) \/ NewBehindLink(c)]_vars

(* "Paths must be resolved by EvalSymlinks to the real path before they    *)
(* are compared" (sandbox/policy.go, of AllowedDirs): the same of every    *)
(* file, also one that is not there yet.  False of the code.               *)
RealPlacesCompared ==
    [][\A c \in PathCalls :
          Handled(c) /\ outcome'.was = "ran" /\ LiesOutside(c) => UserAllowed(c)]_vars

(* "PermissionAllow ... approves the pending permission and runs the tool  *)
(* with its original parameters" (tools/permission_required.go): a call    *)
(* the sandbox wants the user asked about runs once the user said yes.     *)
ApprovedRuns ==
    [][\A c \in PathCalls :
          pending = c /\ MagicWord /\ outcome'.word = "PermissionAllow"
          /\ CheckFile(c.path, c.base) = "ask" => outcome'.was = "ran"]_vars
=============================================================================
