-------------------------------- MODULE Bubble --------------------------------
(***************************************************************************)
(* The questions that bubble up from sub-agent sessions to the user: a     *)
(* tool that needs a permission and the AskUser tool                       *)
(* (agents/permission.go, ask_user_wait.go, the channels in subagent.go).  *)
(*                                                                         *)
(* A sub-agent's run that meets one shows the request to the front end,    *)
(* registers its channel with the manager and waits.  The user's answer is *)
(* a message (a word) that names the session, not the request; whoever     *)
(* receives it looks the channel up under the manager's mutex, lets the    *)
(* mutex go and sends without blocking.  A main session that needs a       *)
(* permission ends its turn instead and leaves the request pending; the    *)
(* word for it names no session.                                           *)
(*                                                                         *)
(* The runs of one sub-agent session exclude each other (SubAgents).       *)
(***************************************************************************)
EXTENDS Naturals, FiniteSets

CONSTANTS
    Subs,      \* sub-agent sessions
    Mains,     \* main sessions: each executes one message at a time
    Runs,      \* runs of sub-agents
    Requests,  \* requests shown to the user
    MaxWords,  \* bound on the words a user sends for one request
    None

ASSUME ConstantsAssumption ==
    /\ MaxWords \in Nat
    /\ Subs \cap Mains = {}
    /\ None \notin Subs \cup Mains \cup Runs \cup Requests

VARIABLES
    pc,        \* where the run of each sub-agent session stands
    run,       \* the run under way
    asked,     \* the request it made last
    stopped,   \* its context is cancelled
    used,      \* runs that were started
    wait,      \* pendingCh and pendingAskCh: the run to send to
    since,     \* pendingAt and pendingAskAt, as places in their order
    buffer,    \* the word in each channel: the request it was given for
    closed,    \* channels that were closed
    owner,     \* the session that made each request
    kind,      \* and its kind
    verdict,   \* the request whose word settled a request
    ended,     \* requests nobody waits for any more
    sent,      \* words sent for each request
    coming,    \* those of them that did not arrive yet
    pending,   \* pending permission of each main session
    exec,      \* the word a main session is forwarding, and the channel
    dropped    \* requests with a word that reached nobody

runVars     == <<pc, run, asked, stopped, used>>
channelVars == <<wait, since, buffer, closed>>
requestVars == <<owner, kind, verdict, ended>>
wordVars    == <<sent, coming, pending, exec, dropped>>
vars == <<runVars, channelVars, requestVars, wordVars>>

Kinds      == {"permission", "ask"}
Channels   == Runs \X Kinds
NoDelivery == [word |-> None, to |-> None]

Init ==
    /\ pc = [s \in Subs |-> "idle"]
    /\ run = [s \in Subs |-> None]
    /\ asked = [s \in Subs |-> None]
    /\ stopped = {}
    /\ used = {}
    /\ wait = [k \in Kinds |-> [s \in Subs |-> None]]
    /\ since = [k \in Kinds |-> [s \in Subs |-> 0]]
    /\ buffer = [c \in Channels |-> None]
    /\ closed = {}
    /\ owner = [r \in Requests |-> None]
    /\ kind = [r \in Requests |-> None]
    /\ verdict = [r \in Requests |-> None]
    /\ ended = {}
    /\ sent = [r \in Requests |-> 0]
    /\ coming = [r \in Requests |-> 0]
    /\ pending = [m \in Mains |-> None]
    /\ exec = [m \in Mains |-> NoDelivery]
    /\ dropped = {}
-----------------------------------------------------------------------------
\* The run of a sub-agent.

Goto(s, phase) == pc' = [pc EXCEPT ![s] = phase]

(* runTask makes two new channels for every run.                           *)
StartRun(s, n) ==
    /\ pc[s] = "idle"
    /\ n \notin used
    /\ used' = used \cup {n}
    /\ run' = [run EXCEPT ![s] = n]
    /\ stopped' = stopped \ {s}
    /\ Goto(s, "running")
    /\ UNCHANGED <<asked, channelVars, requestVars, wordVars>>

(* A request nobody made yet becomes one of the session.                   *)
NewRequest(r, session, k) ==
    /\ owner[r] = None
    /\ owner' = [owner EXCEPT ![r] = session]
    /\ kind' = [kind EXCEPT ![r] = k]

(* A tool of the run needs a permission, or asks: the request is shown to  *)
(* the user, before the run waits for the answer.                          *)
Show(s, r, k) ==
    /\ pc[s] = "running"
    /\ NewRequest(r, s, k)
    /\ asked' = [asked EXCEPT ![s] = r]
    /\ Goto(s, "shown")
    /\ UNCHANGED <<run, stopped, used, channelVars, verdict, ended, wordVars>>

Asking(s) == kind[asked[s]]
Own(s)    == <<run[s], Asking(s)>>

(* registerPermissionWait, registerAskWait.                                *)
Register(s) ==
    LET k == Asking(s)
    IN  /\ pc[s] = "shown"
        /\ wait' = [wait EXCEPT ![k][s] = run[s]]
        /\ since' = [since EXCEPT ![k][s] =
                       1 + Cardinality({x \in Subs : wait[k][x] # None})]
        /\ Goto(s, "waiting")
        /\ UNCHANGED <<run, asked, stopped, used, buffer, closed, requestVars,
                       wordVars>>

(* The answer came.  The tool is executed, or the answer appended, while   *)
(* the run is still registered.                                            *)
Receive(s) ==
    /\ pc[s] = "waiting"
    /\ buffer[Own(s)] # None
    /\ verdict' = [verdict EXCEPT ![asked[s]] = buffer[Own(s)]]
    /\ buffer' = [buffer EXCEPT ![Own(s)] = None]
    /\ Goto(s, "applying")
    /\ UNCHANGED <<run, asked, stopped, used, wait, since, closed, owner, kind,
                   ended, wordVars>>

(* Mutant: a question has no timer.                                        *)
TimesOutPermission(s) == Asking(s) = "permission"

(* The timer of a wait may fire: after ten minutes, whatever it is for.    *)
TimesOut(s) == Asking(s) \in {"permission", "ask"}

(* close(permissionCh), close(askCh).                                      *)
Closed(n, k) == closed \cup {<<n, k>>}

(* Mutant: a wait that gives up closes its channel at once.                *)
GiveUpAndClose(s) ==
    /\ pc[s] = "waiting"
    /\ TimesOut(s) \/ s \in stopped
    /\ closed' = Closed(run[s], Asking(s))
    /\ Goto(s, "gaveUp")
    /\ UNCHANGED <<run, asked, stopped, used, wait, since, buffer, requestVars,
                   wordVars>>

(* The timer fires or the context is cancelled; when the answer is there   *)
(* too, select takes any of them.                                          *)
GiveUp(s) ==
    /\ pc[s] = "waiting"
    /\ TimesOut(s) \/ s \in stopped
    /\ Goto(s, "gaveUp")
    /\ UNCHANGED <<run, asked, stopped, used, channelVars, requestVars,
                   wordVars>>

(* Mutant: after an answer the run stays registered.                       *)
ClearedAtEnd(s, k) ==
    IF wait[k][s] # run[s] \/ pc[s] = "applying" THEN UNCHANGED <<wait, since>>
    ELSE /\ wait' = [wait EXCEPT ![k][s] = None]
         /\ since' = [since EXCEPT ![k][s] = 0]

(* clearPermissionWait, clearAskWait: only the channel's own registration  *)
(* is taken back.                                                          *)
Cleared(s, k) ==
    IF wait[k][s] # run[s] THEN UNCHANGED <<wait, since>>
    ELSE /\ wait' = [wait EXCEPT ![k][s] = None]
         /\ since' = [since EXCEPT ![k] =
                        [x \in Subs |-> IF x = s THEN 0
                                        ELSE IF @[x] > @[s] THEN @[x] - 1
                                        ELSE @[x]]]

(* The wait returns.  The run goes on after an answer, unless it was       *)
(* stopped meanwhile, or the answer to a question could not be stored.     *)
Return(s) ==
    /\ pc[s] \in {"applying", "gaveUp"}
    /\ Cleared(s, Asking(s))
    /\ ended' = ended \cup {asked[s]}
    /\ \/ pc[s] = "applying" /\ s \notin stopped /\ Goto(s, "running")
       \/ /\ pc[s] = "gaveUp" \/ s \in stopped \/ Asking(s) = "ask"
          /\ Goto(s, "closing")
    /\ UNCHANGED <<run, asked, stopped, used, buffer, closed, owner, kind,
                   verdict, wordVars>>

(* The engine finishes: an answer, an error, its iterations.               *)
Finish(s) ==
    /\ pc[s] = "running"
    /\ Goto(s, "closing")
    /\ UNCHANGED <<run, asked, stopped, used, channelVars, requestVars,
                   wordVars>>

(* The deferred clean-up of runTask, first of the question's channel, then *)
(* of the permission's: the registration goes before the channel.  By then *)
(* there is none left (RegistryExact), so the two are one step here.       *)
CloseAsk(s) ==
    /\ pc[s] = "closing"
    /\ Cleared(s, "ask")
    /\ closed' = Closed(run[s], "ask")
    /\ Goto(s, "closingPermission")
    /\ UNCHANGED <<run, asked, stopped, used, buffer, requestVars, wordVars>>

ClosePermission(s) ==
    /\ pc[s] = "closingPermission"
    /\ Cleared(s, "permission")
    /\ closed' = Closed(run[s], "permission")
    /\ run' = [run EXCEPT ![s] = None]
    /\ Goto(s, "idle")
    /\ UNCHANGED <<asked, stopped, used, buffer, requestVars, wordVars>>

(* The user stops the main session behind the run (CancelSubAgents).       *)
Stop(s) ==
    /\ pc[s] # "idle"
    /\ s \notin stopped
    /\ stopped' = stopped \cup {s}
    /\ UNCHANGED <<pc, run, asked, used, channelVars, requestVars, wordVars>>

-----------------------------------------------------------------------------
\* Words and the main sessions that receive them.

Executing(m) == exec[m].word # None

(* The user answers a request the front end shows.  Nobody tells the front *)
(* end that a sub-agent stopped waiting.                                   *)
Send(r) ==
    /\ owner[r] # None
    /\ sent[r] < MaxWords
    /\ sent' = [sent EXCEPT ![r] = @ + 1]
    /\ coming' = [coming EXCEPT ![r] = @ + 1]
    /\ UNCHANGED <<runVars, channelVars, requestVars, pending, exec, dropped>>

(* The word for r is taken up.                                             *)
Arrive(r) ==
    /\ coming[r] > 0
    /\ coming' = [coming EXCEPT ![r] = @ - 1]

(* A turn of the main session ends with a permission it needs; a pending   *)
(* one is superseded.                                                      *)
Suspend(m, r) ==
    /\ ~Executing(m)
    /\ NewRequest(r, m, "permission")
    /\ pending' = [pending EXCEPT ![m] = r]
    /\ ended' = ended \cup ({pending[m]} \ {None})
    /\ UNCHANGED <<runVars, channelVars, verdict, sent, coming, exec, dropped>>

(* An ordinary message while a permission is pending: its unanswered tool  *)
(* call is rolled back at the start of the turn, and the request with it.  *)
RollBack(m) ==
    /\ ~Executing(m)
    /\ pending[m] # None
    /\ pending' = [pending EXCEPT ![m] = None]
    /\ ended' = ended \cup {pending[m]}
    /\ UNCHANGED <<runVars, channelVars, owner, kind, verdict, sent, coming,
                   exec, dropped>>

(* Mutant: it is not checked that a permission is pending.                 *)
ResolveUnchecked(m, r) ==
    /\ ~Executing(m)
    /\ owner[r] = m
    /\ Arrive(r)
    /\ verdict' = [verdict EXCEPT ![pending[m]] = r]
    /\ ended' = ended \cup {pending[m]}
    /\ pending' = [pending EXCEPT ![m] = None]
    /\ UNCHANGED <<runVars, channelVars, owner, kind, sent, exec, dropped>>

(* The word settles the pending permission of the main session itself.     *)
ResolveOwn(m, r) ==
    /\ ~Executing(m)
    /\ owner[r] = m
    /\ pending[m] # None
    /\ Arrive(r)
    /\ verdict' = [verdict EXCEPT ![pending[m]] = r]
    /\ ended' = ended \cup {pending[m]}
    /\ pending' = [pending EXCEPT ![m] = None]
    /\ UNCHANGED <<runVars, channelVars, owner, kind, sent, exec, dropped>>

Registered(k) == {s \in Subs : wait[k][s] # None}

(* Mutant: the session the word names is not looked at.                    *)
EarliestOfAll(r) ==
    {s \in Registered(kind[r]) : \A x \in Registered(kind[r]) :
        since[kind[r]][s] <= since[kind[r]][x]}

(* findPendingSub, findPendingAskTarget: the session the word names, or    *)
(* the one that has waited longest.                                        *)
Recipients(r) ==
    LET all == Registered(kind[r])
    IN  IF owner[r] \in Subs THEN all \cap {owner[r]}
        ELSE {s \in all : \A x \in all : since[kind[r]][s] <= since[kind[r]][x]}

(* A word for a sub-agent, or one without a name that finds no pending     *)
(* permission, is looked up.  When nobody waits it is consumed, or taken   *)
(* for an ordinary message; so is one that names the main session itself.  *)
LookUp(m, r) ==
    /\ ~Executing(m)
    /\ owner[r] \in Subs \/ (owner[r] = m /\ pending[m] = None)
    /\ Arrive(r)
    /\ \/ \E s \in Recipients(r) :
             /\ exec' = [exec EXCEPT ![m] =
                           [word |-> r, to |-> <<wait[kind[r]][s], kind[r]>>]]
             /\ dropped' = dropped
       \/ /\ Recipients(r) = {} \/ owner[r] = m
          /\ dropped' = dropped \cup {r}
          /\ exec' = exec
    /\ UNCHANGED <<runVars, channelVars, requestVars, sent, pending>>

(* The send does not block: a closed channel (the panic is recovered) and  *)
(* a full one drop the word.                                               *)
Forward(m) ==
    LET e == exec[m]
    IN  /\ Executing(m)
        /\ \/ /\ e.to \notin closed /\ buffer[e.to] = None
              /\ buffer' = [buffer EXCEPT ![e.to] = e.word]
              /\ dropped' = dropped
           \/ /\ e.to \in closed \/ buffer[e.to] # None
              /\ dropped' = dropped \cup {e.word}
              /\ buffer' = buffer
        /\ exec' = [exec EXCEPT ![m] = NoDelivery]
        /\ UNCHANGED <<runVars, wait, since, closed, requestVars, sent, coming,
                       pending>>

-----------------------------------------------------------------------------
RunStep(s) ==
    \/ Register(s)
    \/ Receive(s)
    \/ GiveUp(s)
    \/ Return(s)
    \/ CloseAsk(s)
    \/ ClosePermission(s)

Next ==
    \/ \E s \in Subs : \/ RunStep(s)
                       \/ Finish(s)
                       \/ Stop(s)
                       \/ \E n \in Runs : StartRun(s, n)
                       \/ \E r \in Requests, k \in Kinds : Show(s, r, k)
    \/ \E r \in Requests : Send(r)
    \/ \E m \in Mains : \/ RollBack(m)
                        \/ Forward(m)
                        \/ \E r \in Requests : \/ Suspend(m, r)
                                               \/ ResolveOwn(m, r)
                                               \/ LookUp(m, r)

Spec == Init /\ [][Next]_vars

(* A wait has a timer, a tool a time limit, and Go runs every goroutine    *)
(* that can run; the model may call a tool or ask for ever, and no user    *)
(* has to answer.                                                          *)
FairSpec == Spec /\ \A s \in Subs : WF_vars(RunStep(s))

-----------------------------------------------------------------------------
\* Properties.

Phases == {"idle", "running", "shown", "waiting", "applying", "gaveUp",
           "closing", "closingPermission"}

TypeOK ==
    /\ pc \in [Subs -> Phases]
    /\ run \in [Subs -> Runs \cup {None}]
    /\ asked \in [Subs -> Requests \cup {None}]
    /\ stopped \subseteq Subs
    /\ used \subseteq Runs
    /\ wait \in [Kinds -> [Subs -> Runs \cup {None}]]
    /\ since \in [Kinds -> [Subs -> Nat]]
    /\ buffer \in [Channels -> Requests \cup {None}]
    /\ closed \subseteq Channels
    /\ owner \in [Requests -> Subs \cup Mains \cup {None}]
    /\ kind \in [Requests -> Kinds \cup {None}]
    /\ verdict \in [Requests -> Requests \cup {None}]
    /\ ended \subseteq Requests
    /\ sent \in [Requests -> 0..MaxWords]
    /\ coming \in [Requests -> 0..MaxWords]
    /\ pending \in [Mains -> Requests \cup {None}]
    /\ exec \in [Mains -> [word : Requests, to : Channels] \cup {NoDelivery}]
    /\ dropped \subseteq Requests

(* The registry is exact: a session is registered for a kind just while    *)
(* its run waits for, or applies, an answer of that kind, and with the     *)
(* channel of that very run.                                               *)
RegistryExact ==
    \A k \in Kinds, s \in Subs :
        IF pc[s] \in {"waiting", "applying", "gaveUp"} /\ Asking(s) = k
        THEN wait[k][s] = run[s]
        ELSE wait[k][s] = None

(* What the manager hands out is open when it hands it out, so that a word *)
(* fails only when the run ended in between.                               *)
RegisteredOpen ==
    \A k \in Kinds, s \in Subs : wait[k][s] # None => <<wait[k][s], k>> \notin closed

(* The registry holds the waits that are open, all of them and no other.   *)
RegistrySound == TypeOK /\ RegistryExact /\ RegisteredOpen

(* A word given for a sub-agent never settles a request of another         *)
(* session, whichever runs end and begin while it is on its way.           *)
VerdictForSession ==
    \A r \in Requests :
        verdict[r] # None /\ owner[verdict[r]] \in Subs
            => owner[verdict[r]] = owner[r]

(* A wait for the user ends: the run resumes, or it is over.               *)
WaitsEnd ==
    \A s \in Subs : pc[s] \in {"shown", "waiting", "applying", "gaveUp"}
                        ~> pc[s] \in {"running", "idle"}

(* The session that made a request is still to get an answer for it.       *)
Open(r) == \E s \in Subs : asked[s] = r /\ pc[s] \in {"shown", "waiting"}

(* A word that names a sub-agent finds nobody only when that sub-agent no  *)
(* longer waits for it.                                                    *)
DroppedAreOver ==
    [][\A r \in Requests : r \in dropped' \ dropped => ~Open(r)]_vars
=============================================================================
