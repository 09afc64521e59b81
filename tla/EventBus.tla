------------------------------ MODULE EventBus ------------------------------
(* Event buses (events/eventbus.go) and the chain a run and its sub-agents  *)
(* make of them (agents/event_setup.go).                                    *)
(*                                                                          *)
(* A bus has a map of subscribers under a read-write lock.  Emit asks every *)
(* subscriber's filter with the read lock held, gives the lock back and     *)
(* then writes to the channels of those that want the event: a critical     *)
(* event waits for room, another one is dropped when there is none.  A run  *)
(* subscribes to its own bus with a filter that sends the event on to the   *)
(* bus of the run that started it, calls the host's handlers and never      *)
(* wants the event, so all of that happens under the read lock.  Joining,   *)
(* leaving and closing take the write lock, and a writer that waits keeps   *)
(* new readers out, as sync.RWMutex does.                                   *)
(*                                                                          *)
(* A panic ends the call of Emit where it stands.  The lock is not deferred *)
(* (Emit unlocks by hand), so a read lock held at that moment stays held.   *)
(* What a recovering caller emits afterwards is left out, and so are the    *)
(* contents of an event: its emitter, number and kind are kept.             *)
EXTENDS Integers, Sequences, FiniteSets, SequencesExt

CONSTANTS
    Emitters,      \* goroutines that emit
    Buses,         \* a bus per run
    NoBus,         \* "no parent"
    Parent,        \* [Buses -> Buses \cup {NoBus}]: the bus events are sent on to
    Home,          \* [Emitters -> Buses]: where a goroutine emits
    Channels,      \* subscriptions with a channel
    At,            \* [Channels -> Buses]: the bus a subscription is for
    Run,           \* the run's own subscription, on every bus
    Kinds,         \* kinds of events
    Critical,      \* the kinds isCriticalEvent knows
    Wants,         \* [Channels -> SUBSET Kinds]: what the filters let through
    Buffer,        \* room in a channel (StreamChannelBufferSize)
    MaxEvents,     \* bound: [Emitters -> Nat], events of an emitter
    MaxLeaves,     \* bound: calls of one cancel function
    MaxWaiting,    \* bound: calls that wait for a bus's write lock at a time
    HandlersPanic  \* whether the host's handlers may panic

ASSUME BusAssumption ==
    /\ NoBus \notin Buses /\ Run \notin Channels
    /\ Parent \in [Buses -> Buses \cup {NoBus}]
    /\ Home \in [Emitters -> Buses] /\ At \in [Channels -> Buses]
    /\ Kinds # {} /\ Critical \subseteq Kinds /\ Wants \in [Channels -> SUBSET Kinds]
    /\ Buffer \in Nat \ {0} /\ MaxEvents \in [Emitters -> Nat] /\ MaxLeaves \in Nat /\ MaxWaiting \in Nat
    /\ HandlersPanic \in BOOLEAN

\* A run's bus is made after the bus of the run that started it.
ASSUME ChainAssumption ==
    /\ IsFiniteSet(Buses)
    /\ \E age \in [Buses -> 0..Cardinality(Buses)] :
          \A b \in Buses : Parent[b] # NoBus => age[Parent[b]] < age[b]

VARIABLES
    subs,     \* [Buses -> SUBSET (Channels \cup {Run})]: b.subscribers
    closed,   \* [Buses -> BOOLEAN]: b.closed
    writers,  \* [Buses -> set of Ops]: calls that wait for the write lock
    chan,     \* [Channels -> {"none", "open", "closed"}]
    buf,      \* [Channels -> Seq(Events)]: what a channel holds
    seen,     \* [Channels -> [Emitters -> number of the last event read]]
    cuts,     \* [Channels -> number of calls of the cancel function]
    event,    \* [Emitters -> Events]: what a goroutine emits, or emitted last
    calls,    \* [Emitters -> Seq(Frames)]: its calls of Emit, the innermost last
    dead,     \* the emitters that panicked
    twice     \* whether a closed channel was closed again

bus  == <<subs, closed, writers, chan, cuts, twice>>
vars == <<subs, closed, writers, chan, buf, seen, cuts, event, calls, dead, twice>>

Ops    == [op: {"join", "leave"}, who: Channels] \cup [op: {"end", "close"}, who: {Run}]
Events == [from: Emitters, no: Nat, kind: Kinds]
\* A call of Emit: "lock" before RLock, "ask" while it holds the lock, "send"
\* after RUnlock; left are the subscribers still to ask, or to send to, to
\* those whose filter passed, and told says the parent was told.
Frames == [on: Buses, step: {"lock", "ask", "send"}, told: BOOLEAN,
           left: SUBSET (Channels \cup {Run}), to: SUBSET Channels]

Init ==
    /\ subs = [b \in Buses |-> {Run}] /\ closed = [b \in Buses |-> FALSE]
    /\ writers = [b \in Buses |-> {}]
    /\ chan = [c \in Channels |-> "none"] /\ buf = [c \in Channels |-> <<>>]
    /\ seen = [c \in Channels |-> [e \in Emitters |-> 0]]
    /\ cuts = [c \in Channels |-> 0]
    /\ event \in {f \in [Emitters -> [from: Emitters, no: {0}, kind: {CHOOSE k \in Kinds : TRUE}]] :
                     \A e \in Emitters : f[e].from = e}
    /\ calls = [e \in Emitters |-> <<>>] /\ dead = {} /\ twice = FALSE

-----------------------------------------------------------------------------
(* Emit.                                                                   *)
Called(b) == [on |-> b, step |-> "lock", told |-> FALSE, left |-> {}, to |-> {}]
Top(e) == Last(calls[e])
Becomes(e, frame) == calls' = [calls EXCEPT ![e] = Append(Front(@), frame)]
Returns(e) == calls' = [calls EXCEPT ![e] = Front(@)]
Panics(e) == dead' = dead \cup {e} /\ UNCHANGED <<calls, bus, buf, seen, event>>

\* Mutant: the lock is deferred and held while the event is sent.
HoldsToEnd(e) == {f.on : f \in {g \in Range(calls[e]) : g.step # "lock"}}
\* The read locks a goroutine holds.
Holds(e) == {f.on : f \in {g \in Range(calls[e]) : g.step = "ask"}}
Readers(b) == {e \in Emitters : b \in Holds(e)}
Runs(e, step) == e \notin dead /\ calls[e] # <<>> /\ Top(e).step = step

Emit(e) ==
    /\ e \notin dead /\ calls[e] = <<>> /\ event[e].no < MaxEvents[e]
    /\ \E k \in Kinds : event' = [event EXCEPT ![e] = [from |-> e, no |-> @.no + 1, kind |-> k]]
    /\ calls' = [calls EXCEPT ![e] = <<Called(Home[e])>>]
    /\ UNCHANGED <<bus, buf, seen, dead>>

RLock(e) ==
    /\ Runs(e, "lock") /\ writers[Top(e).on] = {}
    /\ \/ closed[Top(e).on] /\ Returns(e)
       \/ /\ ~closed[Top(e).on]
          /\ Becomes(e, [Top(e) EXCEPT !.step = "ask", !.left = subs[Top(e).on]])
    /\ UNCHANGED <<bus, buf, seen, event, dead>>

Filter(e, c) ==
    /\ Runs(e, "ask") /\ c \in Top(e).left
    /\ Becomes(e, [Top(e) EXCEPT !.left = @ \ {c},
                                 !.to = IF event[e].kind \in Wants[c] THEN @ \cup {c} ELSE @])
    /\ UNCHANGED <<bus, buf, seen, event, dead>>

\* Mutant: the parent is told again.
TellAgain(e) ==
    /\ Runs(e, "ask") /\ Run \in Top(e).left /\ Parent[Top(e).on] # NoBus
    /\ calls' = [calls EXCEPT ![e] = Front(@) \o <<[Last(@) EXCEPT !.told = TRUE],
                                                     Called(Parent[Last(@).on])>>]
    /\ UNCHANGED <<bus, buf, seen, event, dead>>

\* The run's filter: first the parent's bus ...
TellParent(e) ==
    /\ Runs(e, "ask") /\ Run \in Top(e).left /\ ~Top(e).told /\ Parent[Top(e).on] # NoBus
    /\ calls' = [calls EXCEPT ![e] = Front(@) \o <<[Last(@) EXCEPT !.told = TRUE],
                                                     Called(Parent[Last(@).on])>>]
    /\ UNCHANGED <<bus, buf, seen, event, dead>>

\* ... and then the host's handlers.
Handle(e) ==
    /\ Runs(e, "ask") /\ Run \in Top(e).left /\ (Top(e).told \/ Parent[Top(e).on] = NoBus)
    /\ \/ HandlersPanic /\ Panics(e)
       \/ /\ Becomes(e, [Top(e) EXCEPT !.left = @ \ {Run}])
          /\ UNCHANGED <<bus, buf, seen, event, dead>>

RUnlock(e) ==
    /\ Runs(e, "ask") /\ Top(e).left = {}
    /\ Becomes(e, [Top(e) EXCEPT !.step = "send", !.left = Top(e).to])
    /\ UNCHANGED <<bus, buf, seen, event, dead>>

SendPlain(e, c) ==      \* mutant: no event waits for room
    /\ Runs(e, "send") /\ c \in Top(e).left
    /\ \/ chan[c] = "closed" /\ Panics(e)
       \/ /\ chan[c] = "open"
          /\ buf' = IF Len(buf[c]) < Buffer THEN [buf EXCEPT ![c] = Append(@, event[e])] ELSE buf
          /\ Becomes(e, [Top(e) EXCEPT !.left = @ \ {c}])
          /\ UNCHANGED <<bus, seen, event, dead>>

SendMore(e, c) ==       \* mutant: a critical event needs no room
    /\ Runs(e, "send") /\ c \in Top(e).left
    /\ \/ chan[c] = "closed" /\ Panics(e)
       \/ /\ chan[c] = "open"
          /\ \/ buf' = [buf EXCEPT ![c] = Append(@, event[e])]
             \/ Len(buf[c]) = Buffer /\ event[e].kind \notin Critical /\ UNCHANGED buf
          /\ Becomes(e, [Top(e) EXCEPT !.left = @ \ {c}])
          /\ UNCHANGED <<bus, seen, event, dead>>

\* A closed channel makes the sender panic; a full one makes it wait with a
\* critical event and go on without any other one.
Send(e, c) ==
    /\ Runs(e, "send") /\ c \in Top(e).left
    /\ \/ chan[c] = "closed" /\ Panics(e)
       \/ /\ chan[c] = "open"
          /\ \/ Len(buf[c]) < Buffer /\ buf' = [buf EXCEPT ![c] = Append(@, event[e])]
             \/ Len(buf[c]) = Buffer /\ event[e].kind \notin Critical /\ UNCHANGED buf
          /\ Becomes(e, [Top(e) EXCEPT !.left = @ \ {c}])
          /\ UNCHANGED <<bus, seen, event, dead>>

EmitEnds(e) ==
    /\ Runs(e, "send") /\ Top(e).left = {} /\ Returns(e)
    /\ UNCHANGED <<bus, buf, seen, event, dead>>

-----------------------------------------------------------------------------
(* The other calls: they are made, and run once no reader holds the lock.  *)
CallsFor(b, o) ==
    /\ o \notin writers[b] /\ Cardinality(writers[b]) < MaxWaiting
    /\ writers' = [writers EXCEPT ![b] = @ \cup {o}]
    /\ UNCHANGED <<subs, closed, chan, buf, seen, event, calls, dead, twice>>

CallSubscribe(c) == /\ chan[c] = "none" /\ CallsFor(At[c], [op |-> "join", who |-> c])
                    /\ UNCHANGED cuts
CallCancel(c)    == /\ chan[c] # "none" /\ cuts[c] < MaxLeaves
                    /\ CallsFor(At[c], [op |-> "leave", who |-> c])
                    /\ cuts' = [cuts EXCEPT ![c] = @ + 1]
CallCleanup(b)   == /\ Run \in subs[b] /\ CallsFor(b, [op |-> "end", who |-> Run])
                    /\ UNCHANGED cuts
CallClose(b)     == /\ ~closed[b] /\ CallsFor(b, [op |-> "close", who |-> Run])
                    /\ UNCHANGED cuts

Shut(cs) ==
    /\ chan' = [c \in Channels |-> IF c \in cs THEN "closed" ELSE chan[c]]
    /\ twice' = (twice \/ \E c \in cs : chan[c] = "closed")

SubscribeFiltered(b, c) ==
    /\ chan' = [chan EXCEPT ![c] = IF closed[b] THEN "closed" ELSE "open"]
    /\ subs' = [subs EXCEPT ![b] = IF closed[b] THEN @ ELSE @ \cup {c}]
    /\ UNCHANGED <<closed, twice>>

\* Mutant: the channel is closed without a look at the map.
UnsubscribeBlind(b, s) ==
    /\ subs' = [subs EXCEPT ![b] = @ \ {s}]
    /\ Shut({s} \cap Channels) /\ UNCHANGED closed

Unsubscribe(b, s) ==
    /\ subs' = [subs EXCEPT ![b] = @ \ {s}]
    /\ Shut(subs[b] \cap {s} \cap Channels) /\ UNCHANGED closed

Close(b) ==
    /\ closed' = [closed EXCEPT ![b] = TRUE]
    /\ subs' = [subs EXCEPT ![b] = {}] /\ Shut(subs[b] \cap Channels)

\* Mutant: unsubscribing takes the read lock.
FreeShared(b) == b \in Buses
Free(b) == Readers(b) = {}

Write(b) == \E o \in writers[b] :
    /\ Free(b)
    /\ writers' = [writers EXCEPT ![b] = @ \ {o}]
    /\ \/ o.op = "join" /\ SubscribeFiltered(b, o.who)
       \/ o.op \in {"leave", "end"} /\ Unsubscribe(b, o.who)
       \/ o.op = "close" /\ Close(b)
    /\ UNCHANGED <<buf, seen, cuts, event, calls, dead>>

\* A host reads its channel until it calls the cancel function.
Read(c) ==
    /\ cuts[c] = 0 /\ buf[c] # <<>>
    /\ seen' = [seen EXCEPT ![c][Head(buf[c]).from] = Head(buf[c]).no]
    /\ buf' = [buf EXCEPT ![c] = Tail(@)]
    /\ UNCHANGED <<bus, event, calls, dead>>

-----------------------------------------------------------------------------
EmitStep(e) == \/ RLock(e) \/ TellParent(e) \/ Handle(e) \/ RUnlock(e) \/ EmitEnds(e)
               \/ \E c \in Channels : Filter(e, c) \/ Send(e, c)

Next ==
    \/ \E e \in Emitters : Emit(e) \/ EmitStep(e)
    \/ \E c \in Channels : CallSubscribe(c) \/ CallCancel(c) \/ Read(c)
    \/ \E b \in Buses : CallCleanup(b) \/ CallClose(b) \/ Write(b)

Spec == Init /\ [][Next]_vars

\* Go's scheduler runs every goroutine that can go on and its lock lets no
\* writer starve; that the hosts read their channels is asked of the hosts.
FairSpec ==
    /\ Spec
    /\ \A e \in Emitters : WF_vars(EmitStep(e))
    /\ \A b \in Buses : WF_vars(Write(b))
    /\ \A c \in Channels : WF_vars(Read(c))

-----------------------------------------------------------------------------
TypeOK ==
    /\ subs \in [Buses -> SUBSET (Channels \cup {Run})] /\ closed \in [Buses -> BOOLEAN]
    /\ writers \in [Buses -> SUBSET Ops]
    /\ chan \in [Channels -> {"none", "open", "closed"}]
    /\ \A c \in Channels : buf[c] \in Seq(Events) /\ Len(buf[c]) <= Buffer
    /\ seen \in [Channels -> [Emitters -> Nat]] /\ cuts \in [Channels -> 0..MaxLeaves]
    /\ event \in [Emitters -> Events]
    /\ \A e \in Emitters : calls[e] \in Seq(Frames) /\ Len(calls[e]) <= Cardinality(Buses)
    /\ dead \subseteq Emitters /\ twice \in BOOLEAN

\* While a filter runs, nobody can close a channel of the subscribers it was
\* called for, on this bus or on one the event came from: a send can only meet
\* a closed channel when its owner left after the snapshot was taken.
SnapshotOpen ==
    \A e \in Emitters : \A f \in Range(calls[e]) :
        f.step = "ask" => \A c \in (f.left \cup f.to) \cap Channels : chan[c] = "open"

\* No channel is closed a second time, however often a cancel function is
\* called and whether the bus was closed before, between or after the calls.
ClosedOnce == ~twice

\* Each channel gives the events of one emitter in the order they were emitted
\* and none of them twice, also those that came through a parent's bus.
OrderKept ==
    \A c \in Channels : \A i \in 1..Len(buf[c]) :
        /\ buf[c][i].no > seen[c][buf[c][i].from]
        /\ \A j \in 1..i - 1 : buf[c][j].from = buf[c][i].from => buf[c][j].no < buf[c][i].no

\* A channel is closed once and never under a sender, and what comes out of it
\* is in order.
DeliverySound == TypeOK /\ SnapshotOpen /\ ClosedOnce /\ OrderKept

\* A call of Emit with a critical event returns only when every subscriber it
\* took into its snapshot has the event in its channel or has read it.
Got(c, ev) == seen[c][ev.from] >= ev.no \/ ev \in Range(buf[c])
CriticalArrives ==
    [][\A e \in Emitters :
         (/\ calls[e] # <<>> /\ Len(calls'[e]) < Len(calls[e])
          /\ event[e].kind \in Critical)
             => \A c \in Top(e).to : Got(c, event[e])]_vars

\* Every call comes to an end - one of Emit, and one that waits to join, leave
\* or close - whichever readers leave with their channel full, unless a panic
\* left a read lock behind.
Held  == \E e \in dead : Holds(e) # {}
Quiet == /\ \A e \in Emitters : calls[e] = <<>> \/ e \in dead
         /\ \A b \in Buses : writers[b] = {}
CallsReturn == []<>(Quiet \/ Held)

=============================================================================
