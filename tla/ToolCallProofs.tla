---------------------------- MODULE ToolCallProofs ----------------------------
(***************************************************************************)
(* What holds of a tool call from its permission to its record: of what    *)
(* the user allowed and what a call may reach (Access), and of the run of  *)
(* the engine the call belongs to (EngineRun); for any calls, policies,    *)
(* links and addresses, and for any iterations, hooks and messages.        *)
(***************************************************************************)
EXTENDS Access, EngineRun, FiniteSetTheorems, SequenceTheorems, TLAPS

-----------------------------------------------------------------------------
\* The list of what the user allowed.

LEMMA EntriesInBuckets ==
    ASSUME NEW c \in Calls, NEW e \in Entries(c) PROVE e[1] \in Buckets
  BY DEF Entries, Bucket, Buckets, PathTools

\* What a list holds after entries were added.
LEMMA Adding ==
    ASSUME NEW wl, NEW entries
    PROVE  /\ IsList(With(wl, entries))
           /\ \A b \in Buckets :
                 With(wl, entries)[b] = wl[b] \cup {e[2] : e \in {f \in entries : f[1] = b}}
           /\ entries = {} => \A b \in Buckets : With(wl, entries)[b] = wl[b]
<1>1. IsList(With(wl, entries))
  BY DEF With, IsList
<1>2. \A b \in Buckets :
         With(wl, entries)[b] = wl[b] \cup {e[2] : e \in {f \in entries : f[1] = b}}
  BY DEF With
<1>3. ASSUME entries = {}, NEW b \in Buckets PROVE With(wl, entries)[b] = wl[b]
  <2>1. {e[2] : e \in {f \in entries : f[1] = b}} = {}
    BY <1>3
  <2> QED
    BY <1>2, <1>3, <2>1
<1> QED
  BY <1>1, <1>2, <1>3

\* Adding to an empty list is noticed.
LEMMA AddingIsNew ==
    ASSUME NEW c \in Calls, Entries(c) # {} PROVE With(Empty, Entries(c)) # Empty
<1>1. PICK e \in Entries(c) : TRUE
  OBVIOUS
<1>2. e[1] \in Buckets
  BY EntriesInBuckets
<1>3. e[2] \in With(Empty, Entries(c))[e[1]]
  BY <1>2, Adding
<1>4. Empty[e[1]] = {}
  BY <1>2 DEF Empty
<1> QED
  BY <1>3, <1>4

LEMMA SoundInit == Init => WhitelistSound
<1> SUFFICES ASSUME Init PROVE WhitelistSound
  OBVIOUS
<1>1. TypeOK
  <2>1. IsList(stored) /\ IsList(given)
    BY DEF Init, Empty, IsList
  <2>2. changes \in 0..MaxChanges
    BY SandboxAssumption DEF Init, InitWorld
  <2>3. outcome \in [was: {"none", "ran", "refused", "denied"}, word: Words \cup {"none"}]
    BY DEF Init, NoOutcome
  <2> QED
    BY <2>1, <2>2, <2>3 DEF Init, InitWorld, TypeOK
<1>2. ListedWasGiven /\ NothingForgotten
  BY DEF Init, ListedWasGiven, NothingForgotten, Loaded, Empty
<1> QED
  BY <1>1, <1>2 DEF WhitelistSound

\* What a word for the session does to the list.
LEMMA RememberStep ==
    ASSUME WhitelistSound, NEW c \in Calls, Remember(c)
    PROVE  /\ IsList(whitelist)'
           /\ IsList(stored)' /\ IsList(given)' /\ blind' \in BOOLEAN
           /\ \A b \in Buckets : whitelist'[b] \subseteq given'[b]
           /\ ListedWasGiven' /\ NothingForgotten'
<1> DEFINE known == IF whitelist = NotLoaded THEN Empty ELSE whitelist
           added == With(known, Entries(c))
<1>1. /\ whitelist' = IF Entries(c) = {} THEN Loaded ELSE added
      /\ given' = With(given, Entries(c))
      /\ \/ stored' = (IF added # known THEN added ELSE stored)
            /\ blind' = (blind \/ (added # known /\ whitelist = NotLoaded /\ stored # Empty))
         \/ added # known /\ stored' = stored /\ blind' = TRUE
  BY DEF Remember
<1>2. /\ IsList(given) /\ IsList(stored)
      /\ whitelist # NotLoaded => IsList(whitelist)
      /\ blind \in BOOLEAN
      /\ \A b \in Buckets : stored[b] \subseteq given[b] /\ Loaded[b] \subseteq given[b]
      /\ ~blind => stored = given /\ Loaded = given
  BY DEF WhitelistSound, TypeOK, ListedWasGiven, NothingForgotten
<1>3. IsList(Loaded)
  BY <1>2 DEF Loaded
<1>4. /\ IsList(added) /\ IsList(given') /\ IsList(whitelist') /\ IsList(stored')
  BY <1>1, <1>2, <1>3, Adding
<1>5. \A b \in Buckets : known[b] \subseteq given[b]
  BY <1>2 DEF Loaded, Empty
<1>6. \A b \in Buckets : added[b] \subseteq given'[b] /\ given[b] \subseteq given'[b]
  BY <1>1, <1>5, Adding
<1>7. \A b \in Buckets : whitelist'[b] \subseteq given'[b] /\ stored'[b] \subseteq given'[b]
  BY <1>1, <1>2, <1>6
<1>8. ListedWasGiven'
  BY <1>7 DEF ListedWasGiven, Loaded
<1>9. NothingForgotten'
  <2> SUFFICES ASSUME ~blind' PROVE stored' = given' /\ whitelist' = given'
    BY DEF NothingForgotten, Loaded
  <2>1. /\ ~blind /\ stored = given /\ Loaded = given
        /\ stored' = IF added # known THEN added ELSE stored
        /\ ~(added # known /\ whitelist = NotLoaded /\ stored # Empty)
    BY <1>1, <1>2
  <2>2. CASE Entries(c) = {}
    <3>1. \A b \in Buckets : With(given, Entries(c))[b] = given[b]
      BY <2>2, Adding
    <3>2. With(given, Entries(c)) = given
      BY <1>2, <3>1 DEF With, IsList
    <3>3. added = known
      <4>1. \A b \in Buckets : added[b] = known[b]
        BY <2>2, Adding
      <4>2. IsList(known)
        BY <1>2 DEF Empty, IsList
      <4> QED
        BY <4>1, <4>2 DEF With, IsList
    <3> QED
      BY <1>1, <2>1, <2>2, <3>2, <3>3
  <2>3. CASE Entries(c) # {} /\ whitelist # NotLoaded
    <3>1. known = given
      BY <2>1, <2>3 DEF Loaded
    <3> QED
      BY <1>1, <2>1, <2>3, <3>1
  <2>4. CASE Entries(c) # {} /\ whitelist = NotLoaded
    <3>1. added # known
      BY <2>4, AddingIsNew
    <3>2. stored = Empty /\ given = Empty /\ known = Empty
      BY <2>1, <2>4, <3>1
    <3> QED
      BY <1>1, <2>1, <2>4, <3>1, <3>2
  <2> QED
    BY <2>2, <2>3, <2>4
<1> QED
  BY <1>1, <1>2, <1>4, <1>7, <1>8, <1>9

\* What an instance knows once it read the list is what the file said.
LEMMA Reading ==
    ASSUME WhitelistSound, whitelist' \in {whitelist, Loaded, NotLoaded},
           stored' = stored, given' = given, blind' = blind
    PROVE  /\ whitelist' # NotLoaded => IsList(whitelist)'
           /\ IsList(stored)' /\ IsList(given)' /\ blind' \in BOOLEAN
           /\ ListedWasGiven' /\ NothingForgotten'
<1>1. Loaded' = Loaded \/ Loaded' = stored
  BY DEF Loaded
<1>2. /\ whitelist # NotLoaded => IsList(whitelist)
      /\ IsList(stored) /\ IsList(given) /\ blind \in BOOLEAN
  BY DEF WhitelistSound, TypeOK
<1>3. IsList(stored)' /\ IsList(given)'
  BY <1>2 DEF IsList
<1>4. whitelist' # NotLoaded => IsList(whitelist)'
  <2>1. ASSUME whitelist' # NotLoaded PROVE whitelist' = Loaded /\ IsList(Loaded)
    BY <2>1, <1>2 DEF Loaded
  <2> QED
    BY <2>1 DEF IsList
<1>5. ListedWasGiven'
  BY <1>1 DEF WhitelistSound, ListedWasGiven
<1>6. NothingForgotten'
  BY <1>1 DEF WhitelistSound, NothingForgotten
<1> QED
  BY <1>2, <1>3, <1>4, <1>5, <1>6

Outcomes == [was: {"none", "ran", "refused", "denied"}, word: Words \cup {"none"}]

LEMMA WorldStep ==
    ASSUME TypeOK, WorldChanges
    PROVE  /\ policy' \in {Compile(p) : p \in {q \in Policies : Valid(q)}}
           /\ files' \subseteq Files /\ linked' \in BOOLEAN
           /\ dns' \in [Hosts -> SUBSET Addresses] /\ changes' \in 0..MaxChanges
<1>1. /\ policy \in {Compile(p) : p \in {q \in Policies : Valid(q)}}
      /\ files \subseteq Files /\ linked \in BOOLEAN
      /\ dns \in [Hosts -> SUBSET Addresses] /\ changes \in 0..MaxChanges
  BY DEF TypeOK
<1>2. changes' \in 0..MaxChanges
  <2>1. Changing
    BY DEF WorldChanges, UpdatePolicy, CreateOrRemove, Relink, Rename
  <2> QED
    BY <1>1, <2>1, SandboxAssumption DEF Changing
<1>3. CASE \E p \in Policies : UpdatePolicy(p)
  <2>1. PICK p \in Policies : UpdatePolicy(p)
    BY <1>3
  <2>2. policy' \in {Compile(q) : q \in {r \in Policies : Valid(r)}}
    BY <1>1, <2>1 DEF UpdatePolicy
  <2> QED
    BY <1>1, <1>2, <2>1, <2>2 DEF UpdatePolicy
<1>4. CASE \E path \in Files : CreateOrRemove(path)
  BY <1>1, <1>2, <1>4 DEF CreateOrRemove
<1>5. CASE Relink
  BY <1>1, <1>2, <1>5 DEF Relink
<1>6. CASE \E h \in Hosts, a \in SUBSET Addresses : Rename(h, a)
  BY <1>1, <1>2, <1>6 DEF Rename
<1> QED
  BY <1>3, <1>4, <1>5, <1>6 DEF WorldChanges

LEMMA SoundStep == WhitelistSound /\ [Next]_vars => WhitelistSound'
<1> SUFFICES ASSUME WhitelistSound, [Next]_vars PROVE WhitelistSound'
  OBVIOUS
<1> DEFINE World == /\ policy' \in {Compile(p) : p \in {q \in Policies : Valid(q)}}
                    /\ files' \subseteq Files /\ linked' \in BOOLEAN
                    /\ dns' \in [Hosts -> SUBSET Addresses] /\ changes' \in 0..MaxChanges
           List  == /\ whitelist' # NotLoaded => IsList(whitelist)'
                    /\ IsList(stored)' /\ IsList(given)' /\ blind' \in BOOLEAN
                    /\ ListedWasGiven' /\ NothingForgotten'
           Call  == /\ pending' \in Calls \cup {None} /\ current' \in Calls \cup {None}
                    /\ outcome' \in Outcomes
                    /\ fresh' \in BOOLEAN /\ (fresh' => current' # None)
<1>1. /\ pending \in Calls \cup {None} /\ current \in Calls \cup {None}
      /\ outcome \in Outcomes
      /\ fresh \in BOOLEAN /\ (fresh => current # None)
  BY DEF WhitelistSound, TypeOK, Outcomes
<1>2. ASSUME UNCHANGED world PROVE World
  BY <1>2 DEF world, WhitelistSound, TypeOK
<1>3. ASSUME World, List, Call PROVE WhitelistSound'
  BY <1>3 DEF WhitelistSound, TypeOK, Outcomes
<1>4. \A word \in Words \cup {"none"} :
         /\ [was |-> "denied", word |-> word] \in Outcomes
         /\ \A c, wl : [was |-> Result(c, wl), word |-> word] \in Outcomes
  BY DEF Result, Outcomes
<1>5. NoOutcome \in Outcomes
  BY DEF NoOutcome, Outcomes
<1>6. ASSUME NEW c \in Calls, CallGranted(c) \/ CallAsks(c) PROVE WhitelistSound'
  <2>1. World
    BY <1>2, <1>6 DEF CallGranted, CallAsks
  <2>2. List
    BY <1>6, Reading DEF CallGranted, CallAsks
  <2>3. Call
    <3>1. CASE CallGranted(c)
      <4>1. c # None
        BY AccessAssumption
      <4>2. pending' = pending /\ current' = c /\ fresh' = TRUE /\ outcome' = NoOutcome
        BY <3>1 DEF CallGranted
      <4> QED
        BY <1>1, <1>5, <4>1, <4>2
    <3>2. CASE CallAsks(c)
      <4>1. pending' = c /\ current' = current /\ fresh' = fresh /\ outcome' = NoOutcome
        BY <3>2 DEF CallAsks
      <4> QED
        BY <1>1, <1>5, <4>1
    <3> QED
      BY <1>6, <3>1, <3>2
  <2> QED
    BY <1>3, <2>1, <2>2, <2>3
<1>7. CASE Execute
  <2>1. World
    BY <1>2, <1>7 DEF Execute
  <2>2. List
    BY <1>7, Reading DEF Execute
  <2>3. Call
    BY <1>1, <1>4, <1>7 DEF Execute
  <2> QED
    BY <1>3, <2>1, <2>2, <2>3
<1>8. CASE MagicWord
  <2>1. World
    BY <1>2, <1>8 DEF MagicWord
  <2>2. List
    <3>1. CASE Allow \/ Deny
      BY <3>1, Reading DEF Allow, Deny
    <3>2. CASE AllowSession
      <4>1. pending \in Calls
        BY <1>1, <1>8 DEF MagicWord
      <4> QED
        BY <3>2, <4>1, RememberStep DEF AllowSession
    <3> QED
      BY <1>8, <3>1, <3>2 DEF MagicWord
  <2>3. outcome' \in Outcomes
    BY <1>4, <1>8 DEF MagicWord, Allow, AllowSession, Deny, Words
  <2>4. Call
    BY <1>1, <1>8, <2>3 DEF MagicWord
  <2> QED
    BY <1>3, <2>1, <2>2, <2>4
<1>9. CASE Reopen
  <2>1. World
    BY <1>2, <1>9 DEF Reopen
  <2>2. List
    BY <1>9, Reading DEF Reopen
  <2>3. Call
    BY <1>1, <1>5, <1>9 DEF Reopen
  <2> QED
    BY <1>3, <2>1, <2>2, <2>3
<1>10. CASE Elsewhere
  <2>1. World
    BY <1>10, WorldStep DEF Elsewhere, WhitelistSound
  <2>2. List
    BY <1>10, Reading DEF Elsewhere
  <2>3. Call
    BY <1>1, <1>10 DEF Elsewhere
  <2> QED
    BY <1>3, <2>1, <2>2, <2>3
<1>11. CASE UNCHANGED vars
  <2>1. World
    BY <1>2, <1>11 DEF vars
  <2>2. List
    BY <1>11, Reading DEF vars
  <2>3. Call
    BY <1>1, <1>11 DEF vars
  <2> QED
    BY <1>3, <2>1, <2>2, <2>3
<1> QED
  BY <1>6, <1>7, <1>8, <1>9, <1>10, <1>11 DEF Next

(* The list of a session, in memory and in its file, is what the user      *)
(* allowed, for any calls and any number of new instances.                 *)
THEOREM ListSound == Spec => []WhitelistSound
  BY SoundInit, SoundStep, PTL DEF Spec

-----------------------------------------------------------------------------
\* What a call may touch.

LEMMA BucketOfPathCall ==
    ASSUME NEW c \in PathCalls PROVE Bucket(c.tool) \in Buckets
  BY DEF PathCalls, PathTools, Bucket, Buckets

LEMMA PathCallExecutes ==
    ASSUME NEW c \in PathCalls, NEW wl PROVE Executes(c, wl) <=> ExecutePath(c, wl)
  BY DEF PathCalls, Executes, PathTools

(* What was allowed for a tool of paths is places.                         *)
GivenPlaces == \A t \in PathTools : given[Bucket(t)] \subseteq Seq(Names)

LEMMA GivenPlacesInit == Init => GivenPlaces
  BY DEF Init, GivenPlaces, Empty, Bucket, Buckets, PathTools

LEMMA EntriesOfPlaces ==
    ASSUME NEW c \in Calls, NEW t \in PathTools, NEW e \in Entries(c), e[1] = Bucket(t)
    PROVE  e[2] \in Seq(Names)
<1>1. CASE c.tool \in PathTools \ {"RunScript"}
  <2>1. c.path \in Seq(Names)
    BY <1>1, AccessAssumption DEF PathCalls
  <2>2. e = <<Bucket(c.tool), c.path>>
    BY <1>1 DEF Entries
  <2> QED
    BY <2>1, <2>2
<1>2. CASE c.tool = "Bash"
  <2>1. e[1] \in {"bash", "network"}
    BY <1>2 DEF Entries, PathTools
  <2>2. Bucket(t) \notin {"bash", "network"}
    BY DEF Bucket, PathTools
  <2> QED
    BY <2>1, <2>2
<1>3. CASE c.tool \notin PathTools \ {"RunScript"} /\ c.tool # "Bash"
  BY <1>3 DEF Entries
<1> QED
  BY <1>1, <1>2, <1>3

LEMMA GivenPlacesStep == WhitelistSound /\ GivenPlaces /\ [Next]_vars => GivenPlaces'
<1> SUFFICES ASSUME WhitelistSound, GivenPlaces, [Next]_vars PROVE GivenPlaces'
  OBVIOUS
<1>1. CASE UNCHANGED given
  BY <1>1 DEF GivenPlaces
<1>2. CASE MagicWord /\ AllowSession
  <2>1. pending \in Calls
    BY <1>2 DEF MagicWord, WhitelistSound, TypeOK
  <2>2. given' = With(given, Entries(pending))
    BY <1>2 DEF AllowSession, Remember
  <2>3. ASSUME NEW t \in PathTools, NEW d \in given'[Bucket(t)] PROVE d \in Seq(Names)
    <3>1. Bucket(t) \in Buckets
      BY DEF Bucket, Buckets, PathTools
    <3>2. d \in given[Bucket(t)]
            \/ d \in {e[2] : e \in {f \in Entries(pending) : f[1] = Bucket(t)}}
      BY <2>2, <2>3, <3>1, Adding
    <3> QED
      BY <2>1, <3>2, EntriesOfPlaces DEF GivenPlaces
  <2> QED
    BY <2>3 DEF GivenPlaces
<1> QED
  BY <1>1, <1>2 DEF Next, CallGranted, CallAsks, Execute, MagicWord, Allow, Deny,
     Reopen, Elsewhere, vars

\* Being in a directory.
LEMMA WithinWithin ==
    ASSUME NEW a \in Seq(Names), NEW b \in Seq(Names), NEW c \in Seq(Names),
           Within(a, b), Within(b, c)
    PROVE  Within(a, c)
<1>1. CASE a = b \/ b = c
  BY <1>1
<1>2. CASE a # b /\ b # c
  <2>1. /\ c # <<>> /\ Len(c) <= Len(b) /\ Len(b) <= Len(a)
        /\ Len(a) \in Nat /\ Len(b) \in Nat /\ Len(c) \in Nat
        /\ SubSeq(a, 1, Len(b)) = b /\ SubSeq(b, 1, Len(c)) = c
    BY <1>2 DEF Within
  <2>2. SubSeq(a, 1, Len(c)) \in Seq(Names) /\ Len(SubSeq(a, 1, Len(c))) = Len(c)
    BY <2>1
  <2>3. \A i \in 1..Len(c) : SubSeq(a, 1, Len(c))[i] = c[i]
    <3> TAKE i \in 1..Len(c)
    <3>1. SubSeq(a, 1, Len(c))[i] = a[i] /\ SubSeq(a, 1, Len(b))[i] = a[i]
      BY <2>1
    <3>2. SubSeq(b, 1, Len(c))[i] = b[i]
      BY <2>1
    <3> QED
      BY <2>1, <3>1, <3>2
  <2>4. SubSeq(a, 1, Len(c)) = c
    BY <2>1, <2>2, <2>3, SeqEqual
  <2> QED
    BY <2>1, <2>4 DEF Within
<1> QED
  BY <1>1, <1>2

\* Where a link leads is not behind the link.
LEMMA LedAway ==
    ASSUME NEW rest \in Seq(Names) PROVE ~Within(LinkTo \o rest, LinkAt)
<1> SUFFICES ASSUME Within(LinkTo \o rest, LinkAt) PROVE FALSE
  OBVIOUS
<1> DEFINE s == LinkTo \o rest
<1>1. /\ LinkTo \in Seq(Names) /\ LinkAt \in Seq(Names) /\ s \in Seq(Names)
      /\ Len(LinkTo) \in Nat /\ Len(LinkAt) \in Nat /\ Len(rest) \in Nat
      /\ Len(s) = Len(LinkTo) + Len(rest)
  BY SandboxAssumption
<1>2. \A i \in 1..Len(LinkTo) : s[i] = LinkTo[i]
  BY <1>1
<1>3. Len(LinkAt) <= Len(s) /\ \A i \in 1..Len(LinkAt) : s[i] = LinkAt[i]
  <2>1. CASE s = LinkAt
    BY <1>1, <2>1
  <2>2. CASE Len(LinkAt) <= Len(s) /\ SubSeq(s, 1, Len(LinkAt)) = LinkAt
    <3>1. \A i \in 1..Len(LinkAt) : SubSeq(s, 1, Len(LinkAt))[i] = s[i]
      BY <1>1, <2>2
    <3> QED
      BY <2>2, <3>1
  <2> QED
    BY <2>1, <2>2 DEF Within
<1> HIDE DEF s
<1>4. CASE Len(LinkAt) <= Len(LinkTo)
  <2>1. SubSeq(LinkTo, 1, Len(LinkAt)) = LinkAt
    <3>1. /\ SubSeq(LinkTo, 1, Len(LinkAt)) \in Seq(Names)
          /\ Len(SubSeq(LinkTo, 1, Len(LinkAt))) = Len(LinkAt)
      BY <1>1, <1>4
    <3>2. \A i \in 1..Len(LinkAt) : SubSeq(LinkTo, 1, Len(LinkAt))[i] = LinkAt[i]
      BY <1>1, <1>2, <1>3, <1>4
    <3> QED
      BY <1>1, <3>1, <3>2, SeqEqual
  <2> QED
    BY <1>4, <2>1, SandboxAssumption, LinkAssumption DEF Within
<1>5. CASE Len(LinkTo) < Len(LinkAt)
  <2>1. SubSeq(LinkAt, 1, Len(LinkTo)) = LinkTo
    <3>1. /\ SubSeq(LinkAt, 1, Len(LinkTo)) \in Seq(Names)
          /\ Len(SubSeq(LinkAt, 1, Len(LinkTo))) = Len(LinkTo)
      BY <1>1, <1>5
    <3>2. \A i \in 1..Len(LinkTo) : SubSeq(LinkAt, 1, Len(LinkTo))[i] = LinkTo[i]
      BY <1>1, <1>2, <1>3, <1>5
    <3> QED
      BY <1>1, <3>1, <3>2, SeqEqual
  <2> QED
    BY <1>5, <2>1, SandboxAssumption, LinkAssumption DEF Within
<1> QED
  BY <1>1, <1>4, <1>5

LEMMA FollowedAway ==
    ASSUME NEW path \in Seq(Names), linked
    PROVE  Followed(path) \in Seq(Names) /\ ~Within(Followed(path), LinkAt)
<1>1. CASE Behind(path)
  <2>1. SubSeq(path, Len(LinkAt) + 1, Len(path)) \in Seq(Names)
    BY SandboxAssumption
  <2>2. Followed(path) = LinkTo \o SubSeq(path, Len(LinkAt) + 1, Len(path))
    BY <1>1 DEF Followed
  <2>3. LinkTo \o SubSeq(path, Len(LinkAt) + 1, Len(path)) \in Seq(Names)
    BY <2>1, SandboxAssumption
  <2>4. ~Within(LinkTo \o SubSeq(path, Len(LinkAt) + 1, Len(path)), LinkAt)
    BY <2>1, LedAway
  <2> QED
    BY <2>2, <2>3, <2>4
<1>2. CASE ~Behind(path)
  BY <1>2 DEF Behind, Followed
<1> QED
  BY <1>1, <1>2

\* What EnforceFile finds in a directory lies in it, unless it is new and
\* behind a link.
LEMMA ResolvedLies ==
    ASSUME NEW path \in Seq(Names), NEW d \in Seq(Names),
           Exists(path) => Within(Real(path), Real(d)),
           ~Exists(path) => Within(path, d) /\ ~Behind(path)
    PROVE  In(path, d)
<1>1. ASSUME NEW p \in Seq(Names), Within(p, d), linked => ~Within(p, LinkAt)
      PROVE  Followed(d) = d
  <2>1. LinkAt \in Seq(Names)
    BY SandboxAssumption
  <2>2. linked => ~Within(d, LinkAt)
    BY <1>1, <2>1, WithinWithin
  <2> QED
    BY <2>2 DEF Followed, Behind
<1>2. CASE Exists(path)
  <2>1. Real(path) = Followed(path)
    BY <1>2 DEF Real
  <2>2. CASE Exists(d)
    BY <1>2, <2>1, <2>2 DEF Real, In
  <2>3. CASE ~Exists(d)
    <3>1. Within(Followed(path), d)
      BY <1>2, <2>1, <2>3 DEF Real
    <3>2. Followed(path) \in Seq(Names) /\ (linked => ~Within(Followed(path), LinkAt))
      BY FollowedAway DEF Followed, Behind
    <3>3. Followed(d) = d
      BY <1>1, <3>1, <3>2
    <3> QED
      BY <3>1, <3>3 DEF In
  <2> QED
    BY <2>2, <2>3
<1>3. CASE ~Exists(path)
  <2>1. Followed(path) = path /\ (linked => ~Within(path, LinkAt))
    BY <1>3 DEF Followed, Behind
  <2>2. Followed(d) = d
    BY <1>1, <1>3, <2>1
  <2> QED
    BY <1>3, <2>1, <2>2 DEF In
<1> QED
  BY <1>2, <1>3

LEMMA RanOutside ==
    ASSUME WhitelistSound, NEW c \in PathCalls, NEW wl, NEW allowed, Executes(c, wl),
           LiesOutside(c), ~NewBehindLink(c),
           wl[Bucket(c.tool)] \subseteq allowed, allowed \subseteq Seq(Names)
    PROVE  \E d \in allowed : In(c.path, d)
<1> DEFINE own == {c.base} \cup policy.allowedDirs
<1>1. \E d \in Resolved(c.path, own \cup wl[Bucket(c.tool)]) : Within(Real(c.path), d)
  BY PathCallExecutes DEF ExecutePath, EnforceFile
<1>2. own \subseteq Seq(Names) /\ c.path \in Seq(Names)
  <2>1. PICK p \in Policies : Valid(p) /\ policy = Compile(p)
    BY DEF WhitelistSound, TypeOK
  <2>2. policy.allowedDirs = p["allowedDirs"] \ {Blank}
    BY <2>1 DEF Compile, Lists, Dropped
  <2> QED
    BY <2>2, SandboxAssumption, AccessAssumption
<1> HIDE DEF own
<1>3. PICK d \in own \cup wl[Bucket(c.tool)] :
         /\ Exists(c.path) => Within(Real(c.path), Real(d))
         /\ ~Exists(c.path) => Within(c.path, d)
  BY <1>1 DEF Resolved, Real
<1>4. d \in Seq(Names)
  BY <1>2, <1>3
<1>5. In(c.path, d)
  BY <1>2, <1>3, <1>4, ResolvedLies DEF NewBehindLink
<1>6. d \notin own
  BY <1>5 DEF LiesOutside, own
<1> QED
  BY <1>3, <1>5, <1>6

LEMMA WasAllowed ==
    ASSUME WhitelistSound, GivenPlaces, GivenPlaces', NEW c \in PathCalls, Handled(c),
           outcome'.was = "ran", LiesOutside(c), ~NewBehindLink(c)
    PROVE  UserAllowed(c)
<1>1. Bucket(c.tool) \in Buckets
  BY BucketOfPathCall
<1>2. /\ Loaded[Bucket(c.tool)] \subseteq given[Bucket(c.tool)]
      /\ given[Bucket(c.tool)] \subseteq Seq(Names)
      /\ given'[Bucket(c.tool)] \subseteq Seq(Names)
  BY <1>1 DEF WhitelistSound, ListedWasGiven, GivenPlaces, PathCalls
<1>3. \A wl : Result(c, wl) = "ran" => Executes(c, wl)
  BY DEF Result
<1>4. CASE c = current /\ Execute
  <2>1. Result(c, Loaded) = "ran" /\ given' = given
    BY <1>4 DEF Execute
  <2> QED
    BY <1>2, <1>3, <2>1, RanOutside DEF UserAllowed
<1>5. CASE c = pending /\ MagicWord
  <2>1. CASE Allow
    <3>1. Result(c, Loaded) = "ran" /\ given' = given
      BY <1>5, <2>1 DEF Allow
    <3> QED
      BY <1>2, <1>3, <3>1, RanOutside DEF UserAllowed
  <2>2. CASE AllowSession
    <3>1. c \in Calls /\ Remember(c) /\ Result(c, whitelist') = "ran"
      BY <1>5, <2>2 DEF AllowSession, PathCalls
    <3>2. whitelist'[Bucket(c.tool)] \subseteq given'[Bucket(c.tool)]
      BY <1>1, <3>1, RememberStep
    <3> QED
      BY <1>2, <1>3, <3>1, <3>2, RanOutside DEF UserAllowed
  <2>3. CASE Deny
    BY <2>3 DEF Deny
  <2> QED
    BY <1>5, <2>1, <2>2, <2>3 DEF MagicWord
<1> QED
  BY <1>4, <1>5 DEF Handled

(* Whatever links, files and policies do meanwhile, no tool of paths runs  *)
(* on a file that lies outside the workspace, or is made there, unless the *)
(* user allowed it for the session and that tool; but for a file that is   *)
(* not there yet behind a link.                                            *)
THEOREM OutsideAllowed == Spec => OutsideWasAllowed
<1>1. WhitelistSound /\ GivenPlaces /\ GivenPlaces' /\ [Next]_vars =>
        [\A c \in PathCalls :
           Handled(c) /\ outcome'.was = "ran" /\ LiesOutside(c)
              => UserAllowed(c) \/ NewBehindLink(c)]_vars
  BY WasAllowed
<1>2. Spec => []GivenPlaces
  BY GivenPlacesInit, GivenPlacesStep, ListSound, PTL DEF Spec
<1> QED
  BY <1>1, <1>2, ListSound, PTL DEF Spec, OutsideWasAllowed

-----------------------------------------------------------------------------
\* The two stages.

(* What Grant let through, it would let through until something changes.   *)
StillGranted == WhitelistSound /\ (fresh => current \in Calls /\ Grant(current, Loaded))

\* Links that lead to themselves change nothing.
LEMMA LedToItself ==
    ASSUME NEW path, NEW dirs, \A d \in dirs : Real(d) = d PROVE Resolved(path, dirs) = dirs
  BY DEF Resolved

LEMMA PathGrantedRuns ==
    ASSUME NEW c \in PathCalls, GrantPath(c, Loaded), ~ExecutePath(c, Loaded),
           Exists(c.path), c.tool = "Read" => c.path \notin Unreadable
    PROVE  \E p \in Led(c) : Real(p) # p
<1> SUFFICES ASSUME \A p \in Led(c) : Real(p) = p PROVE FALSE
  OBVIOUS
<1> DEFINE wl == Loaded[Bucket(c.tool)]
<1>1. /\ Real(c.path) = c.path
      /\ \A d \in {c.base} \cup policy.allowedDirs \cup wl : Real(d) = d
      /\ \A d \in policy.allowedPaths : Real(d) = d
  BY DEF Led
<1>2. /\ Resolved(c.path, {c.base} \cup policy.allowedDirs \cup wl)
             = {c.base} \cup policy.allowedDirs \cup wl
      /\ Resolved(c.path, policy.allowedPaths) = policy.allowedPaths
  BY <1>1, LedToItself
<1>3. /\ ~IsDevice(c.path)
      /\ IsSensitive(c.path) => IsAllowedFile(c.path, policy.allowedPaths)
      /\ \/ ~IsOutside(c.path, c.base, policy.allowedDirs)
         \/ \E d \in wl : Within(c.path, d)
  BY <1>1 DEF GrantPath, CheckFile
<1>4. \E d \in {c.base} \cup policy.allowedDirs \cup wl : Within(c.path, d)
  BY <1>3 DEF IsOutside
<1> QED
  BY <1>1, <1>2, <1>3, <1>4 DEF ExecutePath, EnforceFile

LEMMA RefusedLooksElsewhere ==
    ASSUME NEW c \in Calls, Grant(c, Loaded), ~Executes(c, Loaded) PROVE LooksElsewhere(c)
<1>1. CASE c.tool \in PathTools
  <2>1. c \in PathCalls /\ GrantPath(c, Loaded) /\ ~ExecutePath(c, Loaded)
    BY <1>1 DEF PathCalls, Grant, Executes, PathTools
  <2> QED
    BY <2>1, PathGrantedRuns DEF LooksElsewhere
<1>2. CASE c.tool = "Bash"
  <2>1. GrantBash(c.command, Loaded) /\ ~ExecuteBash(c.command, Loaded)
    BY <1>2 DEF Grant, Executes, PathTools
  <2> QED
    BY <1>2, <2>1 DEF GrantBash, ExecuteBash, LooksElsewhere
<1>3. CASE c.tool = "WebFetch"
  BY <1>3 DEF Grant, Executes, PathTools
<1> QED
  BY <1>1, <1>2, <1>3, AccessAssumption

LEMMA StillGrantedInit == Init => StillGranted
<1> SUFFICES ASSUME Init PROVE StillGranted
  OBVIOUS
<1>1. WhitelistSound
  BY SoundInit
<1>2. fresh = FALSE
  BY DEF Init
<1> QED
  BY <1>1, <1>2 DEF StillGranted

\* The decision is made of the policy, the world and the list alone.
LEMMA SameWorld ==
    ASSUME UNCHANGED world, Loaded' = Loaded, NEW c \in Calls
    PROVE  Grant(c, Loaded)' <=> Grant(c, Loaded)
<1>1. policy' = policy /\ files' = files /\ linked' = linked /\ dns' = dns
  BY DEF world
<1>2. \A p : Exists(p)' <=> Exists(p)
  BY <1>1 DEF Exists, Followed, Behind
<1>3. \A p : Real(p)' = Real(p)
  BY <1>1, <1>2 DEF Real, Followed, Behind
<1>4. \A p : /\ IsDevice(p)' <=> IsDevice(p)
             /\ IsSensitive(p)' <=> IsSensitive(p)
             /\ IsAllowedFile(p, policy.allowedPaths)' <=> IsAllowedFile(p, policy.allowedPaths)
  BY <1>1 DEF IsDevice, IsSensitive, IsAllowedFile
<1>5. \A p, b : IsOutside(p, b, policy.allowedDirs)' <=> IsOutside(p, b, policy.allowedDirs)
  BY <1>1 DEF IsOutside
<1>6. \A p, b : CheckFile(p, b)' = CheckFile(p, b)
  BY <1>2, <1>3, <1>4, <1>5 DEF CheckFile
<1>7. \A h : CheckURL(h)' = CheckURL(h)
  BY <1>1 DEF CheckURL
<1>8. \A h : EnforceURL(h, Loaded["network"])' <=> EnforceURL(h, Loaded["network"])
  BY <1>7 DEF EnforceURL
<1>9. \A k : /\ CheckCommand(k)' = CheckCommand(k)
             /\ NeedURLCheck(k)' <=> NeedURLCheck(k)
  BY <1>1 DEF CheckCommand, NeedURLCheck
<1>10. GrantPath(c, Loaded)' <=> GrantPath(c, Loaded)
  BY <1>6 DEF GrantPath
<1>11. URLsPass(c.command.hosts, Loaded)' <=> URLsPass(c.command.hosts, Loaded)
  BY <1>8 DEF URLsPass
<1>12. InWhitelist(c.command, Loaded)' <=> InWhitelist(c.command, Loaded)
  BY DEF InWhitelist
<1>13. GrantBash(c.command, Loaded)' <=> GrantBash(c.command, Loaded)
  BY <1>9, <1>11, <1>12 DEF GrantBash
<1>14. CASE c.tool \in PathTools
  BY <1>10, <1>14 DEF Grant, PathTools
<1>15. CASE c.tool = "Bash"
  BY <1>13, <1>15 DEF Grant, PathTools
<1>16. CASE c.tool = "WebFetch"
  BY <1>8, <1>16 DEF Grant, PathTools
<1> QED
  BY <1>14, <1>15, <1>16, AccessAssumption

LEMMA StillGrantedStep == StillGranted /\ [Next]_vars => StillGranted'
<1> SUFFICES ASSUME StillGranted, [Next]_vars, fresh'
             PROVE  current' \in Calls /\ Grant(current, Loaded)'
  <2>1. StillGranted /\ [Next]_vars => WhitelistSound'
    BY SoundStep DEF StillGranted
  <2> QED
    BY <2>1 DEF StillGranted
<1>1. ASSUME NEW c \in Calls, CallGranted(c)
      PROVE  current' \in Calls /\ Grant(current, Loaded)'
  <2>1. UNCHANGED world /\ current' = c /\ Grant(c, Loaded) /\ Loaded' = Loaded
    BY <1>1 DEF CallGranted, Loaded
  <2>2. Grant(c, Loaded)'
    BY <2>1, SameWorld
  <2>3. Grant(current, Loaded)' <=> Grant(c, Loaded)'
    BY <2>1 DEF Grant, GrantPath, GrantBash, PathTools
  <2> QED
    BY <2>1, <2>2, <2>3
<1>2. CASE UNCHANGED vars
  <2> DEFINE c == current
  <2>1. UNCHANGED world /\ current' = current /\ fresh /\ Loaded' = Loaded
    BY <1>2 DEF vars, Loaded
  <2>2. current \in Calls /\ Grant(current, Loaded)
    BY <2>1 DEF StillGranted
  <2>3. PICK k \in Calls : k = current
    BY <2>2
  <2>4. Grant(k, Loaded)'
    BY <2>1, <2>2, <2>3, SameWorld
  <2>5. Grant(current, Loaded)' <=> Grant(k, Loaded)'
    BY <2>1, <2>3 DEF Grant, GrantPath, GrantBash, PathTools
  <2> QED
    BY <2>1, <2>2, <2>4, <2>5
<1>3. ~(\E c \in Calls : CallAsks(c)) /\ ~MagicWord
  <2>1. ASSUME current = None PROVE ~fresh
    BY <2>1, AccessAssumption DEF StillGranted
  <2>2. fresh \/ ~((\E c \in Calls : CallAsks(c)) \/ MagicWord)
    BY DEF CallAsks, MagicWord
  <2> QED
    BY <2>1, <2>2 DEF CallAsks, MagicWord
<1>4. ~Execute /\ ~Reopen /\ ~Elsewhere
  BY DEF Execute, Reopen, Elsewhere
<1> QED
  BY <1>1, <1>2, <1>3, <1>4 DEF Next

LEMMA GrantedStep ==
    ASSUME StillGranted, fresh, Execute, outcome'.was = "refused" PROVE LooksElsewhere(current)
<1>1. current \in Calls /\ Grant(current, Loaded)
  BY DEF StillGranted
<1>2. Result(current, Loaded) = "refused"
  BY DEF Execute
<1>3. ~Executes(current, Loaded)
  BY <1>2 DEF Result
<1> QED
  BY <1>1, <1>3, RefusedLooksElsewhere

LEMMA AskedStep ==
    ASSUME WhitelistSound, NEW c \in PathCalls, CallAsks(c),
           \E d \in given[Bucket(c.tool)] : Within(c.path, d)
    PROVE  blind \/ CheckFile(c.path, c.base) = "deny"
<1> SUFFICES ASSUME ~blind PROVE CheckFile(c.path, c.base) = "deny"
  OBVIOUS
<1>1. Loaded = given
  BY DEF WhitelistSound, NothingForgotten
<1>2. ~GrantPath(c, Loaded)
  BY DEF CallAsks, Grant, PathCalls, PathTools
<1>3. CheckFile(c.path, c.base) \in {"allow", "ask", "deny"}
  BY DEF CheckFile
<1> QED
  BY <1>1, <1>2, <1>3 DEF GrantPath

(* The stage that asks and the stage that runs decide alike about one      *)
(* world, for any calls and policies, but where they look at different     *)
(* things.                                                                 *)
THEOREM StagesAgree == Spec => DecisionsAgree
<1>1. Spec => []StillGranted
  BY StillGrantedInit, StillGrantedStep, PTL DEF Spec
<1>2. StillGranted /\ [Next]_vars =>
        [fresh /\ outcome'.was = "refused" /\ Execute => LooksElsewhere(current)]_vars
  BY GrantedStep
<1>3. StillGranted /\ [Next]_vars =>
        [\A c \in PathCalls :
           (\E d \in given[Bucket(c.tool)] : Within(c.path, d)) /\ CallAsks(c)
             => blind \/ CheckFile(c.path, c.base) = "deny"]_vars
  BY AskedStep DEF StillGranted
<1> QED
  BY <1>1, <1>2, <1>3, PTL DEF Spec, DecisionsAgree, GrantedRuns, AskedOnce

-----------------------------------------------------------------------------
(***************************************************************************)
(* The run of the engine: what is written, what it cost, where its images  *)
(* stand and how it ends, for any iterations, hooks, calls and resumptions.*)
(***************************************************************************)

-----------------------------------------------------------------------------
\* The types of a run, and what one step of it changes.

\* What the records of a run hold: a booked call, an entry of the session's log, a
\* message of the engine, the hooks' coordinator and the bridge.
Bookings   == [iter: 0..MaxIterations - 1, run: Nat, exact: BOOLEAN]
LogEntries == [what: {"message", "image"}, at: Nat, usage: SUBSET Bookings]
Spoken     == [role: {"assistant", "tool"}, of: 0..MaxIterations - 1]
Coords     == [seq: Nat, images: SUBSET [seq: Nat, at: Nat], results: SUBSET (Errors \cup {"ok"}),
               abort: BOOLEAN, error: BOOLEAN,
               dup: [last: {"none", "plain", "fatal"}, count: Nat, guided: BOOLEAN]]
Bridges    == [complete: Nat, len: Nat, asst: Nat, tool: Nat, usage: SUBSET Bookings,
               image: Nat, suspend: {"none", "permission", "ask_user"}, answer: BOOLEAN]

\* The types, with what the type invariant of the runs says nothing of: the records'
\* fields, and that an iteration under way is one of those allowed.
RunTyped ==
    /\ RunTypeOK
    /\ coord \in Coords /\ bridge \in Bridges
    /\ log \in Seq(LogEntries)
    /\ ledger \in [0..MaxIterations - 1 -> Nat]
    /\ advised \in Nat
    /\ pc \in {"calling", "after", "tools", "round"} => iter < MaxIterations


\* The coordinator and the bridge a run starts with.
LEMMA NewCoordFields ==
    /\ NewCoord \in Coords
    /\ NewCoord.seq = 0 /\ NewCoord.images = {} /\ NewCoord.results = {}
    /\ NewCoord.abort = FALSE /\ NewCoord.error = FALSE
    /\ NewCoord.dup.count = 0 /\ NewCoord.dup.guided = FALSE
  BY DEF NewCoord, NoStreak, Coords

LEMMA NewBridgeFields ==
    /\ NewBridge \in Bridges
    /\ NewBridge.complete = 0 /\ NewBridge.len = 0 /\ NewBridge.asst = 0 /\ NewBridge.tool = 0
    /\ NewBridge.usage = {} /\ NewBridge.image = 0 /\ NewBridge.suspend = "none"
  BY DEF NewBridge, Bridges

\* A run starts well typed.
LEMMA TypedInit == RunInit => RunTyped
<1> SUFFICES ASSUME RunInit PROVE RunTyped
  OBVIOUS
<1>1. MaxIterations \in Nat /\ MaxIterations > 0 /\ Len(msgs) = 0
  BY EngineAssumption DEF RunInit
<1>2. coord \in Coords
  BY NewCoordFields DEF RunInit
<1>3. bridge \in Bridges
  BY NewBridgeFields DEF RunInit
<1>4. RunTypeOK
  <2>1. /\ msgs \in Seq([role: {"assistant", "tool"}, of: 0..MaxIterations - 1])
        /\ DOMAIN log = {} /\ runs \in 1..MaxResumes + 1 /\ iter \in 0..MaxIterations
        /\ left \in 0..MaxCalls
    BY EngineAssumption DEF RunInit
  <2>2. coord.seq \in 0..Len(msgs) /\ coord.results = {} /\ coord.images = {}
    BY <1>1, NewCoordFields DEF RunInit
  <2>3. /\ bridge.len <= bridge.complete /\ bridge.complete <= Len(msgs)
        /\ bridge.image \in 0..Len(msgs) /\ bridge.suspend = "none"
    BY <1>1, NewBridgeFields DEF RunInit
  <2>4. pc = "before" /\ at = 0 /\ ~Writing
    BY DEF RunInit, Writing
  <2> QED
    BY <2>1, <2>2, <2>3, <2>4 DEF RunInit, RunTypeOK
<1>5. log \in Seq(LogEntries) /\ ledger \in [0..MaxIterations - 1 -> Nat]
  BY DEF RunInit
<1> QED
  BY <1>1, <1>2, <1>3, <1>4, <1>5 DEF RunInit, RunTyped

\* A sequence that grew by one entry.
LEMMA Appended ==
    ASSUME NEW S, NEW s \in Seq(S), NEW e \in S
    PROVE  /\ Append(s, e) \in Seq(S) /\ Len(Append(s, e)) = Len(s) + 1
           /\ \A i \in 1..Len(s) : Append(s, e)[i] = s[i]
           /\ Append(s, e)[Len(s) + 1] = e
           /\ DOMAIN Append(s, e) = 1..Len(s) + 1 /\ DOMAIN s = 1..Len(s) /\ Len(s) \in Nat
  OBVIOUS


\* How far the messages are written: the mark, or the message a write-back has got to.
Mark == IF Writing THEN at ELSE bridge.len

\* What the steps that book nothing leave of the bridge and of the coordinator.
SameBooks(b, c) ==
    b.len = c.len /\ b.asst = c.asst /\ b.tool = c.tool /\ b.usage = c.usage /\ b.image = c.image

SameRecords(c, d) == c.seq = d.seq /\ c.images = d.images

\* What the last event, an abort, a failure and a snapshot change, field by field.
LEMMA CompleteFields ==
    ASSUME NEW b \in Bridges, Len(msgs) \in Nat
    PROVE  /\ Complete(b) \in Bridges /\ SameBooks(Complete(b), b)
           /\ Complete(b).complete = Len(msgs) /\ Complete(b).suspend = b.suspend
           /\ Complete(b).answer = b.answer
  BY DEF Complete, Bridges, SameBooks

LEMMA AbortFields ==
    ASSUME coord \in Coords, HookAborts
    PROVE  /\ coord' \in Coords /\ SameRecords(coord', coord) /\ coord'.results = coord.results
           /\ coord'.abort /\ coord'.error = coord.error /\ coord'.dup = coord.dup
           /\ pc' = "ended" /\ how' = "hook_abort"
  BY DEF HookAborts, Stops, Coords, SameRecords

LEMMA FailFields ==
    ASSUME coord \in Coords, HookFails
    PROVE  /\ coord' \in Coords /\ SameRecords(coord', coord) /\ coord'.results = coord.results
           /\ coord'.error /\ coord'.abort = coord.abort /\ coord'.dup = coord.dup
           /\ pc' = "ended" /\ how' = "hook_error"
  BY DEF HookFails, Stops, Coords, SameRecords

LEMMA SnapshotFields ==
    ASSUME NEW c \in Coords
    PROVE  /\ Snapshot(c) \in Coords /\ SameRecords(Snapshot(c), c) /\ Snapshot(c).results = {}
           /\ Snapshot(c).abort = c.abort /\ Snapshot(c).error = c.error /\ Snapshot(c).dup = c.dup
  BY DEF Snapshot, Coords, SameRecords

\* The start of an iteration.
LEMMA BeforeTyped ==
    ASSUME RunTyped, BeforeLLM
    PROVE  RunTyped' /\ SameBooks(bridge', bridge) /\ SameRecords(coord', coord)
<1>0. coord \in Coords /\ bridge \in Bridges /\ Len(msgs) \in Nat
  BY DEF RunTyped, RunTypeOK
<1>1. coord' \in Coords /\ SameRecords(coord', coord) /\ coord'.results = coord.results
  BY <1>0, AbortFields, FailFields DEF BeforeLLM, SameRecords
<1>2. /\ bridge' \in Bridges /\ SameBooks(bridge', bridge) /\ bridge'.suspend = bridge.suspend
      /\ bridge'.complete \in {bridge.complete, Len(msgs)}
  BY <1>0, CompleteFields DEF BeforeLLM, SameBooks
<1>3. pc' \in {"calling", "ended"} /\ (pc' = "calling" => iter < MaxIterations)
  BY <1>0, AbortFields, FailFields DEF BeforeLLM, Stops
<1>4. /\ bridge'.len <= bridge'.complete /\ bridge'.complete <= Len(msgs)
      /\ bridge'.image \in 0..Len(msgs)
  BY <1>0, <1>2 DEF RunTyped, RunTypeOK, Bridges, SameBooks
<1>5. RunTypeOK'
  <2>1. at' = 0 /\ ~Writing'
    BY <1>3 DEF RunTyped, RunTypeOK, BeforeLLM, Writing
  <2>2. coord'.seq \in 0..Len(msgs) /\ \A e \in coord'.images : e.at \in DOMAIN msgs /\ e.seq < coord'.seq
    BY <1>1 DEF RunTyped, RunTypeOK, SameRecords
  <2>3. bridge'.suspend \in {"none", "permission", "ask_user"}
    BY <1>2 DEF RunTyped, RunTypeOK
  <2> QED
    BY <1>1, <1>3, <1>4, <2>1, <2>2, <2>3 DEF RunTyped, RunTypeOK, BeforeLLM
<1> QED
  BY <1>1, <1>2, <1>3, <1>5 DEF RunTyped, BeforeLLM

\* What the types say of messages and entries.
LEMMA TypedFacts ==
    ASSUME RunTyped
    PROVE  /\ Len(msgs) \in Nat /\ msgs \in Seq(Spoken) /\ DOMAIN msgs = 1..Len(msgs)
           /\ coord \in Coords /\ bridge \in Bridges /\ iter \in Nat
           /\ log \in Seq(LogEntries) /\ Len(log) \in Nat /\ DOMAIN log = 1..Len(log)
           /\ runs \in Nat /\ at \in Nat
           /\ \A i \in 1..Len(msgs) : msgs[i] \in Spoken /\ msgs[i].of \in Nat
           /\ \A k \in 1..Len(log) : log[k] \in LogEntries /\ log[k].at \in Nat
<1>1. /\ Len(msgs) \in Nat /\ msgs \in Seq(Spoken) /\ DOMAIN msgs = 1..Len(msgs)
      /\ coord \in Coords /\ bridge \in Bridges /\ iter \in Nat
      /\ log \in Seq(LogEntries) /\ Len(log) \in Nat /\ DOMAIN log = 1..Len(log)
      /\ runs \in Nat /\ at \in Nat
  BY DEF RunTyped, RunTypeOK, Spoken, Writing, Bridges
<1>2. \A i \in 1..Len(msgs) : msgs[i] \in Spoken
  BY <1>1, ElementOfSeq
<1>3. \A k \in 1..Len(log) : log[k] \in LogEntries
  BY <1>1, ElementOfSeq
<1> QED
  BY <1>1, <1>2, <1>3 DEF Spoken, LogEntries

\* A call of the model adds one booking and, if its tokens are known, books them.
LEMMA CallFields ==
    ASSUME RunTyped, CallLLM
    PROVE  \E exact \in BOOLEAN :
              /\ bridge' \in Bridges
              /\ bridge'.usage = bridge.usage \cup {[iter |-> iter, run |-> runs, exact |-> exact]}
              /\ [iter |-> iter, run |-> runs, exact |-> exact] \in Bookings
              /\ bridge'.complete = bridge.complete /\ bridge'.len = bridge.len
              /\ bridge'.asst = bridge.asst /\ bridge'.tool = bridge.tool
              /\ bridge'.image = bridge.image /\ bridge'.suspend = bridge.suspend
              /\ bridge'.answer = bridge.answer
              /\ ledger' = [ledger EXCEPT ![iter] = @ + Added(exact)]
              /\ ledger' \in [0..MaxIterations - 1 -> Nat]
<1>1. PICK exact \in BOOLEAN :
         /\ bridge' = [bridge EXCEPT !.usage = @ \cup {[iter |-> iter, run |-> runs, exact |-> exact]}]
         /\ ledger' = [ledger EXCEPT ![iter] = @ + Added(exact)]
  BY DEF CallLLM
<1>2. iter \in 0..MaxIterations - 1 /\ runs \in Nat
  BY EngineAssumption DEF RunTyped, RunTypeOK, CallLLM
<1> DEFINE u == [iter |-> iter, run |-> runs, exact |-> exact]
<1>3. u \in Bookings
  BY <1>2 DEF Bookings
<1>4. bridge.usage \cup {u} \in SUBSET Bookings
  BY <1>3 DEF RunTyped, Bridges
<1>5. /\ bridge' = [bridge EXCEPT !.usage = bridge.usage \cup {u}]
  BY <1>1
<1>6. bridge' \in Bridges
  <2> HIDE DEF u
  <2> QED
    BY <1>4, <1>5 DEF RunTyped, Bridges
<1>7. ledger' \in [0..MaxIterations - 1 -> Nat]
  BY <1>1, <1>2 DEF RunTyped, Added
<1>8. /\ bridge'.usage = bridge.usage \cup {u}
      /\ bridge'.complete = bridge.complete /\ bridge'.len = bridge.len
      /\ bridge'.asst = bridge.asst /\ bridge'.tool = bridge.tool
      /\ bridge'.image = bridge.image /\ bridge'.suspend = bridge.suspend
      /\ bridge'.answer = bridge.answer
  <2> HIDE DEF u
  <2> QED
    BY <1>5 DEF RunTyped, Bridges
<1> QED
  BY <1>1, <1>3, <1>6, <1>7, <1>8

\* A call of the model, and one that fails, leave the run well typed.
LEMMA CallTyped == ASSUME RunTyped, CallLLM PROVE RunTyped'
<1>1. PICK exact \in BOOLEAN :
              /\ bridge' \in Bridges
              /\ bridge'.complete = bridge.complete /\ bridge'.len = bridge.len
              /\ bridge'.image = bridge.image /\ bridge'.suspend = bridge.suspend
              /\ ledger' \in [0..MaxIterations - 1 -> Nat]
  BY CallFields
<1>2. RunTypeOK'
  BY <1>1 DEF RunTyped, RunTypeOK, CallLLM, Writing
<1> QED
  BY <1>1, <1>2 DEF RunTyped, CallLLM

LEMMA FailsTyped == ASSUME RunTyped, LLMFails PROVE RunTyped' /\ SameBooks(bridge', bridge)
<1>1. /\ bridge' \in Bridges /\ SameBooks(bridge', bridge) /\ bridge'.suspend = bridge.suspend
      /\ bridge'.complete \in {bridge.complete, Len(msgs)}
  BY TypedFacts, CompleteFields DEF LLMFails, SameBooks
<1>2. /\ bridge'.len <= bridge'.complete /\ bridge'.complete <= Len(msgs)
  BY <1>1, TypedFacts DEF RunTyped, RunTypeOK, SameBooks, Bridges
<1>3. pc' = "ended"
  BY DEF LLMFails, Stops
<1>4. RunTypeOK'
  BY <1>1, <1>2, <1>3 DEF RunTyped, RunTypeOK, LLMFails, Writing, SameBooks
<1> QED
  BY <1>1, <1>3, <1>4 DEF RunTyped, LLMFails

\* The engine's context grows by a message and keeps the others.
LEMMA Appending ==
    ASSUME RunTyped, NEW m \in Spoken, msgs' = Append(msgs, m)
    PROVE  /\ msgs' \in Seq(Spoken) /\ Len(msgs') = Len(msgs) + 1 /\ DOMAIN msgs' = 1..Len(msgs) + 1
           /\ DOMAIN msgs \subseteq DOMAIN msgs'
           /\ \A i \in 1..Len(msgs) : msgs'[i] = msgs[i]
           /\ msgs'[Len(msgs) + 1] = m
  BY TypedFacts, Appended

\* After the model's answer the run ends for a reason a record shows, or tools are called.
LEMMA SpeakFields ==
    ASSUME RunTyped, AfterLLM
    PROVE  /\ coord' \in Coords /\ SameRecords(coord', coord) /\ coord'.dup = coord.dup
           /\ bridge' \in Bridges /\ SameBooks(bridge', bridge) /\ bridge'.suspend = bridge.suspend
           /\ bridge'.complete \in {bridge.complete, Len(msgs')}
           /\ Assistant \in Spoken
           /\ msgs' \in {msgs, Append(msgs, Assistant)}
           /\ pc = "after" /\ pc' \in {"ended", "tools"} /\ left' \in 0..MaxCalls
           /\ pc' = "tools" => msgs' = Append(msgs, Assistant)
           /\ pc' = "ended" => \/ how' = "hook_abort" /\ coord'.abort
                               \/ how' = "hook_error" /\ coord'.error
                               \/ how' = "finished" /\ bridge'.answer
<1>0. Assistant \in Spoken
  BY EngineAssumption DEF Assistant, Spoken, RunTyped, RunTypeOK, AfterLLM
<1>1. Snapshot(coord) \in Coords /\ SameRecords(Snapshot(coord), coord) /\ Snapshot(coord).dup = coord.dup
  BY TypedFacts, SnapshotFields
<1>2. ASSUME NEW c \in Coords, NEW d,
             d = [c EXCEPT !.abort = TRUE] \/ d = [c EXCEPT !.error = TRUE]
      PROVE  d \in Coords /\ SameRecords(d, c) /\ d.dup = c.dup
  BY <1>2 DEF Coords, SameRecords
<1>12. ASSUME NEW c \in Coords, NEW d, d = [c EXCEPT !.abort = TRUE] PROVE d.abort
  BY <1>12 DEF Coords
<1>13. ASSUME NEW c \in Coords, NEW d, d = [c EXCEPT !.error = TRUE] PROVE d.error
  BY <1>13 DEF Coords
<1>3. ASSUME NEW n \in Nat, NEW d,
             d = [bridge EXCEPT !.complete = n] \/ d = [bridge EXCEPT !.complete = n, !.answer = TRUE]
      PROVE  /\ d \in Bridges /\ SameBooks(d, bridge) /\ d.complete = n
             /\ d.suspend = bridge.suspend
  BY <1>3, TypedFacts DEF Bridges, SameBooks
<1>14. ASSUME NEW n \in Nat, NEW d, d = [bridge EXCEPT !.complete = n, !.answer = TRUE]
      PROVE  d.answer
  BY <1>14, TypedFacts DEF Bridges
<1>4. msgs' \in {msgs, Append(msgs, Assistant)}
  BY DEF AfterLLM, Unused
<1>5. Len(msgs') \in Nat
  BY <1>0, <1>4, TypedFacts, Appended
<1>6. left \in 0..MaxCalls
  BY DEF RunTyped, RunTypeOK
<1>7. SameBooks(bridge, bridge) /\ pc = "after"
  BY DEF SameBooks, AfterLLM
<1>8. CASE coord' = [Snapshot(coord) EXCEPT !.abort = TRUE] /\ Stops("hook_abort") /\ Unused
  <2>4. coord' \in Coords /\ SameRecords(coord', Snapshot(coord)) /\ coord'.dup = Snapshot(coord).dup
    BY <1>1, <1>2, <1>8
  <2>5. coord'.abort
    BY <1>1, <1>12, <1>8
  <2>1. coord' \in Coords /\ coord'.abort /\ SameRecords(coord', coord) /\ coord'.dup = coord.dup
    BY <1>1, <2>4, <2>5 DEF SameRecords
  <2>2. /\ bridge' \in Bridges /\ SameBooks(bridge', bridge) /\ bridge'.suspend = bridge.suspend
        /\ bridge'.complete \in {bridge.complete, Len(msgs')}
    BY <1>3, <1>5, <1>7, <1>8, TypedFacts DEF Unused
  <2>3. left' \in 0..MaxCalls /\ pc' = "ended" /\ how' = "hook_abort"
    BY <1>6, <1>8 DEF Unused, Stops
  <2> QED
    BY <1>0, <1>4, <1>7, <2>1, <2>2, <2>3
<1>9. CASE coord' = [Snapshot(coord) EXCEPT !.error = TRUE] /\ Stops("hook_error") /\ Unused
  <2>4. coord' \in Coords /\ SameRecords(coord', Snapshot(coord)) /\ coord'.dup = Snapshot(coord).dup
    BY <1>1, <1>2, <1>9
  <2>5. coord'.error
    BY <1>1, <1>13, <1>9
  <2>1. coord' \in Coords /\ coord'.error /\ SameRecords(coord', coord) /\ coord'.dup = coord.dup
    BY <1>1, <2>4, <2>5 DEF SameRecords
  <2>2. /\ bridge' \in Bridges /\ SameBooks(bridge', bridge) /\ bridge'.suspend = bridge.suspend
        /\ bridge'.complete \in {bridge.complete, Len(msgs')}
    BY <1>3, <1>5, <1>7, <1>9, TypedFacts DEF Unused
  <2>3. left' \in 0..MaxCalls /\ pc' = "ended" /\ how' = "hook_error"
    BY <1>6, <1>9 DEF Unused, Stops
  <2> QED
    BY <1>0, <1>4, <1>7, <2>1, <2>2, <2>3
<1>10. CASE /\ coord' = Snapshot(coord) /\ msgs' = Append(msgs, Assistant)
            /\ bridge' = [bridge EXCEPT !.complete = Len(msgs'), !.answer = TRUE]
            /\ Stops("finished") /\ UNCHANGED left
  <2>1. /\ bridge' \in Bridges /\ SameBooks(bridge', bridge) /\ bridge'.suspend = bridge.suspend
        /\ bridge'.complete \in {bridge.complete, Len(msgs')} /\ bridge'.answer
    BY <1>3, <1>5, <1>10, <1>14
  <2> QED
    BY <1>0, <1>1, <1>4, <1>6, <1>7, <1>10, <2>1 DEF Stops
<1>11. CASE /\ coord' = Snapshot(coord) /\ msgs' = Append(msgs, Assistant)
            /\ left' \in 1..MaxCalls /\ pc' = "tools" /\ UNCHANGED <<bridge, how>>
  <2>1. left' \in 0..MaxCalls
    BY <1>11
  <2> QED
    BY <1>0, <1>1, <1>4, <1>7, <1>11, <2>1, TypedFacts
<1> QED
  BY <1>8, <1>9, <1>10, <1>11 DEF AfterLLM

\* The model's answer leaves the run well typed.
LEMMA SpeakTyped == ASSUME RunTyped, AfterLLM PROVE RunTyped'
<1>1. /\ coord' \in Coords /\ SameRecords(coord', coord)
      /\ bridge' \in Bridges /\ SameBooks(bridge', bridge) /\ bridge'.suspend = bridge.suspend
      /\ bridge'.complete \in {bridge.complete, Len(msgs')}
      /\ msgs' \in {msgs, Append(msgs, Assistant)}
      /\ pc' \in {"ended", "tools"} /\ left' \in 0..MaxCalls /\ Assistant \in Spoken
  BY SpeakFields
<1>2. /\ msgs' \in Seq(Spoken) /\ Len(msgs') \in Nat /\ Len(msgs) <= Len(msgs')
      /\ DOMAIN msgs \subseteq DOMAIN msgs'
  <2>1. CASE msgs' = msgs
    BY <2>1, TypedFacts
  <2>2. CASE msgs' = Append(msgs, Assistant)
    BY <1>1, <2>2, TypedFacts, Appending
  <2> QED
    BY <1>1, <2>1, <2>2
<1>3. bridge'.len <= bridge'.complete /\ bridge'.complete <= Len(msgs') /\ bridge'.image \in 0..Len(msgs')
  <2>1. /\ bridge.len <= bridge.complete /\ bridge.complete <= Len(msgs)
        /\ bridge.image \in 0..Len(msgs) /\ bridge.len \in Nat /\ bridge.complete \in Nat
    BY DEF RunTyped, RunTypeOK, Bridges
  <2>2. bridge'.len = bridge.len /\ bridge'.image = bridge.image
    BY <1>1 DEF SameBooks
  <2>3. bridge'.complete = bridge.complete \/ bridge'.complete = Len(msgs')
    BY <1>1
  <2> QED
    BY <1>2, <2>1, <2>2, <2>3, TypedFacts
<1>4. /\ coord'.seq \in 0..Len(msgs')
      /\ \A e \in coord'.images : e.at \in DOMAIN msgs' /\ e.seq < coord'.seq
  BY <1>1, <1>2, TypedFacts DEF RunTyped, RunTypeOK, SameRecords
<1>5. \A k \in DOMAIN log : log[k].at \in DOMAIN msgs'
  BY <1>2 DEF RunTyped, RunTypeOK
<1>6. at' = 0 /\ ~Writing' /\ iter < MaxIterations
  <2>1. pc = "after" /\ at' = at
    BY DEF AfterLLM
  <2>2. at = 0 /\ iter < MaxIterations
    BY <2>1 DEF RunTyped, RunTypeOK, Writing
  <2> QED
    BY <1>1, <2>1, <2>2 DEF Writing
<1>7. coord'.results \subseteq Errors \cup {"ok"}
  BY <1>1 DEF Coords
<1>8. RunTypeOK'
  BY <1>1, <1>2, <1>3, <1>4, <1>5, <1>6, <1>7 DEF RunTyped, RunTypeOK, AfterLLM, Spoken
<1> QED
  BY <1>1, <1>6, <1>8 DEF RunTyped, AfterLLM

-----------------------------------------------------------------------------
\* The answers of the tools.

\* An answered tool call leaves a record with the next number, or none at all.
Answering(image) ==
    \/ coord' = coord /\ astray'
    \/ /\ coord'.seq = coord.seq + 1 /\ astray' = astray
       /\ coord'.images = IF image THEN coord.images \cup {[seq |-> coord.seq, at |-> Len(msgs) + 1]}
                          ELSE coord.images

\* What a record of a result adds, field by field.
LEMMA RecordedFields ==
    ASSUME NEW c \in Coords, NEW result \in Errors \cup {"ok"}, NEW image \in BOOLEAN,
           Len(msgs) \in Nat
    PROVE  LET d == Recorded(c, result, image)
           IN  /\ d \in Coords /\ d.seq = c.seq + 1 /\ d.dup = c.dup /\ d.abort = c.abort
               /\ d.error = c.error
               /\ d.images = IF image THEN c.images \cup {[seq |-> c.seq, at |-> Len(msgs) + 1]}
                             ELSE c.images
<1> DEFINE d == Recorded(c, result, image)
<1> DEFINE images == IF image THEN c.images \cup {[seq |-> c.seq, at |-> Len(msgs) + 1]} ELSE c.images
<1>1. images \in SUBSET [seq: Nat, at: Nat] /\ c.results \cup {result} \in SUBSET (Errors \cup {"ok"})
      /\ c.seq + 1 \in Nat
  BY DEF Coords
<1>2. d = [c EXCEPT !.images = images, !.seq = c.seq + 1, !.results = c.results \cup {result}]
  BY DEF Recorded
<1> HIDE DEF images, d
<1>3. d \in Coords /\ d.seq = c.seq + 1 /\ d.dup = c.dup /\ d.images = images /\ d.abort = c.abort
      /\ d.error = c.error
  BY <1>1, <1>2 DEF Coords
<1> QED
  BY <1>3 DEF images, d

\* What the count of repeated errors becomes.
LEMMA StreakFields ==
    ASSUME coord \in Coords, NEW result \in ToolResults
    PROVE  /\ Streak(coord.dup, result) \in [last: {"none", "plain", "fatal"}, count: Nat, guided: BOOLEAN]
           /\ [coord EXCEPT !.dup = Streak(@, result)] \in Coords
           /\ [coord EXCEPT !.dup = Streak(@, result)].seq = coord.seq
           /\ [coord EXCEPT !.dup = Streak(@, result)].images = coord.images
           /\ [coord EXCEPT !.dup = Streak(@, result)].abort = coord.abort
           /\ [coord EXCEPT !.dup = Streak(@, result)].error = coord.error
           /\ [coord EXCEPT !.dup = Streak(@, result)].dup = Streak(coord.dup, result)
<1>1. Streak(coord.dup, result) \in [last: {"none", "plain", "fatal"}, count: Nat, guided: BOOLEAN]
  BY DEF Streak, Plain, Again, NoStreak, Coords
<1> DEFINE streak == Streak(coord.dup, result)
<1>2. ASSUME NEW d, d = [coord EXCEPT !.dup = streak]
      PROVE  /\ d \in Coords /\ d.seq = coord.seq /\ d.images = coord.images /\ d.abort = coord.abort
             /\ d.error = coord.error /\ d.dup = streak
  <2> HIDE DEF streak
  <2> QED
    BY <1>1, <1>2 DEF Coords, streak
<1> QED
  BY <1>1, <1>2

\* An answered tool call: the record, the advice, and the message for the engine.
LEMMA AnswerFields ==
    ASSUME RunTyped, RefuseCall \/ HookAnswers \/ RunTool
    PROVE  /\ coord' \in Coords /\ coord'.abort = coord.abort /\ coord'.error = coord.error
           /\ \E image \in BOOLEAN : Answering(image)
           /\ \/ coord'.dup = coord.dup /\ advised' = advised
              \/ \E result \in ToolResults : /\ coord'.dup = Streak(coord.dup, result)
                                             /\ advised' = Advised(coord.dup, result)
           /\ pc = "tools" /\ UNCHANGED <<pc, child, runs, iter, bridge, at, held, log, ledger,
                                          how, reason, broken>>
           /\ Tool \in Spoken /\ msgs' = Append(msgs, Tool) /\ left' \in 0..MaxCalls
<1>1. /\ pc = "tools" /\ UNCHANGED <<pc, child, runs, iter, bridge, at, held, log, ledger, how,
                                     reason, broken>>
      /\ msgs' = Append(msgs, Tool)
  BY DEF RefuseCall, HookAnswers, RunTool, ResultGiven
<1>2. left' \in 0..MaxCalls
  <2>1. left > 0 /\ left' = left - 1
    BY DEF RefuseCall, HookAnswers, RunTool, ResultGiven
  <2>2. left \in 0..MaxCalls /\ MaxCalls \in Nat
    BY EngineAssumption DEF RunTyped, RunTypeOK
  <2> QED
    BY <2>1, <2>2
<1>3. Tool \in Spoken
  BY <1>1, EngineAssumption DEF RunTyped, RunTypeOK, Spoken, Tool
<1>4. CASE RefuseCall
  BY <1>1, <1>2, <1>3, <1>4, TypedFacts DEF RefuseCall, Answering
<1>5. CASE HookAnswers
  <2>1. PICK result \in {"ok", "plain", "fatal"} : coord' = Recorded(coord, result, FALSE)
    BY <1>5 DEF HookAnswers
  <2> DEFINE d == coord'
  <2>5. /\ coord \in Coords /\ result \in Errors \cup {"ok"} /\ FALSE \in BOOLEAN
        /\ Len(msgs) \in Nat /\ d = Recorded(coord, result, FALSE)
    BY <2>1, TypedFacts DEF Errors
  <2> HIDE DEF d
  <2>6. /\ d \in Coords /\ d.seq = coord.seq + 1 /\ d.dup = coord.dup /\ d.abort = coord.abort
        /\ d.error = coord.error
        /\ d.images = IF FALSE THEN coord.images \cup {[seq |-> coord.seq, at |-> Len(msgs) + 1]}
                      ELSE coord.images
    BY <2>5, RecordedFields
  <2>2. /\ coord' \in Coords /\ coord'.seq = coord.seq + 1 /\ coord'.dup = coord.dup
        /\ coord'.abort = coord.abort /\ coord'.error = coord.error /\ coord'.images = coord.images
    BY <2>6 DEF d
  <2>3. Answering(FALSE)
    BY <1>5, <2>2 DEF HookAnswers, Answering
  <2>4. advised' = advised
    BY <1>5 DEF HookAnswers
  <2> QED
    BY <1>1, <1>2, <1>3, <2>2, <2>3, <2>4
<1>6. CASE RunTool
  <2>1. PICK result \in ToolResults, image \in BOOLEAN :
           /\ coord' = Recorded([coord EXCEPT !.dup = Streak(@, result)], result, image)
           /\ advised' = Advised(coord.dup, result)
    BY <1>6 DEF RunTool
  <2> DEFINE streaked == [coord EXCEPT !.dup = Streak(@, result)]
  <2>2. /\ streaked \in Coords /\ streaked.seq = coord.seq /\ streaked.images = coord.images
        /\ streaked.abort = coord.abort /\ streaked.error = coord.error
        /\ streaked.dup = Streak(coord.dup, result)
    BY TypedFacts, StreakFields
  <2> DEFINE d == coord'
  <2>5. /\ result \in Errors \cup {"ok"} /\ d = Recorded(streaked, result, image) /\ Len(msgs) \in Nat
    BY <2>1, TypedFacts DEF ToolResults
  <2> HIDE DEF streaked, d
  <2>6. /\ d \in Coords /\ d.seq = streaked.seq + 1 /\ d.dup = streaked.dup
        /\ d.abort = streaked.abort /\ d.error = streaked.error
        /\ d.images = IF image THEN streaked.images \cup {[seq |-> streaked.seq, at |-> Len(msgs) + 1]}
                      ELSE streaked.images
    BY <2>2, <2>5, RecordedFields
  <2>3. /\ coord' \in Coords /\ coord'.seq = streaked.seq + 1 /\ coord'.dup = streaked.dup
        /\ coord'.abort = streaked.abort /\ coord'.error = streaked.error
        /\ coord'.images = IF image THEN streaked.images \cup {[seq |-> streaked.seq, at |-> Len(msgs) + 1]}
                           ELSE streaked.images
    BY <2>6 DEF d
  <2>4. Answering(image)
    BY <1>6, <2>2, <2>3 DEF RunTool, Answering
  <2> QED
    BY <1>1, <1>2, <1>3, <2>1, <2>2, <2>3, <2>4
<1> QED
  BY <1>4, <1>5, <1>6

\* An answered tool call leaves the run well typed.
LEMMA AnswerTyped == ASSUME RunTyped, RefuseCall \/ HookAnswers \/ RunTool PROVE RunTyped'
<1>1. /\ coord' \in Coords /\ pc = "tools" /\ left' \in 0..MaxCalls /\ Tool \in Spoken
      /\ UNCHANGED <<pc, child, runs, iter, bridge, at, held, log, ledger, how, reason, broken>>
      /\ msgs' = Append(msgs, Tool)
  BY AnswerFields
<1>2. PICK image \in BOOLEAN : Answering(image)
  BY AnswerFields
<1>3. /\ msgs' \in Seq(Spoken) /\ Len(msgs') = Len(msgs) + 1 /\ Len(msgs) \in Nat
      /\ DOMAIN msgs' = 1..Len(msgs) + 1 /\ DOMAIN msgs = 1..Len(msgs)
  BY <1>1, Appending, TypedFacts
<1>4. /\ coord'.seq \in 0..Len(msgs')
      /\ \A e \in coord'.images : e.at \in DOMAIN msgs' /\ e.seq < coord'.seq
  <2>1. /\ coord.seq \in 0..Len(msgs)
        /\ \A e \in coord.images : e.at \in 1..Len(msgs) /\ e.seq < coord.seq /\ e.seq \in Nat
    BY TypedFacts DEF RunTyped, RunTypeOK, Coords
  <2>2. CASE coord' = coord
    BY <1>3, <2>1, <2>2
  <2>3. CASE /\ coord'.seq = coord.seq + 1
             /\ coord'.images \subseteq coord.images \cup {[seq |-> coord.seq, at |-> Len(msgs) + 1]}
    BY <1>3, <2>1, <2>3
  <2> QED
    BY <1>2, <2>2, <2>3 DEF Answering
<1>5. advised' \in Nat /\ astray' \in BOOLEAN
  <2>1. advised' \in Nat
    BY AnswerFields DEF RunTyped, Advised
  <2> QED
    BY <1>2, <2>1 DEF RunTyped, RunTypeOK, RefuseCall, HookAnswers, RunTool
<1>6. /\ bridge.complete <= Len(msgs') /\ bridge.image \in 0..Len(msgs')
      /\ \A k \in DOMAIN log : log[k].at \in DOMAIN msgs'
  BY <1>3 DEF RunTyped, RunTypeOK, Bridges
<1>7. coord'.results \subseteq Errors \cup {"ok"}
  BY <1>1 DEF Coords
<1>8. RunTypeOK'
  BY <1>1, <1>3, <1>4, <1>5, <1>6, <1>7 DEF RunTyped, RunTypeOK, Writing, Spoken
<1> QED
  BY <1>1, <1>5, <1>8 DEF RunTyped

\* A suspension is noted with the bridge, which keeps its books.
LEMMA SuspendFields ==
    ASSUME RunTyped, NEW kind \in {"permission", "ask_user"}, Suspend(kind)
    PROVE  /\ bridge' \in Bridges /\ SameBooks(bridge', bridge) /\ bridge'.complete = Len(msgs)
           /\ bridge'.suspend = kind /\ bridge'.answer = bridge.answer /\ pc = "tools"
           /\ pc' = "ended" /\ how' = "suspended"
<1>1. Complete(bridge) \in Bridges /\ SameBooks(Complete(bridge), bridge)
      /\ Complete(bridge).complete = Len(msgs) /\ Complete(bridge).answer = bridge.answer
  BY TypedFacts, CompleteFields
<1>2. bridge' = [Complete(bridge) EXCEPT !.suspend = kind]
  BY DEF Suspend
<1>3. /\ bridge' \in Bridges /\ SameBooks(bridge', Complete(bridge)) /\ bridge'.suspend = kind
      /\ bridge'.complete = Complete(bridge).complete /\ bridge'.answer = Complete(bridge).answer
  BY <1>1, <1>2 DEF Bridges, SameBooks
<1> QED
  BY <1>1, <1>3 DEF Suspend, Stops, SameBooks

\* So do a suspension,
LEMMA SuspendTyped ==
    ASSUME RunTyped, NEW kind \in {"permission", "ask_user"}, Suspend(kind) PROVE RunTyped'
<1>1. /\ bridge' \in Bridges /\ SameBooks(bridge', bridge) /\ bridge'.complete = Len(msgs)
      /\ bridge'.suspend = kind /\ pc = "tools" /\ pc' = "ended"
  BY SuspendFields
<1>2. bridge'.len <= bridge'.complete /\ bridge'.image \in 0..Len(msgs)
  BY <1>1, TypedFacts DEF RunTyped, RunTypeOK, SameBooks, Bridges
<1>3. at' = 0 /\ ~Writing' /\ held' \in {"none", "permission", "ask_user"}
  BY <1>1 DEF RunTyped, RunTypeOK, Suspend, Writing
<1>4. RunTypeOK'
  BY <1>1, <1>2, <1>3, TypedFacts DEF RunTyped, RunTypeOK, Suspend
<1> QED
  BY <1>1, <1>4 DEF RunTyped, Suspend

\* the end of a round,
LEMMA RoundTyped ==
    ASSUME RunTyped, Round
    PROVE  RunTyped' /\ SameBooks(bridge', bridge) /\ Mark' = Mark /\ bridge'.complete = Len(msgs)
<1>1. /\ bridge' \in Bridges /\ SameBooks(bridge', bridge) /\ bridge'.complete = Len(msgs)
      /\ bridge'.suspend = bridge.suspend
  BY TypedFacts, CompleteFields DEF Round
<1>2. /\ bridge'.len <= bridge'.complete /\ bridge'.image \in 0..Len(msgs) /\ bridge'.len = bridge.len
      /\ bridge.len \in Nat
  BY <1>1, TypedFacts DEF RunTyped, RunTypeOK, SameBooks, Bridges
<1>3. at' = bridge.len /\ Writing' /\ ~Writing
  BY DEF Round, Writing
<1>4. RunTypeOK'
  BY <1>1, <1>2, <1>3, TypedFacts DEF RunTyped, RunTypeOK, Round
<1> QED
  BY <1>1, <1>2, <1>3, <1>4 DEF RunTyped, Round, Mark

\* and the return of the engine.
LEMMA LastTyped ==
    ASSUME RunTyped, LastWrite PROVE RunTyped' /\ Mark' = Mark
<1>1. at' = bridge.len /\ Writing' /\ ~Writing /\ pc' = "last" /\ bridge' = bridge
  BY DEF LastWrite, Writing
<1>2. bridge.len \in Nat /\ bridge.complete \in Nat /\ bridge.len <= bridge.complete
  BY TypedFacts DEF RunTyped, RunTypeOK, Bridges
<1>3. RunTypeOK'
  BY <1>1, <1>2 DEF RunTyped, RunTypeOK, LastWrite
<1> QED
  BY <1>1, <1>3 DEF RunTyped, LastWrite, Mark

-----------------------------------------------------------------------------
\* The steps of a write-back.

\* The image a message takes stands in the engine's context.
LEMMA ImageFields ==
    ASSUME RunTyped, NEW i \in 1..Len(msgs)
    PROVE  /\ OwnImage(i) \subseteq 1..Len(msgs) /\ ImageOf(i) \in 0..Len(msgs) /\ ImageOf(i) \in Nat
           /\ OwnImage(i) # {} => ImageOf(i) \in OwnImage(i)
           /\ OwnImage(i) = {} => ImageOf(i) = bridge.image
           /\ msgs[i].role # "tool" => OwnImage(i) = {}
<1>1. OwnImage(i) \subseteq 1..Len(msgs)
  BY TypedFacts DEF OwnImage, RunTyped, RunTypeOK
<1>2. OwnImage(i) # {} => ImageOf(i) \in OwnImage(i)
  BY DEF ImageOf
<1>3. OwnImage(i) = {} => ImageOf(i) = bridge.image
  BY DEF ImageOf
<1>4. bridge.image \in 0..Len(msgs)
  BY DEF RunTyped, RunTypeOK
<1>5. msgs[i].role # "tool" => OwnImage(i) = {}
  BY DEF OwnImage
<1> QED
  BY <1>1, <1>2, <1>3, <1>4, <1>5, TypedFacts

\* What a write-back leaves of the bridge.
SameCourse(b, c) ==
    b.complete = c.complete /\ b.len = c.len /\ b.suspend = c.suspend /\ b.answer = c.answer

\* What the bridge is after it met a message.
LEMMA MetFields ==
    ASSUME RunTyped, NEW i \in 1..Len(msgs)
    PROVE  /\ Met(i) \in Bridges /\ SameCourse(Met(i), bridge)
           /\ Met(i).asst = bridge.asst + (IF msgs[i].role = "assistant" THEN 1 ELSE 0)
           /\ Met(i).tool = bridge.tool + (IF msgs[i].role = "tool" THEN 1 ELSE 0)
           /\ Met(i).usage = bridge.usage \ Booking(i)
           /\ Met(i).image = ImageOf(i)
           /\ Booking(i) \subseteq bridge.usage
<1> DEFINE asst  == bridge.asst + (IF msgs[i].role = "assistant" THEN 1 ELSE 0)
           tool  == bridge.tool + (IF msgs[i].role = "tool" THEN 1 ELSE 0)
           usage == bridge.usage \ Booking(i)
           image == ImageOf(i)
<1>1. Met(i) = [bridge EXCEPT !.asst = asst, !.tool = tool, !.usage = usage, !.image = image]
  BY DEF Met
<1>2. asst \in Nat /\ tool \in Nat /\ usage \in SUBSET Bookings /\ image \in Nat /\ bridge \in Bridges
  BY ImageFields, TypedFacts DEF Bridges
<1>3. Booking(i) \subseteq bridge.usage
  BY DEF Booking
<1> HIDE DEF asst, tool, usage, image
<1>4. /\ Met(i) \in Bridges /\ SameCourse(Met(i), bridge)
      /\ Met(i).asst = asst /\ Met(i).tool = tool /\ Met(i).usage = usage /\ Met(i).image = image
  BY <1>1, <1>2 DEF Bridges, SameCourse
<1> QED
  BY <1>3, <1>4 DEF asst, tool, usage, image

\* A message written with its image; and one whose Append, or its image's, failed.
Stored(i) ==
    log' = log \o (IF WithImage(i) THEN <<Message(i), Image(ImageOf(i))>> ELSE <<Message(i)>>)

WrittenWell(i) ==
    /\ bridge'.image = IF WithImage(i) THEN 0 ELSE ImageOf(i)
    /\ Stored(i) /\ at' = i /\ UNCHANGED <<pc, iter, broken>>

WrittenIll(i) ==
    /\ bridge'.image = ImageOf(i)
    /\ log' = log \/ (WithImage(i) /\ log' = Append(log, Message(i)))
    /\ broken' /\ GoesOn

\* A step of a write-back, field by field.
LEMMA WriteFields ==
    ASSUME RunTyped, WriteMessage
    PROVE  LET i == at + 1
           IN  /\ Writing /\ at \in Nat /\ at < bridge.complete /\ i \in 1..Len(msgs)
               /\ bridge' \in Bridges /\ SameCourse(bridge', bridge)
               /\ bridge'.asst = bridge.asst + (IF msgs[i].role = "assistant" THEN 1 ELSE 0)
               /\ bridge'.tool = bridge.tool + (IF msgs[i].role = "tool" THEN 1 ELSE 0)
               /\ bridge'.usage = bridge.usage \ Booking(i)
               /\ WrittenWell(i) \/ WrittenIll(i)
               /\ ledger' = Estimated(i)
               /\ UNCHANGED <<child, runs, left, msgs, coord, held, how, reason, astray, advised>>
<1> DEFINE i == at + 1
<1>1. Writing /\ at < bridge.complete /\ ledger' = Estimated(i)
      /\ UNCHANGED <<child, runs, left, msgs, coord, held, how, reason, astray, advised>>
  BY DEF WriteMessage
<1>2. at \in Nat /\ i \in 1..Len(msgs)
  <2>1. at \in bridge.len..bridge.complete /\ bridge.complete <= Len(msgs)
    BY <1>1 DEF RunTyped, RunTypeOK
  <2>2. bridge.len \in Nat /\ bridge.complete \in Nat /\ Len(msgs) \in Nat
    BY TypedFacts DEF Bridges
  <2> QED
    BY <1>1, <2>1, <2>2
<1> HIDE DEF i
<1>3. /\ Met(i) \in Bridges /\ SameCourse(Met(i), bridge)
      /\ Met(i).asst = bridge.asst + (IF msgs[i].role = "assistant" THEN 1 ELSE 0)
      /\ Met(i).tool = bridge.tool + (IF msgs[i].role = "tool" THEN 1 ELSE 0)
      /\ Met(i).usage = bridge.usage \ Booking(i)
      /\ Met(i).image = ImageOf(i)
  BY <1>2, MetFields
<1>4. \/ bridge' = [Met(i) EXCEPT !.image = IF WithImage(i) THEN 0 ELSE @] /\ Stored(i) /\ at' = i
         /\ UNCHANGED <<pc, iter, broken>>
      \/ /\ bridge' = Met(i) /\ broken' /\ GoesOn
         /\ log' = log \/ (WithImage(i) /\ log' = Append(log, Message(i)))
  <2>1. \/ /\ bridge' = [Met(i) EXCEPT !.image = IF WithImage(i) THEN 0 ELSE @]
           /\ log' = log \o (IF WithImage(i) THEN <<Message(i), Image(ImageOf(i))>>
                             ELSE <<Message(i)>>)
           /\ at' = i
           /\ UNCHANGED <<pc, iter, broken>>
        \/ /\ bridge' = Met(i)
           /\ log' \in {log} \cup (IF WithImage(i) THEN {Append(log, Message(i))} ELSE {})
           /\ broken' = TRUE
           /\ GoesOn
    BY Zenon DEF WriteMessage, i
  <2>2. CASE log' \in {log} \cup (IF WithImage(i) THEN {Append(log, Message(i))} ELSE {})
    <3>1. log' = log \/ (WithImage(i) /\ log' = Append(log, Message(i)))
      BY <2>2
    <3>2. CASE bridge' = Met(i) /\ broken' = TRUE /\ GoesOn
      BY <3>1, <3>2
    <3>3. CASE /\ bridge' = [Met(i) EXCEPT !.image = IF WithImage(i) THEN 0 ELSE @]
               /\ log' = log \o (IF WithImage(i) THEN <<Message(i), Image(ImageOf(i))>>
                                 ELSE <<Message(i)>>)
               /\ at' = i
               /\ UNCHANGED <<pc, iter, broken>>
      BY <3>3, Zenon DEF Stored
    <3> QED
      BY <2>1, <3>2, <3>3, Zenon
  <2>3. CASE log' \notin {log} \cup (IF WithImage(i) THEN {Append(log, Message(i))} ELSE {})
    BY <2>1, <2>3, Zenon DEF Stored
  <2> QED
    BY <2>2, <2>3
<1>5. CASE bridge' = [Met(i) EXCEPT !.image = IF WithImage(i) THEN 0 ELSE @] /\ Stored(i) /\ at' = i
           /\ UNCHANGED <<pc, iter, broken>>
  <2> DEFINE image == IF WithImage(i) THEN 0 ELSE ImageOf(i)
  <2>1. image \in Nat
    BY <1>2, ImageFields
  <2>2. bridge' = [Met(i) EXCEPT !.image = image]
    BY <1>3, <1>5
  <2> HIDE DEF image
  <2>3. /\ bridge' \in Bridges /\ SameCourse(bridge', Met(i)) /\ bridge'.asst = Met(i).asst
        /\ bridge'.tool = Met(i).tool /\ bridge'.usage = Met(i).usage /\ bridge'.image = image
    BY <1>3, <2>1, <2>2 DEF Bridges, SameCourse
  <2>4. SameCourse(bridge', bridge)
    BY <1>3, <2>3 DEF SameCourse
  <2>5. WrittenWell(i)
    BY <1>5, <2>3 DEF WrittenWell, image
  <2> QED
    BY <1>1, <1>2, <1>3, <2>3, <2>4, <2>5 DEF i
<1>6. CASE /\ bridge' = Met(i) /\ broken' /\ GoesOn
           /\ log' = log \/ (WithImage(i) /\ log' = Append(log, Message(i)))
  <2>1. WrittenIll(i)
    BY <1>3, <1>6 DEF WrittenIll
  <2>2. SameCourse(bridge', bridge) /\ bridge' \in Bridges
    BY <1>3, <1>6
  <2> QED
    BY <1>1, <1>2, <1>3, <1>6, <2>1, <2>2 DEF i
<1> QED
  BY <1>4, <1>5, <1>6

\* The entries of the log are well typed.
LEMMA EntryFields ==
    ASSUME RunTyped, NEW i \in 1..Len(msgs)
    PROVE  /\ Message(i) \in LogEntries /\ Image(ImageOf(i)) \in LogEntries
           /\ Message(i).at = i /\ Message(i).what = "message" /\ Message(i).usage = Booking(i)
           /\ Image(ImageOf(i)).at = ImageOf(i) /\ Image(ImageOf(i)).what = "image"
<1>1. Booking(i) \in SUBSET Bookings
  BY TypedFacts DEF Booking, Bridges
<1>2. ImageOf(i) \in Nat /\ i \in Nat
  BY ImageFields, TypedFacts
<1> QED
  BY <1>1, <1>2 DEF Message, Image, LogEntries

\* What the session holds after a step of a write-back.
LEMMA Grown ==
    ASSUME RunTyped, NEW i \in 1..Len(msgs),
           Stored(i) \/ log' = log \/ log' = Append(log, Message(i))
    PROVE  /\ log' \in Seq(LogEntries) /\ Len(log') \in Nat /\ Len(log) <= Len(log')
           /\ DOMAIN log' = 1..Len(log')
           /\ \A k \in 1..Len(log) : log'[k] = log[k]
           /\ \A k \in 1..Len(log') : k > Len(log) =>
                 \/ k = Len(log) + 1 /\ log'[k] = Message(i)
                 \/ k = Len(log) + 2 /\ Stored(i) /\ WithImage(i) /\ log'[k] = Image(ImageOf(i))
           /\ Stored(i) /\ WithImage(i) => Len(log') = Len(log) + 2
           /\ Stored(i) => Len(log') > Len(log)
<1>1. /\ log \in Seq(LogEntries) /\ Len(log) \in Nat /\ Message(i) \in LogEntries
      /\ Image(ImageOf(i)) \in LogEntries
  BY EntryFields, TypedFacts
<1> DEFINE m == Message(i)
           p == Image(ImageOf(i))
<1> HIDE DEF m, p
<1>2. CASE ~Stored(i) /\ log' = log
  BY <1>1, <1>2
<1>3. CASE ~Stored(i) /\ log' = Append(log, m)
  BY <1>1, <1>3 DEF m
<1>4. CASE Stored(i) /\ WithImage(i)
  <2>1. log' = log \o <<m, p>>
    BY <1>4 DEF Stored, m, p
  <2>2. <<m, p>> \in Seq(LogEntries) /\ Len(<<m, p>>) = 2 /\ <<m, p>>[1] = m /\ <<m, p>>[2] = p
    BY <1>1 DEF m, p
  <2>3. /\ log' \in Seq(LogEntries) /\ Len(log') = Len(log) + 2
        /\ \A k \in 1..Len(log) + 2 :
              log'[k] = IF k <= Len(log) THEN log[k] ELSE <<m, p>>[k - Len(log)]
    BY <1>1, <2>1, <2>2, ConcatProperties
  <2>4. log'[Len(log) + 1] = m /\ log'[Len(log) + 2] = p
    BY <1>1, <2>2, <2>3
  <2> QED
    BY <1>1, <1>4, <2>3, <2>4 DEF m, p
<1>5. CASE Stored(i) /\ ~WithImage(i)
  <2>1. log' = log \o <<m>>
    BY <1>5 DEF Stored, m
  <2>2. <<m>> \in Seq(LogEntries) /\ Len(<<m>>) = 1 /\ <<m>>[1] = m
    BY <1>1 DEF m
  <2>3. /\ log' \in Seq(LogEntries) /\ Len(log') = Len(log) + 1
        /\ \A k \in 1..Len(log) + 1 :
              log'[k] = IF k <= Len(log) THEN log[k] ELSE <<m>>[k - Len(log)]
    BY <1>1, <2>1, <2>2, ConcatProperties
  <2>4. log'[Len(log) + 1] = m
    BY <1>1, <2>2, <2>3
  <2> QED
    BY <1>1, <1>5, <2>3, <2>4 DEF m
<1> QED
  BY <1>2, <1>3, <1>4, <1>5 DEF m

\* After a write-back the run goes on with the next iteration or closes.
LEMMA CourseTyped ==
    ASSUME RunTyped, GoesOn, Writing
    PROVE  /\ pc' \in {"before", "closing"} /\ at' = 0 /\ ~Writing'
           /\ iter' \in 0..MaxIterations /\ iter <= iter' /\ iter' <= iter + 1
           /\ pc' = "before" => iter' = iter + 1
<1>1. iter \in 0..MaxIterations /\ (pc = "round" => iter < MaxIterations)
  BY DEF RunTyped, RunTypeOK
<1> QED
  BY <1>1, EngineAssumption DEF GoesOn, Writing

\* The steps of a write-back leave the run well typed.
LEMMA WriteTyped == ASSUME RunTyped, WriteMessage PROVE RunTyped'
<1> DEFINE i == at + 1
<1>1. /\ Writing /\ at \in Nat /\ at < bridge.complete /\ i \in 1..Len(msgs)
      /\ bridge' \in Bridges /\ SameCourse(bridge', bridge)
      /\ WrittenWell(i) \/ WrittenIll(i)
      /\ ledger' = Estimated(i)
      /\ UNCHANGED <<child, runs, left, msgs, coord, held, how, reason, astray, advised>>
  BY WriteFields
<1> HIDE DEF i
<1>2. /\ log' \in Seq(LogEntries)
      /\ \A k \in DOMAIN log' : log'[k].at \in 1..Len(msgs)
  <2>1. Stored(i) \/ log' = log \/ log' = Append(log, Message(i))
    BY <1>1 DEF WrittenWell, WrittenIll
  <2>2. /\ log' \in Seq(LogEntries) /\ Len(log') \in Nat /\ DOMAIN log' = 1..Len(log')
        /\ \A k \in 1..Len(log) : log'[k] = log[k]
        /\ \A k \in 1..Len(log') : k > Len(log) =>
              \/ k = Len(log) + 1 /\ log'[k] = Message(i)
              \/ k = Len(log) + 2 /\ Stored(i) /\ WithImage(i) /\ log'[k] = Image(ImageOf(i))
    BY <1>1, <2>1, Grown
  <2>3. /\ Message(i).at \in 1..Len(msgs)
        /\ WithImage(i) => Image(ImageOf(i)).at \in 1..Len(msgs)
    BY <1>1, EntryFields, ImageFields DEF WithImage
  <2>4. ASSUME NEW k \in DOMAIN log' PROVE log'[k].at \in 1..Len(msgs)
    <3>1. k \in 1..Len(log') /\ k \in Nat
      BY <2>2
    <3>2. CASE k <= Len(log)
      <4>2. k \in 1..Len(log)
        BY <3>1, <3>2, TypedFacts
      <4>1. log[k].at \in 1..Len(msgs)
        BY <4>2, TypedFacts DEF RunTyped, RunTypeOK
      <4> QED
        BY <2>2, <4>1, <4>2
    <3>3. CASE k > Len(log)
      BY <2>2, <2>3, <3>1, <3>3
    <3> QED
      BY <3>1, <3>2, <3>3, TypedFacts
  <2> QED
    BY <2>2, <2>4
<1>3. bridge'.image \in 0..Len(msgs)
  BY <1>1, ImageFields, TypedFacts DEF WrittenWell, WrittenIll
<1>4. /\ bridge'.len = bridge.len /\ bridge'.complete = bridge.complete
      /\ bridge'.suspend = bridge.suspend /\ bridge.len \in Nat /\ bridge.complete \in Nat
  BY <1>1, TypedFacts DEF SameCourse, Bridges
<1>5. ledger' \in [0..MaxIterations - 1 -> Nat]
  BY <1>1 DEF RunTyped, Estimated
<1>6. /\ pc' \in {"before", "round", "last", "closing"} /\ iter' \in 0..MaxIterations
      /\ broken' \in BOOLEAN
      /\ pc' = "round" => iter' < MaxIterations
      /\ IF Writing' THEN at' \in bridge.len..bridge.complete ELSE at' = 0
  <2>1. CASE WrittenWell(i)
    <3>1. at' = i /\ UNCHANGED <<pc, iter, broken>> /\ at \in bridge.len..bridge.complete
      BY <1>1, <2>1 DEF WrittenWell, RunTyped, RunTypeOK
    <3>2. at' \in bridge.len..bridge.complete
      BY <1>1, <1>4, <3>1 DEF i
    <3> QED
      BY <1>1, <3>1, <3>2 DEF RunTyped, RunTypeOK, Writing
  <2>2. CASE WrittenIll(i)
    <3>1. broken' = TRUE
      BY <1>1, <2>2 DEF WriteMessage, RunTyped, RunTypeOK, WrittenIll
    <3> QED
      BY <1>1, <2>2, <3>1, CourseTyped DEF WrittenIll
  <2> QED
    BY <1>1, <2>1, <2>2
<1>7. RunTypeOK'
  BY <1>1, <1>2, <1>3, <1>4, <1>6, TypedFacts DEF RunTyped, RunTypeOK
<1> QED
  BY <1>1, <1>2, <1>5, <1>6, <1>7 DEF RunTyped

\* The end of a write-back changes the mark and nothing else of the books.
LEMMA EndsTyped ==
    ASSUME RunTyped, WriteEnds
    PROVE  /\ RunTyped' /\ Mark' = Mark /\ bridge'.suspend = bridge.suspend
           /\ bridge'.complete = bridge.complete /\ bridge'.answer = bridge.answer
           /\ bridge'.asst = bridge.asst /\ bridge'.tool = bridge.tool
           /\ bridge'.usage = bridge.usage /\ bridge'.image = bridge.image
           /\ Writing /\ GoesOn
<1>1. /\ Writing /\ at = bridge.complete /\ bridge' = [bridge EXCEPT !.len = at] /\ GoesOn
      /\ UNCHANGED <<child, runs, left, msgs, coord, held, log, ledger, how, reason, broken,
                     astray, advised>>
  BY DEF WriteEnds, Marked
<1>2. /\ bridge' \in Bridges /\ bridge'.len = at /\ bridge'.complete = bridge.complete
      /\ bridge'.asst = bridge.asst /\ bridge'.tool = bridge.tool
      /\ bridge'.usage = bridge.usage /\ bridge'.image = bridge.image
      /\ bridge'.suspend = bridge.suspend /\ bridge.complete \in Nat
      /\ bridge'.answer = bridge.answer
  BY <1>1, TypedFacts DEF Bridges
<1>3. /\ pc' \in {"before", "closing"} /\ at' = 0 /\ ~Writing' /\ iter' \in 0..MaxIterations
  BY <1>1, CourseTyped
<1>4. RunTypeOK'
  BY <1>1, <1>2, <1>3 DEF RunTyped, RunTypeOK
<1> QED
  BY <1>1, <1>2, <1>3, <1>4 DEF RunTyped, Mark

\* A resumed run starts with new books.
LEMMA ResumeFields ==
    ASSUME RunTyped, Resume
    PROVE  /\ bridge' \in Bridges /\ bridge'.complete = 0 /\ bridge'.len = 0 /\ bridge'.asst = 0
           /\ bridge'.tool = 0 /\ bridge'.usage = {} /\ bridge'.image = 0
           /\ bridge'.suspend = "none"
           /\ ledger' \in [0..MaxIterations - 1 -> Nat] /\ \A v \in 0..MaxIterations - 1 : ledger'[v] = 0
<1>1. bridge' = BeginRun(ResumePrepare(bridge))
  BY DEF Resume
<1> DEFINE b == ResumePrepare(bridge)
<1>2. b \in Bridges /\ b.suspend = "none"
  BY TypedFacts DEF ResumePrepare, Bridges
<1> HIDE DEF b
<1>3. bridge' = [b EXCEPT !.complete = 0, !.len = 0, !.asst = 0, !.tool = 0, !.usage = {}, !.image = 0]
  BY <1>1 DEF BeginRun, b
<1>4. DOMAIN ledger = 0..MaxIterations - 1
  BY DEF RunTyped
<1>5. /\ ledger' \in [0..MaxIterations - 1 -> Nat] /\ \A v \in 0..MaxIterations - 1 : ledger'[v] = 0
  BY <1>4 DEF Resume
<1>6. /\ bridge' \in Bridges /\ bridge'.complete = 0 /\ bridge'.len = 0 /\ bridge'.asst = 0
      /\ bridge'.tool = 0 /\ bridge'.usage = {} /\ bridge'.image = 0 /\ bridge'.suspend = b.suspend
  BY <1>2, <1>3 DEF Bridges
<1> QED
  BY <1>2, <1>5, <1>6

\* So do a resumption and the end of the run.
LEMMA ResumeTyped == ASSUME RunTyped, Resume PROVE RunTyped'
<1>1. /\ bridge' \in Bridges /\ bridge'.complete = 0 /\ bridge'.len = 0 /\ bridge'.image = 0
      /\ bridge'.suspend = "none" /\ ledger' \in [0..MaxIterations - 1 -> Nat]
  BY ResumeFields
<1>2. /\ msgs' = <<>> /\ log' = <<>> /\ pc' = "before" /\ iter' = 0 /\ left' = 0 /\ at' = 0
      /\ coord' = NewCoord /\ held' = "none" /\ broken' = FALSE /\ astray' = FALSE /\ advised' = 0
      /\ runs' = runs + 1 /\ runs <= MaxResumes /\ child' = child
  BY DEF Resume
<1>3. runs' \in 1..MaxResumes + 1 /\ child' \in BOOLEAN
  BY <1>2, EngineAssumption DEF RunTyped, RunTypeOK
<1>4. /\ msgs' \in Seq([role: {"assistant", "tool"}, of: 0..MaxIterations - 1]) /\ Len(msgs') = 0
      /\ log' \in Seq(LogEntries) /\ DOMAIN log' = {}
  BY <1>2
<1>5. coord'.seq \in 0..Len(msgs') /\ coord'.results = {} /\ coord'.images = {} /\ coord' \in Coords
  BY <1>2, <1>4, NewCoordFields
<1>6. ~Writing' /\ iter' \in 0..MaxIterations /\ left' \in 0..MaxCalls
  BY <1>2, EngineAssumption DEF Writing
<1>8. /\ bridge'.len <= bridge'.complete /\ bridge'.complete <= Len(msgs')
      /\ bridge'.image \in 0..Len(msgs') /\ at' = 0
  BY <1>1, <1>2, <1>4
<1>9. /\ \A e \in coord'.images : e.at \in DOMAIN msgs' /\ e.seq < coord'.seq
      /\ \A k \in DOMAIN log' : log'[k].at \in DOMAIN msgs'
      /\ coord'.results \subseteq Errors \cup {"ok"}
  BY <1>4, <1>5
<1>7. RunTypeOK'
  BY <1>1, <1>2, <1>3, <1>4, <1>5, <1>6, <1>8, <1>9 DEF RunTypeOK
<1> QED
  BY <1>1, <1>2, <1>4, <1>5, <1>7 DEF RunTyped

LEMMA OverTyped == ASSUME RunTyped, GivesUp \/ Close PROVE RunTyped' /\ Mark' = Mark
<1>1. /\ UNCHANGED <<child, runs, iter, at, left, msgs, coord, bridge, log, ledger, how,
                     broken, astray, advised>>
      /\ pc' = "done" /\ pc = "closing"
  BY DEF GivesUp, Close, Ends
<1>2. held' \in {"none", "permission", "ask_user"}
  BY DEF RunTyped, RunTypeOK, GivesUp, Close
<1>3. ~Writing /\ ~Writing'
  BY <1>1 DEF Writing
<1>4. RunTypeOK'
  BY <1>1, <1>2, <1>3 DEF RunTyped, RunTypeOK
<1> QED
  BY <1>1, <1>3, <1>4 DEF RunTyped, Mark

\* Every step of a run leaves it well typed.
LEMMA TypedStep == ASSUME RunTyped, [RunNext]_runVars PROVE RunTyped'
<1>1. CASE UNCHANGED runVars
  BY <1>1 DEF runVars, RunTyped, RunTypeOK, Writing
<1>2. ASSUME NEW kind \in {"permission", "ask_user"}, Suspend(kind) PROVE RunTyped'
  BY <1>2, SuspendTyped
<1> QED
  BY <1>1, <1>2, BeforeTyped, CallTyped, FailsTyped, SpeakTyped, AnswerTyped, RoundTyped,
     LastTyped, WriteTyped, EndsTyped, ResumeTyped, OverTyped DEF RunNext

-----------------------------------------------------------------------------
\* The order of the messages.

\* Where the iteration has no answer of the model yet.
Asks == {"before", "calling", "after"}

\* The messages are those of the iterations in their order: an answer of the model opens
\* its iteration, and every iteration past has one.
TurnsInOrder ==
    /\ \A i \in 1..Len(msgs) : msgs[i].of <= iter /\ (pc \in Asks => msgs[i].of < iter)
    /\ \A i, j \in 1..Len(msgs) : i < j =>
          /\ msgs[i].of <= msgs[j].of
          /\ msgs[j].role = "assistant" => msgs[i].of < msgs[j].of
    /\ \A v \in 0..iter : v < iter \/ pc \in {"tools", "round"} =>
          \E i \in 1..Len(msgs) : msgs[i].role = "assistant" /\ msgs[i].of = v

\* The bookings not yet used are of calls of this engine run, one per iteration at most;
\* what the ledger holds for them is what the provider reported.
Booked ==
    /\ \A u \in bridge.usage :
          /\ u.run = runs /\ u.iter <= iter
          /\ pc \in {"before", "calling"} => u.iter < iter
          /\ ledger[u.iter] = Added(u.exact)
    /\ \A u, w \in bridge.usage : u.iter = w.iter => u = w
    /\ pc = "after" => \E u \in bridge.usage : u.iter = iter
    /\ \A v \in 0..MaxIterations - 1 :
          /\ ledger[v] <= 1
          /\ v > iter \/ (v = iter /\ pc \in {"before", "calling"}) => ledger[v] = 0

\* While no write failed: the answers written are those below the counter, each of the
\* others still has its booking, and the log ends at the mark.
Paired ==
    ~broken =>
        /\ bridge.asst <= iter + 1
        /\ pc \in Asks \cup {"tools"} => bridge.asst <= iter
        /\ \A i \in 1..Len(msgs) : msgs[i].role = "assistant" =>
              IF i <= Mark THEN msgs[i].of < bridge.asst
              ELSE /\ bridge.asst <= msgs[i].of
                   /\ \E u \in bridge.usage : u.iter = msgs[i].of
        /\ \A k \in 1..Len(log) : log[k].what = "message" => log[k].at <= Mark

\* A step that leaves messages, books, log and mark as they are.
Quiet ==
    /\ UNCHANGED <<msgs, log, ledger, runs, iter, broken, astray>>
    /\ bridge'.asst = bridge.asst /\ bridge'.tool = bridge.tool
    /\ bridge'.usage = bridge.usage /\ bridge'.image = bridge.image
    /\ coord'.seq = coord.seq /\ coord'.images = coord.images
    /\ Mark' = Mark
    /\ pc' \in Asks => pc \in Asks
    /\ pc' \in {"before", "calling"} => pc \in {"before", "calling"}
    /\ pc' \in {"tools", "round"} => pc \in {"tools", "round"}
    /\ pc' = "after" => pc = "after"
    /\ pc' = "tools" => pc = "tools"

\* The steps that neither speak, nor book, nor write.
LEMMA QuietSteps ==
    ASSUME RunTyped,
           \/ BeforeLLM \/ LLMFails \/ Round \/ LastWrite \/ GivesUp \/ Close
           \/ \E kind \in {"permission", "ask_user"} : Suspend(kind)
    PROVE  Quiet
<1>1. CASE BeforeLLM
  <2>1. SameBooks(bridge', bridge) /\ SameRecords(coord', coord)
    BY <1>1, BeforeTyped
  <2>2. pc = "before" /\ pc' \in {"calling", "ended"}
        /\ UNCHANGED <<child, runs, iter, at, left, msgs, held, log, ledger, reason, broken,
                       astray, advised>>
    BY <1>1 DEF BeforeLLM, HookAborts, HookFails, Stops
  <2> QED
    BY <2>1, <2>2 DEF Quiet, SameBooks, SameRecords, Mark, Writing, Asks
<1>2. CASE LLMFails
  <2>1. SameBooks(bridge', bridge)
    BY <1>2, FailsTyped
  <2>2. pc = "calling" /\ pc' = "ended" /\ coord' = coord
        /\ UNCHANGED <<child, runs, iter, at, left, msgs, coord, held, log, ledger, reason,
                       broken, astray, advised>>
    BY <1>2 DEF LLMFails, Stops
  <2> QED
    BY <2>1, <2>2 DEF Quiet, SameBooks, Mark, Writing, Asks
<1>3. CASE Round
  <2>1. SameBooks(bridge', bridge) /\ Mark' = Mark
    BY <1>3, RoundTyped
  <2> QED
    BY <1>3, <2>1 DEF Quiet, SameBooks, Round, Asks
<1>4. CASE LastWrite
  <2>1. Mark' = Mark
    BY <1>4, LastTyped
  <2> QED
    BY <1>4, <2>1 DEF Quiet, LastWrite, Asks
<1>5. CASE GivesUp \/ Close
  <2>1. Mark' = Mark
    BY <1>5, OverTyped
  <2>2. /\ UNCHANGED <<child, runs, iter, at, left, msgs, coord, bridge, log, ledger, how,
                       broken, astray, advised>>
        /\ pc' = "done"
    BY <1>5 DEF GivesUp, Close, Ends
  <2> QED
    BY <2>1, <2>2 DEF Quiet, Asks
<1>6. ASSUME NEW kind \in {"permission", "ask_user"}, Suspend(kind) PROVE Quiet
  <2>1. SameBooks(bridge', bridge) /\ pc = "tools" /\ pc' = "ended"
    BY <1>6, SuspendFields
  <2> QED
    BY <1>6, <2>1 DEF Quiet, SameBooks, Suspend, Mark, Writing, Asks
<1> QED
  BY <1>1, <1>2, <1>3, <1>4, <1>5, <1>6

\* A write-back that ends moves the mark and, after a round, the iteration.
LEMMA EndsSteps ==
    ASSUME RunTyped, WriteEnds
    PROVE  /\ UNCHANGED <<msgs, log, ledger, runs, broken, astray, coord>>
           /\ bridge'.asst = bridge.asst /\ bridge'.tool = bridge.tool
           /\ bridge'.usage = bridge.usage /\ bridge'.image = bridge.image
           /\ Mark' = Mark /\ pc \in {"round", "last"} /\ iter \in Nat
           /\ \/ pc = "round" /\ pc' = "before" /\ iter' = iter + 1
              \/ pc = "last" /\ pc' = "closing" /\ iter' = iter
<1>1. /\ bridge'.asst = bridge.asst /\ bridge'.tool = bridge.tool
      /\ bridge'.usage = bridge.usage /\ bridge'.image = bridge.image
      /\ Mark' = Mark /\ Writing /\ GoesOn
  BY EndsTyped
<1> QED
  BY <1>1, TypedFacts DEF WriteEnds, GoesOn, Writing

\* The next iteration finds the messages in order.
LEMMA OrderGoesOn ==
    ASSUME RunTyped, TurnsInOrder, msgs' = msgs, pc = "round", pc' = "before", iter' = iter + 1
    PROVE  TurnsInOrder'
<1>1. iter \in Nat /\ \A i \in 1..Len(msgs) : msgs[i].of \in Nat
  BY TypedFacts DEF Spoken
<1>2. \A i \in 1..Len(msgs') : msgs'[i].of <= iter' /\ (pc' \in Asks => msgs'[i].of < iter')
  <2> SUFFICES ASSUME NEW i \in 1..Len(msgs) PROVE msgs[i].of <= iter + 1 /\ msgs[i].of < iter + 1
    OBVIOUS
  <2>1. msgs[i].of <= iter
    BY DEF TurnsInOrder
  <2> QED
    BY <1>1, <2>1
<1>3. ASSUME NEW v \in 0..iter', v < iter'
      PROVE  \E i \in 1..Len(msgs') : msgs'[i].role = "assistant" /\ msgs'[i].of = v
  <2>1. v \in 0..iter
    BY <1>1, <1>3
  <2>2. PICK i \in 1..Len(msgs) : msgs[i].role = "assistant" /\ msgs[i].of = v
    BY <2>1 DEF TurnsInOrder
  <2> QED
    BY <2>2
<1>4. \A i, j \in 1..Len(msgs') : i < j =>
          /\ msgs'[i].of <= msgs'[j].of
          /\ msgs'[j].role = "assistant" => msgs'[i].of < msgs'[j].of
  BY DEF TurnsInOrder
<1>5. \A v \in 0..iter' : v < iter' \/ pc' \in {"tools", "round"} =>
          \E i \in 1..Len(msgs') : msgs'[i].role = "assistant" /\ msgs'[i].of = v
  BY <1>3
<1> QED
  BY <1>2, <1>4, <1>5, Zenon DEF TurnsInOrder

\* Every step keeps the messages in order.
LEMMA OrderStep == ASSUME RunTyped, TurnsInOrder, RunNext PROVE TurnsInOrder'
<1>1. CASE Quiet
  BY <1>1 DEF TurnsInOrder, Quiet
<1>2. CASE WriteEnds
  <2>1. msgs' = msgs /\ iter \in Nat
    BY <1>2, EndsSteps
  <2>2. CASE pc = "round" /\ pc' = "before" /\ iter' = iter + 1
    BY <2>1, <2>2, OrderGoesOn
  <2>3. CASE pc = "last" /\ pc' = "closing" /\ iter' = iter
    BY <2>1, <2>3 DEF TurnsInOrder, Asks
  <2> QED
    BY <1>2, <2>2, <2>3, EndsSteps
<1>3. CASE CallLLM
  BY <1>3 DEF CallLLM, TurnsInOrder, Asks
<1>4. ASSUME NEW m \in Spoken, msgs' = Append(msgs, m), m.of = iter, iter' = iter,
             m.role = "assistant" => pc \in Asks,
             pc' \in {"tools", "ended"},
             pc' = "tools" => pc = "tools" \/ m.role = "assistant"
      PROVE  TurnsInOrder'
  <2>1. /\ Len(msgs') = Len(msgs) + 1 /\ Len(msgs) \in Nat /\ iter \in Nat
        /\ \A i \in 1..Len(msgs) : msgs'[i] = msgs[i]
        /\ msgs'[Len(msgs) + 1] = m
        /\ \A i \in 1..Len(msgs) : msgs[i].of \in Nat
    <3>1. \A i \in 1..Len(msgs) : msgs[i].of \in Nat
      BY TypedFacts
    <3>2. /\ Len(msgs') = Len(msgs) + 1 /\ \A i \in 1..Len(msgs) : msgs'[i] = msgs[i]
          /\ msgs'[Len(msgs) + 1] = m
      BY <1>4, Appending
    <3> QED
      BY <3>1, <3>2, TypedFacts
  <2>2. \A i \in 1..Len(msgs') : i \in 1..Len(msgs) \/ i = Len(msgs')
    BY <2>1
  <2>3. \A i \in 1..Len(msgs') : msgs'[i].of <= iter
    BY <1>4, <2>1, <2>2 DEF TurnsInOrder
  <2>4. ASSUME NEW i \in 1..Len(msgs'), NEW j \in 1..Len(msgs'), i < j
        PROVE  /\ msgs'[i].of <= msgs'[j].of
               /\ msgs'[j].role = "assistant" => msgs'[i].of < msgs'[j].of
    <3>1. i \in 1..Len(msgs) /\ i \in Nat /\ j \in Nat
      BY <2>1, <2>4
    <3>2. CASE j \in 1..Len(msgs)
      BY <2>1, <2>4, <3>1, <3>2 DEF TurnsInOrder
    <3>3. CASE j = Len(msgs) + 1
      BY <1>4, <2>1, <3>1, <3>3 DEF TurnsInOrder
    <3> QED
      BY <2>1, <2>2, <3>2, <3>3
  <2>5. ASSUME NEW v \in 0..iter, v < iter \/ pc' \in {"tools", "round"}
        PROVE  \E i \in 1..Len(msgs') : msgs'[i].role = "assistant" /\ msgs'[i].of = v
    <3>1. CASE v < iter \/ pc \in {"tools", "round"}
      <4>1. PICK i \in 1..Len(msgs) : msgs[i].role = "assistant" /\ msgs[i].of = v
        BY <3>1 DEF TurnsInOrder
      <4> QED
        BY <2>1, <4>1
    <3>2. CASE v = iter /\ m.role = "assistant"
      <4>1. Len(msgs) + 1 \in 1..Len(msgs')
        BY <2>1
      <4> QED
        BY <1>4, <2>1, <3>2, <4>1
    <3> QED
      BY <1>4, <2>1, <2>5, <3>1, <3>2
  <2> QED
    BY <1>4, <2>3, <2>4, <2>5 DEF TurnsInOrder, Asks
<1>5. CASE AfterLLM
  <2>1. /\ Assistant \in Spoken /\ pc = "after" /\ pc' \in {"ended", "tools"}
        /\ msgs' \in {msgs, Append(msgs, Assistant)}
        /\ pc' = "tools" => msgs' = Append(msgs, Assistant)
    BY <1>5, SpeakFields
  <2>2. iter' = iter
    BY <1>5 DEF AfterLLM
  <2>3. CASE msgs' = Append(msgs, Assistant)
    BY <1>4, <2>1, <2>2, <2>3 DEF Assistant, Asks
  <2>4. CASE msgs' = msgs /\ pc' = "ended"
    BY <2>2, <2>4 DEF TurnsInOrder, Asks
  <2> QED
    BY <2>1, <2>3, <2>4
<1>6. CASE RefuseCall \/ HookAnswers \/ RunTool
  <2>1. /\ pc = "tools" /\ pc' = pc /\ iter' = iter
        /\ Tool \in Spoken /\ msgs' = Append(msgs, Tool)
    BY <1>6, AnswerFields
  <2>2. Tool.of = iter /\ Tool.role = "tool"
    BY DEF Tool
  <2> QED
    BY <1>4, <2>1, <2>2
<1>7. CASE WriteMessage
  <2>1. UNCHANGED msgs /\ Writing /\ (UNCHANGED <<pc, iter>> \/ GoesOn)
    BY <1>7, WriteFields DEF WrittenWell, WrittenIll
  <2>2. CASE UNCHANGED <<pc, iter>>
    BY <2>1, <2>2 DEF TurnsInOrder
  <2>3. CASE GoesOn /\ pc = "round"
    BY <2>1, <2>3, OrderGoesOn DEF GoesOn
  <2>4. CASE GoesOn /\ pc = "last"
    BY <2>1, <2>4 DEF TurnsInOrder, GoesOn, Asks
  <2> QED
    BY <2>1, <2>2, <2>3, <2>4 DEF Writing
<1>8. CASE Resume
  <2>1. msgs' = <<>> /\ iter' = 0 /\ pc' = "before" /\ Len(msgs') = 0
    BY <1>8 DEF Resume
  <2> QED
    BY <2>1 DEF TurnsInOrder
<1> QED
  BY <1>1, <1>2, <1>3, <1>5, <1>6, <1>7, <1>8, QuietSteps DEF RunNext

\* What the step of a write-back takes from the bookings: that of the answer's own number.
-----------------------------------------------------------------------------
\* The bookings.

LEMMA Taken ==
    ASSUME RunTyped, NEW i \in 1..Len(msgs)
    PROVE  /\ msgs[i].role # "assistant" => Booking(i) = {} /\ bridge.usage \ Booking(i) = bridge.usage
           /\ msgs[i].role = "assistant" => Booking(i) = {u \in bridge.usage : u.iter = bridge.asst}
           /\ \A v \in 0..MaxIterations - 1 :
                 Estimated(i)[v] = ledger[v] + (IF \E u \in Booking(i) : u.iter = v /\ ~u.exact THEN 1 ELSE 0)
  BY DEF Booking, Estimated, RunTyped

\* The bookings and the ledger are well typed.
LEMMA UsageTyped ==
    ASSUME RunTyped
    PROVE  /\ \A u \in bridge.usage : u \in Bookings /\ u.iter \in 0..MaxIterations - 1 /\ u.exact \in BOOLEAN
           /\ \A v \in 0..MaxIterations - 1 : ledger[v] \in Nat
  BY TypedFacts DEF RunTyped, Bridges, Bookings

\* Every step keeps the bookings true.
LEMMA BookedStep == ASSUME RunTyped, Booked, RunNext PROVE Booked'
<1>0. RunTyped'
  BY TypedStep
<1>1. CASE Quiet
  BY <1>1 DEF Booked, Quiet
<1>2. CASE WriteEnds
  <2>1. /\ UNCHANGED <<ledger, runs>> /\ bridge'.usage = bridge.usage /\ iter \in Nat
        /\ \/ pc = "round" /\ pc' = "before" /\ iter' = iter + 1
           \/ pc = "last" /\ pc' = "closing" /\ iter' = iter
    BY <1>2, EndsSteps
  <2>2. \A u \in bridge.usage : u.iter < iter' \/ (pc' = "closing" /\ u.iter <= iter')
    BY <2>1, UsageTyped DEF Booked
  <2>3. \A v \in 0..MaxIterations - 1 : v > iter' \/ (v = iter' /\ pc' \in {"before", "calling"}) => ledger[v] = 0
    BY <2>1 DEF Booked
  <2>4. \A u \in bridge.usage : u.iter <= iter' /\ (pc' \in {"before", "calling"} => u.iter < iter')
    BY <2>1, <2>2, UsageTyped
  <2> QED
    BY <2>1, <2>3, <2>4 DEF Booked
<1>3. CASE CallLLM
  <2>1. PICK exact \in BOOLEAN :
              /\ bridge'.usage = bridge.usage \cup {[iter |-> iter, run |-> runs, exact |-> exact]}
              /\ [iter |-> iter, run |-> runs, exact |-> exact] \in Bookings
              /\ ledger' = [ledger EXCEPT ![iter] = @ + Added(exact)]
    BY <1>3, CallFields
  <2> DEFINE w == [iter |-> iter, run |-> runs, exact |-> exact]
  <2>2. w.iter = iter /\ w.run = runs /\ w.exact = exact
    OBVIOUS
  <2>3. pc = "calling" /\ pc' = "after" /\ UNCHANGED <<iter, runs>> /\ iter \in 0..MaxIterations - 1
    BY <1>3, <2>1 DEF CallLLM, Bookings
  <2>4. ledger[iter] = 0
    BY <2>3 DEF Booked
  <2>5. /\ ledger'[iter] = Added(exact) /\ Added(exact) \in {0, 1}
        /\ \A v \in 0..MaxIterations - 1 : v # iter => ledger'[v] = ledger[v]
    BY <2>1, <2>3, <2>4 DEF RunTyped, Added
  <2> HIDE DEF w
  <2>6. bridge'.usage = bridge.usage \cup {w}
    BY <2>1 DEF w
  <2>7. \A u \in bridge.usage : u.iter < iter /\ u.iter \in 0..MaxIterations - 1
    BY <2>3, UsageTyped DEF Booked
  <2>8. \A u \in bridge'.usage : u.run = runs' /\ u.iter <= iter' /\ ledger'[u.iter] = Added(u.exact)
    BY <2>2, <2>3, <2>5, <2>6, <2>7 DEF Booked
  <2>9. \A u, x \in bridge'.usage : u.iter = x.iter => u = x
    BY <2>2, <2>3, <2>6, <2>7 DEF Booked
  <2>10. \A v \in 0..MaxIterations - 1 :
           /\ ledger'[v] <= 1
           /\ v > iter' \/ (v = iter' /\ pc' \in {"before", "calling"}) => ledger'[v] = 0
    BY <2>3, <2>5 DEF Booked
  <2>11. \E u \in bridge'.usage : u.iter = iter'
    BY <2>2, <2>3, <2>6
  <2> QED
    BY <2>3, <2>8, <2>9, <2>10, <2>11 DEF Booked
<1>4. CASE AfterLLM
  <2>1. bridge'.usage = bridge.usage /\ pc' \in {"ended", "tools"}
    BY <1>4, SpeakFields DEF SameBooks
  <2> QED
    BY <1>4, <2>1 DEF Booked, AfterLLM
<1>5. CASE RefuseCall \/ HookAnswers \/ RunTool
  <2>1. UNCHANGED <<pc, bridge, ledger, runs, iter>>
    BY <1>5, AnswerFields
  <2> QED
    BY <2>1 DEF Booked
<1>6. CASE WriteMessage
  <2> DEFINE i == at + 1
  <2>1. /\ i \in 1..Len(msgs) /\ bridge'.usage = bridge.usage \ Booking(i) /\ ledger' = Estimated(i)
        /\ runs' = runs /\ Writing /\ Booking(i) \subseteq bridge.usage
        /\ WrittenWell(i) \/ WrittenIll(i)
    BY <1>6, WriteFields DEF Booking
  <2> HIDE DEF i
  <2>2. /\ iter' >= iter /\ pc' # "after" /\ iter \in Nat /\ iter' \in Nat
        /\ pc' \in {"before", "calling"} => iter' > iter
    <3>1. CASE WrittenWell(i)
      BY <2>1, <3>1, TypedFacts DEF WrittenWell, Writing
    <3>2. CASE WrittenIll(i)
      BY <2>1, <3>2, TypedFacts DEF WrittenIll, GoesOn, Writing
    <3> QED
      BY <2>1, <3>1, <3>2
  <2>3. ASSUME NEW u \in bridge'.usage
        PROVE  /\ u.run = runs' /\ u.iter <= iter' /\ ledger'[u.iter] = Added(u.exact)
               /\ pc' \in {"before", "calling"} => u.iter < iter'
    <3>1. u \in bridge.usage /\ u \notin Booking(i) /\ u.iter \in 0..MaxIterations - 1
      BY <2>1, UsageTyped
    <3>2. ~\E w \in Booking(i) : w.iter = u.iter
      BY <2>1, <3>1 DEF Booked
    <3>3. ledger'[u.iter] = ledger[u.iter] + 0
      BY <2>1, <3>1, <3>2, Taken
    <3>4. ledger[u.iter] \in Nat
      BY <3>1, UsageTyped
    <3> QED
      BY <2>1, <2>2, <3>1, <3>3, <3>4 DEF Booked
  <2>4. \A u, x \in bridge'.usage : u.iter = x.iter => u = x
    BY <2>1 DEF Booked
  <2>5. ASSUME NEW v \in 0..MaxIterations - 1
        PROVE  /\ ledger'[v] <= 1
               /\ v > iter' \/ (v = iter' /\ pc' \in {"before", "calling"}) => ledger'[v] = 0
    <3>1. ledger[v] \in Nat /\ ledger[v] <= 1
      BY UsageTyped DEF Booked
    <3>2. CASE \E u \in Booking(i) : u.iter = v /\ ~u.exact
      <4>1. PICK u \in Booking(i) : u.iter = v /\ ~u.exact
        BY <3>2
      <4>2. ledger[v] = 0 /\ v <= iter
        BY <2>1, <4>1 DEF Booked, Added
      <4>3. ledger'[v] = 1
        BY <2>1, <3>2, <4>2, Taken
      <4> QED
        BY <2>2, <4>2, <4>3
    <3>3. CASE ~\E u \in Booking(i) : u.iter = v /\ ~u.exact
      <4>1. ledger'[v] = ledger[v]
        BY <2>1, <3>1, <3>3, Taken
      <4>2. v > iter' \/ (v = iter' /\ pc' \in {"before", "calling"}) => v > iter
        BY <2>2
      <4> QED
        BY <3>1, <4>1, <4>2 DEF Booked
    <3> QED
      BY <3>2, <3>3
  <2> QED
    BY <2>2, <2>3, <2>4, <2>5 DEF Booked
<1>7. CASE Resume
  <2>1. bridge'.usage = {} /\ \A v \in 0..MaxIterations - 1 : ledger'[v] = 0
    BY <1>7, ResumeFields
  <2>2. pc' = "before"
    BY <1>7 DEF Resume
  <2> QED
    BY <2>1, <2>2 DEF Booked
<1> QED
  BY <1>1, <1>2, <1>3, <1>4, <1>5, <1>6, <1>7, QuietSteps DEF RunNext

\* As long as no write failed, the next answer has the number the bookings are asked for.
LEMMA OwnNumber ==
    ASSUME RunTyped, TurnsInOrder, Paired, ~broken, Writing, Mark + 1 \in 1..Len(msgs),
           msgs[Mark + 1].role = "assistant"
    PROVE  msgs[Mark + 1].of = bridge.asst
<1> DEFINE i == Mark + 1
<1>1. /\ i \in 1..Len(msgs) /\ Mark \in Nat /\ Mark = i - 1 /\ iter \in Nat /\ bridge.asst \in Nat
      /\ msgs[i].role = "assistant"
  BY TypedFacts DEF Mark, Bridges
<1> HIDE DEF i
<1>2. bridge.asst <= msgs[i].of /\ msgs[i].of <= iter /\ msgs[i].of \in Nat
  BY <1>1, TypedFacts DEF Paired, TurnsInOrder
<1>3. ASSUME bridge.asst < msgs[i].of PROVE FALSE
  <2>1. bridge.asst \in 0..iter /\ bridge.asst < iter
    BY <1>1, <1>2, <1>3
  <2>2. PICK j \in 1..Len(msgs) : msgs[j].role = "assistant" /\ msgs[j].of = bridge.asst
    BY <2>1 DEF TurnsInOrder
  <2>3. ~(j <= Mark)
    BY <1>1, <2>2 DEF Paired
  <2>4. i # j /\ i \in Nat /\ j \in Nat
    BY <1>1, <1>3, <2>2, TypedFacts
  <2>5. i < j
    BY <1>1, <2>3, <2>4
  <2>6. msgs[i].of < msgs[j].of
    BY <1>1, <2>2, <2>5 DEF TurnsInOrder
  <2> QED
    BY <1>1, <1>2, <1>3, <2>2, <2>6
<1> QED
  BY <1>1, <1>2, <1>3 DEF i

-----------------------------------------------------------------------------
\* The counter and the messages.

\* The mark lies within the messages.
LEMMA MarkBound == ASSUME RunTyped PROVE Mark \in 0..Len(msgs) /\ Mark \in Nat
  BY TypedFacts DEF Mark, RunTyped, RunTypeOK, Bridges

\* Every step keeps the counter and the messages paired.
LEMMA PairedStep ==
    ASSUME RunTyped, TurnsInOrder, Booked, Paired, RunNext PROVE Paired'
<1>0. SUFFICES ASSUME ~broken' PROVE Paired'
  BY DEF Paired
<1>1. CASE Quiet
  <2>1. ~broken /\ Mark' = Mark /\ UNCHANGED <<msgs, log, iter>> /\ bridge'.asst = bridge.asst
        /\ bridge'.usage = bridge.usage
    BY <1>0, <1>1 DEF Quiet
  <2>2. pc' \in Asks \cup {"tools"} => pc \in Asks \cup {"tools"}
    BY <1>1 DEF Quiet
  <2> QED
    BY <2>1, <2>2 DEF Paired
<1>2. CASE WriteEnds
  <2>1. /\ UNCHANGED <<msgs, log, broken>> /\ bridge'.usage = bridge.usage /\ iter \in Nat
        /\ bridge'.asst = bridge.asst /\ Mark' = Mark
        /\ \/ pc = "round" /\ pc' = "before" /\ iter' = iter + 1
           \/ pc = "last" /\ pc' = "closing" /\ iter' = iter
    BY <1>2, EndsSteps
  <2>2. bridge.asst \in Nat /\ bridge.asst <= iter + 1
    BY <1>0, <2>1, TypedFacts DEF Bridges, Paired
  <2>3. bridge'.asst <= iter' + 1 /\ (pc' \in Asks \cup {"tools"} => bridge'.asst <= iter')
    BY <2>1, <2>2 DEF Asks
  <2> QED
    BY <1>0, <2>1, <2>3 DEF Paired
<1>3. CASE CallLLM
  <2>1. /\ UNCHANGED <<msgs, log, broken, iter, at>> /\ bridge.usage \subseteq bridge'.usage
        /\ bridge'.asst = bridge.asst /\ bridge'.len = bridge.len
        /\ pc = "calling" /\ pc' = "after"
    BY <1>3, CallFields DEF CallLLM
  <2>2. Mark' = Mark
    BY <2>1 DEF Mark, Writing
  <2> QED
    BY <1>0, <2>1, <2>2 DEF Paired, Asks
<1>4. ASSUME NEW m \in Spoken, msgs' = Append(msgs, m), Mark' = Mark,
             UNCHANGED <<iter, log, broken>>, bridge'.asst = bridge.asst, bridge'.usage = bridge.usage,
             pc' \in {"tools", "ended"}, pc \in Asks \cup {"tools"},
             m.role = "assistant" => m.of = iter /\ \E u \in bridge.usage : u.iter = iter
      PROVE  Paired'
  <2>1. /\ Len(msgs') = Len(msgs) + 1 /\ Len(msgs) \in Nat
        /\ \A i \in 1..Len(msgs) : msgs'[i] = msgs[i]
        /\ msgs'[Len(msgs) + 1] = m
    BY <1>4, Appending, TypedFacts
  <2>2. ~broken /\ bridge.asst <= iter /\ bridge.asst \in Nat /\ iter \in Nat
    BY <1>0, <1>4, TypedFacts DEF Paired, Bridges
  <2>3. ASSUME NEW i \in 1..Len(msgs'), msgs'[i].role = "assistant"
        PROVE  IF i <= Mark THEN msgs'[i].of < bridge.asst
               ELSE /\ bridge.asst <= msgs'[i].of
                    /\ \E u \in bridge.usage : u.iter = msgs'[i].of
    <3>1. CASE i \in 1..Len(msgs)
      BY <2>1, <2>2, <2>3, <3>1 DEF Paired
    <3>2. CASE i = Len(msgs) + 1
      <4>1. ~(i <= Mark)
        BY <2>1, <3>2, MarkBound
      <4>2. msgs'[i] = m
        BY <2>1, <3>2
      <4> QED
        BY <1>4, <2>2, <2>3, <4>1, <4>2
    <3> QED
      BY <2>1, <3>1, <3>2
  <2>4. \A k \in 1..Len(log') : log'[k].what = "message" => log'[k].at <= Mark
    BY <1>4, <2>2 DEF Paired
  <2>5. bridge'.asst <= iter' + 1 /\ bridge'.asst <= iter'
    BY <1>4, <2>2
  <2> QED
    BY <1>4, <2>3, <2>4, <2>5 DEF Paired
<1>5. CASE AfterLLM
  <2>1. /\ SameBooks(bridge', bridge) /\ Assistant \in Spoken
        /\ msgs' \in {msgs, Append(msgs, Assistant)}
        /\ pc = "after" /\ pc' \in {"ended", "tools"}
        /\ pc' = "tools" => msgs' = Append(msgs, Assistant)
    BY <1>5, SpeakFields
  <2>2. UNCHANGED <<iter, at, log, broken>>
    BY <1>5 DEF AfterLLM
  <2>3. Mark' = Mark
    BY <2>1, <2>2 DEF Mark, Writing, SameBooks
  <2>4. CASE msgs' = Append(msgs, Assistant)
    <3>1. Assistant.of = iter /\ \E u \in bridge.usage : u.iter = iter
      BY <2>1 DEF Assistant, Booked
    <3> QED
      BY <1>4, <2>1, <2>2, <2>3, <2>4, <3>1 DEF SameBooks, Asks
  <2>5. CASE msgs' = msgs /\ pc' = "ended"
    BY <1>0, <2>1, <2>2, <2>3, <2>5 DEF Paired, SameBooks, Asks
  <2> QED
    BY <2>1, <2>4, <2>5
<1>6. CASE RefuseCall \/ HookAnswers \/ RunTool
  <2>1. /\ pc = "tools" /\ UNCHANGED <<pc, iter, bridge, at, log, broken>>
        /\ Tool \in Spoken /\ msgs' = Append(msgs, Tool)
    BY <1>6, AnswerFields
  <2>2. Mark' = Mark
    BY <2>1 DEF Mark, Writing
  <2>3. Tool.role = "tool"
    BY DEF Tool
  <2> QED
    BY <1>4, <2>1, <2>2, <2>3
<1>7. CASE WriteMessage
  <2> DEFINE i == at + 1
  <2>1. /\ i \in 1..Len(msgs) /\ bridge'.usage = bridge.usage \ Booking(i) /\ msgs' = msgs
        /\ Writing /\ at \in Nat
        /\ bridge'.asst = bridge.asst + (IF msgs[i].role = "assistant" THEN 1 ELSE 0)
        /\ WrittenWell(i)
    BY <1>0, <1>7, WriteFields DEF WrittenIll
  <2>2. Mark = at /\ at' = i /\ UNCHANGED <<pc, iter, broken>> /\ Stored(i) /\ Mark' = i
    BY <2>1 DEF Mark, WrittenWell, Writing
  <2>3. ~broken /\ bridge.asst \in Nat /\ iter \in Nat /\ bridge.asst <= iter + 1
    BY <1>0, <2>2, TypedFacts DEF Paired, Bridges
  <2>4. msgs[i].role = "assistant" => msgs[i].of = bridge.asst /\ msgs[i].of <= iter
    BY <2>1, <2>2, <2>3, OwnNumber DEF TurnsInOrder
  <2>5. i = Mark + 1 /\ i \in Nat /\ Mark \in Nat
    BY <2>1, <2>2
  <2> HIDE DEF i
  <2>6. ASSUME NEW j \in 1..Len(msgs), msgs[j].role = "assistant"
        PROVE  IF j <= i THEN msgs[j].of < bridge'.asst
               ELSE /\ bridge'.asst <= msgs[j].of
                    /\ \E u \in bridge'.usage : u.iter = msgs[j].of
    <3>1. msgs[j].of \in Nat /\ j \in Nat
      BY <2>6, TypedFacts
    <3>2. CASE j <= Mark
      BY <2>1, <2>3, <2>5, <2>6, <3>1, <3>2 DEF Paired
    <3>3. CASE j = i
      BY <2>1, <2>3, <2>4, <2>5, <2>6, <3>1, <3>3
    <3>4. CASE j > i
      <4>1. PICK u \in bridge.usage : u.iter = msgs[j].of /\ bridge.asst <= msgs[j].of
        BY <2>3, <2>5, <2>6, <3>1, <3>4 DEF Paired
      <4>2. CASE msgs[i].role = "assistant"
        <5>1. msgs[i].of < msgs[j].of
          BY <2>1, <2>6, <3>4 DEF TurnsInOrder
        <5>2. u \notin Booking(i)
          BY <2>3, <2>4, <3>1, <4>1, <4>2, <5>1 DEF Booking
        <5>3. bridge.asst + 1 <= msgs[j].of
          BY <2>3, <2>4, <3>1, <4>2, <5>1
        <5> QED
          BY <2>1, <2>5, <3>1, <3>4, <4>1, <4>2, <5>2, <5>3
      <4>3. CASE msgs[i].role # "assistant"
        BY <2>1, <2>3, <2>5, <3>1, <3>4, <4>1, <4>3, Taken
      <4> QED
        BY <4>2, <4>3
    <3> QED
      BY <2>5, <3>1, <3>2, <3>3, <3>4
  <2>7. ASSUME NEW k \in 1..Len(log'), log'[k].what = "message" PROVE log'[k].at <= i
    <3>1. CASE k <= Len(log)
      <4>1. k \in 1..Len(log) /\ log'[k] = log[k]
        BY <2>1, <2>2, <3>1, Grown, TypedFacts
      <4>2. log[k].at <= Mark /\ log[k].at \in Nat
        BY <2>3, <2>7, <4>1, TypedFacts DEF Paired
      <4> QED
        BY <2>5, <4>1, <4>2
    <3>2. CASE k > Len(log)
      <4>1. log'[k] = Message(i) \/ log'[k] = Image(ImageOf(i))
        BY <2>1, <2>2, <3>2, Grown
      <4>2. log'[k] = Message(i)
        BY <2>1, <2>7, <4>1, EntryFields
      <4> QED
        BY <2>1, <2>5, <4>2, EntryFields
    <3>3. k \in Nat /\ Len(log) \in Nat
      BY <2>1, <2>2, Grown
    <3> QED
      BY <3>1, <3>2, <3>3
  <2>8. bridge'.asst <= iter' + 1 /\ ~(pc' \in Asks \cup {"tools"})
    BY <2>1, <2>2, <2>3, <2>4 DEF Writing, Asks
  <2> QED
    BY <2>1, <2>2, <2>6, <2>7, <2>8 DEF Paired
<1>8. CASE Resume
  <2>1. bridge'.asst = 0 /\ msgs' = <<>> /\ log' = <<>> /\ iter' = 0
    BY <1>8, ResumeFields DEF Resume
  <2>2. Len(msgs') = 0 /\ Len(log') = 0
    BY <2>1
  <2> QED
    BY <2>1, <2>2 DEF Paired
<1> QED
  BY <1>1, <1>2, <1>3, <1>5, <1>6, <1>7, <1>8, QuietSteps DEF RunNext

-----------------------------------------------------------------------------
\* The session's record.

\* What the log promises while every write went well.
Written == WrittenOnce /\ UsageOfOwnCall /\ AccountedOnce

\* A step that writes nothing, keeps the messages and adds nothing to the tokens of a
\* written one keeps the promise.
LEMMA LogKept ==
    ASSUME RunTyped, Booked', RunTyped', Written, UNCHANGED <<log, runs, broken>>,
           \A i \in 1..Len(msgs) : msgs'[i] = msgs[i],
           \A k \in 1..Len(log) : ledger'[msgs[log[k].at].of] = ledger[msgs[log[k].at].of]
    PROVE  Written'
<1>1. \A k \in DOMAIN log : msgs'[log[k].at] = msgs[log[k].at]
  BY TypedFacts DEF RunTyped, RunTypeOK
<1>2. \A k \in DOMAIN log : Answers(k)' <=> Answers(k)
  BY <1>1 DEF Answers
<1>3. WrittenOnce'
  BY DEF Written, WrittenOnce
<1>4. UsageOfOwnCall'
  BY <1>1, <1>2 DEF Written, UsageOfOwnCall
<1>5. \A v \in DOMAIN ledger' : ledger'[v] <= 1
  BY DEF Booked, RunTyped
<1>6. AccountedOnce'
  BY <1>1, <1>2, <1>5, TypedFacts DEF Written, AccountedOnce
<1> QED
  BY <1>3, <1>4, <1>6 DEF Written

\* An entry of the session's log is an old one or the message just met.
LEMMA Entry ==
    ASSUME RunTyped, NEW i \in 1..Len(msgs), Stored(i), NEW k \in DOMAIN log',
           log'[k].what = "message"
    PROVE  \/ k \in DOMAIN log /\ log'[k] = log[k]
           \/ k = Len(log) + 1 /\ log'[k] = Message(i)
<1>1. /\ Len(log') \in Nat /\ DOMAIN log' = 1..Len(log') /\ DOMAIN log = 1..Len(log) /\ Len(log) \in Nat
      /\ \A j \in 1..Len(log) : log'[j] = log[j]
      /\ \A j \in 1..Len(log') : j > Len(log) =>
            \/ j = Len(log) + 1 /\ log'[j] = Message(i)
            \/ j = Len(log) + 2 /\ Stored(i) /\ WithImage(i) /\ log'[j] = Image(ImageOf(i))
  BY Grown, TypedFacts
<1>2. Image(ImageOf(i)).what = "image"
  BY EntryFields
<1>3. k \in 1..Len(log') /\ k \in Nat
  BY <1>1
<1>4. CASE k <= Len(log)
  BY <1>1, <1>3, <1>4
<1>5. CASE k > Len(log)
  BY <1>1, <1>2, <1>3, <1>5
<1> QED
  BY <1>1, <1>3, <1>4, <1>5

\* Every step keeps the promise: the next message has the number of the next booking.
LEMMA WrittenStep ==
    ASSUME RunTyped, TurnsInOrder, Booked, Paired, Written, RunNext PROVE Written'
<1>0. RunTyped' /\ Booked'
  BY TypedStep, BookedStep
<1>1. CASE Quiet
  <2>1. UNCHANGED <<log, runs, broken, msgs, ledger>>
    BY <1>1 DEF Quiet
  <2> QED
    BY <1>0, <2>1, LogKept
<1>2. CASE WriteEnds
  <2>1. UNCHANGED <<log, runs, broken, msgs, ledger>>
    BY <1>2, EndsSteps
  <2> QED
    BY <1>0, <2>1, LogKept
<1>3. CASE CallLLM
  <2>1. UNCHANGED <<log, runs, broken, msgs>> /\ pc = "calling"
    BY <1>3 DEF CallLLM
  <2>2. ASSUME NEW k \in 1..Len(log)
        PROVE  ledger'[msgs[log[k].at].of] = ledger[msgs[log[k].at].of]
    <3>1. log[k].at \in 1..Len(msgs)
      BY TypedFacts DEF RunTyped, RunTypeOK
    <3>2. msgs[log[k].at].of \in 0..MaxIterations - 1 /\ msgs[log[k].at].of # iter
      BY <2>1, <3>1, TypedFacts DEF TurnsInOrder, Asks, Spoken
    <3>3. PICK exact \in BOOLEAN : ledger' = [ledger EXCEPT ![iter] = @ + Added(exact)]
      BY <1>3 DEF CallLLM
    <3> QED
      BY <3>2, <3>3 DEF RunTyped
  <2> QED
    BY <1>0, <2>1, <2>2, LogKept
<1>4. CASE AfterLLM
  <2>1. UNCHANGED <<log, runs, broken, ledger>>
    BY <1>4 DEF AfterLLM
  <2>2. Assistant \in Spoken /\ msgs' \in {msgs, Append(msgs, Assistant)}
    BY <1>4, SpeakFields
  <2>3. \A i \in 1..Len(msgs) : msgs'[i] = msgs[i]
    BY <2>2, Appending
  <2> QED
    BY <1>0, <2>1, <2>3, LogKept
<1>5. CASE RefuseCall \/ HookAnswers \/ RunTool
  <2>1. UNCHANGED <<log, runs, broken, ledger>> /\ Tool \in Spoken /\ msgs' = Append(msgs, Tool)
    BY <1>5, AnswerFields
  <2>3. \A i \in 1..Len(msgs) : msgs'[i] = msgs[i]
    BY <2>1, Appending
  <2> QED
    BY <1>0, <2>1, <2>3, LogKept
<1>6. CASE WriteMessage
  <2> DEFINE i == at + 1
  <2>1. /\ i \in 1..Len(msgs) /\ ledger' = Estimated(i) /\ at \in Nat
        /\ UNCHANGED <<runs, msgs>> /\ Writing /\ Booking(i) \subseteq bridge.usage
        /\ WrittenWell(i) \/ WrittenIll(i)
    BY <1>6, WriteFields DEF Booking
  <2>2. i = Mark + 1
    BY <2>1 DEF Mark
  <2> HIDE DEF i
  <2>3. \A v \in DOMAIN ledger' : ledger'[v] <= 1
    BY <1>0 DEF Booked, RunTyped
  <2>4. CASE WrittenIll(i)
    BY <2>3, <2>4 DEF WrittenIll, Written, WrittenOnce, UsageOfOwnCall, AccountedOnce
  <2>5. CASE WrittenWell(i) /\ ~broken
    <3>1. Stored(i) /\ ~broken'
      BY <2>5 DEF WrittenWell
    <3>2. \A k \in DOMAIN log : log[k].what = "message" => log[k].at < i
      BY <2>1, <2>2, <2>5, MarkBound, TypedFacts DEF Paired
    <3>3. Message(i).at = i /\ Message(i).what = "message" /\ Message(i).usage = Booking(i)
      BY <2>1, EntryFields
    <3>4. \A k \in DOMAIN log' : log'[k].what = "message" =>
             \/ k \in DOMAIN log /\ log'[k] = log[k]
             \/ k = Len(log) + 1 /\ log'[k] = Message(i)
      BY <2>1, <3>1, Entry
    <3>5. DOMAIN log = 1..Len(log) /\ Len(log) \in Nat
      BY TypedFacts
    <3>6. WrittenOnce'
      <4> SUFFICES ASSUME NEW j \in DOMAIN log', NEW k \in DOMAIN log', j < k,
                          log'[j].what = "message", log'[k].what = "message"
                   PROVE  log'[j].at < log'[k].at
        BY DEF WrittenOnce
      <4>1. CASE k \in DOMAIN log /\ log'[k] = log[k]
        <5>1. j \in DOMAIN log /\ log'[j] = log[j]
          BY <3>4, <3>5, <4>1
        <5> QED
          BY <2>5, <4>1, <5>1 DEF Written, WrittenOnce
      <4>2. CASE k = Len(log) + 1 /\ log'[k] = Message(i)
        <5>1. j \in DOMAIN log /\ log'[j] = log[j]
          BY <3>4, <3>5, <4>2
        <5> QED
          BY <3>2, <3>3, <4>2, <5>1
      <4> QED
        BY <3>4, <4>1, <4>2
    <3>7. msgs[i].role = "assistant" =>
             /\ msgs[i].of = bridge.asst
             /\ \E u \in Booking(i) : u.iter = msgs[i].of
             /\ \A u \in Booking(i) : u.iter = msgs[i].of /\ u.run = runs /\ u \in bridge.usage
      <4> SUFFICES ASSUME msgs[i].role = "assistant"
                   PROVE  /\ msgs[i].of = bridge.asst
                          /\ \E u \in Booking(i) : u.iter = msgs[i].of
                          /\ \A u \in Booking(i) : u.iter = msgs[i].of /\ u.run = runs /\ u \in bridge.usage
        OBVIOUS
      <4>1. msgs[i].of = bridge.asst
        BY <2>1, <2>2, <2>5, OwnNumber
      <4>2. ~(i <= Mark)
        BY <2>2, MarkBound
      <4>3. \E u \in bridge.usage : u.iter = msgs[i].of
        BY <2>1, <2>5, <4>2 DEF Paired
      <4>4. Booking(i) = {u \in bridge.usage : u.iter = bridge.asst}
        BY <2>1, Taken
      <4> QED
        BY <4>1, <4>3, <4>4 DEF Booked
    <3>8. UsageOfOwnCall'
      <4> SUFFICES ASSUME NEW k \in DOMAIN log', log'[k].what = "message",
                          msgs[log'[k].at].role = "assistant"
                   PROVE  /\ log'[k].usage # {}
                          /\ \A u \in log'[k].usage : u.iter = msgs[log'[k].at].of /\ u.run = runs
        BY <2>1 DEF UsageOfOwnCall, Answers
      <4>1. CASE k \in DOMAIN log /\ log'[k] = log[k]
        BY <2>5, <4>1 DEF Written, UsageOfOwnCall, Answers
      <4>2. CASE log'[k] = Message(i)
        BY <3>3, <3>7, <4>2
      <4> QED
        BY <3>4, <4>1, <4>2
    <3>9. AccountedOnce'
      <4> SUFFICES ASSUME NEW k \in DOMAIN log', log'[k].what = "message",
                          msgs[log'[k].at].role = "assistant"
                   PROVE  ledger'[msgs[log'[k].at].of] = 1
        BY <2>1, <2>3 DEF AccountedOnce, Answers
      <4>1. CASE k \in DOMAIN log /\ log'[k] = log[k]
        <5> DEFINE v == msgs[log[k].at].of
        <5>1. log[k].at \in 1..Len(msgs)
          BY <4>1, TypedFacts DEF RunTyped, RunTypeOK
        <5>2. v \in 0..MaxIterations - 1
          BY <5>1, TypedFacts DEF Spoken
        <5>3. ledger[v] = 1
          BY <2>5, <4>1 DEF Written, AccountedOnce, Answers
        <5>4. ledger'[v] <= 1 /\ ledger'[v] \in Nat
          BY <1>0, <5>2 DEF Booked, RunTyped
        <5>5. ledger'[v] \in {1, 2}
          BY <2>1, <5>2, <5>3, Taken
        <5> QED
          BY <4>1, <5>4, <5>5
      <4>2. CASE log'[k] = Message(i)
        <5> DEFINE v == msgs[i].of
        <5>1. v \in 0..MaxIterations - 1
          BY <2>1, TypedFacts DEF Spoken
        <5>2. msgs[i].role = "assistant"
          BY <3>3, <4>2
        <5>3. PICK u \in Booking(i) : u.iter = v
          BY <3>7, <5>2
        <5>4. u.exact \in BOOLEAN /\ ledger[v] = Added(u.exact)
          BY <2>1, <5>3, UsageTyped DEF Booked
        <5>5. \A w \in Booking(i) : w.iter = v => w = u
          BY <2>1, <5>3 DEF Booked
        <5>6. ledger'[v] = 1
          <6>1. CASE u.exact
            <7>1. ~\E w \in Booking(i) : w.iter = v /\ ~w.exact
              BY <5>5, <6>1
            <7>2. ledger[v] = 1
              BY <5>4, <6>1 DEF Added
            <7>3. Estimated(i)[v] = ledger[v] + 0
              BY <2>1, <5>1, <7>1, Taken
            <7> QED
              BY <2>1, <7>2, <7>3
          <6>2. CASE ~u.exact
            BY <2>1, <5>1, <5>3, <5>4, <6>2, Taken DEF Added
          <6> QED
            BY <6>1, <6>2
        <5> QED
          BY <3>3, <4>2, <5>6
      <4> QED
        BY <3>4, <4>1, <4>2
    <3> QED
      BY <3>6, <3>8, <3>9 DEF Written
  <2>6. CASE WrittenWell(i) /\ broken
    BY <2>3, <2>6 DEF WrittenWell, Written, WrittenOnce, UsageOfOwnCall, AccountedOnce
  <2> QED
    BY <2>1, <2>4, <2>5, <2>6
<1>7. CASE Resume
  <2>1. log' = <<>> /\ DOMAIN log' = {}
    BY <1>7 DEF Resume
  <2>2. \A v \in DOMAIN ledger' : ledger'[v] <= 1
    BY <1>0 DEF Booked, RunTyped
  <2> QED
    BY <2>1, <2>2 DEF Written, WrittenOnce, UsageOfOwnCall, AccountedOnce
<1> QED
  BY <1>1, <1>2, <1>3, <1>4, <1>5, <1>6, <1>7, QuietSteps DEF RunNext

\* The inductive invariant of the session's record.  The promise alone is not inductive:
\* which booking an answer finds depends on the order of the messages, on what is booked,
\* and on the counter that pairs the two.
RecordInv == RunTyped /\ TurnsInOrder /\ Booked /\ Paired /\ Written

\* It holds at the start, and no step breaks it.
LEMMA RecordInit == RunInit => RecordInv
<1> SUFFICES ASSUME RunInit PROVE RecordInv
  OBVIOUS
<1>1. RunTyped
  BY TypedInit
<1>2. Len(msgs) = 0 /\ Len(log) = 0 /\ DOMAIN log = {} /\ pc = "before" /\ iter = 0 /\ bridge = NewBridge
      /\ ledger = [i \in 0..MaxIterations - 1 |-> 0]
  BY DEF RunInit
<1>3. bridge.usage = {} /\ bridge.asst = 0
  BY <1>2, NewBridgeFields
<1> QED
  BY <1>1, <1>2, <1>3 DEF RecordInv, TurnsInOrder, Booked, Paired, Written, WrittenOnce,
     UsageOfOwnCall, AccountedOnce

LEMMA RecordStep == RecordInv /\ [RunNext]_runVars => RecordInv'
<1> SUFFICES ASSUME RecordInv, [RunNext]_runVars PROVE RecordInv'
  OBVIOUS
<1>1. CASE RunNext
  BY <1>1, TypedStep, OrderStep, BookedStep, PairedStep, WrittenStep DEF RecordInv
<1>2. CASE UNCHANGED runVars
  <2>1. RunTyped'
    BY <1>2, TypedStep DEF RecordInv
  <2>2. UNCHANGED <<msgs, log, ledger, runs, iter, broken, bridge, pc, at>>
    BY <1>2 DEF runVars
  <2>3. TurnsInOrder' /\ Booked' /\ Paired'
    BY <2>2 DEF RecordInv, TurnsInOrder, Booked, Paired, Mark, Writing
  <2>4. Written'
    BY <2>1, <2>2, <2>3, LogKept DEF RecordInv
  <2> QED
    BY <2>1, <2>3, <2>4 DEF RecordInv
<1> QED
  BY <1>1, <1>2

\* The record and the books of a run agree, for any iterations, calls, hooks and resumptions.
THEOREM RunRecorded == RunSpec => []RecordInv
<1>1. RunInit => RecordInv
  BY RecordInit
<1>2. RecordInv /\ [RunNext]_runVars => RecordInv'
  BY RecordStep
<1> QED
  BY <1>1, <1>2, PTL DEF RunSpec

\* A run is well typed, and while no Append fails each message is written once, in order,
\* and the tokens of each written answer are added once (event_bridge.go:443).
THEOREM RecordKept == RunSpec => []RecordSound
<1>1. RecordInv => RecordSound
  BY DEF RecordInv, RecordSound, RunTyped, Written
<1> QED
  BY <1>1, RunRecorded, PTL

\* An assistant message is stored with the tokens of its own model call, though number and
\* booking are never compared (event_bridge.go:469).
THEOREM TokensOfOwnCall == RunSpec => []UsageOfOwnCall
<1>1. RecordInv => UsageOfOwnCall
  BY DEF RecordInv, Written
<1> QED
  BY <1>1, RunRecorded, PTL

-----------------------------------------------------------------------------
\* The numbers of the tool results.

\* The tool messages among the first n.
ToolsIn(s, n) == {i \in 1..n : s[i].role = "tool"}

Tools(n) == Cardinality(ToolsIn(msgs, n))

\* While every call left a record: a record has the number of its tool message, and, while
\* no write failed, the bridge has counted those it wrote.
Numbered ==
    ~astray =>
        /\ coord.seq = Tools(Len(msgs))
        /\ \A e \in coord.images : msgs[e.at].role = "tool" /\ e.seq = Tools(e.at - 1)
        /\ ~broken => bridge.tool = Tools(Mark)

\* While no write failed, no image is owed.
Paid == ~broken => bridge.image = 0

\* The tool messages are counted: one more, or none, with the next message,
LEMMA ToolsFinite ==
    ASSUME NEW s, NEW n \in Nat
    PROVE  IsFiniteSet(ToolsIn(s, n)) /\ Cardinality(ToolsIn(s, n)) \in Nat
<1>1. IsFiniteSet(1..n)
  BY FS_Interval
<1>2. ToolsIn(s, n) \in SUBSET (1..n)
  BY DEF ToolsIn
<1>3. IsFiniteSet(ToolsIn(s, n))
  BY <1>1, <1>2, FS_Subset
<1> QED
  BY <1>3, FS_CardinalityType

LEMMA ToolsNext ==
    ASSUME NEW s, NEW n \in Nat
    PROVE  Cardinality(ToolsIn(s, n + 1)) =
              Cardinality(ToolsIn(s, n)) + (IF s[n + 1].role = "tool" THEN 1 ELSE 0)
<1>4. IsFiniteSet(ToolsIn(s, n)) /\ Cardinality(ToolsIn(s, n)) \in Nat
  BY ToolsFinite
<1>5. n + 1 \notin ToolsIn(s, n)
  BY DEF ToolsIn
<1>1. IsFiniteSet(ToolsIn(s, n)) /\ Cardinality(ToolsIn(s, n)) \in Nat /\ n + 1 \notin ToolsIn(s, n)
  BY <1>4, <1>5
<1>2. CASE s[n + 1].role = "tool"
  <2>1. ToolsIn(s, n + 1) = ToolsIn(s, n) \cup {n + 1}
    BY <1>2 DEF ToolsIn
  <2>2. Cardinality(ToolsIn(s, n) \cup {n + 1}) = Cardinality(ToolsIn(s, n)) + 1
    BY <1>1, FS_AddElement
  <2> QED
    BY <1>2, <2>1, <2>2
<1>3. CASE s[n + 1].role # "tool"
  <2>1. ToolsIn(s, n + 1) = ToolsIn(s, n)
    BY <1>3 DEF ToolsIn
  <2> QED
    BY <1>1, <1>3, <2>1
<1> QED
  BY <1>2, <1>3

\* and a later one has the greater number.
LEMMA ToolsGrow ==
    ASSUME NEW s, NEW i \in Nat \ {0}, NEW j \in Nat, i < j, s[i].role = "tool"
    PROVE  Cardinality(ToolsIn(s, i - 1)) < Cardinality(ToolsIn(s, j - 1))
<1>1. i - 1 \in Nat /\ j - 1 \in Nat
  OBVIOUS
<1>2. /\ IsFiniteSet(ToolsIn(s, j - 1)) /\ Cardinality(ToolsIn(s, j - 1)) \in Nat
      /\ Cardinality(ToolsIn(s, i - 1)) \in Nat
  BY <1>1, ToolsFinite
<1>3. ToolsIn(s, i - 1) \subseteq ToolsIn(s, j - 1) /\ i \in ToolsIn(s, j - 1) /\ i \notin ToolsIn(s, i - 1)
  BY DEF ToolsIn
<1>4. /\ Cardinality(ToolsIn(s, i - 1)) <= Cardinality(ToolsIn(s, j - 1))
      /\ Cardinality(ToolsIn(s, i - 1)) # Cardinality(ToolsIn(s, j - 1))
  BY <1>2, <1>3, FS_Subset
<1> QED
  BY <1>2, <1>4

\* The count depends on the messages counted alone.
LEMMA ToolsSame ==
    ASSUME NEW s, NEW r, NEW n \in Nat, \A i \in 1..n : s[i] = r[i]
    PROVE  ToolsIn(s, n) = ToolsIn(r, n)
  BY DEF ToolsIn

\* The engine's context grows by a message.
LEMMA NumbersAppended ==
    ASSUME RunTyped, Numbered, ~astray, NEW m \in Spoken, msgs' = Append(msgs, m)
    PROVE  /\ Tools(Len(msgs))' = Tools(Len(msgs)) + (IF m.role = "tool" THEN 1 ELSE 0)
           /\ \A n \in 0..Len(msgs) : Tools(n)' = Tools(n)
           /\ \A e \in coord.images : msgs'[e.at].role = "tool" /\ e.seq = Tools(e.at - 1)'
<1>1. /\ Len(msgs') = Len(msgs) + 1 /\ Len(msgs) \in Nat
      /\ \A i \in 1..Len(msgs) : msgs'[i] = msgs[i]
      /\ msgs'[Len(msgs) + 1] = m
  BY Appending, TypedFacts
<1>2. ASSUME NEW n \in 0..Len(msgs) PROVE Tools(n)' = Tools(n)
  <2>1. ToolsIn(msgs, n) = ToolsIn(msgs', n)
    <3>1. n \in Nat /\ \A i \in 1..n : msgs[i] = msgs'[i]
      BY <1>1
    <3> QED
      BY <3>1, ToolsSame
  <2> QED
    BY <2>1 DEF Tools
<1>3. Tools(Len(msgs))' = Tools(Len(msgs)) + (IF m.role = "tool" THEN 1 ELSE 0)
  <2>1. Cardinality(ToolsIn(msgs', Len(msgs) + 1)) =
           Cardinality(ToolsIn(msgs', Len(msgs))) + (IF m.role = "tool" THEN 1 ELSE 0)
    BY <1>1, ToolsNext
  <2>2. ToolsIn(msgs', Len(msgs)) = ToolsIn(msgs, Len(msgs))
    BY <1>1, ToolsSame
  <2> QED
    BY <1>1, <2>1, <2>2 DEF Tools
<1>4. ASSUME NEW e \in coord.images PROVE msgs'[e.at].role = "tool" /\ e.seq = Tools(e.at - 1)'
  <2>1. e.at \in 1..Len(msgs) /\ e.at - 1 \in 0..Len(msgs)
    <3>1. e.at \in 1..Len(msgs)
      BY TypedFacts DEF RunTyped, RunTypeOK
    <3> QED
      BY <1>1, <3>1
  <2> QED
    BY <1>1, <1>2, <2>1 DEF Numbered
<1> QED
  BY <1>2, <1>3, <1>4

\* Every step keeps records and tool messages in step.
LEMMA NumberedStep ==
    ASSUME RunTyped, Numbered, RunNext PROVE Numbered'
<1>0. SUFFICES ASSUME ~astray' PROVE Numbered'
  BY DEF Numbered
<1>1. CASE Quiet
  BY <1>1 DEF Quiet, Numbered, Tools
<1>2. CASE WriteEnds
  <2>1. UNCHANGED <<msgs, broken, astray, coord>> /\ bridge'.tool = bridge.tool /\ Mark' = Mark
    BY <1>2, EndsSteps
  <2> QED
    BY <2>1 DEF Numbered, Tools
<1>3. CASE CallLLM
  <2>1. /\ UNCHANGED <<msgs, coord, broken, astray, at>> /\ pc = "calling" /\ pc' = "after"
        /\ bridge'.tool = bridge.tool /\ bridge'.len = bridge.len
    BY <1>3, CallFields DEF CallLLM
  <2> QED
    BY <2>1 DEF Numbered, Tools, Mark, Writing
<1>4. CASE AfterLLM
  <2>1. /\ SameBooks(bridge', bridge) /\ SameRecords(coord', coord) /\ Assistant \in Spoken
        /\ msgs' \in {msgs, Append(msgs, Assistant)} /\ pc = "after" /\ pc' \in {"ended", "tools"}
    BY <1>4, SpeakFields
  <2>2. UNCHANGED <<at, broken, astray>> /\ Assistant.role = "assistant"
    BY <1>4 DEF AfterLLM, Assistant
  <2>3. Mark' = Mark /\ bridge'.tool = bridge.tool /\ coord'.seq = coord.seq /\ coord'.images = coord.images
    BY <2>1, <2>2 DEF Mark, Writing, SameBooks, SameRecords
  <2>4. CASE msgs' = msgs
    BY <2>2, <2>3, <2>4 DEF Numbered, Tools
  <2>5. CASE msgs' = Append(msgs, Assistant)
    <3>1. /\ Tools(Len(msgs))' = Tools(Len(msgs)) + 0
          /\ \A n \in 0..Len(msgs) : Tools(n)' = Tools(n)
          /\ \A e \in coord.images : msgs'[e.at].role = "tool" /\ e.seq = Tools(e.at - 1)'
      BY <1>0, <2>1, <2>2, <2>5, NumbersAppended
    <3>2. Tools(Mark)' = Tools(Mark)
      BY <2>3, <3>1, MarkBound DEF Tools
    <3>3. Tools(Len(msgs)) \in Nat
      BY ToolsFinite, TypedFacts DEF Tools
    <3> QED
      BY <2>2, <2>3, <3>1, <3>2, <3>3 DEF Numbered
  <2> QED
    BY <2>1, <2>4, <2>5
<1>5. CASE RefuseCall \/ HookAnswers \/ RunTool
  <2>1. /\ pc = "tools" /\ UNCHANGED <<pc, bridge, at, broken>>
        /\ Tool \in Spoken /\ msgs' = Append(msgs, Tool)
    BY <1>5, AnswerFields
  <2>2. PICK image \in BOOLEAN : Answering(image)
    BY <1>5, AnswerFields
  <2>3. /\ coord'.seq = coord.seq + 1 /\ ~astray
        /\ coord'.images = IF image THEN coord.images \cup {[seq |-> coord.seq, at |-> Len(msgs) + 1]}
                           ELSE coord.images
    BY <1>0, <2>2 DEF Answering
  <2>4. Mark' = Mark /\ Tool.role = "tool"
    BY <2>1 DEF Mark, Writing, Tool
  <2>5. /\ Tools(Len(msgs))' = Tools(Len(msgs)) + 1
        /\ \A n \in 0..Len(msgs) : Tools(n)' = Tools(n)
        /\ \A e \in coord.images : msgs'[e.at].role = "tool" /\ e.seq = Tools(e.at - 1)'
    BY <2>1, <2>3, <2>4, NumbersAppended
  <2>6. Tools(Mark)' = Tools(Mark)
    BY <2>4, <2>5, MarkBound DEF Tools
  <2>7. ASSUME NEW e \in coord'.images
        PROVE  msgs'[e.at].role = "tool" /\ e.seq = Tools(e.at - 1)'
    <3>1. CASE e \in coord.images
      BY <2>5, <3>1
    <3>2. CASE e = [seq |-> coord.seq, at |-> Len(msgs) + 1]
      <4>1. /\ msgs'[Len(msgs) + 1] = Tool /\ Len(msgs) \in Nat
        BY <2>1, Appending, TypedFacts
      <4>2. e.seq = coord.seq /\ e.at = Len(msgs) + 1 /\ e.at - 1 = Len(msgs)
        BY <3>2, <4>1
      <4>3. ToolsIn(msgs', Len(msgs)) = ToolsIn(msgs, Len(msgs))
        BY <2>1, <4>1, Appending, ToolsSame
      <4> QED
        BY <2>3, <2>4, <4>1, <4>2, <4>3 DEF Numbered, Tools
    <3> QED
      BY <2>3, <2>7, <3>1, <3>2
  <2> QED
    BY <2>1, <2>3, <2>4, <2>5, <2>6, <2>7 DEF Numbered
<1>6. CASE WriteMessage
  <2> DEFINE i == at + 1
  <2>1. /\ i \in 1..Len(msgs) /\ UNCHANGED <<msgs, coord, astray>> /\ Writing /\ at \in Nat
        /\ bridge'.tool = bridge.tool + (IF msgs[i].role = "tool" THEN 1 ELSE 0)
        /\ WrittenWell(i) \/ WrittenIll(i)
    BY <1>6, WriteFields
  <2>2. CASE WrittenIll(i)
    BY <2>1, <2>2 DEF WrittenIll, Numbered, Tools
  <2>3. CASE WrittenWell(i)
    <3>1. Mark = at /\ Mark' = at + 1 /\ broken' = broken
      BY <2>1, <2>3 DEF Mark, WrittenWell, Writing
    <3>2. Tools(at + 1) = Tools(at) + (IF msgs[at + 1].role = "tool" THEN 1 ELSE 0)
      BY <2>1, ToolsNext DEF Tools
    <3> QED
      BY <1>0, <2>1, <3>1, <3>2 DEF Numbered, Tools
  <2> QED
    BY <2>1, <2>2, <2>3
<1>7. CASE Resume
  <2>1. /\ bridge'.tool = 0 /\ bridge'.len = 0 /\ msgs' = <<>> /\ pc' = "before" /\ coord' = NewCoord
    BY <1>7, ResumeFields DEF Resume
  <2>2. Len(msgs') = 0 /\ Mark' = 0 /\ coord'.seq = 0 /\ coord'.images = {}
    BY <2>1, NewCoordFields DEF Mark, Writing
  <2>3. ToolsIn(msgs', 0) = {}
    BY DEF ToolsIn
  <2> QED
    BY <2>1, <2>2, <2>3, FS_EmptySet DEF Numbered, Tools
<1> QED
  BY <1>1, <1>2, <1>3, <1>4, <1>5, <1>6, <1>7, QuietSteps DEF RunNext

\* Every step but a failed write leaves no image owed.
LEMMA PaidStep == ASSUME RunTyped, Paid, RunNext PROVE Paid'
<1>1. CASE Quiet
  BY <1>1 DEF Quiet, Paid
<1>2. CASE WriteEnds
  BY <1>2, EndsSteps DEF Paid
<1>3. CASE CallLLM
  BY <1>3, CallFields DEF Paid, CallLLM
<1>4. CASE AfterLLM
  BY <1>4, SpeakFields DEF Paid, AfterLLM, SameBooks
<1>5. CASE RefuseCall \/ HookAnswers \/ RunTool
  BY <1>5, AnswerFields DEF Paid
<1>6. CASE WriteMessage
  <2> DEFINE i == at + 1
  <2>1. i \in 1..Len(msgs) /\ (WrittenWell(i) \/ WrittenIll(i))
    BY <1>6, WriteFields
  <2> HIDE DEF i
  <2>2. CASE WrittenIll(i)
    BY <2>2 DEF WrittenIll, Paid
  <2>3. CASE WrittenWell(i)
    <3>1. /\ bridge'.image = IF WithImage(i) THEN 0 ELSE ImageOf(i)
          /\ broken' = broken
      BY <2>3 DEF WrittenWell
    <3>2. ~WithImage(i) => ImageOf(i) = 0 \/ ImageOf(i) = bridge.image
      BY <2>1, ImageFields DEF WithImage
    <3> QED
      BY <3>1, <3>2 DEF Paid
  <2> QED
    BY <2>1, <2>2, <2>3
<1>7. CASE Resume
  BY <1>7, ResumeFields DEF Paid
<1> QED
  BY <1>1, <1>2, <1>3, <1>4, <1>5, <1>6, <1>7, QuietSteps DEF RunNext

-----------------------------------------------------------------------------
\* The images.

\* A step that writes nothing keeps the images in their places.
LEMMA ImagesKept ==
    ASSUME RunTyped, ImageFollows, ~broken, ~astray, UNCHANGED log,
           \A e \in coord'.images : e \in coord.images \/ e.at = Len(msgs) + 1
    PROVE  ImageFollows'
<1>1. \A k \in DOMAIN log : log[k].at # Len(msgs) + 1
  BY TypedFacts DEF RunTyped, RunTypeOK
<1> QED
  BY <1>1 DEF ImageFollows

\* The image met with a tool message is that message's own.
LEMMA OwnImages ==
    ASSUME RunTyped, Numbered, Paid, ~broken, ~astray, Writing, NEW i \in 1..Len(msgs), i = Mark + 1
    PROVE  /\ WithImage(i) => ImageOf(i) = i
           /\ \A e \in coord.images : e.at = i => WithImage(i)
<1>1. /\ Mark \in Nat /\ i \in Nat /\ i - 1 = Mark /\ bridge.image = 0 /\ bridge.tool = Tools(i - 1)
  BY MarkBound DEF Paid, Numbered
<1>2. ASSUME NEW e \in coord.images
      PROVE  /\ e.at \in 1..Len(msgs) /\ e.at \in Nat \ {0} /\ e.seq = Tools(e.at - 1) /\ msgs[e.at].role = "tool"
             /\ Tools(e.at - 1) \in Nat /\ Tools(i - 1) \in Nat
  <2>1. e.at \in 1..Len(msgs)
    BY TypedFacts DEF RunTyped, RunTypeOK
  <2>2. e.at \in Nat \ {0} /\ e.at - 1 \in Nat
    BY <2>1, TypedFacts
  <2> QED
    BY <1>1, <2>1, <2>2, ToolsFinite DEF Numbered, Tools
<1>3. ASSUME NEW e \in coord.images, msgs[i].role = "tool", e.seq = bridge.tool PROVE e.at = i
  <2>1. e.at < i => Tools(e.at - 1) < Tools(i - 1)
    BY <1>1, <1>2, ToolsGrow DEF Tools
  <2>2. i < e.at => Tools(i - 1) < Tools(e.at - 1)
    <3>1. i \in Nat \ {0} /\ e.at \in Nat
      BY <1>1, <1>2, TypedFacts
    <3> QED
      BY <1>3, <3>1, ToolsGrow DEF Tools
  <2> QED
    BY <1>1, <1>2, <1>3, <2>1, <2>2
<1>4. ASSUME WithImage(i) PROVE ImageOf(i) = i
  <2>1. msgs[i].role = "tool" /\ ImageOf(i) # 0
    BY <1>4 DEF WithImage
  <2>2. ImageOf(i) \in OwnImage(i)
    BY <1>1, <2>1, ImageFields
  <2>3. PICK e \in coord.images : e.seq = bridge.tool /\ e.at = ImageOf(i)
    BY <2>2 DEF OwnImage
  <2> QED
    BY <1>3, <2>1, <2>3
<1>5. ASSUME NEW e \in coord.images, e.at = i PROVE WithImage(i)
  <2>1. msgs[i].role = "tool" /\ e.seq = bridge.tool
    BY <1>1, <1>2, <1>5
  <2>2. e.at \in OwnImage(i)
    BY <2>1 DEF OwnImage
  <2>3. ImageOf(i) \in 1..Len(msgs)
    BY <2>2, ImageFields
  <2> QED
    BY <2>1, <2>3 DEF WithImage
<1> QED
  BY <1>4, <1>5

\* Every step keeps the images in their places.
LEMMA FollowsStep ==
    ASSUME RunTyped, Numbered, Paid, ImageFollows, RunNext PROVE ImageFollows'
<1>0. SUFFICES ASSUME ~broken', ~astray' PROVE ImageFollows'
  BY DEF ImageFollows
<1>1. CASE Quiet
  <2>1. UNCHANGED <<log, broken, astray>> /\ coord'.images = coord.images
    BY <1>1 DEF Quiet
  <2> QED
    BY <1>0, <2>1, ImagesKept
<1>2. CASE WriteEnds
  <2>1. UNCHANGED <<log, broken, astray, coord>>
    BY <1>2, EndsSteps
  <2> QED
    BY <1>0, <2>1, ImagesKept
<1>3. CASE CallLLM
  <2>1. UNCHANGED <<log, broken, astray, coord>>
    BY <1>3 DEF CallLLM
  <2> QED
    BY <1>0, <2>1, ImagesKept
<1>4. CASE AfterLLM
  <2>1. UNCHANGED <<log, broken, astray>> /\ coord'.images = coord.images
    BY <1>4, SpeakFields DEF AfterLLM, SameRecords
  <2> QED
    BY <1>0, <2>1, ImagesKept
<1>5. CASE RefuseCall \/ HookAnswers \/ RunTool
  <2>1. UNCHANGED <<log, broken>>
    BY <1>5, AnswerFields
  <2>2. PICK image \in BOOLEAN : Answering(image)
    BY <1>5, AnswerFields
  <2>3. /\ ~astray
        /\ coord'.images = IF image THEN coord.images \cup {[seq |-> coord.seq, at |-> Len(msgs) + 1]}
                           ELSE coord.images
    BY <1>0, <2>2 DEF Answering
  <2>4. \A e \in coord'.images : e \in coord.images \/ e.at = Len(msgs) + 1
    BY <2>3
  <2> QED
    BY <1>0, <2>1, <2>3, <2>4, ImagesKept
<1>6. CASE WriteMessage
  <2> DEFINE i == at + 1
  <2>1. /\ i \in 1..Len(msgs) /\ UNCHANGED <<msgs, coord, astray>> /\ Writing /\ at \in Nat
        /\ WrittenWell(i)
    BY <1>0, <1>6, WriteFields DEF WrittenIll
  <2>2. Stored(i) /\ ~broken /\ ~astray /\ i = Mark + 1
    BY <1>0, <2>1 DEF WrittenWell, Mark
  <2> HIDE DEF i
  <2>3. /\ WithImage(i) => ImageOf(i) = i
        /\ \A e \in coord.images : e.at = i => WithImage(i)
    BY <2>1, <2>2, OwnImages
  <2> DEFINE n == Len(log)
             l == Len(log')
  <2>4. /\ n \in Nat /\ l \in Nat /\ DOMAIN log' = 1..l /\ DOMAIN log = 1..n
        /\ WithImage(i) => l = n + 2
        /\ n < l
    BY <2>1, <2>2, Grown, TypedFacts
  <2>10. \A k \in 1..n : log'[k] = log[k]
    BY <2>1, <2>2, Grown
  <2>11. \A k \in 1..l : k > n =>
              \/ k = n + 1 /\ log'[k] = Message(i)
              \/ k = n + 2 /\ WithImage(i) /\ log'[k] = Image(ImageOf(i))
    BY <2>1, <2>2, Grown
  <2>12. \A k \in 1..n : log[k].what = "image" =>
              k > 1 /\ log[k - 1].what = "message" /\ log[k - 1].at = log[k].at
    BY <2>2, <2>4 DEF ImageFollows
  <2>13. \A e \in coord.images : \A k \in 1..n :
              log[k].what = "message" /\ log[k].at = e.at =>
                  k < n /\ log[k + 1].what = "image" /\ log[k + 1].at = e.at
    BY <2>2, <2>4 DEF ImageFollows
  <2>5. /\ Message(i).at = i /\ Message(i).what = "message"
        /\ WithImage(i) => Image(ImageOf(i)).at = i /\ Image(ImageOf(i)).what = "image"
    BY <2>1, <2>3, EntryFields
  <2> HIDE DEF n, l
  <2>6. n + 1 \in 1..l /\ log'[n + 1].what = "message" /\ log'[n + 1].at = i
    <3>1. n + 1 \in 1..l /\ n + 1 > n /\ n + 1 # n + 2
      BY <2>4
    <3>2. log'[n + 1] = Message(i)
      BY <2>11, <3>1
    <3> QED
      BY <2>5, <3>1, <3>2
  <2>7. WithImage(i) => n + 2 \in 1..l /\ log'[n + 2].what = "image" /\ log'[n + 2].at = i
    <3>1. WithImage(i) => n + 2 \in 1..l /\ n + 2 > n /\ n + 1 # n + 2
      BY <2>4
    <3>2. WithImage(i) => log'[n + 2] = Image(ImageOf(i))
      BY <2>11, <3>1
    <3> QED
      BY <2>5, <3>1, <3>2
  <2>14. ASSUME NEW k \in 1..l
         PROVE  k \in 1..n \/ k = n + 1 \/ (k = n + 2 /\ WithImage(i))
    <3>1. k <= n => k \in 1..n
      BY <2>4
    <3>2. k <= n \/ k > n
      BY <2>4
    <3> QED
      BY <2>11, <3>1, <3>2
  <2>8. ASSUME NEW k \in 1..l, log'[k].what = "image"
        PROVE  k > 1 /\ log'[k - 1].what = "message" /\ log'[k - 1].at = log'[k].at
    <3>1. CASE k \in 1..n
      <4>1. log'[k] = log[k]
        BY <2>10, <3>1
      <4>2. k > 1 /\ log[k - 1].what = "message" /\ log[k - 1].at = log[k].at
        BY <2>8, <2>12, <3>1, <4>1
      <4>3. k - 1 \in 1..n
        BY <2>4, <3>1, <4>2
      <4> QED
        BY <2>10, <4>1, <4>2, <4>3
    <3>2. CASE k = n + 1
      BY <2>6, <2>8, <3>2
    <3>3. CASE k = n + 2 /\ WithImage(i)
      <4>1. k > 1 /\ k - 1 = n + 1
        BY <2>4, <3>3
      <4> QED
        BY <2>6, <2>7, <3>3, <4>1
    <3> QED
      BY <2>14, <3>1, <3>2, <3>3
  <2>9. ASSUME NEW e \in coord.images, NEW k \in 1..l, log'[k].what = "message", log'[k].at = e.at
        PROVE  k < l /\ log'[k + 1].what = "image" /\ log'[k + 1].at = e.at
    <3>1. CASE k \in 1..n
      <4>1. log'[k] = log[k]
        BY <2>10, <3>1
      <4>2. k < n /\ log[k + 1].what = "image" /\ log[k + 1].at = e.at
        BY <2>9, <2>13, <3>1, <4>1
      <4>3. k + 1 \in 1..n /\ k < l
        BY <2>4, <3>1, <4>2
      <4>4. log'[k + 1] = log[k + 1]
        BY <2>10, <4>3
      <4> QED
        BY <4>2, <4>3, <4>4
    <3>2. CASE k = n + 1
      <4>1. WithImage(i)
        BY <2>3, <2>6, <2>9, <3>2
      <4>2. k + 1 = n + 2 /\ k < l
        BY <2>4, <3>2, <4>1
      <4> QED
        BY <2>6, <2>7, <2>9, <3>2, <4>1, <4>2
    <3>3. CASE k = n + 2 /\ WithImage(i)
      BY <2>7, <2>9, <3>3
    <3> QED
      BY <2>14, <3>1, <3>2, <3>3
  <2>15. \A k \in DOMAIN log' : log'[k].what = "image" =>
              k > 1 /\ log'[k - 1].what = "message" /\ log'[k - 1].at = log'[k].at
    BY <2>4, <2>8
  <2>16. \A e \in coord'.images : \A k \in DOMAIN log' :
              log'[k].what = "message" /\ log'[k].at = e.at =>
                  k < Len(log') /\ log'[k + 1].what = "image" /\ log'[k + 1].at = e.at
    <3>1. coord' = coord /\ Len(log') = l
      BY <2>1 DEF l
    <3> QED
      BY <2>4, <2>9, <3>1
  <2> QED
    BY <2>15, <2>16, Zenon DEF ImageFollows
<1>7. CASE Resume
  <2>1. DOMAIN log' = {}
    BY <1>7 DEF Resume
  <2> QED
    BY <2>1 DEF ImageFollows
<1> QED
  BY <1>1, <1>2, <1>3, <1>4, <1>5, <1>6, <1>7, QuietSteps DEF RunNext

\* The inductive invariant of the images.
ImageInv == RunTyped /\ Numbered /\ Paid /\ ImageFollows

\* While every tool call leaves a record and no write fails, an image is stored right behind
\* the result it came with: record and message are matched by count (event_bridge.go:512).
THEOREM ImagesInPlace == RunSpec => []ImageFollows
<1>1. RunInit => ImageInv
  <2> SUFFICES ASSUME RunInit PROVE ImageInv
    OBVIOUS
  <2>1. msgs = <<>> /\ Len(msgs) = 0 /\ DOMAIN log = {} /\ at = 0 /\ coord = NewCoord /\ bridge = NewBridge
        /\ pc = "before"
    BY DEF RunInit
  <2>2. Mark = 0
    BY <2>1, NewBridgeFields DEF Mark, Writing
  <2>3. ToolsIn(msgs, 0) = {}
    BY DEF ToolsIn
  <2>4. Tools(0) = 0
    BY <2>3, FS_EmptySet DEF Tools
  <2> QED
    BY <2>1, <2>2, <2>4, NewBridgeFields, NewCoordFields, TypedInit
       DEF ImageInv, Numbered, Paid, ImageFollows
<1>2. ImageInv /\ [RunNext]_runVars => ImageInv'
  <2> SUFFICES ASSUME ImageInv, [RunNext]_runVars PROVE ImageInv'
    OBVIOUS
  <2>1. CASE RunNext
    BY <2>1, TypedStep, NumberedStep, PaidStep, FollowsStep DEF ImageInv
  <2>2. CASE UNCHANGED runVars
    <3>1. RunTyped'
      BY <2>2, TypedStep DEF ImageInv
    <3> QED
      BY <2>2, <3>1 DEF ImageInv, runVars, Numbered, Tools, Mark, Writing, Paid, ImageFollows
  <2> QED
    BY <2>1, <2>2
<1>3. ImageInv => ImageFollows
  BY DEF ImageInv
<1> QED
  BY <1>1, <1>2, <1>3, PTL DEF RunSpec

-----------------------------------------------------------------------------
\* The outcome.

\* Before the reason is derived: how the engine stopped has left its trace, and what the
\* bridge was suspended for is what the session holds.
Stopped ==
    /\ pc # "done" => reason = "none"
    /\ pc # "done" /\ bridge.suspend = "permission" => held = "permission"
    /\ pc # "done" /\ bridge.suspend = "ask_user" /\ ~child => held = "ask_user"
    /\ pc \in {"ended", "last", "closing"} =>
          \/ how \in {"max_iterations", "cancelled", "timeout", "failed"}
          \/ how = "hook_abort" /\ coord.abort
          \/ how = "hook_error" /\ coord.error
          \/ how = "suspended" /\ bridge.suspend # "none"
          \/ how = "finished" /\ bridge.answer

\* The advice given is the one the streak remembers, and a repeated error was advised on.
Advice ==
    /\ advised = (IF coord.dup.guided THEN 1 ELSE 0)
    /\ coord.dup.count >= 2 => coord.dup.guided

\* Every step keeps the traces.
LEMMA StoppedStep == ASSUME RunTyped, Stopped, RunNext PROVE Stopped'
<1>1. CASE BeforeLLM
  <2>1. pc = "before" /\ UNCHANGED <<reason, held, child>>
    BY <1>1 DEF BeforeLLM
  <2>2. bridge'.suspend = bridge.suspend
    BY <1>1, TypedFacts, CompleteFields DEF BeforeLLM
  <2>3. \/ pc' = "calling"
        \/ pc' = "ended" /\ how' = "max_iterations"
        \/ pc' = "ended" /\ how' = "hook_abort" /\ coord'.abort
        \/ pc' = "ended" /\ how' = "hook_error" /\ coord'.error
    BY <1>1, TypedFacts, AbortFields, FailFields DEF BeforeLLM, Stops
  <2> QED
    BY <2>1, <2>2, <2>3 DEF Stopped
<1>2. CASE CallLLM
  <2>1. pc = "calling" /\ pc' = "after" /\ UNCHANGED <<reason, held,
                                                       child>> /\ bridge'.suspend = bridge.suspend
    BY <1>2, CallFields DEF CallLLM
  <2> QED
    BY <2>1 DEF Stopped
<1>3. CASE LLMFails
  <2>1. /\ pc = "calling" /\ pc' = "ended" /\ UNCHANGED <<reason, held, child>>
        /\ how' \in {"cancelled", "timeout", "failed"}
    BY <1>3 DEF LLMFails, Stops
  <2>2. bridge'.suspend = bridge.suspend
    BY <1>3, TypedFacts, CompleteFields DEF LLMFails
  <2> QED
    BY <2>1, <2>2 DEF Stopped
<1>4. CASE AfterLLM
  <2>1. UNCHANGED <<reason, held, child>>
    BY <1>4 DEF AfterLLM
  <2>2. /\ pc = "after" /\ pc' \in {"ended", "tools"} /\ bridge'.suspend = bridge.suspend
        /\ pc' = "ended" => (\/ how' = "hook_abort" /\ coord'.abort
                             \/ how' = "hook_error" /\ coord'.error
                             \/ how' = "finished" /\ bridge'.answer)
    BY <1>4, SpeakFields
  <2> QED
    BY <2>1, <2>2 DEF Stopped
<1>5. CASE RefuseCall \/ HookAnswers \/ RunTool
  <2>1. pc = "tools" /\ UNCHANGED <<pc, child, bridge, held, reason>>
    BY <1>5, AnswerFields
  <2> QED
    BY <2>1 DEF Stopped
<1>6. ASSUME NEW kind \in {"permission", "ask_user"}, Suspend(kind) PROVE Stopped'
  <2>1. bridge'.suspend = kind /\ pc = "tools" /\ pc' = "ended" /\ how' = "suspended"
    BY <1>6, SuspendFields
  <2>2. /\ held' = IF kind = "ask_user" /\ child THEN held ELSE kind
        /\ UNCHANGED <<reason, child>>
    BY <1>6 DEF Suspend
  <2> QED
    BY <2>1, <2>2 DEF Stopped
<1>7. CASE Round
  <2>1. /\ pc = "tools" /\ pc' = "round" /\ UNCHANGED <<reason, held, child>>
    BY <1>7 DEF Round
  <2>2. bridge'.suspend = bridge.suspend
    BY <1>7, TypedFacts, CompleteFields DEF Round
  <2> QED
    BY <2>1, <2>2 DEF Stopped
<1>8. CASE LastWrite
  BY <1>8 DEF LastWrite, Stopped
<1>9. CASE WriteMessage
  <2> DEFINE i == at + 1
  <2>1. /\ Writing /\ bridge'.suspend = bridge.suspend /\ bridge'.answer = bridge.answer
        /\ UNCHANGED <<child, coord, held, how, reason>>
        /\ WrittenWell(i) \/ WrittenIll(i)
    BY <1>9, WriteFields DEF SameCourse
  <2>2. pc' # "done" /\ pc # "done" /\ (pc' \in {"ended", "last", "closing"} => pc = "last")
    BY <2>1 DEF WrittenWell, WrittenIll, GoesOn, Writing
  <2> QED
    BY <2>1, <2>2 DEF Stopped
<1>10. CASE WriteEnds
  <2>1. /\ Writing /\ GoesOn /\ bridge'.suspend = bridge.suspend /\ bridge'.answer = bridge.answer
    BY <1>10, EndsTyped
  <2>2. pc' # "done" /\ pc # "done" /\ (pc' \in {"ended", "last", "closing"} => pc = "last")
    BY <2>1 DEF GoesOn, Writing
  <2> QED
    BY <1>10, <2>1, <2>2 DEF WriteEnds, Stopped
<1>11. CASE Resume
  <2>1. pc = "closing" /\ pc' = "before" /\ reason' = reason
    BY <1>11 DEF Resume
  <2>2. bridge'.suspend = "none"
    BY <1>11, ResumeFields
  <2> QED
    BY <2>1, <2>2 DEF Stopped
<1>12. CASE GivesUp \/ Close
  BY <1>12 DEF GivesUp, Close, Ends, Stopped
<1> QED
  BY <1>1, <1>2, <1>3, <1>4, <1>5, <1>6, <1>7, <1>8, <1>9, <1>10, <1>11, <1>12 DEF RunNext

\* The reason is derived from the traces.
LEMMA ReasonStep == ASSUME RunTyped, Stopped, ReasonTrue, RunNext PROVE ReasonTrue'
<1>1. CASE pc' # "done"
  <2>1. Stopped'
    BY StoppedStep
  <2> QED
    BY <1>1, <2>1 DEF Stopped, ReasonTrue
<1>2. CASE GivesUp
  BY <1>2 DEF GivesUp, Ends, ReasonTrue
<1>3. CASE Close
  <2>1. /\ pc = "closing" /\ ~Waits /\ reason' = Reason /\ UNCHANGED <<bridge, coord, held, child, how>>
    BY <1>3 DEF Close, Ends
  <2>2. ASSUME Reason = "permission_pending" PROVE held = "permission"
    <3>1. bridge.suspend = "permission"
      BY <2>2 DEF Reason
    <3> QED
      BY <2>1, <3>1 DEF Stopped
  <2>3. ASSUME Reason = "ask_user_pending" PROVE held = "ask_user"
    <3>1. bridge.suspend = "ask_user"
      BY <2>3 DEF Reason
    <3> QED
      BY <2>1, <3>1 DEF Stopped, Waits, RunTyped, RunTypeOK
  <2>4. ASSUME Reason = "completed" PROVE bridge.answer
    <3>1. /\ ~coord.error /\ ~coord.abort
          /\ how \notin {"max_iterations", "cancelled", "timeout", "failed"}
          /\ bridge.suspend \notin {"permission", "ask_user"}
      BY <2>4 DEF Reason
    <3>2. bridge.suspend = "none"
      BY <3>1 DEF RunTyped, RunTypeOK
    <3> QED
      BY <2>1, <3>1, <3>2 DEF Stopped
  <2> QED
    BY <2>1, <2>2, <2>3, <2>4 DEF ReasonTrue
<1>4. pc' = "done" => GivesUp \/ Close
  <2>1. WriteMessage => pc' # "done"
    <3> SUFFICES ASSUME WriteMessage PROVE pc' # "done"
      OBVIOUS
    <3>1. Writing /\ (WrittenWell(at + 1) \/ WrittenIll(at + 1))
      BY WriteFields
    <3> QED
      BY <3>1 DEF WrittenWell, WrittenIll, GoesOn, Writing
  <2>2. AfterLLM => pc' # "done"
    BY SpeakFields
  <2>3. \A kind \in {"permission", "ask_user"} : Suspend(kind) => pc' # "done"
    BY DEF Suspend, Stops
  <2>4. RefuseCall \/ HookAnswers \/ RunTool => pc' # "done"
    BY AnswerFields
  <2>5. BeforeLLM \/ CallLLM \/ LLMFails \/ Round \/ LastWrite \/ WriteEnds \/ Resume => pc' # "done"
    BY DEF BeforeLLM, HookAborts, HookFails, Stops, CallLLM, LLMFails, Round, LastWrite, WriteEnds,
       GoesOn, Resume
  <2> QED
    BY <2>1, <2>2, <2>3, <2>4, <2>5 DEF RunNext
<1> QED
  BY <1>1, <1>2, <1>3, <1>4

\* Every step keeps the advice to one in a streak.
LEMMA AdviceStep == ASSUME RunTyped, Advice, RunNext PROVE Advice'
<1>1. ASSUME coord'.dup = coord.dup, advised' = advised PROVE Advice'
  BY <1>1 DEF Advice
<1>2. CASE BeforeLLM
  <2>1. coord'.dup = coord.dup
    BY <1>2, TypedFacts, AbortFields, FailFields DEF BeforeLLM
  <2> QED
    BY <1>1, <1>2, <2>1 DEF BeforeLLM
<1>3. CASE AfterLLM
  <2>1. coord'.dup = coord.dup
    BY <1>3, SpeakFields
  <2> QED
    BY <1>1, <1>3, <2>1 DEF AfterLLM
<1>4. ASSUME NEW result \in ToolResults, coord'.dup = Streak(coord.dup, result),
             advised' = Advised(coord.dup, result)
      PROVE  Advice'
  <2>1. Again(coord.dup, result) \in {1, 2} /\ coord.dup.guided \in BOOLEAN
    BY TypedFacts DEF Again, Coords
  <2>2. CASE ~Plain(result)
    <3>1. coord'.dup.guided = FALSE /\ coord'.dup.count = 0 /\ advised' = 0
      BY <1>4, <2>2 DEF Streak, NoStreak, Advised
    <3> QED
      BY <3>1 DEF Advice
  <2>3. CASE Plain(result)
    <3>1. /\ coord'.dup.guided = (coord.dup.guided \/ Again(coord.dup, result) >= 2)
          /\ coord'.dup.count = Again(coord.dup, result)
      <4> DEFINE now == coord.dup.guided \/ Again(coord.dup, result) >= 2
                 count == Again(coord.dup, result)
      <4>1. coord'.dup = [last |-> result, count |-> count, guided |-> now]
        BY <1>4, <2>3, Zenon DEF Streak
      <4> HIDE DEF now, count
      <4>2. coord'.dup.guided = now /\ coord'.dup.count = count
        BY <4>1
      <4> QED
        BY <4>2 DEF now, count
    <3>2. advised' = IF Again(coord.dup, result) >= 2 /\ ~coord.dup.guided THEN advised + 1 ELSE advised
      BY <1>4, <2>3 DEF Advised
    <3>3. CASE Again(coord.dup, result) = 1
      <4>1. (1 >= 2) = FALSE
        OBVIOUS
      <4>2. coord'.dup.guided = coord.dup.guided
        BY <2>1, <3>1, <3>3, <4>1
      <4> QED
        BY <3>1, <3>2, <3>3, <4>2 DEF Advice
    <3>4. CASE Again(coord.dup, result) = 2
      <4>1. coord'.dup.guided = TRUE
        <5>1. 2 >= 2
          OBVIOUS
        <5>2. (coord.dup.guided \/ Again(coord.dup, result) >= 2) = TRUE
          BY <3>4, <5>1, Zenon
        <5> QED
          BY <3>1, <5>2, Zenon
      <4>2. advised' = 1
        <5>1. CASE coord.dup.guided
          BY <3>2, <5>1 DEF Advice
        <5>2. CASE ~coord.dup.guided
          <6>1. advised = 0 /\ 2 >= 2
            BY <5>2 DEF Advice
          <6> QED
            BY <3>2, <3>4, <5>2, <6>1
        <5> QED
          BY <5>1, <5>2
      <4> QED
        BY <4>1, <4>2 DEF Advice
    <3> QED
      BY <2>1, <3>3, <3>4
  <2> QED
    BY <2>2, <2>3
<1>5. CASE RefuseCall \/ HookAnswers \/ RunTool
  BY <1>1, <1>4, <1>5, AnswerFields
<1>6. CASE Resume
  BY <1>6, NewCoordFields DEF Resume, Advice
<1>7. ASSUME coord' = coord, advised' = advised PROVE Advice'
  BY <1>1, <1>7
<1>8. CASE WriteMessage
  BY <1>7, <1>8, WriteFields
<1>9. CASE CallLLM \/ LLMFails \/ Round \/ LastWrite \/ WriteEnds \/ GivesUp \/ Close
  BY <1>7, <1>9 DEF CallLLM, LLMFails, Round, LastWrite, WriteEnds, GivesUp, Close, Ends
<1>10. ASSUME NEW kind \in {"permission", "ask_user"}, Suspend(kind) PROVE Advice'
  BY <1>7, <1>10 DEF Suspend
<1> QED
  BY <1>2, <1>3, <1>5, <1>6, <1>8, <1>9, <1>10 DEF RunNext

\* The inductive invariant of the outcome.
OutcomeInv == RunTyped /\ Stopped /\ ReasonTrue /\ Advice

\* The reason a run ends with is the one it stopped for, a session holds what its run was
\* suspended for, and advice is given once in a streak (loop.go, event_bridge.go).
THEOREM EndsAsTold == RunSpec => []OutcomeTrue
<1>1. RunInit => OutcomeInv
  <2> SUFFICES ASSUME RunInit PROVE OutcomeInv
    OBVIOUS
  <2>1. pc = "before" /\ reason = "none" /\ coord = NewCoord /\ bridge = NewBridge /\ advised = 0
    BY DEF RunInit
  <2> QED
    BY <2>1, NewBridgeFields, NewCoordFields, TypedInit DEF OutcomeInv, Stopped, ReasonTrue, Advice
<1>2. OutcomeInv /\ [RunNext]_runVars => OutcomeInv'
  <2> SUFFICES ASSUME OutcomeInv, [RunNext]_runVars PROVE OutcomeInv'
    OBVIOUS
  <2>1. CASE RunNext
    BY <2>1, TypedStep, StoppedStep, ReasonStep, AdviceStep DEF OutcomeInv
  <2>2. CASE UNCHANGED runVars
    <3>1. RunTyped'
      BY <2>2, TypedStep DEF OutcomeInv
    <3> QED
      BY <2>2, <3>1 DEF OutcomeInv, runVars, Stopped, ReasonTrue, Advice
  <2> QED
    BY <2>1, <2>2
<1>3. OutcomeInv => OutcomeTrue
  <2> SUFFICES ASSUME OutcomeInv PROVE OutcomeTrue
    OBVIOUS
  <2>1. coord.dup.guided \in BOOLEAN
    BY TypedFacts DEF OutcomeInv, Coords
  <2> QED
    BY <2>1 DEF OutcomeInv, OutcomeTrue, Advice, AdvisedOnce
<1> QED
  BY <1>1, <1>2, <1>3, PTL DEF RunSpec
=============================================================================
