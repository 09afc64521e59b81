---------------------------- MODULE BubbleProofs ----------------------------
(***************************************************************************)
(* What holds of the questions that bubble up for every number of          *)
(* sub-agent sessions, runs, requests and words, and every order in which  *)
(* words arrive and runs end.                                              *)
(***************************************************************************)
EXTENDS Bubble, FiniteSetTheorems, TLAPS

-----------------------------------------------------------------------------
\* The inductive invariant, part by part.

Answering == {"shown", "waiting", "applying", "gaveUp"}

(* A session has a run unless it is idle; a run belongs to one session and *)
(* is not started again.                                                   *)
RunsApart ==
    \A s \in Subs :
        /\ pc[s] = "idle" <=> run[s] = None
        /\ run[s] # None => run[s] \in used
        /\ \A x \in Subs : run[s] # None /\ run[x] = run[s] => x = s

(* A run answers for a request of its own session.                         *)
AskedOwn ==
    /\ \A r \in Requests : owner[r] # None => kind[r] \in Kinds
    /\ \A s \in Subs : pc[s] \in Answering
                         => asked[s] \in Requests /\ owner[asked[s]] = s

(* A closed channel belongs to a run that is over or about to be.          *)
ClosedOver ==
    \A c \in closed :
        /\ c[1] \in used
        /\ \A s \in Subs :
              run[s] = c[1] => pc[s] = "closingPermission" /\ c[2] = "ask"

(* The places of the waits are numbers: only finitely many sessions wait.  *)
FewWait == \A k \in Kinds : IsFiniteSet(Registered(k))

NoMoreComing == \A r \in Requests : coming[r] <= sent[r]

WellFormed ==
    /\ TypeOK /\ RunsApart /\ AskedOwn /\ RegistryExact
    /\ FewWait /\ NoMoreComing

(* A channel that has, or is about to get, the word for a sub-agent is     *)
(* used by no run of another one.                                          *)
Bound(w, c) ==
    /\ owner[w] # None
    /\ c[1] \in used
    /\ owner[w] \in Subs => \A s \in Subs : run[s] = c[1] => s = owner[w]

WordsKept ==
    /\ \A c \in Channels : buffer[c] # None => Bound(buffer[c], c)
    /\ \A m \in Mains : Executing(m) => Bound(exec[m].word, exec[m].to)

VerdictsKept ==
    /\ \A m \in Mains : pending[m] # None => owner[pending[m]] # None
    /\ \A r \in Requests :
          verdict[r] # None => owner[r] # None /\ owner[verdict[r]] # None
    /\ VerdictForSession

-----------------------------------------------------------------------------
\* What the helpers of the actions do.

(* A registration that is taken back is the channel's own, and no other    *)
(* registration changes (clearPermissionWait, clearAskWait).               *)
LEMMA ClearedRegistry ==
  ASSUME TypeOK, NEW s \in Subs, NEW k \in Kinds, Cleared(s, k)
  PROVE  /\ wait' \in [Kinds -> [Subs -> Runs \cup {None}]]
         /\ since' \in [Kinds -> [Subs -> Nat]]
         /\ wait[k][s] = run[s] => wait'[k][s] = None
         /\ wait[k][s] # run[s] => wait'[k][s] = wait[k][s]
         /\ \A j \in Kinds, x \in Subs : j # k \/ x # s => wait'[j][x] = wait[j][x]
<1>1. /\ wait \in [Kinds -> [Subs -> Runs \cup {None}]]
      /\ since \in [Kinds -> [Subs -> Nat]]
  BY DEF TypeOK
<1>2. CASE wait[k][s] # run[s]
  BY <1>1, <1>2 DEF Cleared
<1>3. CASE wait[k][s] = run[s]
  <2> DEFINE places == [x \in Subs |-> IF x = s THEN 0
                                      ELSE IF since[k][x] > since[k][s] THEN since[k][x] - 1
                                      ELSE since[k][x]]
  <2>1. /\ wait' = [wait EXCEPT ![k][s] = None]
        /\ since' = [since EXCEPT ![k] = places]
    BY <1>3 DEF Cleared
  <2>2. since[k] \in [Subs -> Nat]
    BY <1>1
  <2>3. places \in [Subs -> Nat]
    BY <2>2
  <2>4. since' \in [Kinds -> [Subs -> Nat]]
    <3> HIDE DEF places
    <3> QED BY <1>1, <2>1, <2>3
  <2> QED BY <1>1, <1>3, <2>1, <2>4
<1> QED BY <1>2, <1>3

(* The channel of a session that waits is the one of its run.              *)
LEMMA WaitIsOwn ==
  ASSUME RegistryExact, NEW k \in Kinds, NEW s \in Subs, wait[k][s] # None
  PROVE  /\ wait[k][s] = run[s] /\ Asking(s) = k
         /\ pc[s] \in {"waiting", "applying", "gaveUp"}
BY DEF RegistryExact

(* A run that is past its waits is registered for nothing.                 *)
LEMMA NotWaiting ==
  ASSUME RegistryExact, NEW s \in Subs, pc[s] \notin {"waiting", "applying", "gaveUp"}
  PROVE  \A k \in Kinds : wait[k][s] = None
BY DEF RegistryExact

LEMMA AskingKnown ==
  ASSUME WellFormed, NEW s \in Subs, pc[s] \in Answering
  PROVE  /\ asked[s] \in Requests /\ owner[asked[s]] = s /\ Asking(s) \in Kinds
         /\ run[s] \in Runs /\ run[s] \in used /\ Own(s) \in Channels
         /\ Own(s) = <<run[s], Asking(s)>>
<1>1. asked[s] \in Requests /\ owner[asked[s]] = s
  BY DEF WellFormed, AskedOwn
<1>2. Asking(s) \in Kinds
  BY <1>1, ConstantsAssumption DEF WellFormed, AskedOwn, Asking
<1>3. run[s] \in Runs /\ run[s] \in used
  BY DEF WellFormed, RunsApart, TypeOK, Answering
<1> QED BY <1>1, <1>2, <1>3 DEF Own, Channels

-----------------------------------------------------------------------------
\* Every step keeps the registry in order.

LEMMA WellFormedInit == Init => WellFormed
<1> SUFFICES ASSUME Init PROVE WellFormed
  OBVIOUS
<1> USE ConstantsAssumption DEF Init
<1>1. TypeOK
  BY DEF TypeOK, Phases, NoDelivery
<1>2. RunsApart /\ AskedOwn /\ NoMoreComing
  BY DEF RunsApart, AskedOwn, NoMoreComing, Answering
<1>3. RegistryExact
  BY DEF RegistryExact
<1>4. FewWait
  <2>1. \A k \in Kinds : Registered(k) = {}
    BY DEF Registered
  <2> QED BY <2>1, FS_EmptySet DEF FewWait
<1> QED BY <1>1, <1>2, <1>3, <1>4 DEF WellFormed

LEMMA TypeStep == WellFormed /\ [Next]_vars => TypeOK'
<1> SUFFICES ASSUME WellFormed, [Next]_vars PROVE TypeOK'
  OBVIOUS
<1>0. TypeOK
  BY DEF WellFormed
<1> USE <1>0, ConstantsAssumption DEF TypeOK, Goto, vars, runVars, channelVars,
        requestVars, wordVars
<1>1. ASSUME NEW s \in Subs, NEW n \in Runs, StartRun(s, n) PROVE TypeOK'
  BY <1>1 DEF StartRun, Phases
<1>2. ASSUME NEW s \in Subs, NEW r \in Requests, NEW k \in Kinds, Show(s, r, k)
      PROVE  TypeOK'
  BY <1>2 DEF Show, NewRequest, Phases
<1>3. ASSUME NEW s \in Subs, Register(s) PROVE TypeOK'
  <2>1. Asking(s) \in Kinds /\ run[s] \in Runs
    BY <1>3, AskingKnown DEF Register, Answering
  <2>2. 1 + Cardinality(Registered(Asking(s))) \in Nat
    BY <2>1, FS_CardinalityType DEF WellFormed, FewWait
  <2>3. /\ wait' = [wait EXCEPT ![Asking(s)][s] = run[s]]
        /\ since' = [since EXCEPT ![Asking(s)][s] = 1 + Cardinality(Registered(Asking(s)))]
        /\ pc' = [pc EXCEPT ![s] = "waiting"]
    BY <1>3 DEF Register, Registered
  <2>4. wait' \in [Kinds -> [Subs -> Runs \cup {None}]]
    BY <2>1, <2>3
  <2>5. since' \in [Kinds -> [Subs -> Nat]]
    <3> DEFINE n == 1 + Cardinality(Registered(Asking(s)))
    <3> HIDE DEF n
    <3> QED BY <2>1, <2>2, <2>3
  <2>6. pc' \in [Subs -> Phases]
    BY <2>3 DEF Phases
  <2> QED BY <1>3, <2>4, <2>5, <2>6 DEF Register
<1>4. ASSUME NEW s \in Subs, Receive(s) PROVE TypeOK'
  <2>1. asked[s] \in Requests /\ Own(s) \in Channels
    BY <1>4, AskingKnown DEF Receive, Answering
  <2>2. buffer[Own(s)] \in Requests
    BY <1>4, <2>1 DEF Receive
  <2>3. /\ verdict' \in [Requests -> Requests \cup {None}]
        /\ buffer' \in [Channels -> Requests \cup {None}]
        /\ pc' \in [Subs -> Phases]
    <3> HIDE DEF Channels
    <3> QED BY <1>4, <2>1, <2>2 DEF Receive, Phases
  <2> QED BY <1>4, <2>3 DEF Receive
<1>5. ASSUME NEW s \in Subs, GiveUp(s) PROVE TypeOK'
  BY <1>5 DEF GiveUp, Phases
<1>6. ASSUME NEW s \in Subs, Return(s) PROVE TypeOK'
  <2>1. asked[s] \in Requests /\ Asking(s) \in Kinds
    BY <1>6, AskingKnown DEF Return, Answering
  <2>2. /\ wait' \in [Kinds -> [Subs -> Runs \cup {None}]]
        /\ since' \in [Kinds -> [Subs -> Nat]]
    BY <1>6, <2>1, ClearedRegistry DEF Return
  <2>3. pc' \in [Subs -> Phases] /\ ended' \subseteq Requests
    BY <1>6, <2>1 DEF Return, Phases
  <2> QED BY <1>6, <2>2, <2>3 DEF Return
<1>7. ASSUME NEW s \in Subs, CloseAsk(s) PROVE TypeOK'
  <2>1. "ask" \in Kinds /\ run[s] \in Runs
    BY <1>7 DEF CloseAsk, Kinds, WellFormed, RunsApart
  <2>2. /\ wait' \in [Kinds -> [Subs -> Runs \cup {None}]]
        /\ since' \in [Kinds -> [Subs -> Nat]]
    BY <1>7, <2>1, ClearedRegistry DEF CloseAsk
  <2>3. closed' \subseteq Channels
    BY <1>7, <2>1 DEF CloseAsk, Closed, Channels
  <2> QED BY <1>7, <2>2, <2>3 DEF CloseAsk, Phases
<1>8. ASSUME NEW s \in Subs, ClosePermission(s) PROVE TypeOK'
  <2>1. "permission" \in Kinds /\ run[s] \in Runs
    BY <1>8 DEF ClosePermission, Kinds, WellFormed, RunsApart
  <2>2. /\ wait' \in [Kinds -> [Subs -> Runs \cup {None}]]
        /\ since' \in [Kinds -> [Subs -> Nat]]
    BY <1>8, <2>1, ClearedRegistry DEF ClosePermission
  <2>3. closed' \subseteq Channels
    BY <1>8, <2>1 DEF ClosePermission, Closed, Channels
  <2> QED BY <1>8, <2>2, <2>3 DEF ClosePermission, Phases
<1>9. ASSUME NEW s \in Subs, Finish(s) PROVE TypeOK'
  BY <1>9 DEF Finish, Phases
<1>10. ASSUME NEW s \in Subs, Stop(s) PROVE TypeOK'
  BY <1>10 DEF Stop
<1>11. ASSUME NEW r \in Requests, Send(r) PROVE TypeOK'
  <2>1. coming[r] <= sent[r]
    BY DEF WellFormed, NoMoreComing
  <2> QED BY <1>11, <2>1 DEF Send
<1>12. ASSUME NEW m \in Mains, RollBack(m) PROVE TypeOK'
  BY <1>12 DEF RollBack
<1>13. ASSUME NEW m \in Mains, Forward(m) PROVE TypeOK'
  <2>1. exec[m].word \in Requests /\ exec[m].to \in Channels
    BY <1>13 DEF Forward, Executing, NoDelivery
  <2> HIDE DEF Channels
  <2> QED BY <1>13, <2>1 DEF Forward
<1>14. ASSUME NEW m \in Mains, NEW r \in Requests, Suspend(m, r) PROVE TypeOK'
  <2>1. "permission" \in Kinds
    BY DEF Kinds
  <2> QED BY <1>14, <2>1 DEF Suspend, NewRequest
<1>15. ASSUME NEW m \in Mains, NEW r \in Requests, ResolveOwn(m, r)
      PROVE  TypeOK'
  BY <1>15 DEF ResolveOwn, Arrive
<1>16. ASSUME NEW m \in Mains, NEW r \in Requests, LookUp(m, r) PROVE TypeOK'
  <2>1. coming' \in [Requests -> 0..MaxWords]
    BY <1>16 DEF LookUp, Arrive
  <2>2. kind[r] \in Kinds
    BY <1>16 DEF LookUp, WellFormed, AskedOwn
  <2>3. ASSUME NEW s \in Recipients(r)
        PROVE  <<wait[kind[r]][s], kind[r]>> \in Channels
    <3>1. s \in Subs /\ wait[kind[r]][s] # None
      BY <2>3 DEF Recipients, Registered
    <3> QED BY <2>2, <3>1 DEF Channels
  <2>4. exec' \in [Mains -> [word : Requests, to : Channels] \cup {NoDelivery}]
    <3>1. CASE UNCHANGED exec
      BY <3>1
    <3>2. ASSUME NEW c \in Channels, exec' = [exec EXCEPT ![m] = [word |-> r, to |-> c]]
          PROVE  exec' \in [Mains -> [word : Requests, to : Channels] \cup {NoDelivery}]
      <4> HIDE DEF Channels, NoDelivery
      <4> QED BY <3>2
    <3>3. \/ UNCHANGED exec
          \/ \E s \in Recipients(r) : exec' = [exec EXCEPT ![m] =
                [word |-> r, to |-> <<wait[kind[r]][s], kind[r]>>]]
      BY <1>16 DEF LookUp
    <3> HIDE DEF TypeOK, Channels, NoDelivery
    <3> QED BY <2>3, <3>1, <3>2, <3>3
  <2> QED BY <1>16, <2>1, <2>4 DEF LookUp
<1>17. CASE UNCHANGED vars
  BY <1>17
<1> HIDE DEF TypeOK
<1> QED
  BY <1>1, <1>2, <1>3, <1>4, <1>5, <1>6, <1>7, <1>8, <1>9, <1>10, <1>11, <1>12,
     <1>13, <1>14, <1>15, <1>16, <1>17 DEF Next, RunStep

(* A run is a session's own while it lasts, and answers for its own        *)
(* requests only.                                                          *)
LEMMA RunsStep == WellFormed /\ [Next]_vars => RunsApart' /\ AskedOwn'
<1> SUFFICES ASSUME WellFormed, [Next]_vars PROVE RunsApart' /\ AskedOwn'
  OBVIOUS
<1>0. TypeOK /\ RunsApart /\ AskedOwn
  BY DEF WellFormed
<1> USE <1>0, ConstantsAssumption DEF TypeOK, RunsApart, AskedOwn, Answering, Goto, vars,
        runVars, channelVars, requestVars, wordVars
<1>1. ASSUME NEW s \in Subs, NEW n \in Runs, StartRun(s, n)
      PROVE  RunsApart' /\ AskedOwn'
  BY <1>1 DEF StartRun
<1>2. ASSUME NEW s \in Subs, NEW r \in Requests, NEW k \in Kinds, Show(s, r, k)
      PROVE  RunsApart' /\ AskedOwn'
  BY <1>2 DEF Show, NewRequest
<1>3. ASSUME NEW s \in Subs, Register(s) PROVE RunsApart' /\ AskedOwn'
  BY <1>3 DEF Register
<1>4. ASSUME NEW s \in Subs, Receive(s) PROVE RunsApart' /\ AskedOwn'
  BY <1>4 DEF Receive
<1>5. ASSUME NEW s \in Subs, GiveUp(s) PROVE RunsApart' /\ AskedOwn'
  BY <1>5 DEF GiveUp
<1>6. ASSUME NEW s \in Subs, Return(s) PROVE RunsApart' /\ AskedOwn'
  BY <1>6 DEF Return
<1>7. ASSUME NEW s \in Subs, CloseAsk(s) PROVE RunsApart' /\ AskedOwn'
  BY <1>7 DEF CloseAsk
<1>8. ASSUME NEW s \in Subs, ClosePermission(s) PROVE RunsApart' /\ AskedOwn'
  BY <1>8 DEF ClosePermission
<1>9. ASSUME NEW s \in Subs, Finish(s) PROVE RunsApart' /\ AskedOwn'
  BY <1>9 DEF Finish
<1>10. ASSUME NEW s \in Subs, Stop(s) PROVE RunsApart' /\ AskedOwn'
  BY <1>10 DEF Stop
<1>11. ASSUME NEW r \in Requests, Send(r) PROVE RunsApart' /\ AskedOwn'
  BY <1>11 DEF Send
<1>12. ASSUME NEW m \in Mains, RollBack(m) PROVE RunsApart' /\ AskedOwn'
  BY <1>12 DEF RollBack
<1>13. ASSUME NEW m \in Mains, Forward(m) PROVE RunsApart' /\ AskedOwn'
  BY <1>13 DEF Forward
<1>14. ASSUME NEW m \in Mains, NEW r \in Requests, Suspend(m, r)
      PROVE  RunsApart' /\ AskedOwn'
  <2>1. "permission" \in Kinds
    BY DEF Kinds
  <2> QED BY <1>14, <2>1 DEF Suspend, NewRequest
<1>15. ASSUME NEW m \in Mains, NEW r \in Requests, ResolveOwn(m, r)
      PROVE  RunsApart' /\ AskedOwn'
  BY <1>15 DEF ResolveOwn
<1>16. ASSUME NEW m \in Mains, NEW r \in Requests, LookUp(m, r)
      PROVE  RunsApart' /\ AskedOwn'
  BY <1>16 DEF LookUp
<1>17. CASE UNCHANGED vars
  BY <1>17
<1> HIDE DEF TypeOK, RunsApart, AskedOwn
<1> QED
  BY <1>1, <1>2, <1>3, <1>4, <1>5, <1>6, <1>7, <1>8, <1>9, <1>10, <1>11, <1>12,
     <1>13, <1>14, <1>15, <1>16, <1>17 DEF Next, RunStep

(* Nothing but its own run registers a session, and nothing but its own    *)
(* run takes the registration back.                                        *)
LEMMA RegistryStep == WellFormed /\ [Next]_vars => RegistryExact'
<1> SUFFICES ASSUME WellFormed, [Next]_vars PROVE RegistryExact'
  OBVIOUS
<1>0. TypeOK /\ RegistryExact
  BY DEF WellFormed
<1> USE <1>0, ConstantsAssumption DEF Goto, vars, runVars, channelVars, requestVars, wordVars
<1>a. ASSUME wait' = wait,
             \A s \in Subs :
                /\ pc'[s] \in {"waiting", "applying", "gaveUp"}
                     <=> pc[s] \in {"waiting", "applying", "gaveUp"}
                /\ pc[s] \in {"waiting", "applying", "gaveUp"}
                     => run'[s] = run[s] /\ Asking(s)' = Asking(s)
      PROVE  RegistryExact'
  BY <1>a DEF RegistryExact
<1>b. ASSUME NEW s \in Subs,
             \A x \in Subs \ {s} : pc'[x] = pc[x] /\ run'[x] = run[x] /\ Asking(x)' = Asking(x),
             \A k \in Kinds : /\ wait'[k][s] = IF pc'[s] \in {"waiting", "applying", "gaveUp"}
                                                 /\ Asking(s)' = k
                                               THEN run'[s] ELSE None
                              /\ \A x \in Subs \ {s} : wait'[k][x] = wait[k][x]
      PROVE  RegistryExact'
  BY <1>b DEF RegistryExact
<1>1. ASSUME NEW s \in Subs, NEW n \in Runs, StartRun(s, n)
      PROVE  RegistryExact'
  BY <1>a, <1>1 DEF StartRun, Asking, TypeOK
<1>2. ASSUME NEW s \in Subs, NEW r \in Requests, NEW k \in Kinds, Show(s, r, k)
      PROVE  RegistryExact'
  <2>1. \A x \in Subs \ {s} : pc[x] \in Answering => asked'[x] = asked[x] /\ kind'[asked[x]] = kind[asked[x]]
    BY <1>2 DEF Show, NewRequest, TypeOK, WellFormed, AskedOwn
  <2> QED BY <1>a, <1>2, <2>1 DEF Show, Asking, TypeOK, Answering
<1>3. ASSUME NEW s \in Subs, Register(s) PROVE RegistryExact'
  <2>1. Asking(s) \in Kinds
    BY <1>3, AskingKnown DEF Register, Answering
  <2>2. /\ wait' = [wait EXCEPT ![Asking(s)][s] = run[s]]
        /\ pc' = [pc EXCEPT ![s] = "waiting"]
        /\ \A x \in Subs : run'[x] = run[x] /\ Asking(x)' = Asking(x)
    BY <1>3 DEF Register, Asking
  <2>3. \A k \in Kinds : wait[k][s] = None
    BY <1>3, NotWaiting DEF Register
  <2>4. \A k \in Kinds : /\ wait'[k][s] = IF Asking(s) = k THEN run[s] ELSE None
                         /\ \A x \in Subs \ {s} : wait'[k][x] = wait[k][x]
    BY <2>1, <2>2, <2>3 DEF TypeOK
  <2>5. pc'[s] = "waiting" /\ \A x \in Subs \ {s} : pc'[x] = pc[x]
    BY <2>2 DEF TypeOK
  <2> QED BY <1>b, <2>2, <2>4, <2>5
<1>4. ASSUME NEW s \in Subs, Receive(s) PROVE RegistryExact'
  BY <1>a, <1>4 DEF Receive, Asking, TypeOK
<1>5. ASSUME NEW s \in Subs, GiveUp(s) PROVE RegistryExact'
  BY <1>a, <1>5 DEF GiveUp, Asking, TypeOK
<1>6. ASSUME NEW s \in Subs, Return(s) PROVE RegistryExact'
  <2>1. Asking(s) \in Kinds
    BY <1>6, AskingKnown DEF Return, Answering
  <2>2. wait[Asking(s)][s] = run[s]
    BY <1>6, <2>1 DEF Return, RegistryExact
  <2>3. \A k \in Kinds : k # Asking(s) => wait[k][s] = None
    BY DEF RegistryExact
  <2>4. /\ wait'[Asking(s)][s] = None
        /\ \A j \in Kinds, x \in Subs : j # Asking(s) \/ x # s => wait'[j][x] = wait[j][x]
    BY <1>6, <2>1, <2>2, ClearedRegistry DEF Return
  <2>5. /\ pc'[s] \in {"running", "closing"} /\ \A x \in Subs \ {s} : pc'[x] = pc[x]
        /\ \A x \in Subs : run'[x] = run[x] /\ Asking(x)' = Asking(x)
    BY <1>6 DEF Return, TypeOK, Asking
  <2>6. \A k \in Kinds : wait'[k][s] = None
    BY <2>3, <2>4
  <2> QED BY <1>b, <2>4, <2>5, <2>6
<1>7. ASSUME NEW s \in Subs, CloseAsk(s) PROVE RegistryExact'
  <2>1. "ask" \in Kinds
    BY DEF Kinds
  <2>2. \A j \in Kinds : wait[j][s] = None
    BY <1>7, NotWaiting DEF CloseAsk
  <2>3. wait["ask"][s] # run[s]
    BY <1>7, <2>1, <2>2 DEF CloseAsk, WellFormed, RunsApart
  <2>4. wait' = wait
    BY <1>7, <2>3 DEF CloseAsk, Cleared
  <2> QED BY <1>a, <1>7, <2>4 DEF CloseAsk, Asking, TypeOK
<1>8. ASSUME NEW s \in Subs, ClosePermission(s) PROVE RegistryExact'
  <2>1. "permission" \in Kinds
    BY DEF Kinds
  <2>2. \A j \in Kinds : wait[j][s] = None
    BY <1>8, NotWaiting DEF ClosePermission
  <2>3. wait["permission"][s] # run[s]
    BY <1>8, <2>1, <2>2 DEF ClosePermission, WellFormed, RunsApart
  <2>4. wait' = wait
    BY <1>8, <2>3 DEF ClosePermission, Cleared
  <2> QED BY <1>a, <1>8, <2>4 DEF ClosePermission, Asking, TypeOK
<1>9. ASSUME NEW s \in Subs, Finish(s) PROVE RegistryExact'
  BY <1>a, <1>9 DEF Finish, Asking, TypeOK
<1>10. ASSUME NEW s \in Subs, Stop(s) PROVE RegistryExact'
  BY <1>a, <1>10 DEF Stop, Asking, TypeOK
<1>11. ASSUME NEW r \in Requests, Send(r) PROVE RegistryExact'
  BY <1>a, <1>11 DEF Send, Asking, TypeOK
<1>12. ASSUME NEW m \in Mains, RollBack(m) PROVE RegistryExact'
  BY <1>a, <1>12 DEF RollBack, Asking, TypeOK
<1>13. ASSUME NEW m \in Mains, Forward(m) PROVE RegistryExact'
  BY <1>a, <1>13 DEF Forward, Asking, TypeOK
<1>14. ASSUME NEW m \in Mains, NEW r \in Requests, Suspend(m, r)
      PROVE  RegistryExact'
  <2>1. \A x \in Subs : pc[x] \in Answering => kind'[asked[x]] = kind[asked[x]]
    BY <1>14 DEF Suspend, NewRequest, TypeOK, WellFormed, AskedOwn
  <2> QED BY <1>a, <1>14, <2>1 DEF Suspend, Asking, TypeOK, Answering
<1>15. ASSUME NEW m \in Mains, NEW r \in Requests, ResolveOwn(m, r)
      PROVE  RegistryExact'
  BY <1>a, <1>15 DEF ResolveOwn, Asking, TypeOK
<1>16. ASSUME NEW m \in Mains, NEW r \in Requests, LookUp(m, r)
      PROVE  RegistryExact'
  BY <1>a, <1>16 DEF LookUp, Asking, TypeOK
<1>17. CASE UNCHANGED vars
  BY <1>a, <1>17 DEF Asking, TypeOK
<1> QED
  BY <1>1, <1>2, <1>3, <1>4, <1>5, <1>6, <1>7, <1>8, <1>9, <1>10, <1>11, <1>12,
     <1>13, <1>14, <1>15, <1>16, <1>17 DEF Next, RunStep

LEMMA CountsStep == WellFormed /\ [Next]_vars => FewWait' /\ NoMoreComing'
<1> SUFFICES ASSUME WellFormed, [Next]_vars PROVE FewWait' /\ NoMoreComing'
  OBVIOUS
<1>1. NoMoreComing'
  <2> USE DEF WellFormed, TypeOK, NoMoreComing, wordVars, Arrive
  <2>1. ASSUME NEW r \in Requests, Send(r) PROVE NoMoreComing'
    BY <2>1 DEF Send
  <2>2. ASSUME NEW m \in Mains, NEW r \in Requests, ResolveOwn(m, r) \/ LookUp(m, r)
        PROVE  NoMoreComing'
    <3>1. coming' = [coming EXCEPT ![r] = @ - 1] /\ sent' = sent
      BY <2>2 DEF ResolveOwn, LookUp
    <3> QED BY <3>1
  <2>3. ASSUME UNCHANGED <<sent, coming>> PROVE NoMoreComing'
    BY <2>3
  <2>4. ASSUME NEW s \in Subs, RunStep(s) \/ Finish(s) \/ Stop(s)
               \/ (\E n \in Runs : StartRun(s, n))
               \/ (\E r \in Requests, k \in Kinds : Show(s, r, k))
        PROVE  UNCHANGED <<sent, coming>>
    BY <2>4 DEF RunStep, Finish, Stop, StartRun, Show, Register, Receive, GiveUp, Return,
                CloseAsk, ClosePermission
  <2>5. ASSUME NEW m \in Mains, RollBack(m) \/ Forward(m) \/ (\E r \in Requests : Suspend(m, r))
        PROVE  UNCHANGED <<sent, coming>>
    BY <2>5 DEF RollBack, Forward, Suspend
  <2>6. CASE UNCHANGED vars
    BY <2>6 DEF vars
  <2> HIDE DEF WellFormed, NoMoreComing
  <2> QED BY <2>1, <2>2, <2>3, <2>4, <2>5, <2>6 DEF Next
<1>2. FewWait'
  <2>1. TypeOK
    BY DEF WellFormed
  <2>2. ASSUME wait' = wait PROVE FewWait'
    <3>1. \A k \in Kinds : Registered(k)' = Registered(k)
      BY <2>2 DEF Registered
    <3> QED BY <3>1 DEF WellFormed, FewWait
  <2>3. ASSUME NEW s \in Subs, Register(s) PROVE FewWait'
    <3>1. wait' = [wait EXCEPT ![Asking(s)][s] = run[s]]
      BY <2>3 DEF Register
    <3>2. \A k \in Kinds : Registered(k)' \subseteq Registered(k) \cup {s}
      BY <2>1, <3>1 DEF Registered, TypeOK
    <3>3. \A k \in Kinds : IsFiniteSet(Registered(k) \cup {s})
      BY FS_AddElement DEF WellFormed, FewWait
    <3> QED BY <3>2, <3>3, FS_Subset DEF FewWait
  <2>4. ASSUME NEW s \in Subs, NEW k \in Kinds, Cleared(s, k) PROVE FewWait'
    <3>1. \A j \in Kinds : Registered(j)' \subseteq Registered(j)
      BY <2>1, <2>4, ClearedRegistry DEF Registered
    <3> QED BY <3>1, FS_Subset DEF WellFormed, FewWait
  <2>5. ASSUME NEW s \in Subs, Return(s) PROVE FewWait'
    BY <2>4, <2>5, AskingKnown DEF Return, Answering
  <2>6. ASSUME NEW s \in Subs, CloseAsk(s) \/ ClosePermission(s) PROVE FewWait'
    BY <2>4, <2>6 DEF CloseAsk, ClosePermission, Kinds
  <2>7. ASSUME NEW s \in Subs, Receive(s) \/ GiveUp(s) \/ Finish(s) \/ Stop(s)
               \/ (\E n \in Runs : StartRun(s, n))
               \/ (\E r \in Requests, k \in Kinds : Show(s, r, k))
        PROVE  wait' = wait
    BY <2>7 DEF Receive, GiveUp, Finish, Stop, StartRun, Show, channelVars
  <2>8. ASSUME NEW m \in Mains, \/ RollBack(m)
                                \/ Forward(m)
                                \/ \E r \in Requests : Suspend(m, r) \/ ResolveOwn(m, r)
                                                         \/ LookUp(m, r)
        PROVE  wait' = wait
    BY <2>8 DEF RollBack, Forward, Suspend, ResolveOwn, LookUp, channelVars
  <2>9. ASSUME NEW r \in Requests, Send(r) PROVE wait' = wait
    BY <2>9 DEF Send, channelVars
  <2>10. CASE UNCHANGED vars
    BY <2>2, <2>10 DEF vars, channelVars
  <2> QED BY <2>2, <2>3, <2>5, <2>6, <2>7, <2>8, <2>9, <2>10 DEF Next, RunStep
<1> QED BY <1>1, <1>2

LEMMA WellFormedAlways == Spec => []WellFormed
<1>1. WellFormed /\ [Next]_vars => WellFormed'
  BY TypeStep, RunsStep, RegistryStep, CountsStep DEF WellFormed
<1> QED BY WellFormedInit, <1>1, PTL DEF Spec

-----------------------------------------------------------------------------
\* The registry.

LEMMA ClosedStep == WellFormed /\ ClosedOver /\ [Next]_vars => ClosedOver'
<1> SUFFICES ASSUME WellFormed, ClosedOver, [Next]_vars PROVE ClosedOver'
  OBVIOUS
<1>0. TypeOK /\ RunsApart
  BY DEF WellFormed
<1> USE <1>0, ConstantsAssumption DEF Goto, vars, runVars, channelVars, requestVars, wordVars
<1>a. ASSUME closed' = closed, used \subseteq used',
             \A s \in Subs : /\ run'[s] \in used => run'[s] = run[s]
                             /\ pc[s] = "closingPermission" => pc'[s] = pc[s]
      PROVE  ClosedOver'
  BY <1>a DEF ClosedOver
<1>b. ASSUME NEW s \in Subs, NEW k \in Kinds, closed' = closed \cup {<<run[s], k>>},
             pc[s] # "idle", used' = used,
             \A x \in Subs \ {s} : run'[x] = run[x] /\ pc'[x] = pc[x],
             \/ run'[s] = None
             \/ run'[s] = run[s] /\ pc'[s] = "closingPermission" /\ k = "ask"
      PROVE  ClosedOver'
  <2>1. run[s] # None /\ run[s] \in used /\ None \notin used
    BY <1>b DEF RunsApart, TypeOK
  <2>2. ASSUME NEW c \in closed
        PROVE  /\ c[1] \in used
               /\ \A x \in Subs : run'[x] = c[1] => pc'[x] = "closingPermission" /\ c[2] = "ask"
    <3>1. c[1] \in used /\ c[1] # None
          /\ \A x \in Subs : run[x] = c[1] => pc[x] = "closingPermission" /\ c[2] = "ask"
      BY <2>1, <2>2 DEF ClosedOver
    <3> QED BY <1>b, <3>1
  <2>3. \A x \in Subs : run'[x] = run[s] => pc'[x] = "closingPermission" /\ k = "ask"
    BY <1>b, <2>1 DEF RunsApart
  <2> QED BY <1>b, <2>1, <2>2, <2>3 DEF ClosedOver
<1>1. ASSUME NEW s \in Subs, NEW n \in Runs, StartRun(s, n) PROVE ClosedOver'
  BY <1>a, <1>1 DEF StartRun, TypeOK
<1>2. ASSUME NEW s \in Subs, NEW r \in Requests, NEW k \in Kinds, Show(s, r, k)
      PROVE  ClosedOver'
  BY <1>a, <1>2 DEF Show, TypeOK
<1>3. ASSUME NEW s \in Subs, Register(s) PROVE ClosedOver'
  BY <1>a, <1>3 DEF Register, TypeOK
<1>4. ASSUME NEW s \in Subs, Receive(s) PROVE ClosedOver'
  BY <1>a, <1>4 DEF Receive, TypeOK
<1>5. ASSUME NEW s \in Subs, GiveUp(s) PROVE ClosedOver'
  BY <1>a, <1>5 DEF GiveUp, TypeOK
<1>6. ASSUME NEW s \in Subs, Return(s) PROVE ClosedOver'
  BY <1>a, <1>6 DEF Return, TypeOK
<1>7. ASSUME NEW s \in Subs, CloseAsk(s) PROVE ClosedOver'
  BY <1>b, <1>7 DEF CloseAsk, Closed, Kinds, TypeOK
<1>8. ASSUME NEW s \in Subs, ClosePermission(s) PROVE ClosedOver'
  BY <1>b, <1>8 DEF ClosePermission, Closed, Kinds, TypeOK
<1>9. ASSUME NEW s \in Subs, Finish(s) PROVE ClosedOver'
  BY <1>a, <1>9 DEF Finish, TypeOK
<1>10. ASSUME NEW s \in Subs, Stop(s) PROVE ClosedOver'
  BY <1>a, <1>10 DEF Stop, TypeOK
<1>11. ASSUME NEW r \in Requests, Send(r) PROVE ClosedOver'
  BY <1>a, <1>11 DEF Send, TypeOK
<1>12. ASSUME NEW m \in Mains, RollBack(m) PROVE ClosedOver'
  BY <1>a, <1>12 DEF RollBack, TypeOK
<1>13. ASSUME NEW m \in Mains, Forward(m) PROVE ClosedOver'
  BY <1>a, <1>13 DEF Forward, TypeOK
<1>14. ASSUME NEW m \in Mains, NEW r \in Requests, Suspend(m, r)
      PROVE  ClosedOver'
  BY <1>a, <1>14 DEF Suspend, TypeOK
<1>15. ASSUME NEW m \in Mains, NEW r \in Requests, ResolveOwn(m, r)
      PROVE  ClosedOver'
  BY <1>a, <1>15 DEF ResolveOwn, TypeOK
<1>16. ASSUME NEW m \in Mains, NEW r \in Requests, LookUp(m, r)
      PROVE  ClosedOver'
  BY <1>a, <1>16 DEF LookUp, TypeOK
<1>17. CASE UNCHANGED vars
  BY <1>a, <1>17 DEF TypeOK
<1> QED
  BY <1>1, <1>2, <1>3, <1>4, <1>5, <1>6, <1>7, <1>8, <1>9, <1>10, <1>11, <1>12,
     <1>13, <1>14, <1>15, <1>16, <1>17 DEF Next, RunStep

(* The registry holds exactly the waits that are open, and hands out open  *)
(* channels only: for any number of sub-agents waiting at once, and        *)
(* however answers, timers, stops and the next runs cross.                 *)
THEOREM RegistryIsSound == Spec => []RegistrySound
<1>1. Init => ClosedOver
  BY DEF Init, ClosedOver
<1>2. WellFormed /\ ClosedOver => RegistrySound
  <2> SUFFICES ASSUME WellFormed, ClosedOver PROVE RegisteredOpen
    BY DEF WellFormed, RegistrySound
  <2> SUFFICES ASSUME NEW k \in Kinds, NEW s \in Subs, wait[k][s] # None,
                      <<wait[k][s], k>> \in closed
               PROVE  FALSE
    BY DEF RegisteredOpen
  <2>1. wait[k][s] = run[s] /\ pc[s] \in {"waiting", "applying", "gaveUp"}
    BY WaitIsOwn DEF WellFormed
  <2> QED BY <2>1 DEF ClosedOver
<1> QED BY <1>1, <1>2, ClosedStep, WellFormedAlways, PTL DEF Spec

-----------------------------------------------------------------------------
\* The words.

LEMMA BoundKept ==
  ASSUME NEW w, NEW c, Bound(w, c), owner'[w] = owner[w], used \subseteq used',
         \A s \in Subs : run'[s] \in used => run'[s] = run[s]
  PROVE  Bound(w, c)'
BY DEF Bound

(* Every word in a channel, or on its way to one, stays bound to it.       *)
LEMMA WordsStep == WellFormed /\ WordsKept /\ [Next]_vars => WordsKept'
<1> SUFFICES ASSUME WellFormed, WordsKept, [Next]_vars PROVE WordsKept'
  OBVIOUS
<1>0. TypeOK /\ RunsApart
  BY DEF WellFormed
<1> USE <1>0, ConstantsAssumption DEF Goto, vars, runVars, channelVars, requestVars, wordVars
<1>a. ASSUME used \subseteq used', \A s \in Subs : run'[s] \in used => run'[s] = run[s],
             \A r \in Requests : owner[r] # None => owner'[r] = owner[r],
             \A c \in Channels : buffer'[c] # None
               => buffer'[c] = buffer[c] \/ (buffer'[c] \in Requests /\ Bound(buffer'[c], c)),
             \A m \in Mains : Executing(m)'
               => \/ exec'[m] = exec[m]
                  \/ exec'[m].word \in Requests /\ Bound(exec'[m].word, exec'[m].to)
      PROVE  WordsKept'
  <2>1. ASSUME NEW w \in Requests, NEW c, Bound(w, c) PROVE Bound(w, c)'
    BY <1>a, <2>1, BoundKept DEF Bound
  <2>2. \A c \in Channels : buffer'[c] # None => buffer'[c] \in Requests /\ Bound(buffer'[c], c)
    BY <1>a DEF TypeOK, WordsKept
  <2>3. \A m \in Mains : exec'[m].word # None
           => exec'[m].word \in Requests /\ Bound(exec'[m].word, exec'[m].to)
    <3> SUFFICES ASSUME NEW m \in Mains, exec'[m].word # None
                 PROVE  exec'[m].word \in Requests /\ Bound(exec'[m].word, exec'[m].to)
      OBVIOUS
    <3>1. CASE exec'[m] = exec[m]
      <4>1. exec[m].word # None /\ exec[m] \in [word : Requests, to : Channels] \cup {NoDelivery}
        BY <3>1 DEF TypeOK
      <4>2. exec[m].word \in Requests
        BY <4>1 DEF NoDelivery
      <4> QED BY <3>1, <4>1, <4>2 DEF WordsKept, Executing
    <3> QED BY <1>a, <3>1 DEF Executing
  <2> QED BY <2>1, <2>2, <2>3 DEF WordsKept, Executing
<1>1. ASSUME NEW s \in Subs, NEW n \in Runs, StartRun(s, n) PROVE WordsKept'
  BY <1>a, <1>1 DEF StartRun, TypeOK
<1>2. ASSUME NEW s \in Subs, NEW r \in Requests, NEW k \in Kinds, Show(s, r, k)
      PROVE  WordsKept'
  BY <1>a, <1>2 DEF Show, NewRequest, TypeOK
<1>3. ASSUME NEW s \in Subs, Register(s) PROVE WordsKept'
  BY <1>a, <1>3 DEF Register, TypeOK
<1>4. ASSUME NEW s \in Subs, Receive(s) PROVE WordsKept'
  <2>1. Own(s) \in Channels
    BY <1>4, AskingKnown DEF Receive, Answering
  <2>2. buffer' = [buffer EXCEPT ![Own(s)] = None]
    BY <1>4 DEF Receive
  <2>3. \A c \in Channels : buffer'[c] # None => buffer'[c] = buffer[c]
    <3> HIDE DEF Channels
    <3> QED BY <2>1, <2>2 DEF TypeOK
  <2>4. UNCHANGED <<used, run, owner, exec>>
    BY <1>4 DEF Receive
  <2> QED BY <1>a, <2>3, <2>4
<1>5. ASSUME NEW s \in Subs, GiveUp(s) PROVE WordsKept'
  BY <1>a, <1>5 DEF GiveUp, TypeOK
<1>6. ASSUME NEW s \in Subs, Return(s) PROVE WordsKept'
  BY <1>a, <1>6 DEF Return, TypeOK
<1>7. ASSUME NEW s \in Subs, CloseAsk(s) PROVE WordsKept'
  BY <1>a, <1>7 DEF CloseAsk, TypeOK
<1>8. ASSUME NEW s \in Subs, ClosePermission(s) PROVE WordsKept'
  BY <1>a, <1>8 DEF ClosePermission, TypeOK
<1>9. ASSUME NEW s \in Subs, Finish(s) PROVE WordsKept'
  BY <1>a, <1>9 DEF Finish, TypeOK
<1>10. ASSUME NEW s \in Subs, Stop(s) PROVE WordsKept'
  BY <1>a, <1>10 DEF Stop, TypeOK
<1>11. ASSUME NEW r \in Requests, Send(r) PROVE WordsKept'
  BY <1>a, <1>11 DEF Send, TypeOK
<1>12. ASSUME NEW m \in Mains, RollBack(m) PROVE WordsKept'
  BY <1>a, <1>12 DEF RollBack, TypeOK
<1>13. ASSUME NEW m \in Mains, Forward(m) PROVE WordsKept'
  <2>1. exec[m].word \in Requests /\ exec[m].to \in Channels /\ Bound(exec[m].word, exec[m].to)
    BY <1>13 DEF Forward, Executing, NoDelivery, TypeOK, WordsKept
  <2>2. \A c \in Channels : buffer'[c] # None
          => buffer'[c] = buffer[c] \/ (buffer'[c] \in Requests /\ Bound(buffer'[c], c))
    <3>1. buffer' = buffer \/ buffer' = [buffer EXCEPT ![exec[m].to] = exec[m].word]
      BY <1>13 DEF Forward
    <3> HIDE DEF Channels
    <3> QED BY <2>1, <3>1 DEF TypeOK
  <2>3. \A o \in Mains : Executing(o)' => exec'[o] = exec[o]
    BY <1>13 DEF Forward, Executing, NoDelivery, TypeOK
  <2>4. UNCHANGED <<used, run, owner>>
    BY <1>13 DEF Forward
  <2> QED BY <1>a, <2>2, <2>3, <2>4
<1>14. ASSUME NEW m \in Mains, NEW r \in Requests, Suspend(m, r)
      PROVE  WordsKept'
  BY <1>a, <1>14 DEF Suspend, NewRequest, TypeOK
<1>15. ASSUME NEW m \in Mains, NEW r \in Requests, ResolveOwn(m, r)
      PROVE  WordsKept'
  BY <1>a, <1>15 DEF ResolveOwn, TypeOK
<1>16. ASSUME NEW m \in Mains, NEW r \in Requests, LookUp(m, r)
      PROVE  WordsKept'
  <2>1. UNCHANGED <<used, run, owner, buffer>>
    BY <1>16 DEF LookUp
  <2>2. CASE exec' = exec
    BY <1>a, <2>1, <2>2
  <2>3. CASE \E s \in Recipients(r) : exec' = [exec EXCEPT ![m] =
                [word |-> r, to |-> <<wait[kind[r]][s], kind[r]>>]]
    <3> DEFINE k == kind[r]
    <3>1. PICK s \in Recipients(r) : exec' = [exec EXCEPT ![m] =
                [word |-> r, to |-> <<wait[k][s], k>>]]
      BY <2>3
    <3>2. k \in Kinds /\ owner[r] # None
      BY <1>16 DEF LookUp, WellFormed, AskedOwn
    <3>3. s \in Subs /\ wait[k][s] # None /\ (owner[r] \in Subs => s = owner[r])
      BY <3>1 DEF Recipients, Registered
    <3>4. wait[k][s] = run[s]
      BY <3>2, <3>3, WaitIsOwn DEF WellFormed
    <3>5. Bound(r, <<wait[k][s], k>>)
      BY <3>2, <3>3, <3>4 DEF Bound, RunsApart
    <3>6. \A o \in Mains : exec'[o] = exec[o]
             \/ (exec'[o].word = r /\ exec'[o].to = <<wait[k][s], k>>)
      BY <3>1 DEF TypeOK
    <3> QED BY <1>a, <2>1, <3>5, <3>6
  <2> QED BY <1>16, <2>2, <2>3 DEF LookUp
<1>17. CASE UNCHANGED vars
  BY <1>a, <1>17
<1> QED
  BY <1>1, <1>2, <1>3, <1>4, <1>5, <1>6, <1>7, <1>8, <1>9, <1>10, <1>11, <1>12,
     <1>13, <1>14, <1>15, <1>16, <1>17 DEF Next, RunStep

LEMMA VerdictsStep == WellFormed /\ WordsKept /\ VerdictsKept /\ [Next]_vars => VerdictsKept'
<1> SUFFICES ASSUME WellFormed, WordsKept, VerdictsKept, [Next]_vars PROVE VerdictsKept'
  OBVIOUS
<1>0. TypeOK
  BY DEF WellFormed
<1> USE <1>0, ConstantsAssumption DEF Goto, vars, runVars, channelVars, requestVars, wordVars
<1>a. ASSUME \A r \in Requests : owner[r] # None => owner'[r] = owner[r],
             \A m \in Mains : pending'[m] # None
               => pending'[m] = pending[m] \/ owner'[pending'[m]] # None,
             \A r \in Requests : verdict'[r] # None
               => \/ verdict'[r] = verdict[r]
                  \/ /\ verdict'[r] \in Requests /\ owner[r] # None /\ owner[verdict'[r]] # None
                     /\ owner[verdict'[r]] \in Subs => owner[verdict'[r]] = owner[r]
      PROVE  VerdictsKept'
  <2>1. \A r \in Requests : verdict'[r] # None
           => /\ verdict'[r] \in Requests /\ owner[r] # None /\ owner[verdict'[r]] # None
              /\ owner[verdict'[r]] \in Subs => owner[verdict'[r]] = owner[r]
    BY <1>a DEF TypeOK, VerdictsKept, VerdictForSession
  <2>2. \A m \in Mains : pending'[m] # None => owner'[pending'[m]] # None
    BY <1>a DEF TypeOK, VerdictsKept
  <2>3. VerdictForSession'
    BY <1>a, <2>1 DEF VerdictForSession
  <2> QED BY <1>a, <2>1, <2>2, <2>3 DEF VerdictsKept
<1>1. ASSUME NEW s \in Subs, NEW n \in Runs, StartRun(s, n) PROVE VerdictsKept'
  BY <1>a, <1>1 DEF StartRun, TypeOK
<1>2. ASSUME NEW s \in Subs, NEW r \in Requests, NEW k \in Kinds, Show(s, r, k)
      PROVE  VerdictsKept'
  BY <1>a, <1>2 DEF Show, NewRequest, TypeOK
<1>3. ASSUME NEW s \in Subs, Register(s) PROVE VerdictsKept'
  BY <1>a, <1>3 DEF Register, TypeOK
<1>4. ASSUME NEW s \in Subs, Receive(s) PROVE VerdictsKept'
  <2> DEFINE w == buffer[Own(s)]
             a == asked[s]
  <2>1. a \in Requests /\ owner[a] = s /\ Own(s) \in Channels /\ Own(s) = <<run[s], Asking(s)>>
    BY <1>4, AskingKnown DEF Receive, Answering
  <2>2. w \in Requests /\ Bound(w, Own(s))
    <3> HIDE DEF Channels
    <3> QED BY <1>4, <2>1 DEF Receive, TypeOK, WordsKept
  <2>3. owner[w] # None /\ (owner[w] \in Subs => s = owner[w])
    BY <2>1, <2>2 DEF Bound
  <2>4. verdict' = [verdict EXCEPT ![a] = w] /\ UNCHANGED <<owner, pending>>
    BY <1>4 DEF Receive
  <2>5. \A r \in Requests : verdict'[r] = verdict[r] \/ (r = a /\ verdict'[r] = w)
    <3> HIDE DEF a, w
    <3> QED BY <2>4 DEF TypeOK
  <2>6. owner[a] # None
    BY <2>1
  <2> HIDE DEF a, w
  <2> QED BY <1>a, <2>1, <2>2, <2>3, <2>4, <2>5, <2>6
<1>5. ASSUME NEW s \in Subs, GiveUp(s) PROVE VerdictsKept'
  BY <1>a, <1>5 DEF GiveUp, TypeOK
<1>6. ASSUME NEW s \in Subs, Return(s) PROVE VerdictsKept'
  BY <1>a, <1>6 DEF Return, TypeOK
<1>7. ASSUME NEW s \in Subs, CloseAsk(s) PROVE VerdictsKept'
  BY <1>a, <1>7 DEF CloseAsk, TypeOK
<1>8. ASSUME NEW s \in Subs, ClosePermission(s) PROVE VerdictsKept'
  BY <1>a, <1>8 DEF ClosePermission, TypeOK
<1>9. ASSUME NEW s \in Subs, Finish(s) PROVE VerdictsKept'
  BY <1>a, <1>9 DEF Finish, TypeOK
<1>10. ASSUME NEW s \in Subs, Stop(s) PROVE VerdictsKept'
  BY <1>a, <1>10 DEF Stop, TypeOK
<1>11. ASSUME NEW r \in Requests, Send(r) PROVE VerdictsKept'
  BY <1>a, <1>11 DEF Send, TypeOK
<1>12. ASSUME NEW m \in Mains, RollBack(m) PROVE VerdictsKept'
  BY <1>a, <1>12 DEF RollBack, TypeOK
<1>13. ASSUME NEW m \in Mains, Forward(m) PROVE VerdictsKept'
  BY <1>a, <1>13 DEF Forward, TypeOK
<1>14. ASSUME NEW m \in Mains, NEW r \in Requests, Suspend(m, r)
      PROVE  VerdictsKept'
  BY <1>a, <1>14 DEF Suspend, NewRequest, TypeOK
<1>15. ASSUME NEW m \in Mains, NEW r \in Requests, ResolveOwn(m, r)
      PROVE  VerdictsKept'
  <2>1. owner[r] # None /\ owner[r] \notin Subs /\ pending[m] \in Requests
        /\ owner[pending[m]] # None
    BY <1>15 DEF ResolveOwn, TypeOK, VerdictsKept
  <2>2. /\ verdict' = [verdict EXCEPT ![pending[m]] = r] /\ owner' = owner
        /\ pending' = [pending EXCEPT ![m] = None]
    BY <1>15 DEF ResolveOwn
  <2> QED BY <1>a, <2>1, <2>2 DEF TypeOK
<1>16. ASSUME NEW m \in Mains, NEW r \in Requests, LookUp(m, r)
      PROVE  VerdictsKept'
  BY <1>a, <1>16 DEF LookUp, TypeOK
<1>17. CASE UNCHANGED vars
  BY <1>a, <1>17
<1> QED
  BY <1>1, <1>2, <1>3, <1>4, <1>5, <1>6, <1>7, <1>8, <1>9, <1>10, <1>11, <1>12,
     <1>13, <1>14, <1>15, <1>16, <1>17 DEF Next, RunStep

(* A word given for a sub-agent settles a request of that sub-agent or     *)
(* none, however late it comes and whichever runs have ended and begun     *)
(* meanwhile: a channel belongs to one run, and a run to one session.      *)
THEOREM VerdictsReachTheirSession == Spec => []VerdictForSession
<1>1. Init => WordsKept /\ VerdictsKept
  BY ConstantsAssumption DEF Init, WordsKept, VerdictsKept, VerdictForSession, Executing,
     NoDelivery
<1>2. VerdictsKept => VerdictForSession
  BY DEF VerdictsKept
<1> QED BY <1>1, <1>2, WordsStep, VerdictsStep, WellFormedAlways, PTL DEF Spec
=============================================================================
