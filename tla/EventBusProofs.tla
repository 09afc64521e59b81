--------------------------- MODULE EventBusProofs ---------------------------
(***************************************************************************)
(* What holds of the buses for every number of goroutines, channels and    *)
(* events, every chain of parents, and every order of joins and leaves.    *)
(***************************************************************************)
EXTENDS EventBus, FiniteSetTheorems, SequenceTheorems, TLAPS

-----------------------------------------------------------------------------
\* The inductive invariant, part by part.

Age == CHOOSE age \in [Buses -> 0..Cardinality(Buses)] :
          \A b \in Buses : Parent[b] # NoBus => age[Parent[b]] < age[b]

Typed ==
    /\ subs \in [Buses -> SUBSET (Channels \cup {Run})] /\ closed \in [Buses -> BOOLEAN]
    /\ writers \in [Buses -> SUBSET Ops]
    /\ chan \in [Channels -> {"none", "open", "closed"}]
    /\ buf \in [Channels -> Seq(Events)]
    /\ \A c \in Channels : Len(buf[c]) <= Buffer
    /\ seen \in [Channels -> [Emitters -> Nat]] /\ cuts \in [Channels -> 0..MaxLeaves]
    /\ event \in [Emitters -> Events]
    /\ \A e \in Emitters : event[e].from = e
    /\ calls \in [Emitters -> Seq(Frames)]
    /\ dead \subseteq Emitters /\ twice \in BOOLEAN

(* A subscriber's channel is open and on its own bus; one that waits to    *)
(* join has none yet.                                                      *)
Subscribed ==
    \A b \in Buses :
        /\ \A c \in subs[b] \cap Channels : At[c] = b /\ chan[c] = "open"
        /\ \A o \in writers[b] :
              o.op = "join" => At[o.who] = b /\ chan[o.who] = "none"

(* A goroutine climbs: below its innermost call of Emit are calls that ask *)
(* the filter of the run, which is telling the parent, on younger buses.   *)
ClimbsIn(s) ==
    \A i, j \in 1..Len(s) :
        i < j => s[i].step = "ask" /\ s[i].told /\ Age[s[j].on] < Age[s[i].on]
Climbs == \A e \in Emitters : ClimbsIn(calls[e])

(* What a call has left, and whom it sends to.                             *)
AsksOf(f, sb) ==
    /\ f.step = "lock" => f.left = {} /\ f.to = {}
    /\ f.step = "ask" => f.left \subseteq sb[f.on] /\ f.to \subseteq sb[f.on]
    /\ f.step = "send" => f.left \subseteq f.to /\ \A c \in f.to : At[c] = f.on
Asks == \A e \in Emitters : \A i \in 1..Len(calls[e]) : AsksOf(calls[e][i], subs)

(* No channel has seen more than was emitted.                              *)
Upto(q, sn, e, n) ==
    /\ sn[e] <= n
    /\ \A i \in 1..Len(q) : q[i].from = e => q[i].no <= n
Emitted == \A c \in Channels, e \in Emitters : Upto(buf[c], seen[c], e, event[e].no)

(* What a call has yet to do, on its bus and above it, no channel saw.     *)
ToCome(f, c) ==
    \/ ~f.told /\ Age[At[c]] < Age[f.on]
    \/ f.step # "send" /\ At[c] = f.on
    \/ f.step = "send" /\ c \in f.left
Fresh(q, sn, e, n) ==
    /\ sn[e] < n
    /\ \A i \in 1..Len(q) : q[i].from = e => q[i].no < n
Unsent ==
    \A e \in Emitters : \A i \in 1..Len(calls[e]) : \A c \in Channels :
        ToCome(calls[e][i], c) => Fresh(buf[c], seen[c], e, event[e].no)

InOrder(q, sn) ==
    \A i \in 1..Len(q) :
        /\ q[i].no > sn[q[i].from]
        /\ \A j \in 1..i - 1 : q[j].from = q[i].from => q[j].no < q[i].no
Ordered == \A c \in Channels : InOrder(buf[c], seen[c])

(* A critical event is with those the call is done with.                   *)
Has(q, sn, ev) == sn[ev.from] >= ev.no \/ \E i \in 1..Len(q) : q[i] = ev
Delivered ==
    \A e \in Emitters : \A i \in 1..Len(calls[e]) :
        calls[e][i].step = "send" /\ event[e].kind \in Critical
            => \A c \in calls[e][i].to \ calls[e][i].left :
                  Has(buf[c], seen[c], event[e])

BusInv == /\ Typed /\ Subscribed /\ Climbs /\ Asks /\ Emitted /\ Unsent
          /\ Ordered /\ Delivered /\ ~twice

-----------------------------------------------------------------------------
\* Lemmas on sequences and frames.

LEMMA AgeGrows ==
    /\ Age \in [Buses -> Nat]
    /\ \A b \in Buses : Parent[b] # NoBus
                          => Parent[b] \in Buses /\ Age[Parent[b]] < Age[b]
<1>1. /\ Age \in [Buses -> 0..Cardinality(Buses)]
      /\ \A b \in Buses : Parent[b] # NoBus => Age[Parent[b]] < Age[b]
  BY ChainAssumption, Zenon DEF Age
<1>2. \A b \in Buses : Parent[b] # NoBus => Parent[b] \in Buses
  BY BusAssumption
<1> QED  BY <1>1, <1>2

(* The innermost call ends, ...                                            *)
LEMMA TopRemoved ==
    ASSUME NEW S, NEW s \in Seq(S), s # <<>>
    PROVE  /\ Front(s) \in Seq(S) /\ Len(Front(s)) = Len(s) - 1
           /\ \A i \in 1..Len(s) - 1 : Front(s)[i] = s[i]
<1>1. Len(s) \in Nat \ {0}  BY EmptySeq, LenProperties
<1> DEFINE n == Len(s) - 1
<1>2. n \in Int /\ 1 \in Int /\ n >= 0  BY <1>1
<1>3. \A i \in 1..n : s[i] \in S  BY <1>1, ElementOfSeq
<1> HIDE DEF n
<1>4. /\ SubSeq(s, 1, n) \in Seq(S)
      /\ Len(SubSeq(s, 1, n)) = IF 1 <= n THEN n - 1 + 1 ELSE 0
      /\ \A i \in 1..n - 1 + 1 : SubSeq(s, 1, n)[i] = s[1 + i - 1]
  BY <1>2, <1>3, SubSeqProperties
<1>5. /\ SubSeq(s, 1, n) \in Seq(S) /\ Len(SubSeq(s, 1, n)) = n
      /\ \A i \in 1..n : SubSeq(s, 1, n)[i] = s[i]
  BY <1>2, <1>4
<1> QED  BY <1>5 DEF Front, n

(* ... is replaced, ...                                                    *)
LEMMA TopReplaced ==
    ASSUME NEW S, NEW s \in Seq(S), s # <<>>, NEW x \in S
    PROVE  /\ Append(Front(s), x) \in Seq(S)
           /\ Len(Append(Front(s), x)) = Len(s)
           /\ \A i \in 1..Len(s) :
                 Append(Front(s), x)[i] = IF i = Len(s) THEN x ELSE s[i]
<1>1. Len(s) \in Nat \ {0}  BY EmptySeq, LenProperties
<1>2. /\ Front(s) \in Seq(S) /\ Len(Front(s)) = Len(s) - 1
      /\ \A i \in 1..Len(s) - 1 : Front(s)[i] = s[i]
  BY TopRemoved
<1> QED  BY <1>1, <1>2, AppendProperties

(* ... or calls in its turn.                                               *)
LEMMA TopCalls ==
    ASSUME NEW S, NEW s \in Seq(S), s # <<>>, NEW x \in S, NEW y \in S
    PROVE  /\ Front(s) \o <<x, y>> \in Seq(S)
           /\ Len(Front(s) \o <<x, y>>) = Len(s) + 1
           /\ \A i \in 1..Len(s) + 1 :
                 (Front(s) \o <<x, y>>)[i] =
                     IF i = Len(s) + 1 THEN y ELSE IF i = Len(s) THEN x ELSE s[i]
<1>1. Len(s) \in Nat \ {0}  BY EmptySeq, LenProperties
<1>2. /\ Front(s) \in Seq(S) /\ Len(Front(s)) = Len(s) - 1
      /\ \A i \in 1..Len(s) - 1 : Front(s)[i] = s[i]
  BY TopRemoved
<1>3. <<x, y>> \in Seq(S) /\ Len(<<x, y>>) = 2 /\ <<x, y>>[1] = x /\ <<x, y>>[2] = y
  OBVIOUS
<1>4. /\ Front(s) \o <<x, y>> \in Seq(S)
      /\ Len(Front(s) \o <<x, y>>) = Len(s) - 1 + 2
      /\ \A i \in 1..Len(s) - 1 + 2 :
            (Front(s) \o <<x, y>>)[i] =
                IF i <= Len(s) - 1 THEN Front(s)[i] ELSE <<x, y>>[i - (Len(s) - 1)]
  BY <1>1, <1>2, <1>3, ConcatProperties
<1>5. ASSUME NEW i \in 1..Len(s) + 1
      PROVE  (Front(s) \o <<x, y>>)[i] =
                 IF i = Len(s) + 1 THEN y ELSE IF i = Len(s) THEN x ELSE s[i]
  <2>1. CASE i = Len(s) + 1
    <3>1. i - (Len(s) - 1) = 2 /\ ~(i <= Len(s) - 1) /\ i \in 1..Len(s) - 1 + 2
      BY <1>1, <2>1
    <3> QED  BY <3>1, <1>3, <1>4, <2>1
  <2>2. CASE i = Len(s)
    <3>1. i - (Len(s) - 1) = 1 /\ ~(i <= Len(s) - 1) /\ i \in 1..Len(s) - 1 + 2 /\ i # Len(s) + 1
      BY <1>1, <2>2
    <3> QED  BY <3>1, <1>3, <1>4, <2>2
  <2>3. CASE i < Len(s)
    BY <1>1, <1>2, <1>4, <2>3
  <2>4. i = Len(s) + 1 \/ i = Len(s) \/ i < Len(s)
    BY <1>1
  <2> QED  BY <2>1, <2>2, <2>3, <2>4
<1> QED  BY <1>1, <1>4, <1>5

(* The innermost call is a call, and the last of its goroutine's.          *)
LEMMA TopIs ==
    ASSUME Typed, NEW e \in Emitters, calls[e] # <<>>
    PROVE  /\ Len(calls[e]) \in Nat \ {0}
           /\ Len(calls[e]) \in 1..Len(calls[e])
           /\ Top(e) = calls[e][Len(calls[e])]
           /\ Top(e) \in Frames
           /\ calls[e] \in Seq(Frames)
           /\ Top(e).on \in Buses /\ Top(e).step \in {"lock", "ask", "send"}
           /\ Top(e).told \in BOOLEAN
           /\ Top(e).left \subseteq Channels \cup {Run} /\ Top(e).to \subseteq Channels
<1>1. calls[e] \in Seq(Frames)  BY DEF Typed
<1>2. Len(calls[e]) \in Nat \ {0}  BY <1>1, EmptySeq, LenProperties
<1>3. Top(e) = calls[e][Len(calls[e])]  BY DEF Top, Last
<1>4. calls[e][Len(calls[e])] \in Frames  BY <1>1, <1>2, ElementOfSeq
<1> QED  BY <1>1, <1>2, <1>3, <1>4 DEF Frames

-----------------------------------------------------------------------------
\* The steps of Emit.

(* A call goes on with less to do: nothing else is disturbed.              *)
LEMMA GoesOn ==
    ASSUME BusInv, NEW e \in Emitters, calls[e] # <<>>,
           NEW g \in Frames, g.on = Top(e).on, AsksOf(g, subs),
           \A c \in Channels : ToCome(g, c) => ToCome(Top(e), c),
           g.step = "send" /\ event[e].kind \in Critical
               => \A c \in g.to \ g.left : Has(buf[c], seen[c], event[e]),
           Becomes(e, g), UNCHANGED <<bus, buf, seen, event, dead>>
    PROVE  BusInv'
<1> DEFINE n == Len(calls[e])
<1>1. Typed  BY DEF BusInv
<1>2. n \in Nat \ {0} /\ n \in 1..n /\ Top(e) = calls[e][n] /\ calls[e] \in Seq(Frames)
  BY <1>1, TopIs
<1>3. calls' = [calls EXCEPT ![e] = Append(Front(calls[e]), g)]
  BY DEF Becomes
<1>4. calls \in [Emitters -> Seq(Frames)]  BY <1>1 DEF Typed
<1>5. /\ calls'[e] \in Seq(Frames) /\ Len(calls'[e]) = n
      /\ \A i \in 1..n : calls'[e][i] = IF i = n THEN g ELSE calls[e][i]
  BY <1>2, <1>3, <1>4, TopReplaced
<1>6. \A x \in Emitters : x # e => calls'[x] = calls[x]
  BY <1>3, <1>4
<1>7. calls' \in [Emitters -> Seq(Frames)]
  BY <1>3, <1>4, <1>5
<1>8. /\ UNCHANGED <<subs, closed, writers, chan, cuts, twice>>
      /\ UNCHANGED <<buf, seen, event, dead>>
  BY DEF bus
<1> HIDE DEF n
<1>9. Typed'  BY <1>1, <1>7, <1>8 DEF Typed
<1>10. Subscribed'  BY <1>8 DEF BusInv, Subscribed
<1>11. Climbs'
  <2>1. ASSUME NEW x \in Emitters, x # e PROVE ClimbsIn(calls'[x])
    BY <1>6, <2>1 DEF BusInv, Climbs
  <2>2. ClimbsIn(calls[e])  BY DEF BusInv, Climbs
  <2>3. ClimbsIn(calls'[e])
    BY <1>2, <1>5, <2>2 DEF ClimbsIn, n
  <2> QED  BY <2>1, <2>3 DEF Climbs
<1>12. Asks'
  <2>1. ASSUME NEW x \in Emitters, NEW i \in 1..Len(calls'[x])
        PROVE  AsksOf(calls'[x][i], subs)
    <3>1. CASE x # e  BY <1>6, <2>1, <3>1 DEF BusInv, Asks
    <3>2. CASE x = e  BY <1>2, <1>5, <2>1, <3>2 DEF BusInv, Asks, n
    <3> QED  BY <3>1, <3>2
  <2> QED  BY <1>8, <2>1 DEF Asks
<1>13. Emitted' /\ Ordered' /\ ~twice'  BY <1>8 DEF BusInv, Emitted, Ordered
<1>14. Unsent'
  <2>1. ASSUME NEW x \in Emitters, NEW i \in 1..Len(calls'[x]), NEW c \in Channels,
               ToCome(calls'[x][i], c)
        PROVE  Fresh(buf[c], seen[c], x, event[x].no)
    <3>1. CASE x # e  BY <1>6, <2>1, <3>1 DEF BusInv, Unsent
    <3>2. CASE x = e /\ i = n
      <4>1. ToCome(calls[e][n], c)  BY <1>2, <1>5, <2>1, <3>2
      <4> QED  BY <1>2, <3>2, <4>1 DEF BusInv, Unsent, n
    <3>3. CASE x = e /\ i # n
      <4>1. i \in 1..Len(calls[e]) /\ ToCome(calls[e][i], c)
        BY <1>2, <1>5, <2>1, <3>3 DEF n
      <4> QED  BY <3>3, <4>1 DEF BusInv, Unsent
    <3> QED  BY <3>1, <3>2, <3>3
  <2> QED  BY <1>8, <2>1 DEF Unsent
<1>15. Delivered'
  <2>1. ASSUME NEW x \in Emitters, NEW i \in 1..Len(calls'[x]),
               calls'[x][i].step = "send", event[x].kind \in Critical,
               NEW c \in calls'[x][i].to \ calls'[x][i].left
        PROVE  Has(buf[c], seen[c], event[x])
    <3>1. CASE x # e  BY <1>6, <2>1, <3>1 DEF BusInv, Delivered
    <3>2. CASE x = e /\ i = n
      BY <1>2, <1>5, <2>1, <3>2
    <3>3. CASE x = e /\ i # n
      <4>1. i \in 1..Len(calls[e]) /\ calls'[e][i] = calls[e][i]
        BY <1>2, <1>5, <2>1, <3>3 DEF n
      <4> QED  BY <2>1, <3>3, <4>1 DEF BusInv, Delivered
    <3> QED  BY <3>1, <3>2, <3>3
  <2> QED  BY <1>8, <2>1 DEF Delivered
<1> QED  BY <1>9, <1>10, <1>11, <1>12, <1>13, <1>14, <1>15 DEF BusInv

(* A call returns.                                                         *)
LEMMA GoesBack ==
    ASSUME BusInv, NEW e \in Emitters, calls[e] # <<>>,
           Returns(e), UNCHANGED <<bus, buf, seen, event, dead>>
    PROVE  BusInv'
<1>1. Typed  BY DEF BusInv
<1>2. Len(calls[e]) \in Nat \ {0} /\ calls[e] \in Seq(Frames)
  BY <1>1, TopIs
<1>3. calls' = [calls EXCEPT ![e] = Front(calls[e])]
  BY DEF Returns
<1>4. calls \in [Emitters -> Seq(Frames)]  BY <1>1 DEF Typed
<1>5. /\ calls'[e] \in Seq(Frames) /\ Len(calls'[e]) = Len(calls[e]) - 1
      /\ \A i \in 1..Len(calls[e]) - 1 : calls'[e][i] = calls[e][i]
  BY <1>2, <1>3, <1>4, TopRemoved
<1>6. \A x \in Emitters : /\ calls'[x] \in Seq(Frames)
                          /\ \A i \in 1..Len(calls'[x]) : /\ i \in 1..Len(calls[x])
                                                          /\ calls'[x][i] = calls[x][i]
  <2>1. \A x \in Emitters : x # e => calls'[x] = calls[x]  BY <1>3, <1>4
  <2>2. \A i \in 1..Len(calls'[e]) : i \in 1..Len(calls[e]) /\ calls'[e][i] = calls[e][i]
    BY <1>2, <1>5
  <2> QED  BY <1>4, <1>5, <2>1, <2>2
<1>7. calls' \in [Emitters -> Seq(Frames)]
  BY <1>3, <1>4, <1>5
<1>8. /\ UNCHANGED <<subs, closed, writers, chan, cuts, twice>>
      /\ UNCHANGED <<buf, seen, event, dead>>
  BY DEF bus
<1>9. Typed'  BY <1>1, <1>7, <1>8 DEF Typed
<1>10. Subscribed'  BY <1>8 DEF BusInv, Subscribed
<1>11. Climbs'  BY <1>6 DEF BusInv, Climbs, ClimbsIn
<1>12. Asks'  BY <1>6, <1>8 DEF BusInv, Asks
<1>13. Emitted' /\ Ordered' /\ ~twice'  BY <1>8 DEF BusInv, Emitted, Ordered
<1>14. Unsent'  BY <1>6, <1>8 DEF BusInv, Unsent
<1>15. Delivered'  BY <1>6, <1>8 DEF BusInv, Delivered
<1> QED  BY <1>9, <1>10, <1>11, <1>12, <1>13, <1>14, <1>15 DEF BusInv

(* A call of the parent: its bus is older than those below it, and what is *)
(* to come there was to come for the caller.                               *)
LEMMA TellsParent ==
    ASSUME BusInv, NEW e \in Emitters, TellParent(e)
    PROVE  BusInv'
<1> DEFINE n == Len(calls[e])
           x1 == [Top(e) EXCEPT !.told = TRUE]
           y1 == Called(Parent[Top(e).on])
<1>1. Typed  BY DEF BusInv
<1>2. /\ calls[e] # <<>> /\ Top(e).step = "ask" /\ ~Top(e).told
      /\ Parent[Top(e).on] # NoBus
  BY DEF TellParent, Runs
<1>3. /\ n \in Nat \ {0} /\ n \in 1..n /\ Top(e) = calls[e][n] /\ calls[e] \in Seq(Frames)
      /\ Top(e) \in Frames /\ Top(e).on \in Buses
  BY <1>1, <1>2, TopIs
<1>4. /\ Age \in [Buses -> Nat]
      /\ Parent[Top(e).on] \in Buses /\ Age[Parent[Top(e).on]] < Age[Top(e).on]
  BY <1>2, <1>3, AgeGrows
<1>5. x1 \in Frames /\ y1 \in Frames
  BY <1>3, <1>4 DEF Frames, Called
<1>6. /\ x1.on = Top(e).on /\ x1.step = "ask" /\ x1.told
      /\ x1.left = Top(e).left /\ x1.to = Top(e).to
      /\ y1.on = Parent[Top(e).on] /\ y1.step = "lock" /\ ~y1.told
      /\ y1.left = {} /\ y1.to = {}
  BY <1>2, <1>3 DEF Frames, Called
<1>7. calls' = [calls EXCEPT ![e] = Front(calls[e]) \o <<x1, y1>>]
  BY DEF TellParent, Top
<1>8. calls \in [Emitters -> Seq(Frames)]  BY <1>1 DEF Typed
<1> HIDE DEF n, x1, y1
<1>9. /\ calls'[e] \in Seq(Frames) /\ Len(calls'[e]) = n + 1
      /\ \A i \in 1..n + 1 : calls'[e][i] = IF i = n + 1 THEN y1 ELSE IF i = n THEN x1 ELSE calls[e][i]
  BY <1>2, <1>3, <1>5, <1>7, <1>8, TopCalls DEF n
<1>10. \A z \in Emitters : z # e => calls'[z] = calls[z]
  BY <1>7, <1>8
<1>11. calls' \in [Emitters -> Seq(Frames)]
  BY <1>7, <1>8, <1>9
<1>12. /\ UNCHANGED <<subs, closed, writers, chan, cuts, twice>>
       /\ UNCHANGED <<buf, seen, event, dead>>
  BY DEF bus, TellParent
<1>13. Typed'  BY <1>1, <1>11, <1>12 DEF Typed
<1>14. Subscribed'  BY <1>12 DEF BusInv, Subscribed
<1>15. Climbs'
  <2>1. ASSUME NEW z \in Emitters, z # e PROVE ClimbsIn(calls'[z])
    BY <1>10, <2>1 DEF BusInv, Climbs
  <2>2. ClimbsIn(calls[e])  BY DEF BusInv, Climbs
  <2>3. ASSUME NEW i \in 1..n + 1, NEW j \in 1..n + 1, i < j
        PROVE  /\ calls'[e][i].step = "ask" /\ calls'[e][i].told
               /\ Age[calls'[e][j].on] < Age[calls'[e][i].on]
    <3>1. CASE j # n + 1
      <4>1. i \in 1..n /\ j \in 1..n /\ i # n  BY <1>3, <2>3, <3>1
      <4>2. /\ calls[e][i].step = "ask" /\ calls[e][i].told
            /\ Age[calls[e][j].on] < Age[calls[e][i].on]
        BY <2>2, <2>3, <4>1 DEF ClimbsIn, n
      <4>3. calls'[e][j].on = calls[e][j].on
        BY <1>3, <1>6, <1>9, <4>1
      <4>4. calls'[e][i] = calls[e][i]
        BY <1>3, <1>9, <4>1
      <4> QED  BY <4>2, <4>3, <4>4
    <3>2. CASE j = n + 1 /\ i = n
      BY <1>3, <1>4, <1>6, <1>9, <2>3, <3>2
    <3>3. CASE j = n + 1 /\ i # n
      <4>1. i \in 1..n /\ i < n  BY <1>3, <2>3, <3>3
      <4>2. calls[e][i] \in Frames  BY <1>3, <4>1, ElementOfSeq DEF n
      <4>3. /\ calls[e][i].step = "ask" /\ calls[e][i].told
            /\ Age[calls[e][n].on] < Age[calls[e][i].on]
        BY <1>3, <2>2, <4>1 DEF ClimbsIn, n
      <4>4. /\ Age[Parent[Top(e).on]] \in Nat /\ Age[Top(e).on] \in Nat
            /\ Age[calls[e][i].on] \in Nat
        BY <1>3, <1>4, <4>2 DEF Frames
      <4>5. Age[Parent[Top(e).on]] < Age[calls[e][i].on]
        BY <1>3, <1>4, <4>3, <4>4
      <4> QED  BY <1>3, <1>6, <1>9, <3>3, <4>1, <4>3, <4>5
    <3> QED  BY <3>1, <3>2, <3>3
  <2>4. ClimbsIn(calls'[e])  BY <1>9, <2>3 DEF ClimbsIn
  <2> QED  BY <2>1, <2>4 DEF Climbs
<1>16. AsksOf(calls[e][n], subs)  BY <1>3 DEF BusInv, Asks, n
<1>17. Asks'
  <2>1. ASSUME NEW z \in Emitters, NEW i \in 1..Len(calls'[z])
        PROVE  AsksOf(calls'[z][i], subs)
    <3>1. CASE z # e  BY <1>10, <2>1, <3>1 DEF BusInv, Asks
    <3>2. CASE z = e /\ i = n + 1
      BY <1>6, <1>9, <2>1, <3>2 DEF AsksOf
    <3>3. CASE z = e /\ i = n
      <4>1. AsksOf(x1, subs)  BY <1>2, <1>3, <1>6, <1>16 DEF AsksOf
      <4>2. n \in 1..n + 1 /\ n # n + 1  BY <1>3
      <4>3. calls'[e][n] = x1  BY <1>9, <4>2
      <4> QED  BY <4>1, <4>3, <3>3
    <3>4. CASE z = e /\ i # n /\ i # n + 1
      <4>1. i \in 1..Len(calls[e]) /\ calls'[e][i] = calls[e][i]
        BY <1>3, <1>9, <2>1, <3>4 DEF n
      <4> QED  BY <3>4, <4>1 DEF BusInv, Asks
    <3> QED  BY <3>1, <3>2, <3>3, <3>4
  <2> QED  BY <1>12, <2>1 DEF Asks
<1>18. Emitted' /\ Ordered' /\ ~twice'  BY <1>12 DEF BusInv, Emitted, Ordered
<1>19. Unsent'
  <2>1. ASSUME NEW z \in Emitters, NEW i \in 1..Len(calls'[z]), NEW c \in Channels,
               ToCome(calls'[z][i], c)
        PROVE  Fresh(buf[c], seen[c], z, event[z].no)
    <3>1. CASE z # e  BY <1>10, <2>1, <3>1 DEF BusInv, Unsent
    <3>2. CASE z = e /\ i \in {n, n + 1}
      <4>1. calls'[e][n] = x1 /\ calls'[e][n + 1] = y1  BY <1>3, <1>9
      <4>2. At[c] \in Buses /\ Age[At[c]] \in Nat
        BY <1>4, BusAssumption
      <4>3. Age[Parent[Top(e).on]] \in Nat /\ Age[Top(e).on] \in Nat  BY <1>3, <1>4
      <4>4. ToCome(x1, c) \/ ToCome(y1, c)  BY <2>1, <3>2, <4>1
      <4>5. ToCome(Top(e), c)
        BY <1>2, <1>4, <1>6, <4>2, <4>3, <4>4 DEF ToCome
      <4> QED  BY <1>3, <3>2, <4>5 DEF BusInv, Unsent, n
    <3>3. CASE z = e /\ i # n /\ i # n + 1
      <4>1. i \in 1..Len(calls[e]) /\ ToCome(calls[e][i], c)
        BY <1>3, <1>9, <2>1, <3>3 DEF n
      <4> QED  BY <3>3, <4>1 DEF BusInv, Unsent
    <3> QED  BY <3>1, <3>2, <3>3
  <2> QED  BY <1>12, <2>1 DEF Unsent
<1>20. Delivered'
  <2>1. ASSUME NEW z \in Emitters, NEW i \in 1..Len(calls'[z]),
               calls'[z][i].step = "send", event[z].kind \in Critical,
               NEW c \in calls'[z][i].to \ calls'[z][i].left
        PROVE  Has(buf[c], seen[c], event[z])
    <3>1. CASE z # e  BY <1>10, <2>1, <3>1 DEF BusInv, Delivered
    <3>2. CASE z = e
      <4>1. i \in 1..Len(calls[e]) /\ calls'[e][i] = calls[e][i]
        BY <1>3, <1>6, <1>9, <2>1, <3>2 DEF n
      <4> QED  BY <2>1, <3>2, <4>1 DEF BusInv, Delivered
    <3> QED  BY <3>1, <3>2
  <2> QED  BY <1>12, <2>1 DEF Delivered
<1> QED  BY <1>13, <1>14, <1>15, <1>17, <1>18, <1>19, <1>20 DEF BusInv

(* An event goes into a channel: the call had it to do, so the channel has *)
(* not seen it, and no call below it has to do with that channel.          *)
LEMMA SendsOn ==
    ASSUME BusInv, NEW e \in Emitters, NEW c \in Channels,
           Runs(e, "send"), c \in Top(e).left, Len(buf[c]) < Buffer,
           buf' = [buf EXCEPT ![c] = Append(@, event[e])],
           Becomes(e, [Top(e) EXCEPT !.left = @ \ {c}]),
           UNCHANGED <<bus, seen, event, dead>>
    PROVE  BusInv'
<1> DEFINE n == Len(calls[e])
           m == Len(buf[c])
           g == [Top(e) EXCEPT !.left = @ \ {c}]
<1>1. Typed  BY DEF BusInv
<1>2. calls[e] # <<>> /\ Top(e).step = "send"
  BY DEF Runs
<1>3. /\ n \in Nat \ {0} /\ n \in 1..n /\ Top(e) = calls[e][n] /\ calls[e] \in Seq(Frames)
      /\ Top(e) \in Frames /\ Top(e).on \in Buses
      /\ Top(e).left \subseteq Channels \cup {Run} /\ Top(e).to \subseteq Channels
  BY <1>1, <1>2, TopIs
<1>4. /\ g \in Frames /\ g.on = Top(e).on /\ g.step = "send" /\ g.told = Top(e).told
      /\ g.left = Top(e).left \ {c} /\ g.to = Top(e).to
  BY <1>2, <1>3 DEF Frames
<1>5. calls' = [calls EXCEPT ![e] = Append(Front(calls[e]), g)]
  BY DEF Becomes
<1>6. /\ calls \in [Emitters -> Seq(Frames)] /\ buf \in [Channels -> Seq(Events)]
      /\ event[e] \in Events /\ event[e].from = e /\ event[e].no \in Nat
      /\ buf[c] \in Seq(Events) /\ m \in Nat
      /\ seen \in [Channels -> [Emitters -> Nat]]
      /\ \A x \in Emitters : event[x] \in Events /\ event[x].from = x /\ event[x].no \in Nat
  BY <1>1, LenProperties DEF Typed, Events
<1> HIDE DEF g
<1>7. /\ calls'[e] \in Seq(Frames) /\ Len(calls'[e]) = n
      /\ \A i \in 1..n : calls'[e][i] = IF i = n THEN g ELSE calls[e][i]
  BY <1>2, <1>3, <1>4, <1>5, <1>6, TopReplaced
<1>8. \A x \in Emitters : x # e => calls'[x] = calls[x]
  BY <1>5, <1>6
<1>9. calls' \in [Emitters -> Seq(Frames)]
  BY <1>5, <1>6, <1>7
<1>10. /\ buf'[c] = Append(buf[c], event[e])
       /\ buf'[c] \in Seq(Events) /\ Len(buf'[c]) = m + 1
       /\ \A i \in 1..m : buf'[c][i] = buf[c][i]
       /\ buf'[c][m + 1] = event[e]
  BY <1>6, AppendProperties
<1>11. \A d \in Channels : d # c => buf'[d] = buf[d]
  BY <1>6
<1>12. buf' \in [Channels -> Seq(Events)]
  BY <1>6, <1>10
<1>13. /\ UNCHANGED <<subs, closed, writers, chan, cuts, twice>>
       /\ UNCHANGED <<seen, event, dead>>
  BY DEF bus
<1> HIDE DEF n, m
<1>14. \A i \in 1..m + 1 : i \in 1..m \/ i = m + 1
  <2>1. m \in Nat  BY <1>6
  <2> QED  BY <2>1
<1>15. Buffer \in Nat /\ m + 1 <= Buffer
  BY <1>6, BusAssumption DEF m
<1>16. Typed'
  <2>1. \A d \in Channels : Len(buf'[d]) <= Buffer
    BY <1>1, <1>10, <1>11, <1>15 DEF Typed
  <2> QED  BY <1>1, <1>9, <1>12, <1>13, <2>1 DEF Typed
<1>17. Subscribed'  BY <1>13 DEF BusInv, Subscribed
<1>18. ClimbsIn(calls[e])  BY DEF BusInv, Climbs
<1>19. Climbs'
  <2>1. ASSUME NEW x \in Emitters, x # e PROVE ClimbsIn(calls'[x])
    BY <1>8, <2>1 DEF BusInv, Climbs
  <2>2. ClimbsIn(calls'[e])
    BY <1>3, <1>4, <1>7, <1>18 DEF ClimbsIn, n
  <2> QED  BY <2>1, <2>2 DEF Climbs
<1>20. AsksOf(calls[e][n], subs)  BY <1>3 DEF BusInv, Asks, n
<1>21. At[c] = Top(e).on
  BY <1>2, <1>3, <1>20 DEF AsksOf
<1>22. Asks'
  <2>1. AsksOf(g, subs)  BY <1>2, <1>3, <1>4, <1>20 DEF AsksOf
  <2>2. ASSUME NEW x \in Emitters, NEW i \in 1..Len(calls'[x])
        PROVE  AsksOf(calls'[x][i], subs)
    <3>1. CASE x # e  BY <1>8, <2>2, <3>1 DEF BusInv, Asks
    <3>2. CASE x = e  BY <1>3, <1>7, <2>1, <2>2, <3>2 DEF BusInv, Asks, n
    <3> QED  BY <3>1, <3>2
  <2> QED  BY <1>13, <2>2 DEF Asks
<1>23. Fresh(buf[c], seen[c], e, event[e].no)
  <2>1. ToCome(calls[e][n], c)  BY <1>2, <1>3 DEF ToCome
  <2> QED  BY <1>3, <2>1 DEF BusInv, Unsent, n
<1>24. \A i \in 1..m : buf[c][i] \in Events /\ buf[c][i].no \in Nat
  <2>1. ASSUME NEW i \in 1..m PROVE buf[c][i] \in Events
    BY <1>6, ElementOfSeq DEF m
  <2> QED  BY <2>1 DEF Events
<1>25. Emitted'
  <2>1. ASSUME NEW d \in Channels, NEW x \in Emitters
        PROVE  Upto(buf'[d], seen[d], x, event[x].no)
    <3>1. Upto(buf[d], seen[d], x, event[x].no)  BY DEF BusInv, Emitted
    <3>2. CASE d # c  BY <1>11, <3>1, <3>2
    <3>3. CASE d = c
      <4>1. ASSUME NEW i \in 1..m + 1, buf'[c][i].from = x
            PROVE  buf'[c][i].no <= event[x].no
        <5>1. CASE i \in 1..m  BY <1>10, <3>1, <3>3, <4>1, <5>1 DEF Upto, m
        <5>2. CASE i = m + 1  BY <1>6, <1>10, <4>1, <5>2
        <5> QED  BY <1>14, <5>1, <5>2
      <4> QED  BY <1>10, <3>1, <3>3, <4>1 DEF Upto
    <3> QED  BY <3>2, <3>3
  <2> QED  BY <1>13, <2>1 DEF Emitted
<1>26. Unsent'
  <2>1. ASSUME NEW x \in Emitters, NEW i \in 1..Len(calls'[x]), NEW d \in Channels,
               ToCome(calls'[x][i], d)
        PROVE  Fresh(buf'[d], seen[d], x, event[x].no)
    <3>1. i \in 1..Len(calls[x]) /\ ToCome(calls[x][i], d)
      <4>1. CASE x # e  BY <1>8, <2>1, <4>1
      <4>2. CASE x = e /\ i # n  BY <1>3, <1>7, <2>1, <4>2 DEF n
      <4>3. CASE x = e /\ i = n
        <5>1. ToCome(g, d)  BY <1>3, <1>7, <2>1, <4>3
        <5>2. ToCome(Top(e), d)  BY <1>2, <1>4, <5>1 DEF ToCome
        <5> QED  BY <1>3, <4>3, <5>2 DEF n
      <4> QED  BY <4>1, <4>2, <4>3
    <3>2. Fresh(buf[d], seen[d], x, event[x].no)  BY <3>1 DEF BusInv, Unsent
    <3>3. CASE d # c  BY <1>11, <3>2, <3>3
    <3>4. CASE d = c /\ x # e
      <4>1. ASSUME NEW k \in 1..m + 1, buf'[c][k].from = x
            PROVE  buf'[c][k].no < event[x].no
        <5>1. CASE k \in 1..m  BY <1>10, <3>2, <3>4, <4>1, <5>1 DEF Fresh, m
        <5>2. CASE k = m + 1  BY <1>6, <1>10, <3>4, <4>1, <5>2
        <5> QED  BY <1>14, <5>1, <5>2
      <4> QED  BY <1>10, <3>2, <3>4, <4>1 DEF Fresh
    <3>5. CASE d = c /\ x = e
      <4>1. Age[Top(e).on] \in Nat  BY <1>3, AgeGrows
      <4>2. CASE i = n
        <5>1. ToCome(g, c)  BY <1>3, <1>7, <2>1, <3>5, <4>2
        <5> QED  BY <1>4, <1>21, <4>1, <5>1 DEF ToCome
      <4>3. CASE i # n
        <5>1. i \in 1..n /\ n \in 1..n /\ i < n  BY <1>3, <3>1, <3>5, <4>3 DEF n
        <5>2. /\ calls[e][i].step = "ask" /\ calls[e][i].told
              /\ Age[calls[e][n].on] < Age[calls[e][i].on]
          BY <1>18, <5>1 DEF ClimbsIn, n
        <5>3. At[c] = calls[e][i].on
          BY <3>1, <3>5, <5>2 DEF ToCome
        <5> QED  BY <1>3, <1>21, <4>1, <5>2, <5>3
      <4> QED  BY <4>2, <4>3
    <3> QED  BY <3>3, <3>4, <3>5
  <2> QED  BY <1>13, <2>1 DEF Unsent
<1>27. Ordered'
  <2>1. ASSUME NEW d \in Channels PROVE InOrder(buf'[d], seen[d])
    <3>1. InOrder(buf[d], seen[d])  BY DEF BusInv, Ordered
    <3>2. CASE d # c  BY <1>11, <3>1, <3>2
    <3>3. CASE d = c
      <4>1. ASSUME NEW i \in 1..m + 1
            PROVE  /\ buf'[c][i].no > seen[c][buf'[c][i].from]
                   /\ \A j \in 1..i - 1 : buf'[c][j].from = buf'[c][i].from
                                            => buf'[c][j].no < buf'[c][i].no
        <5>1. CASE i \in 1..m
          <6>1. \A j \in 1..i - 1 : j \in 1..m  BY <1>6, <5>1
          <6> QED  BY <1>10, <3>1, <3>3, <5>1, <6>1 DEF InOrder, m
        <5>2. CASE i = m + 1
          <6>1. \A j \in 1..i - 1 : j \in 1..m  BY <1>6, <5>2
          <6>2. seen[c][e] \in Nat  BY <1>6
          <6> QED  BY <1>6, <1>10, <1>23, <5>2, <6>1, <6>2 DEF Fresh, m
        <5> QED  BY <1>14, <5>1, <5>2
      <4> QED  BY <1>10, <3>3, <4>1 DEF InOrder
    <3> QED  BY <3>2, <3>3
  <2> QED  BY <1>13, <2>1 DEF Ordered
<1>28. \A d \in Channels, x \in Emitters :
          Has(buf[d], seen[d], event[x]) => Has(buf'[d], seen[d], event[x])
  <2>1. \A i \in 1..m : i \in 1..m + 1  BY <1>6
  <2>2. \A x \in Emitters :
           Has(buf[c], seen[c], event[x]) => Has(buf'[c], seen[c], event[x])
    BY <1>10, <2>1 DEF Has, m
  <2> QED  BY <1>11, <2>2
<1>29. Has(buf'[c], seen[c], event[e])
  <2>1. m + 1 \in 1..Len(buf'[c])  BY <1>6, <1>10
  <2> QED  BY <1>10, <2>1 DEF Has
<1>30. Delivered'
  <2>1. ASSUME NEW x \in Emitters, NEW i \in 1..Len(calls'[x]),
               calls'[x][i].step = "send", event[x].kind \in Critical,
               NEW d \in calls'[x][i].to \ calls'[x][i].left
        PROVE  Has(buf'[d], seen[d], event[x])
    <3>1. calls'[x] \in Seq(Frames)  BY <1>9
    <3>2. calls'[x][i] \in Frames  BY <3>1, ElementOfSeq
    <3>3. d \in Channels  BY <3>2 DEF Frames
    <3>4. CASE x # e  BY <1>8, <1>28, <2>1, <3>3, <3>4 DEF BusInv, Delivered
    <3>5. CASE x = e /\ i = n
      <4>1. d \in g.to \ g.left  BY <1>3, <1>7, <2>1, <3>5
      <4>2. d = c \/ d \in Top(e).to \ Top(e).left  BY <1>4, <4>1
      <4>3. Has(buf[d], seen[d], event[e]) \/ d = c
        BY <1>2, <1>3, <2>1, <3>5, <4>2 DEF BusInv, Delivered, n
      <4> QED  BY <1>28, <1>29, <3>3, <3>5, <4>3
    <3>6. CASE x = e /\ i # n
      <4>1. i \in 1..Len(calls[e]) /\ calls'[e][i] = calls[e][i]
        BY <1>3, <1>7, <2>1, <3>6 DEF n
      <4>2. Has(buf[d], seen[d], event[e])
        BY <2>1, <3>6, <4>1 DEF BusInv, Delivered
      <4> QED  BY <1>28, <3>3, <3>6, <4>2
    <3> QED  BY <3>4, <3>5, <3>6
  <2> QED  BY <1>13, <2>1 DEF Delivered
<1>31. ~twice'  BY <1>13 DEF BusInv
<1> QED  BY <1>16, <1>17, <1>19, <1>22, <1>25, <1>26, <1>27, <1>30, <1>31 DEF BusInv

(* A goroutine emits: all it emitted before has a lower number.            *)
LEMMA Emits ==
    ASSUME BusInv, NEW e \in Emitters, Emit(e)
    PROVE  BusInv'
<1>1. Typed  BY DEF BusInv
<1>2. PICK k \in Kinds : event' = [event EXCEPT ![e] = [from |-> e, no |-> @.no + 1, kind |-> k]]
  BY DEF Emit
<1>3. /\ calls \in [Emitters -> Seq(Frames)] /\ event \in [Emitters -> Events]
      /\ event[e].no \in Nat /\ Home[e] \in Buses
  BY <1>1, BusAssumption DEF Typed, Events
<1> DEFINE f == Called(Home[e])
<1>4. /\ f \in Frames /\ f.step = "lock" /\ ~f.told /\ f.left = {} /\ f.to = {}
  BY <1>3 DEF Called, Frames
<1>5. calls' = [calls EXCEPT ![e] = <<f>>]
  BY DEF Emit
<1> HIDE DEF f
<1>6. /\ calls'[e] \in Seq(Frames) /\ Len(calls'[e]) = 1 /\ calls'[e][1] = f
      /\ \A x \in Emitters : x # e => calls'[x] = calls[x]
      /\ calls' \in [Emitters -> Seq(Frames)]
  BY <1>3, <1>4, <1>5
<1>7. /\ event' \in [Emitters -> Events] /\ event'[e].from = e
      /\ event'[e].no = event[e].no + 1
      /\ \A x \in Emitters : x # e => event'[x] = event[x]
  BY <1>2, <1>3 DEF Events
<1>8. /\ UNCHANGED <<subs, closed, writers, chan, cuts, twice>>
      /\ UNCHANGED <<buf, seen, dead>>
  BY DEF bus, Emit
<1>9. Typed'
  <2>1. \A x \in Emitters : event'[x].from = x  BY <1>1, <1>7 DEF Typed
  <2> QED  BY <1>1, <1>6, <1>7, <1>8, <2>1 DEF Typed
<1>10. Subscribed'  BY <1>8 DEF BusInv, Subscribed
<1>11. Climbs'
  <2>1. ASSUME NEW x \in Emitters, x # e PROVE ClimbsIn(calls'[x])
    BY <1>6, <2>1 DEF BusInv, Climbs
  <2>2. ClimbsIn(calls'[e])  BY <1>6 DEF ClimbsIn
  <2> QED  BY <2>1, <2>2 DEF Climbs
<1>12. Asks'
  <2>1. ASSUME NEW x \in Emitters, x # e, NEW i \in 1..Len(calls'[x])
        PROVE  AsksOf(calls'[x][i], subs)
    BY <1>6, <2>1 DEF BusInv, Asks
  <2>2. \A i \in 1..Len(calls'[e]) : AsksOf(calls'[e][i], subs)
    BY <1>4, <1>6 DEF AsksOf
  <2> QED  BY <1>8, <2>1, <2>2 DEF Asks
<1>13. Emitted'
  <2>1. ASSUME NEW c \in Channels, NEW x \in Emitters
        PROVE  Upto(buf[c], seen[c], x, event'[x].no)
    <3>1. Upto(buf[c], seen[c], x, event[x].no)  BY DEF BusInv, Emitted
    <3>2. CASE x # e  BY <1>7, <3>1, <3>2
    <3>3. CASE x = e
      <4>1. seen[c][e] \in Nat  BY <1>1 DEF Typed
      <4>2. ASSUME NEW i \in 1..Len(buf[c]) PROVE buf[c][i].no \in Nat
        <5>1. buf[c] \in Seq(Events)  BY <1>1 DEF Typed
        <5>2. buf[c][i] \in Events  BY <5>1, ElementOfSeq
        <5> QED  BY <5>2 DEF Events
      <4> QED  BY <1>3, <1>7, <3>1, <3>3, <4>1, <4>2 DEF Upto
    <3> QED  BY <3>2, <3>3
  <2> QED  BY <1>8, <2>1 DEF Emitted
<1>14. Unsent'
  <2>1. ASSUME NEW x \in Emitters, NEW i \in 1..Len(calls'[x]), NEW c \in Channels,
               ToCome(calls'[x][i], c)
        PROVE  Fresh(buf[c], seen[c], x, event'[x].no)
    <3>1. CASE x # e  BY <1>6, <1>7, <2>1, <3>1 DEF BusInv, Unsent
    <3>2. CASE x = e
      <4>1. Upto(buf[c], seen[c], e, event[e].no)  BY DEF BusInv, Emitted
      <4>2. seen[c][e] \in Nat  BY <1>1 DEF Typed
      <4>3. ASSUME NEW j \in 1..Len(buf[c]) PROVE buf[c][j].no \in Nat
        <5>1. buf[c] \in Seq(Events)  BY <1>1 DEF Typed
        <5>2. buf[c][j] \in Events  BY <5>1, ElementOfSeq
        <5> QED  BY <5>2 DEF Events
      <4> QED  BY <1>3, <1>7, <3>2, <4>1, <4>2, <4>3 DEF Upto, Fresh
    <3> QED  BY <3>1, <3>2
  <2> QED  BY <1>8, <2>1 DEF Unsent
<1>15. Ordered' /\ ~twice'  BY <1>8 DEF BusInv, Ordered
<1>16. Delivered'
  <2>1. ASSUME NEW x \in Emitters, NEW i \in 1..Len(calls'[x]),
               calls'[x][i].step = "send", event'[x].kind \in Critical,
               NEW c \in calls'[x][i].to \ calls'[x][i].left
        PROVE  Has(buf[c], seen[c], event'[x])
    <3>1. x # e  BY <1>4, <1>6, <2>1
    <3> QED  BY <1>6, <1>7, <2>1, <3>1 DEF BusInv, Delivered
  <2> QED  BY <1>8, <2>1 DEF Delivered
<1> QED  BY <1>9, <1>10, <1>11, <1>12, <1>13, <1>14, <1>15, <1>16 DEF BusInv

-----------------------------------------------------------------------------
\* The other calls.

(* What speaks of calls, events and channels' contents only.               *)
LEMMA SendersApart ==
    ASSUME BusInv, UNCHANGED <<calls, event, buf, seen>>
    PROVE  Climbs' /\ Emitted' /\ Unsent' /\ Ordered' /\ Delivered'
BY DEF BusInv, Climbs, Emitted, Unsent, Ordered, Delivered

(* A call that waits for the write lock; one that wants to join has no     *)
(* channel yet.                                                            *)
LEMMA Waits ==
    ASSUME BusInv, NEW b \in Buses, NEW o \in Ops, CallsFor(b, o),
           o.op = "join" => At[o.who] = b /\ chan[o.who] = "none",
           cuts' \in [Channels -> 0..MaxLeaves]
    PROVE  BusInv'
<1>1. /\ writers' = [writers EXCEPT ![b] = @ \cup {o}]
      /\ UNCHANGED <<subs, closed, chan, twice>> /\ UNCHANGED <<buf, seen, event, calls, dead>>
  BY DEF CallsFor
<1>2. writers \in [Buses -> SUBSET Ops]  BY DEF BusInv, Typed
<1>3. Typed'  BY <1>1, <1>2 DEF BusInv, Typed
<1>4. Subscribed'  BY <1>1, <1>2 DEF BusInv, Subscribed
<1>5. Asks'  BY <1>1 DEF BusInv, Asks
<1>6. ~twice'  BY <1>1 DEF BusInv
<1>7. Climbs' /\ Emitted' /\ Unsent' /\ Ordered' /\ Delivered'
  BY <1>1, SendersApart
<1> QED  BY <1>3, <1>4, <1>5, <1>6, <1>7 DEF BusInv

(* The call runs while no reader is on its bus: no snapshot is disturbed.  *)
LEMMA Writes ==
    ASSUME BusInv, NEW b \in Buses, Write(b)
    PROVE  BusInv'
<1>1. Typed /\ Subscribed /\ Asks /\ ~twice  BY DEF BusInv
<1>2. /\ subs \in [Buses -> SUBSET (Channels \cup {Run})] /\ closed \in [Buses -> BOOLEAN]
      /\ writers \in [Buses -> SUBSET Ops]
      /\ chan \in [Channels -> {"none", "open", "closed"}]
      /\ calls \in [Emitters -> Seq(Frames)]
  BY <1>1 DEF Typed
<1>3. PICK o \in writers[b] :
         /\ writers' = [writers EXCEPT ![b] = @ \ {o}]
         /\ \/ o.op = "join" /\ SubscribeFiltered(b, o.who)
            \/ o.op \in {"leave", "end"} /\ Unsubscribe(b, o.who)
            \/ o.op = "close" /\ Close(b)
  BY DEF Write
<1>4. Free(b) /\ UNCHANGED <<buf, seen, cuts, event, calls, dead>>
  BY DEF Write
<1>5. o \in Ops /\ (o.op = "join" => o.who \in Channels)
  BY <1>2 DEF Ops
<1>6. \A e \in Emitters : \A i \in 1..Len(calls[e]) : calls[e][i].step = "ask" => calls[e][i].on # b
  <2>1. ASSUME NEW e \in Emitters, NEW i \in 1..Len(calls[e]),
               calls[e][i].step = "ask", calls[e][i].on = b
        PROVE  FALSE
    <3>1. calls[e] \in Seq(Frames)  BY <1>2
    <3>2. i \in DOMAIN calls[e]  BY <3>1, LenProperties
    <3>3. calls[e][i] \in Range(calls[e])  BY <3>2 DEF Range
    <3>4. b \in Holds(e)  BY <2>1, <3>3 DEF Holds
    <3> QED  BY <1>4, <3>4 DEF Free, Readers
  <2> QED  BY <2>1
<1>7. \A d \in Buses : d # b => subs'[d] = subs[d] /\ writers'[d] = writers[d]
  BY <1>2, <1>3 DEF SubscribeFiltered, Unsubscribe, Close
<1>8. Asks'
  <2>1. ASSUME NEW e \in Emitters, NEW i \in 1..Len(calls[e]), AsksOf(calls[e][i], subs)
        PROVE  AsksOf(calls[e][i], subs')
    <3>1. calls[e] \in Seq(Frames)  BY <1>2
    <3>2. calls[e][i] \in Frames  BY <3>1, ElementOfSeq
    <3>3. calls[e][i].on \in Buses  BY <3>2 DEF Frames
    <3> QED  BY <1>6, <1>7, <2>1, <3>3 DEF AsksOf
  <2> QED  BY <1>1, <1>4, <2>1 DEF Asks
<1>9. Climbs' /\ Emitted' /\ Unsent' /\ Ordered' /\ Delivered'
  BY <1>4, SendersApart
<1>10. writers' \in [Buses -> SUBSET Ops] /\ writers'[b] = writers[b] \ {o}
  BY <1>2, <1>3
<1>11. CASE o.op = "join" /\ SubscribeFiltered(b, o.who)
  <2> DEFINE c == o.who
  <2>1. c \in Channels /\ At[c] = b /\ chan[c] = "none"
    BY <1>1, <1>3, <1>5, <1>11 DEF Subscribed
  <2>2. /\ chan' = [chan EXCEPT ![c] = IF closed[b] THEN "closed" ELSE "open"]
        /\ subs' = [subs EXCEPT ![b] = IF closed[b] THEN @ ELSE @ \cup {c}]
        /\ UNCHANGED <<closed, twice>>
    BY <1>11 DEF SubscribeFiltered
  <2>3. chan' \in [Channels -> {"none", "open", "closed"}]
    BY <1>2, <2>1, <2>2
  <2>4. subs' \in [Buses -> SUBSET (Channels \cup {Run})]
    BY <1>2, <2>1, <2>2
  <2>5. Typed'  BY <1>1, <1>4, <1>10, <2>2, <2>3, <2>4 DEF Typed
  <2>6. ASSUME NEW d \in Buses, NEW x \in subs'[d] \cap Channels
        PROVE  At[x] = d /\ chan'[x] = "open"
    <3>1. CASE x \in subs[d]
      <4>1. At[x] = d /\ chan[x] = "open"  BY <1>1, <2>6, <3>1 DEF Subscribed
      <4> QED  BY <1>2, <2>1, <2>2, <4>1
    <3>2. CASE x \notin subs[d]
      <4>1. d = b /\ x = c /\ ~closed[b]  BY <1>2, <2>2, <2>6, <3>2
      <4> QED  BY <1>2, <2>1, <2>2, <4>1
    <3> QED  BY <3>1, <3>2
  <2>7. ASSUME NEW d \in Buses, NEW p \in writers'[d], p.op = "join"
        PROVE  At[p.who] = d /\ chan'[p.who] = "none"
    <3>1. p \in writers[d] /\ p \in Ops  BY <1>2, <1>7, <1>10, <2>7
    <3>2. At[p.who] = d /\ chan[p.who] = "none" /\ p.who \in Channels
      BY <1>1, <2>7, <3>1 DEF Subscribed, Ops
    <3>3. p.who # c
      <4>1. SUFFICES ASSUME p.who = c PROVE FALSE  OBVIOUS
      <4>2. d = b  BY <2>1, <3>2, <4>1
      <4>3. \A q \in Ops : q.op = "join" => q = [op |-> "join", who |-> q.who]
        BY DEF Ops
      <4>4. p = o  BY <1>5, <1>11, <2>7, <3>1, <4>1, <4>3
      <4> QED  BY <1>10, <2>7, <4>2, <4>4
    <3> QED  BY <1>2, <2>1, <2>2, <3>2, <3>3
  <2>8. Subscribed'  BY <2>6, <2>7 DEF Subscribed
  <2> QED  BY <1>1, <1>8, <1>9, <2>2, <2>5, <2>8 DEF BusInv
<1>12. CASE \/ o.op \in {"leave", "end"} /\ Unsubscribe(b, o.who)
            \/ o.op = "close" /\ Close(b)
  <2>1. PICK cs \in SUBSET (subs[b] \cap Channels) : Shut(cs) /\ subs'[b] \cap cs = {}
    <3>1. CASE Unsubscribe(b, o.who)
      <4>1. Shut(subs[b] \cap {o.who} \cap Channels) /\ subs'[b] = subs[b] \ {o.who}
        BY <1>2, <3>1 DEF Unsubscribe
      <4>2. /\ subs[b] \cap {o.who} \cap Channels \in SUBSET (subs[b] \cap Channels)
            /\ subs'[b] \cap (subs[b] \cap {o.who} \cap Channels) = {}
        BY <4>1
      <4> QED  BY <4>1, <4>2
    <3>2. CASE Close(b)
      <4>1. Shut(subs[b] \cap Channels) /\ subs'[b] = {}
        BY <1>2, <3>2 DEF Close
      <4> QED  BY <4>1
    <3> QED  BY <1>12, <3>1, <3>2
  <2>2. /\ chan' = [c \in Channels |-> IF c \in cs THEN "closed" ELSE chan[c]]
        /\ twice' = (twice \/ \E c \in cs : chan[c] = "closed")
    BY <2>1 DEF Shut
  <2>3. \A c \in cs : At[c] = b /\ chan[c] = "open"
    BY <1>1, <2>1 DEF Subscribed
  <2>4. ~twice'  BY <1>1, <2>2, <2>3
  <2>5. /\ subs' \in [Buses -> SUBSET (Channels \cup {Run})] /\ closed' \in [Buses -> BOOLEAN]
        /\ subs'[b] \subseteq subs[b]
    BY <1>2, <1>12 DEF Unsubscribe, Close
  <2>6. chan' \in [Channels -> {"none", "open", "closed"}]
    BY <1>2, <2>2
  <2>7. Typed'
    <3>1. twice' \in BOOLEAN  BY <2>2, Zenon
    <3> QED  BY <1>1, <1>4, <1>10, <2>5, <2>6, <3>1 DEF Typed
  <2>8. ASSUME NEW d \in Buses, NEW x \in subs'[d] \cap Channels
        PROVE  At[x] = d /\ chan'[x] = "open"
    <3>1. x \in subs[d]  BY <1>7, <2>5, <2>8
    <3>2. At[x] = d /\ chan[x] = "open"  BY <1>1, <2>8, <3>1 DEF Subscribed
    <3>3. x \notin cs  BY <2>1, <2>3, <2>8, <3>2
    <3> QED  BY <2>2, <2>8, <3>2, <3>3
  <2>9. ASSUME NEW d \in Buses, NEW p \in writers'[d], p.op = "join"
        PROVE  At[p.who] = d /\ chan'[p.who] = "none"
    <3>1. p \in writers[d] /\ p \in Ops  BY <1>2, <1>7, <1>10, <2>9
    <3>2. At[p.who] = d /\ chan[p.who] = "none" /\ p.who \in Channels
      BY <1>1, <2>9, <3>1 DEF Subscribed, Ops
    <3>3. p.who \notin cs  BY <2>3, <3>2
    <3> QED  BY <2>2, <3>2, <3>3
  <2>10. Subscribed'  BY <2>8, <2>9 DEF Subscribed
  <2> QED  BY <1>8, <1>9, <2>4, <2>7, <2>10 DEF BusInv
<1> QED  BY <1>3, <1>11, <1>12

(* A host reads: what is left in the channel comes after what it read.     *)
LEMMA Reads ==
    ASSUME BusInv, NEW c \in Channels, Read(c)
    PROVE  BusInv'
<1> DEFINE m == Len(buf[c])
           h == buf[c][1]
<1>1. Typed  BY DEF BusInv
<1>2. /\ buf \in [Channels -> Seq(Events)] /\ seen \in [Channels -> [Emitters -> Nat]]
      /\ buf[c] \in Seq(Events) /\ buf[c] # <<>>
      /\ calls \in [Emitters -> Seq(Frames)]
  BY <1>1 DEF Typed, Read
<1>3. m \in Nat \ {0} /\ Head(buf[c]) = h  BY <1>2, EmptySeq
<1>4. /\ Tail(buf[c]) \in Seq(Events) /\ Len(Tail(buf[c])) = m - 1
      /\ \A i \in 1..m - 1 : Tail(buf[c])[i] = buf[c][i + 1]
  BY <1>2, HeadTailProperties
<1>5. 1 \in 1..m  BY <1>3
<1>6. h \in Events  BY <1>2, <1>5, ElementOfSeq
<1>7. h.from \in Emitters /\ h.no \in Nat  BY <1>6 DEF Events
<1>8. /\ seen' = [seen EXCEPT ![c][h.from] = h.no]
      /\ buf' = [buf EXCEPT ![c] = Tail(@)]
      /\ UNCHANGED <<event, calls, dead>>
      /\ UNCHANGED <<subs, closed, writers, chan, cuts, twice>>
  BY <1>3 DEF Read, bus
<1> HIDE DEF m, h
<1>9. /\ buf' \in [Channels -> Seq(Events)] /\ buf'[c] = Tail(buf[c])
      /\ \A d \in Channels : d # c => buf'[d] = buf[d]
  BY <1>2, <1>4, <1>8
<1>10. /\ seen' \in [Channels -> [Emitters -> Nat]]
       /\ seen'[c][h.from] = h.no
       /\ \A x \in Emitters : x # h.from => seen'[c][x] = seen[c][x]
       /\ \A d \in Channels : d # c => seen'[d] = seen[d]
  BY <1>2, <1>7, <1>8
<1>11. /\ Len(buf'[c]) = m - 1
       /\ \A i \in 1..m - 1 : /\ buf'[c][i] = buf[c][i + 1]
                              /\ i + 1 \in 1..m
  BY <1>3, <1>4, <1>9
<1>12. InOrder(buf[c], seen[c])  BY DEF BusInv, Ordered
<1>13. h.no > seen[c][h.from]  BY <1>5, <1>12 DEF InOrder, m, h
<1>14. seen[c] \in [Emitters -> Nat] /\ seen'[c] \in [Emitters -> Nat]
  BY <1>2, <1>10
<1>15. Typed'
  <2>1. \A d \in Channels : Len(buf'[d]) <= Buffer
    <3>1. m <= Buffer /\ Buffer \in Nat  BY <1>1, BusAssumption DEF Typed, m
    <3>2. m - 1 <= Buffer  BY <1>3, <3>1
    <3> QED  BY <1>1, <1>9, <1>11, <3>2 DEF Typed
  <2> QED  BY <1>1, <1>8, <1>9, <1>10, <2>1 DEF Typed
<1>16. Subscribed' /\ Climbs' /\ Asks' /\ ~twice'
  BY <1>8 DEF BusInv, Subscribed, Climbs, Asks
<1>17. Emitted'
  <2>1. ASSUME NEW d \in Channels, NEW x \in Emitters
        PROVE  Upto(buf'[d], seen'[d], x, event[x].no)
    <3>1. Upto(buf[d], seen[d], x, event[x].no)  BY DEF BusInv, Emitted
    <3>2. CASE d # c  BY <1>9, <1>10, <3>1, <3>2
    <3>3. CASE d = c
      <4>1. seen'[c][x] <= event[x].no
        BY <1>3, <1>5, <1>10, <3>1, <3>3 DEF Upto, m, h
      <4> QED  BY <1>11, <3>1, <3>3, <4>1 DEF Upto, m
    <3> QED  BY <3>2, <3>3
  <2> QED  BY <1>8, <2>1 DEF Emitted
<1>18. Unsent'
  <2>1. ASSUME NEW d \in Channels, NEW x \in Emitters,
               Fresh(buf[d], seen[d], x, event[x].no)
        PROVE  Fresh(buf'[d], seen'[d], x, event[x].no)
    <3>1. CASE d # c  BY <1>9, <1>10, <2>1, <3>1
    <3>2. CASE d = c
      <4>1. seen'[c][x] < event[x].no
        BY <1>3, <1>5, <1>10, <2>1, <3>2 DEF Fresh, m, h
      <4> QED  BY <1>11, <2>1, <3>2, <4>1 DEF Fresh, m
    <3> QED  BY <3>1, <3>2
  <2> QED  BY <1>8, <2>1 DEF BusInv, Unsent
<1>19. Ordered'
  <2>1. ASSUME NEW d \in Channels PROVE InOrder(buf'[d], seen'[d])
    <3>1. CASE d # c  BY <1>9, <1>10, <3>1 DEF BusInv, Ordered
    <3>2. CASE d = c
      <4>1. ASSUME NEW i \in 1..m - 1
            PROVE  /\ buf'[c][i].no > seen'[c][buf'[c][i].from]
                   /\ \A j \in 1..i - 1 : buf'[c][j].from = buf'[c][i].from
                                            => buf'[c][j].no < buf'[c][i].no
        <5>1. /\ i \in Nat /\ i + 1 \in 1..m /\ buf'[c][i] = buf[c][i + 1]
              /\ (i + 1) - 1 = i
          BY <1>3, <1>11
        <5>2. buf[c][i + 1] \in Events  BY <1>2, <5>1, ElementOfSeq DEF m
        <5>3. buf[c][i + 1].from \in Emitters /\ buf[c][i + 1].no \in Nat
          BY <5>2 DEF Events
        <5>4. /\ buf[c][i + 1].no > seen[c][buf[c][i + 1].from]
              /\ \A j \in 1..i : buf[c][j].from = buf[c][i + 1].from
                                    => buf[c][j].no < buf[c][i + 1].no
          BY <1>12, <5>1 DEF InOrder, m
        <5>5. buf[c][i + 1].from = h.from => h.no < buf[c][i + 1].no
          <6>1. 1 \in 1..i  BY <4>1
          <6> QED  BY <5>4, <6>1 DEF h
        <5>6. buf'[c][i].no > seen'[c][buf'[c][i].from]
          <6>1. CASE buf[c][i + 1].from = h.from
            BY <1>7, <1>10, <5>1, <5>3, <5>5, <6>1
          <6>2. CASE buf[c][i + 1].from # h.from
            BY <1>10, <5>1, <5>3, <5>4, <6>2
          <6> QED  BY <6>1, <6>2
        <5>7. ASSUME NEW j \in 1..i - 1, buf'[c][j].from = buf'[c][i].from
              PROVE  buf'[c][j].no < buf'[c][i].no
          <6>1. j \in 1..m - 1 /\ j + 1 \in 1..i  BY <1>3, <4>1
          <6>2. buf'[c][j] = buf[c][j + 1]  BY <1>11, <6>1
          <6> QED  BY <5>1, <5>4, <5>7, <6>1, <6>2
        <5> QED  BY <5>6, <5>7
      <4> QED  BY <1>11, <3>2, <4>1 DEF InOrder
    <3> QED  BY <3>1, <3>2
  <2> QED  BY <2>1 DEF Ordered
<1>20. ASSUME NEW d \in Channels, NEW x \in Emitters, Has(buf[d], seen[d], event[x])
       PROVE  Has(buf'[d], seen'[d], event[x])
  <2>1. event[x] \in Events /\ event[x].from = x  BY <1>1 DEF Typed
  <2>2. event[x].no \in Nat  BY <2>1 DEF Events
  <2>3. CASE d # c  BY <1>9, <1>10, <1>20, <2>3
  <2>4. CASE d = c /\ seen[c][x] >= event[x].no
    <3>1. seen'[c][x] \in Nat /\ seen[c][x] \in Nat  BY <1>14
    <3>2. seen'[c][x] >= seen[c][x]
      BY <1>7, <1>10, <1>13, <3>1
    <3> QED  BY <2>1, <2>2, <2>4, <3>1, <3>2 DEF Has
  <2>5. CASE d = c /\ ~(seen[c][x] >= event[x].no)
    <3>1. PICK i \in 1..m : buf[c][i] = event[x]
      BY <1>20, <2>1, <2>5 DEF Has, m
    <3>2. CASE i = 1
      <4>1. h = event[x]  BY <3>1, <3>2 DEF h
      <4> QED  BY <1>10, <2>1, <2>2, <2>5, <4>1 DEF Has
    <3>3. CASE i # 1
      <4>1. i - 1 \in 1..m - 1 /\ (i - 1) + 1 = i  BY <1>3, <3>1, <3>3
      <4>2. buf'[c][i - 1] = event[x]  BY <1>11, <3>1, <4>1
      <4> QED  BY <1>11, <2>5, <4>1, <4>2 DEF Has
    <3> QED  BY <3>2, <3>3
  <2> QED  BY <2>3, <2>4, <2>5
<1>21. Delivered'
  <2>1. ASSUME NEW e \in Emitters, NEW i \in 1..Len(calls[e]),
               calls[e][i].step = "send", event[e].kind \in Critical,
               NEW d \in calls[e][i].to \ calls[e][i].left
        PROVE  Has(buf'[d], seen'[d], event[e])
    <3>1. calls[e] \in Seq(Frames)  BY <1>2
    <3>2. calls[e][i] \in Frames  BY <3>1, ElementOfSeq
    <3>3. d \in Channels  BY <3>2 DEF Frames
    <3>4. Has(buf[d], seen[d], event[e])  BY <2>1 DEF BusInv, Delivered
    <3> QED  BY <1>20, <3>3, <3>4
  <2> QED  BY <1>8, <2>1 DEF Delivered
<1> QED  BY <1>15, <1>16, <1>17, <1>18, <1>19, <1>21 DEF BusInv

-----------------------------------------------------------------------------
\* The invariant holds.

LEMMA BusInit == Init => BusInv
<1> SUFFICES ASSUME Init PROVE BusInv  OBVIOUS
<1>1. (CHOOSE k \in Kinds : TRUE) \in Kinds  BY BusAssumption
<1>2. /\ event \in [Emitters -> Events]
      /\ \A e \in Emitters : event[e].from = e /\ event[e].no = 0
  BY <1>1 DEF Init, Events
<1>3. /\ calls = [e \in Emitters |-> <<>>] /\ \A e \in Emitters : Len(calls[e]) = 0
      /\ buf = [c \in Channels |-> <<>>] /\ \A c \in Channels : Len(buf[c]) = 0
      /\ writers = [b \in Buses |-> {}] /\ subs = [b \in Buses |-> {Run}]
      /\ seen = [c \in Channels |-> [e \in Emitters |-> 0]]
  BY DEF Init
<1>4. <<>> \in Seq(Frames) /\ <<>> \in Seq(Events)  BY EmptySeq
<1>5. Typed
  <2>1. \A c \in Channels : Len(buf[c]) <= Buffer  BY <1>3, BusAssumption
  <2>2. cuts \in [Channels -> 0..MaxLeaves]  BY BusAssumption DEF Init
  <2>3. twice \in BOOLEAN /\ dead \subseteq Emitters  BY DEF Init
  <2>4. chan \in [Channels -> {"none", "open", "closed"}] /\ closed \in [Buses -> BOOLEAN]
    BY DEF Init
  <2> QED  BY <1>2, <1>3, <1>4, <2>1, <2>2, <2>3, <2>4 DEF Typed
<1>6. Subscribed  BY <1>3, BusAssumption DEF Subscribed
<1>7. Climbs /\ Asks /\ Unsent /\ Delivered
  <2>1. \A e \in Emitters : 1..Len(calls[e]) = {}  BY <1>3
  <2> QED  BY <2>1 DEF Climbs, ClimbsIn, Asks, Unsent, Delivered
<1>8. Emitted /\ Ordered
  <2>1. \A c \in Channels : 1..Len(buf[c]) = {}  BY <1>3
  <2>2. Emitted  BY <1>2, <1>3, <2>1 DEF Emitted, Upto
  <2>3. Ordered  BY <2>1 DEF Ordered, InOrder
  <2> QED  BY <2>2, <2>3
<1>9. ~twice  BY DEF Init
<1> QED  BY <1>5, <1>6, <1>7, <1>8, <1>9 DEF BusInv

(* A panic: the goroutine's calls stay where they are.                     *)
LEMMA PanicsThere ==
    ASSUME BusInv, NEW e \in Emitters, Panics(e)
    PROVE  BusInv'
<1>1. UNCHANGED <<calls, buf, seen, event>> /\ dead' = dead \cup {e}
  BY DEF Panics
<1>2. UNCHANGED <<subs, closed, writers, chan, cuts, twice>>
  BY DEF Panics, bus
<1>3. Typed'  BY <1>1, <1>2 DEF BusInv, Typed
<1>4. Subscribed' /\ Asks' /\ ~twice'
  BY <1>1, <1>2 DEF BusInv, Subscribed, Asks
<1>5. Climbs' /\ Emitted' /\ Unsent' /\ Ordered' /\ Delivered'
  BY <1>1, SendersApart
<1> QED  BY <1>3, <1>4, <1>5 DEF BusInv

LEMMA EmitSteps ==
    ASSUME BusInv, NEW e \in Emitters, EmitStep(e)
    PROVE  BusInv'
<1>1. Typed  BY DEF BusInv
<1> DEFINE f == Top(e)
<1>2. calls[e] # <<>>
  BY DEF EmitStep, RLock, Filter, TellParent, Handle, RUnlock, Send, EmitEnds, Runs
<1>3. /\ f \in Frames /\ f.on \in Buses /\ f.step \in {"lock", "ask", "send"}
      /\ f.told \in BOOLEAN /\ f.left \subseteq Channels \cup {Run} /\ f.to \subseteq Channels
  BY <1>1, <1>2, TopIs
<1>4. AsksOf(f, subs)
  BY <1>1, <1>2, TopIs DEF BusInv, Asks
<1>5. \A b \in Buses : subs[b] \subseteq Channels \cup {Run}  BY <1>1 DEF Typed
<1>6. /\ f.step = "send" /\ event[e].kind \in Critical
           => \A c \in f.to \ f.left : Has(buf[c], seen[c], event[e])
  BY <1>1, <1>2, TopIs DEF BusInv, Delivered
<1>7. CASE RLock(e)
  <2>1. CASE Returns(e)  BY <1>2, <1>7, <2>1, GoesBack DEF RLock
  <2>2. CASE Becomes(e, [Top(e) EXCEPT !.step = "ask", !.left = subs[Top(e).on]])
    <3> DEFINE g == [f EXCEPT !.step = "ask", !.left = subs[f.on]]
    <3>1. f.step = "lock"  BY <1>7 DEF RLock, Runs
    <3>2. /\ g \in Frames /\ g.on = f.on /\ g.step = "ask" /\ g.told = f.told
          /\ g.left = subs[f.on] /\ g.to = f.to
      BY <1>3, <1>5 DEF Frames
    <3>3. Becomes(e, g) /\ UNCHANGED <<bus, buf, seen, event, dead>>
      BY <1>7, <2>2 DEF RLock
    <3> HIDE DEF g, f
    <3>4. AsksOf(g, subs)  BY <1>4, <3>1, <3>2 DEF AsksOf
    <3>5. \A c \in Channels : ToCome(g, c) => ToCome(f, c)
      BY <3>1, <3>2 DEF ToCome
    <3>6. g.step # "send"  BY <3>2
    <3> QED  BY <1>2, <3>2, <3>3, <3>4, <3>5, <3>6, GoesOn DEF f
  <2> QED  BY <1>7, <2>1, <2>2 DEF RLock
<1>8. ASSUME NEW c \in Channels, Filter(e, c) PROVE BusInv'
  <2> DEFINE g == [f EXCEPT !.left = @ \ {c},
                            !.to = IF event[e].kind \in Wants[c] THEN @ \cup {c} ELSE @]
  <2>1. f.step = "ask" /\ c \in f.left  BY <1>8 DEF Filter, Runs
  <2>2. /\ g \in Frames /\ g.on = f.on /\ g.step = "ask" /\ g.told = f.told
        /\ g.left = f.left \ {c} /\ g.to \subseteq f.to \cup {c}
    <3>1. CASE event[e].kind \in Wants[c]  BY <1>3, <2>1, <3>1 DEF Frames
    <3>2. CASE event[e].kind \notin Wants[c]  BY <1>3, <2>1, <3>2 DEF Frames
    <3> QED  BY <3>1, <3>2
  <2>3. Becomes(e, g) /\ UNCHANGED <<bus, buf, seen, event, dead>>
    BY <1>8 DEF Filter
  <2> HIDE DEF g, f
  <2>4. AsksOf(g, subs)  BY <1>4, <2>1, <2>2 DEF AsksOf
  <2>5. \A d \in Channels : ToCome(g, d) => ToCome(f, d)
    BY <2>1, <2>2 DEF ToCome
  <2>6. g.step # "send"  BY <2>2
  <2> QED  BY <1>2, <2>2, <2>3, <2>4, <2>5, <2>6, GoesOn DEF f
<1>9. CASE TellParent(e)  BY <1>9, TellsParent
<1>10. CASE Handle(e)
  <2>1. CASE Panics(e)  BY <2>1, PanicsThere
  <2>2. CASE ~Panics(e)
    <3> DEFINE g == [f EXCEPT !.left = @ \ {Run}]
    <3>1. f.step = "ask"  BY <1>10 DEF Handle, Runs
    <3>2. /\ g \in Frames /\ g.on = f.on /\ g.step = "ask" /\ g.told = f.told
          /\ g.left = f.left \ {Run} /\ g.to = f.to
      BY <1>3, <3>1 DEF Frames
    <3>3. Becomes(e, g) /\ UNCHANGED <<bus, buf, seen, event, dead>>
      BY <1>10, <2>2 DEF Handle
    <3> HIDE DEF g, f
    <3>4. AsksOf(g, subs)  BY <1>4, <3>1, <3>2 DEF AsksOf
    <3>5. \A c \in Channels : ToCome(g, c) => ToCome(f, c)
      BY <3>1, <3>2 DEF ToCome
    <3>6. g.step # "send"  BY <3>2
    <3> QED  BY <1>2, <3>2, <3>3, <3>4, <3>5, <3>6, GoesOn DEF f
  <2> QED  BY <2>1, <2>2
<1>11. CASE RUnlock(e)
  <2> DEFINE g == [f EXCEPT !.step = "send", !.left = f.to]
  <2>1. f.step = "ask"  BY <1>11 DEF RUnlock, Runs
  <2>2. /\ g \in Frames /\ g.on = f.on /\ g.step = "send" /\ g.told = f.told
        /\ g.left = f.to /\ g.to = f.to
    BY <1>3 DEF Frames
  <2>3. Becomes(e, g) /\ UNCHANGED <<bus, buf, seen, event, dead>>
    BY <1>11 DEF RUnlock
  <2>4. \A c \in f.to : At[c] = f.on
    BY <1>3, <1>4, <2>1 DEF AsksOf, BusInv, Subscribed
  <2> HIDE DEF g, f
  <2>5. AsksOf(g, subs)  BY <2>2, <2>4 DEF AsksOf
  <2>6. \A c \in Channels : ToCome(g, c) => ToCome(f, c)
    BY <2>1, <2>2, <2>4 DEF ToCome
  <2>7. g.to \ g.left = {}  BY <2>2
  <2> QED  BY <1>2, <2>2, <2>3, <2>5, <2>6, <2>7, GoesOn DEF f
<1>12. ASSUME NEW c \in Channels, Send(e, c) PROVE BusInv'
  <2>1. f.step = "send" /\ c \in f.left /\ Runs(e, "send")  BY <1>12 DEF Send, Runs
  <2> DEFINE g == [f EXCEPT !.left = @ \ {c}]
  <2>2. CASE Panics(e)  BY <2>2, PanicsThere
  <2>3. CASE /\ Len(buf[c]) < Buffer /\ buf' = [buf EXCEPT ![c] = Append(@, event[e])]
             /\ Becomes(e, g) /\ UNCHANGED <<bus, seen, event, dead>>
    BY <2>1, <2>3, SendsOn
  <2>4. CASE /\ event[e].kind \notin Critical /\ UNCHANGED buf
             /\ Becomes(e, g) /\ UNCHANGED <<bus, seen, event, dead>>
    <3>1. /\ g \in Frames /\ g.on = f.on /\ g.step = "send" /\ g.told = f.told
          /\ g.left = f.left \ {c} /\ g.to = f.to
      BY <1>3, <2>1 DEF Frames
    <3>2. Becomes(e, g) /\ UNCHANGED <<bus, buf, seen, event, dead>>
      BY <2>4
    <3> HIDE DEF g, f
    <3>3. AsksOf(g, subs)  BY <1>4, <2>1, <3>1 DEF AsksOf
    <3>4. \A d \in Channels : ToCome(g, d) => ToCome(f, d)
      BY <2>1, <3>1 DEF ToCome
    <3> QED  BY <1>2, <2>4, <3>1, <3>2, <3>3, <3>4, GoesOn DEF f
  <2> QED  BY <1>12, <2>2, <2>3, <2>4 DEF Send
<1>13. CASE EmitEnds(e)  BY <1>2, <1>13, GoesBack DEF EmitEnds
<1> QED  BY <1>7, <1>8, <1>9, <1>10, <1>11, <1>12, <1>13 DEF EmitStep

LEMMA BusStep == BusInv /\ [Next]_vars => BusInv'
<1> SUFFICES ASSUME BusInv, [Next]_vars PROVE BusInv'  OBVIOUS
<1>1. ASSUME NEW e \in Emitters, Emit(e) PROVE BusInv'
  BY <1>1, Emits
<1>2. ASSUME NEW e \in Emitters, EmitStep(e) PROVE BusInv'
  BY <1>2, EmitSteps
<1>3. cuts \in [Channels -> 0..MaxLeaves] /\ MaxLeaves \in Nat
  BY BusAssumption DEF BusInv, Typed
<1>4. ASSUME NEW c \in Channels, CallSubscribe(c) PROVE BusInv'
  <2> DEFINE o == [op |-> "join", who |-> c]
  <2>1. o \in Ops /\ o.who = c /\ At[c] \in Buses  BY BusAssumption DEF Ops
  <2>2. CallsFor(At[c], o) /\ chan[c] = "none" /\ cuts' = cuts  BY <1>4 DEF CallSubscribe
  <2> HIDE DEF o
  <2> QED  BY <1>3, <2>1, <2>2, Waits
<1>5. ASSUME NEW c \in Channels, CallCancel(c) PROVE BusInv'
  <2> DEFINE o == [op |-> "leave", who |-> c]
  <2>1. o \in Ops /\ o.op # "join" /\ At[c] \in Buses  BY BusAssumption DEF Ops
  <2>2. CallsFor(At[c], o)  BY <1>5 DEF CallCancel
  <2>3. cuts' \in [Channels -> 0..MaxLeaves]
    <3>1. cuts[c] \in 0..MaxLeaves /\ cuts[c] < MaxLeaves /\ cuts' = [cuts EXCEPT ![c] = @ + 1]
      BY <1>3, <1>5 DEF CallCancel
    <3>2. cuts[c] + 1 \in 0..MaxLeaves  BY <1>3, <3>1
    <3> QED  BY <1>3, <3>1, <3>2
  <2> HIDE DEF o
  <2> QED  BY <2>1, <2>2, <2>3, Waits
<1>6. ASSUME NEW b \in Buses, CallCleanup(b) PROVE BusInv'
  <2> DEFINE o == [op |-> "end", who |-> Run]
  <2>1. o \in Ops /\ o.op # "join"  BY DEF Ops
  <2>2. CallsFor(b, o) /\ cuts' = cuts  BY <1>6 DEF CallCleanup
  <2> HIDE DEF o
  <2> QED  BY <1>3, <2>1, <2>2, Waits
<1>7. ASSUME NEW b \in Buses, CallClose(b) PROVE BusInv'
  <2> DEFINE o == [op |-> "close", who |-> Run]
  <2>1. o \in Ops /\ o.op # "join"  BY DEF Ops
  <2>2. CallsFor(b, o) /\ cuts' = cuts  BY <1>7 DEF CallClose
  <2> HIDE DEF o
  <2> QED  BY <1>3, <2>1, <2>2, Waits
<1>8. ASSUME NEW c \in Channels, Read(c) PROVE BusInv'
  BY <1>8, Reads
<1>9. ASSUME NEW b \in Buses, Write(b) PROVE BusInv'
  BY <1>9, Writes
<1>10. CASE UNCHANGED vars
  <2>1. UNCHANGED <<calls, event, buf, seen>>  BY <1>10 DEF vars
  <2>2. Climbs' /\ Emitted' /\ Unsent' /\ Ordered' /\ Delivered'
    BY <2>1, SendersApart
  <2>3. Typed' /\ Subscribed' /\ Asks' /\ ~twice'
    BY <1>10 DEF vars, BusInv, Typed, Subscribed, Asks
  <2> QED  BY <2>2, <2>3 DEF BusInv
<1> QED  BY <1>1, <1>2, <1>4, <1>5, <1>6, <1>7, <1>8, <1>9, <1>10 DEF Next

LEMMA BusInvariant == Spec => []BusInv
BY BusInit, BusStep, PTL DEF Spec

-----------------------------------------------------------------------------
\* What it gives.

(* A goroutine has one call of Emit for a bus: there are no more of them   *)
(* than buses.                                                             *)
LEMMA NoDeeper ==
    ASSUME BusInv, NEW e \in Emitters
    PROVE  Len(calls[e]) <= Cardinality(Buses)
<1> DEFINE n == Len(calls[e])
           on == [i \in 1..n |-> calls[e][i].on]
<1>1. calls[e] \in Seq(Frames)  BY DEF BusInv, Typed
<1>2. n \in Nat  BY <1>1, LenProperties
<1>3. \A i \in 1..n : calls[e][i] \in Frames  BY <1>1, ElementOfSeq
<1>4. on \in [1..n -> Buses]  BY <1>3 DEF Frames
<1>5. \A i, j \in 1..n : i < j => on[i] # on[j]
  <2>1. \A i \in 1..n : Age[calls[e][i].on] \in Nat
    BY <1>3, AgeGrows DEF Frames
  <2> QED  BY <2>1 DEF BusInv, Climbs, ClimbsIn
<1> HIDE DEF on, n
<1>6. \A i, j \in 1..n : i # j => on[i] # on[j]
  BY <1>2, <1>5
<1>7. IsFiniteSet(Buses) /\ Cardinality(Buses) \in Nat
  BY ChainAssumption, FS_CardinalityType
<1>8. IsFiniteSet(1..n) /\ Cardinality(1..n) = n
  BY <1>2, FS_Interval
<1>9. ~(Cardinality(Buses) < n)
  BY <1>4, <1>6, <1>7, <1>8, FS_PigeonHole
<1> QED  BY <1>2, <1>7, <1>9 DEF n

(* Whatever the goroutines emit, whenever hosts join, leave and cancel and *)
(* runs end, and whoever panics: while a filter is asked the channels of   *)
(* its snapshot are open, no channel is closed twice, and each gives the   *)
(* events of a goroutine in the order they were emitted.                   *)
THEOREM DeliveriesSound == Spec => []DeliverySound
<1>1. BusInv => DeliverySound
  <2> SUFFICES ASSUME BusInv PROVE DeliverySound  OBVIOUS
  <2>1. TypeOK  BY NoDeeper DEF BusInv, Typed, TypeOK
  <2>2. SnapshotOpen
    <3>1. ASSUME NEW e \in Emitters, NEW f \in Range(calls[e]), f.step = "ask",
                 NEW c \in (f.left \cup f.to) \cap Channels
          PROVE  chan[c] = "open"
      <4>1. calls[e] \in Seq(Frames)  BY DEF BusInv, Typed
      <4>2. PICK i \in 1..Len(calls[e]) : f = calls[e][i]
        BY <4>1, LenProperties DEF Range
      <4>3. calls[e][i] \in Frames  BY <4>1, ElementOfSeq
      <4>4. f.on \in Buses  BY <4>2, <4>3 DEF Frames
      <4>5. AsksOf(f, subs)  BY <4>2 DEF BusInv, Asks
      <4> QED  BY <3>1, <4>4, <4>5 DEF AsksOf, BusInv, Subscribed
    <3> QED  BY <3>1 DEF SnapshotOpen
  <2>3. ClosedOnce  BY DEF BusInv, ClosedOnce
  <2>4. OrderKept  BY DEF BusInv, Ordered, InOrder, OrderKept
  <2> QED  BY <2>1, <2>2, <2>3, <2>4 DEF DeliverySound
<1> QED  BY <1>1, BusInvariant, PTL

(* A call that emits a critical event returns only when every subscriber   *)
(* whose filter let the event pass has it, or has read it.                 *)
THEOREM CriticalsArrive == Spec => CriticalArrives
<1> DEFINE Arrives == \A e \in Emitters :
              (/\ calls[e] # <<>> /\ Len(calls'[e]) < Len(calls[e])
               /\ event[e].kind \in Critical)
                  => \A c \in Top(e).to : Got(c, event[e])
<1>1. BusInv /\ [Next]_vars => [Arrives]_vars
  <2> SUFFICES ASSUME BusInv, Next, NEW e \in Emitters, calls[e] # <<>>,
                      Len(calls'[e]) < Len(calls[e]), event[e].kind \in Critical,
                      NEW c \in Top(e).to
               PROVE  Got(c, event[e])
    OBVIOUS
  <2>1. Typed  BY DEF BusInv
  <2>2. /\ Len(calls[e]) \in Nat \ {0} /\ Len(calls[e]) \in 1..Len(calls[e])
        /\ Top(e) = calls[e][Len(calls[e])] /\ Top(e) \in Frames /\ calls[e] \in Seq(Frames)
        /\ Top(e).on \in Buses /\ Top(e).to \subseteq Channels
    BY <2>1, TopIs
  <2>3. calls \in [Emitters -> Seq(Frames)]  BY <2>1 DEF Typed
  <2>4. AsksOf(Top(e), subs)  BY <2>2 DEF BusInv, Asks
  <2>5. ASSUME NEW g, Becomes(e, g) PROVE FALSE
    <3>1. calls'[e] = Append(Front(calls[e]), g)  BY <2>3, <2>5 DEF Becomes
    <3>2. Front(calls[e]) \in Seq(Frames) /\ Len(Front(calls[e])) = Len(calls[e]) - 1
      BY <2>2, TopRemoved
    <3>3. Len(Append(Front(calls[e]), g)) = Len(Front(calls[e])) + 1
      BY <3>2
    <3> QED  BY <2>2, <3>1, <3>2, <3>3
  <2>6. calls'[e] # calls[e]  BY <2>2
  <2>7. \/ RLock(e) /\ Returns(e)
        \/ TellParent(e)
        \/ EmitEnds(e)
    <3>1. ASSUME NEW x \in Emitters, Emit(x) PROVE FALSE
      <4>1. x # e  BY <3>1 DEF Emit
      <4> QED  BY <2>3, <2>6, <3>1, <4>1 DEF Emit
    <3>2. ASSUME NEW x \in Emitters, x # e, EmitStep(x) PROVE FALSE
      BY <2>3, <2>6, <3>2 DEF EmitStep, RLock, Filter, TellParent, Handle, RUnlock, Send,
                              EmitEnds, Becomes, Returns, Panics
    <3>3. ASSUME NEW d \in Channels, CallSubscribe(d) \/ CallCancel(d) \/ Read(d) PROVE FALSE
      BY <2>6, <3>3 DEF CallSubscribe, CallCancel, Read, CallsFor
    <3>4. ASSUME NEW b \in Buses, CallCleanup(b) \/ CallClose(b) \/ Write(b) PROVE FALSE
      BY <2>6, <3>4 DEF CallCleanup, CallClose, Write, CallsFor
    <3>5. EmitStep(e)  BY <3>1, <3>2, <3>3, <3>4 DEF Next
    <3> QED  BY <2>5, <2>6, <3>5 DEF EmitStep, RLock, Filter, Handle, RUnlock, Send, Panics
  <2>8. CASE RLock(e)
    BY <2>4, <2>8 DEF RLock, Runs, AsksOf
  <2>9. CASE TellParent(e)
    <3> DEFINE x == [Top(e) EXCEPT !.told = TRUE]
               y == Called(Parent[Top(e).on])
    <3>1. calls'[e] = Front(calls[e]) \o <<x, y>>
      BY <2>3, <2>9 DEF TellParent, Top
    <3>2. Top(e).on \in Buses /\ Parent[Top(e).on] \in Buses
      BY <2>2, <2>9, AgeGrows DEF TellParent
    <3>3. x \in Frames /\ y \in Frames  BY <2>2, <3>2 DEF Frames, Called
    <3> HIDE DEF x, y
    <3>4. Len(calls'[e]) = Len(calls[e]) + 1  BY <2>2, <3>1, <3>3, TopCalls
    <3> QED  BY <2>2, <3>4
  <2>10. CASE EmitEnds(e)
    <3>1. Top(e).step = "send" /\ Top(e).left = {}  BY <2>10 DEF EmitEnds, Runs
    <3>2. Has(buf[c], seen[c], event[e])
      BY <2>2, <3>1 DEF BusInv, Delivered
    <3>3. buf[c] \in Seq(Events)  BY <2>1, <2>2 DEF Typed
    <3> QED  BY <3>2, <3>3, LenProperties DEF Has, Got, Range
  <2> QED  BY <2>7, <2>8, <2>9, <2>10
<1>2. Spec => [][Arrives]_vars
  BY <1>1, BusInvariant, PTL DEF Spec
<1> QED  BY <1>2 DEF CriticalArrives
=============================================================================
