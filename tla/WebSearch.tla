------------------------------- MODULE WebSearch -------------------------------
(***************************************************************************)
(* The WebSearch tool (tools/web_search.go) and the store it keeps its     *)
(* results in for two days.  Sub-agents search at the same time: each call *)
(* looks into the store, asks all engines for each part of the question at *)
(* once, takes what comes until it has enough or eight seconds are over,   *)
(* and stores what it found.  An engine's request is tried again after     *)
(* errors that may pass (tools/stealth_client.go).  A host may sweep the   *)
(* store meanwhile.                                                        *)
(*                                                                         *)
(* Results and engines are counted, not named.  An engine that answers     *)
(* after the call stopped listening writes to a channel nobody reads, and  *)
(* is left out.                                                            *)
(***************************************************************************)
EXTENDS KeyValueStore, Naturals

CONSTANTS
    Callers,
    Engines,       \* how many engines there are
    Parts,         \* the number of parts of a question; splitQueryTokens
    MaxResults,    \* results a part may have
    PerEngine,     \* results an engine gives to one part
    MaxAttempts    \* tries of one request

ASSUME SearchAssumption ==
    /\ Parts \in [Keys -> Nat \ {0}]
    /\ MaxResults \in Nat \ {0} /\ PerEngine \in Nat \ {0} /\ MaxAttempts \in Nat \ {0}
    /\ Engines \in Nat \ {0}
    /\ Values = Keys      \* a stored value names the question it answers

VARIABLES
    pc,        \* where each caller is
    question,  \* what it asks
    part,      \* the parts it has done
    waiting,   \* how many engines it waits for, by the tries they made
    got,       \* the results of this part
    found,     \* whether an earlier part had results
    failed,    \* how many engines failed in this part
    someFailed,\* whether an engine failed in an earlier part
    pierced,   \* whether every engine failed in every earlier part
    cancelled, \* whether its context was cancelled
    sweep,     \* the names a sweep has still to look at, and its state
    silent,    \* history: whether an engine reported no error in this call
    kept,      \* history: files whose last value was stored and did not age
    raced      \* history: those stored while a removal was decided already

partVars == <<waiting, got, failed>>
callVars == <<question, part, partVars, found, someFailed, pierced, silent>>
searchVars == <<entries, pc, callVars, cancelled, sweep, kept, raced>>

NoSweep  == [names |-> {}, at |-> NoValue, step |-> "idle"]
Tries    == 0..MaxAttempts - 1
Nobody   == [t \in Tries |-> 0]

SearchInit ==
    /\ EmptyStore
    /\ pc = [p \in Callers |-> "idle"]
    /\ question = [p \in Callers |-> NoValue]
    /\ part = [p \in Callers |-> 0]
    /\ waiting = [p \in Callers |-> Nobody]
    /\ got = [p \in Callers |-> 0] /\ found = [p \in Callers |-> FALSE]
    /\ failed = [p \in Callers |-> 0] /\ someFailed = [p \in Callers |-> FALSE]
    /\ pierced = [p \in Callers |-> TRUE]
    /\ cancelled = [p \in Callers |-> FALSE]
    /\ sweep = NoSweep
    /\ silent = [p \in Callers |-> FALSE]
    /\ kept = {} /\ raced = {}

File(p) == PathOf[question[p]]

(* The files some caller or sweep is about to remove.                      *)
Doomed ==
    {File(p) : p \in {q \in Callers : pc[q] = "removing"}}
    \cup (IF sweep.step \in {"removing", "deleting"} THEN {sweep.at} ELSE {})

Becomes(p, state) == pc' = [pc EXCEPT ![p] = state]

(* The call ends, and nothing is left of it.                               *)
Ends(p) ==
    /\ Becomes(p, "idle")
    /\ question' = [question EXCEPT ![p] = NoValue]
    /\ part' = [part EXCEPT ![p] = 0]
    /\ found' = [found EXCEPT ![p] = FALSE]
    /\ someFailed' = [someFailed EXCEPT ![p] = FALSE]
    /\ pierced' = [pierced EXCEPT ![p] = TRUE]
    /\ cancelled' = [cancelled EXCEPT ![p] = FALSE]
    /\ silent' = [silent EXCEPT ![p] = FALSE]
    /\ UNCHANGED partVars

-----------------------------------------------------------------------------
Ask(p, q) ==
    /\ pc[p] = "idle"
    /\ question' = [question EXCEPT ![p] = q]
    /\ Becomes(p, "looking")
    /\ UNCHANGED <<entries, part, partVars, found, someFailed, pierced, cancelled, sweep,
                   silent, kept, raced>>

(* The context may be cancelled at any time; nobody looks before engines   *)
(* are asked.                                                              *)
Cancel(p) ==
    /\ pc[p] = "collecting" /\ ~cancelled[p]
    /\ cancelled' = [cancelled EXCEPT ![p] = TRUE]
    /\ UNCHANGED <<entries, pc, callVars, sweep, kept, raced>>

(* What counts as an answer from the store.                                *)
Servable(path) == entries[path].is = "fresh"

(* The question is looked up.  A value that does not parse is an error of  *)
(* Get, which counts as a miss.                                            *)
Look(p) ==
    /\ pc[p] = "looking"
    /\ \/ Servable(File(p)) /\ Ends(p)
       \/ /\ ~Servable(File(p))
          /\ Becomes(p, IF Expired(File(p)) \/ Readable(File(p)) THEN "removing" ELSE "searching")
          /\ UNCHANGED <<callVars, cancelled>>
    /\ UNCHANGED <<entries, sweep, kept, raced>>

(* Get takes the other lock and removes the file it found expired; or the  *)
(* tool deletes, in a call of its own, what it found old.                  *)
RemoveFound(p) ==
    /\ pc[p] = "removing"
    /\ Remove(File(p))
    /\ Becomes(p, "searching")
    /\ UNCHANGED <<callVars, cancelled, sweep, kept, raced>>

-----------------------------------------------------------------------------
(* searchAllAdapters: all engines are asked at once.                       *)
AskEngines(p) ==
    /\ pc[p] = "searching" /\ part[p] < Parts[question[p]]
    /\ waiting' = [waiting EXCEPT ![p][0] = Engines]
    /\ Becomes(p, "collecting")
    /\ UNCHANGED <<entries, question, part, got, failed, found, someFailed, pierced, cancelled,
                   sweep, silent, kept, raced>>

(* Enough results, or nobody left to wait for.                             *)
Enough(p) == got[p] >= MaxResults \/ waiting[p] = Nobody

Answered(p, t) == waiting' = [waiting EXCEPT ![p][t] = @ - 1]

Fails(p, t) ==
    /\ Answered(p, t)
    /\ failed' = [failed EXCEPT ![p] = @ + 1]
    /\ UNCHANGED <<got, silent>>

Gives(p, t, n) ==
    /\ Answered(p, t)
    /\ got' = [got EXCEPT ![p] = @ + n]
    /\ silent' = [silent EXCEPT ![p] = TRUE]
    /\ UNCHANGED failed

(* Whether a request that failed may be tried again.                       *)
Again(t) == t + 1 < MaxAttempts

(* Mutant: the try that failed is answered too.                            *)
RetriesTwice(p, t) ==
    /\ Again(t)
    /\ waiting' = [waiting EXCEPT ![p][t + 1] = @ + 1]
    /\ UNCHANGED <<got, failed, silent>>

Retried(counts, t) == [counts EXCEPT ![t] = @ - 1, ![t + 1] = @ + 1]

Retries(p, t) ==
    /\ Again(t)
    /\ waiting' = [waiting EXCEPT ![p] = Retried(@, t)]
    /\ UNCHANGED <<got, failed, silent>>

(* One try of an engine's request: it gives results, or none; it fails (a  *)
(* page that asks for a human is a failure); or it fails in a way that is  *)
(* worth another try.  After the context was cancelled it can only fail.   *)
Try(p, t) ==
    /\ pc[p] = "collecting" /\ waiting[p][t] > 0 /\ ~Enough(p)
    /\ \/ Fails(p, t)
       \/ ~cancelled[p] /\ (\E n \in 0..PerEngine : Gives(p, t, n))
       \/ ~cancelled[p] /\ Retries(p, t)
    /\ UNCHANGED <<entries, pc, question, part, found, someFailed, pierced, cancelled, sweep, kept, raced>>

(* Mutant: an engine that was not heard counts as failed.                  *)
NothingFound(p) == failed[p] > 0 /\ got[p] = 0

(* Every engine failed in this part.                                       *)
AllFailed(p) == failed[p] = Engines

(* The call stops listening and adds up what it has.                       *)
Collected(p) ==
    /\ pc[p] = "collecting"
    /\ found' = [found EXCEPT ![p] = @ \/ got[p] > 0]
    /\ someFailed' = [someFailed EXCEPT ![p] = @ \/ failed[p] > 0]
    /\ pierced' = [pierced EXCEPT ![p] = @ /\ AllFailed(p)]
    /\ silent' = [silent EXCEPT ![p] = @ \/ waiting[p] # Nobody]
    /\ part' = [part EXCEPT ![p] = @ + 1]
    /\ waiting' = [waiting EXCEPT ![p] = Nobody]
    /\ got' = [got EXCEPT ![p] = 0]
    /\ failed' = [failed EXCEPT ![p] = 0]
    /\ Becomes(p, "searching")
    /\ UNCHANGED <<entries, question, cancelled, sweep, kept, raced>>

Collect(p) == Enough(p) /\ Collected(p)

(* Mutant: the timer is looked at only after an engine answered.           *)
AfterFirst(p) == got[p] > 0 /\ Collected(p)

(* Eight seconds are over, or the context was cancelled.                   *)
Deadline(p) == Collected(p)

-----------------------------------------------------------------------------
(* What the call tells when nothing was found.                             *)
Reason(p) ==
    CASE someFailed[p] /\ pierced[p] -> "pierced"
      [] someFailed[p] /\ ~pierced[p] -> "partial"
      [] ~someFailed[p] /\ cancelled[p] -> "timeout"
      [] OTHER -> "no match"

Done(p) == pc[p] = "searching" /\ part[p] = Parts[question[p]]

EndEmpty(p) ==
    /\ Done(p) /\ ~found[p]
    /\ Ends(p)
    /\ UNCHANGED <<entries, sweep, kept, raced>>

(* What was found is stored, whether or not some engine failed; a write    *)
(* that fails is not noticed.                                              *)
EndFound(p) ==
    /\ Done(p) /\ found[p]
    /\ Set(question[p], question[p])
    /\ kept' = IF entries'[File(p)].is = "fresh" THEN kept \cup {File(p)} ELSE kept \ {File(p)}
    /\ raced' = IF File(p) \in Doomed THEN raced \cup {File(p)} ELSE raced \ {File(p)}
    /\ Ends(p)
    /\ UNCHANGED sweep

-----------------------------------------------------------------------------
(* EvictExpiredCache: every name in the store is read; Get removes what is *)
(* expired, and what is gone, broken or old is deleted in another call.    *)
SweepBegins ==
    /\ sweep.step = "idle"
    /\ Listed # {}
    /\ sweep' = [names |-> Listed, at |-> NoValue, step |-> "reading"]
    /\ UNCHANGED <<entries, pc, callVars, cancelled, kept, raced>>

(* Mutant: the comparison of the ages is the wrong way round.              *)
SweepYoung(f) ==
    CASE Expired(f)  -> "removing"
      [] Servable(f) -> "deleting"
      [] OTHER       -> "reading"

SweepStep(f) ==
    CASE Expired(f)  -> "removing"
      [] Servable(f) -> "reading"
      [] OTHER       -> "deleting"

SweepReads ==
    /\ sweep.step = "reading"
    /\ \E f \in sweep.names :
          LET names == sweep.names \ {f}
              step  == SweepStep(f)
          IN  sweep' = IF step = "reading" /\ names = {} THEN NoSweep
                       ELSE [names |-> names, at |-> f, step |-> step]
    /\ UNCHANGED <<entries, pc, callVars, cancelled, kept, raced>>

SweepRemoves ==
    /\ sweep.step \in {"removing", "deleting"}
    /\ Remove(sweep.at)
    /\ sweep' = CASE sweep.step = "removing" -> [sweep EXCEPT !.step = "deleting"]
                  [] sweep.step = "deleting" /\ sweep.names # {} -> [sweep EXCEPT !.step = "reading"]
                  [] OTHER -> NoSweep
    /\ UNCHANGED <<pc, callVars, cancelled, kept, raced>>

Clear ==
    /\ ClearSession
    /\ kept' = {} /\ raced' = {}
    /\ UNCHANGED <<pc, callVars, cancelled, sweep>>

TimePasses(f) ==
    /\ Age(f)
    /\ kept' = kept \ {f}
    /\ UNCHANGED <<pc, callVars, cancelled, sweep, raced>>

Step(p) ==
    \/ Look(p) \/ RemoveFound(p) \/ AskEngines(p) \/ Collect(p) \/ Deadline(p)
    \/ EndEmpty(p) \/ EndFound(p)

SearchNext ==
    \/ \E p \in Callers :
          \/ \E q \in Keys : Ask(p, q)
          \/ Cancel(p)
          \/ \E t \in Tries : Try(p, t)
          \/ Step(p)
    \/ SweepBegins \/ SweepReads \/ SweepRemoves
    \/ Clear
    \/ \E f \in Paths : TimePasses(f)

SearchSpec == SearchInit /\ [][SearchNext]_searchVars

(* A call is a goroutine that never waits but in select, whose timer fires.*)
(* No engine is fair: it may never answer.                                 *)
SearchFairSpec == SearchSpec /\ \A p \in Callers : WF_searchVars(Step(p))

-----------------------------------------------------------------------------
SearchTypeOK ==
    /\ StoreTypeOK
    /\ pc \in [Callers -> {"idle", "looking", "removing", "searching", "collecting"}]
    /\ question \in [Callers -> Keys \cup {NoValue}]
    /\ \A p \in Callers :
          /\ question[p] = NoValue <=> pc[p] = "idle"
          /\ part[p] \in 0..(IF pc[p] = "idle" THEN 0 ELSE Parts[question[p]])
          /\ waiting[p] \in [Tries -> 0..Engines]
          /\ got[p] \in 0..(MaxResults + PerEngine - 1)
          /\ failed[p] \in 0..Engines
    /\ \A f \in {found, someFailed, pierced, cancelled, silent} : f \in [Callers -> BOOLEAN]
    /\ sweep.names \subseteq Paths /\ sweep.at \in Paths \cup {NoValue}
    /\ sweep.step \in {"idle", "reading", "removing", "deleting"}
    /\ kept \subseteq Paths /\ raced \subseteq Paths

(* A stored result stays in the store until it ages, unless its removal    *)
(* was decided before it was stored: Get and the sweep decide under one    *)
(* lock and remove under another, and only that window loses results.      *)
ShelvedIsThere == \A f \in kept \ raced : entries[f].is = "fresh"

(* The shelf and the store agree.                                          *)
ShelfSound == SearchTypeOK /\ ShelvedIsThere

(* A call tells that all engines failed only when each of them reported an *)
(* error for each part: an engine that was slow, or found nothing, is not  *)
(* counted among the failures.                                             *)
PiercedIsTrue ==
    \A p \in Callers : Done(p) /\ ~found[p] /\ Reason(p) = "pierced" => ~silent[p]

(* Every search ends, though no engine may ever answer.                    *)
SearchEnds == \A p \in Callers : []<>(pc[p] = "idle")

(* An answer from the store is an answer to the question that was asked:   *)
(* the store is keyed by the query as it was written.                      *)
SearchAnswersQuestion ==
    \A p \in Callers :
        pc[p] = "looking" /\ Servable(File(p)) => entries[File(p)].value = question[p]
=============================================================================
