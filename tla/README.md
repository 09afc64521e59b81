# goharness in TLA+

goharness is a Go library that runs LLM agents for a host program: a *main session* talks to the
user, calls tools, and dispatches *sub-agents* that work in sessions of their own. This directory
holds TLA+ models of the parts of it that are hard to test, the TLC configurations that check them
on small instances, and proofs, checked by TLAPS, of what holds for every size.

Paths below are relative to the repository's root (`agents/subagent.go` and so on). Every
definition that models code is listed with its source lines in `PROJECT.json` under `map`.

## 1. The system

| component | state | operations | interacts with |
|---|---|---|---|
| Sub-agent dispatcher (`agents/subagent.go`) | sessions in memory with claim flag, last use, failure streak, mutex; semaphore of 20; stop handles; failed-task anchors | `Submit`, `getOrCreate`, `findIdleSession`, `recoverLatestSession`, `runTask`, `cancelSponsored` | session store, control plane (goagent), run loop, host callbacks |
| Permission and question bubbling (`agents/permission.go`, `ask_user_wait.go`, end of `subagent.go`) | one channel per run and kind, registry of waiting sessions, pending permission of a session | show, register, wait, look up, forward, resolve, time out | front end, run loop, dispatcher |
| Run loop and event bridge (`agents/loop.go`, `event_bridge.go`, `loop_hook_adapter.go`, `tool_adapter.go`, `pairing_repair.go`) | marks of what was written back, token usages, images, suspension kind, termination reason | one turn of a session: repair, run engine, write back, suspend, resume | engine (goagent), session log, bubbling, hooks |
| Session log (`session/session.go`, `compaction.go`) | messages, cursor, summary, in memory and in the store | `Append`, `Current`, `DeleteRound`, `Reset`, `Truncate`, `TryCompact`, `ForceCompact` | session store, LLM (summaries) |
| Session side files (`session/whitelist.go`, `file_modify.go`, `perm.go`, `pending_ask.go`) | whitelist, tracked files with backups, pending records | add, track, confirm, roll back, set, take | file system, tools |
| Planning tasks and teams (`tools/task_*.go`, `team_*.go`) | tasks with status and edges, teams | create, update, list, delete | key-value store |
| Control plane and collection (`tools/collect_results.go`, `agents/collector.go`) | entries of dispatched tasks (in goagent), harvest records | settle, look up, wait | dispatcher |
| Event bus (`events/eventbus.go`, `agents/event_setup.go`) | subscribers with buffered channels, one bus per run, the chain to the parent's | subscribe, emit, cancel, close, forward | run loop, front end |
| Key-value store (`store/kvstore_fs.go`) | one file per key, with expiry | get, set, delete, list, clear | tasks, search cache |
| File tools and read state (`tools/read*.go`, `edit.go`, `write.go`, `tools/filestate`) | time and content last seen of each file, readings given | read, edit, write, append | file system, file tracking |
| Sandbox (`sandbox/`, `tools/utils.go`) | the compiled policy | check before, enforce when run | tools, whitelist |
| Commands (`tools/bash*.go`, `run_script.go`) | child process, its pipe, its group; one `.venv` per directory | run, copy output, kill, give up waiting, prepare the environment | operating system, sandbox |
| Search (`tools/web_search.go`, `stealth_client.go`) | requests under way, results kept for two days | ask all engines, try again, store, sweep | engines, key-value store |
| Hooks (`hooks/`), tool executor (`tools/executor.go`) | order of hooks, results of a round | before and after a call of the model or a tool | run loop |
| LLM client, prompts, skills, configuration, other tools | none to speak of | input and output | outside services |

What is hard here:

* **Concurrency.** `Submit` runs in every caller's goroutine, `runTask` in one goroutine per task;
  claim flag, mutex and semaphore are three locks with different lifetimes. Words of the user
  arrive in yet other goroutines. Events are sent on to the parent's bus under a read lock. Sub-agents
  share one file system, one store, and one Python environment per directory.
* **Ordering.** A request is shown before somebody listens for its answer; a task is settled before
  its failure is remembered; messages are stored before or after memory changes; tokens, images and
  results are matched to messages by counting.
* **Failure.** Stores fail in the middle of multi-step updates, host callbacks panic, runs are
  stopped, waits time out, processes outlive the one that started them, the harness restarts with the
  stores as they are.
* **Staleness.** What `Grant` decided is decided again by `Execute` when the world has moved on; a file
  that was read changes before it is written; a hash outlives the environment it stands for.

## 2. What makes the components correct

* Dispatcher: runs of one session exclude each other; the semaphore is given back once on every way
  out; every accepted task is settled exactly once; a claim ends with its task; a stop reaches the
  runs of its main session and no others; a failed task is sent back to where it failed and what is
  asked there makes sense to the sub-agent.
* Bubbling: an answer reaches the request, or at least the session, it was given for; what is
  registered can be sent to; every wait ends.
* Access: nothing outside the workspace is used but what policy or user allowed; what the user allowed
  for the session stays allowed and nothing else does; the two stages decide alike about one world.
* Tasks: no task waits for itself; an edge is on both ends; status moves forward; nothing recorded is
  lost.
* Session log and turns: memory and store agree after every operation, failed or not; no message is
  hidden that was not summarised; in a request every tool call has its answer next to it; what the user
  said survives a repair; what the engine said is stored once and in order; a permission or an answer
  completes its call once and is not asked for a call that is gone.
* Run record: every message is written once, with the tokens of its own call and the image of its own
  result; every call of the model is accounted for once; the reason told for an end is the true one.
* Event bus: nothing is sent to a closed channel by surprise; critical events arrive; the events of one
  emitter keep their order; nobody waits for a lock for ever.
* Files: nothing is written over that the writer has not seen; "unchanged" is told of what did not
  change; what is rolled back is what was there before.
* Commands: what is shown is what was written, and told to be cut when it is; a success is one; a call
  comes back whatever its program does; a script finds what its requirements asked for.
* Search: a stored result is lost only to a removal; "all engines failed" is told when they did; a
  call ends.

## 3. Modules

`MC*` modules instantiate their module for TLC. Which modules compose others: `FileTools` extends
`FileTracking`, `Access` extends `Sandbox`, `WebSearch` extends `KeyValueStore`, `Commands` extends
`VirtualEnv` and `CappedOutput`, and `SubAgents` is shown to implement `SubAgentService`.

### SubAgents, SubAgentService, SubAgentsProofs, MCSubAgents

`SubAgents` is the dispatcher. A *task* is one submission; `pc[t]` is where its goroutine stands.
Each critical section of `m.mu` is one action, and so is each step between two of them that touches
shared state; nothing else is merged.

| in the model | in the code |
|---|---|
| `registered`, `spawning`, `lastUsedAt`, `streak`, `lock` | `m.states[id]`: presence, `spawning`, `lastUsedAt`, `iterationFailStreak`, `mu` |
| `sponsored` | `m.sponsored`: main session, sub session, cancel function (here: the task whose run it cancels) |
| `anchors` | `m.failedTaskAnchors` by main session and hash of the text |
| `slots` | length of `m.subagentSem` |
| `board` | the control plane's entry of the handle: none, pending, completed, failed, lost with the process |
| `stored`, `activity`, `history` | the session store: profile, `LastActivityAt`, task texts among the messages |
| `Submit`, `ClaimExplicit`, `FindIdle`, `ListSessions`, `Recover`, `Create`, `Admit`, `Trip`, `Launch` | `Submit` and what it calls, in order |
| `AcquireSlot` ... `RecordAnchor` | `runTask` and its deferred calls, in order |
| `CancelSubAgents`, `CancelAllSubAgents` | the stops of `Runtime` |
| `Restart` | the end of the process: the store stays |

Times are kept as places in their order, since the code only compares them. A panic of a host
callback is possible where the code guards against one.

`SubAgentService` is what the callers of the `SubAgent` and `CollectResults` tools rely on: a task is
accepted or refused; accepted tasks execute one at a time per session and are settled once. The
dispatcher implements it (`ServiceSpec`), including its liveness.

### Bubble, BubbleProofs, MCBubble

`Bubble` is the way of a question from a sub-agent to the user and back. A *run* owns two channels; `wait` and
`since` are `pendingCh`/`pendingAskCh` with their times (as places in their order), `buffer` and `closed` the
channels. The user's *words* name a session (sub-agents) or nothing (main sessions); `coming` are those on
their way. Looking up and sending are two actions, as in `dispatchPermission`. A model run keeps, for every
request, whose word settled it (`verdict`), which the code does not record.

### Conversation, ConversationProofs, MCConversation

`Conversation` is a main session: its message log and the turns that read and extend it.

| in the model | in the code |
|---|---|
| `mem`, `cursor`; `stored`, `storedCursor` | `Session.messages`, `cursor`; the same in the session store |
| `perm`, `ask` | `pendingPermission`, `pendingAsk` with their files (one variable each: the file is written with the field) |
| `summary` | the windows that a `TryCompact` (turn) and a `ForceCompact` (host) captured and are summarising without the lock |
| `pc` from `compact` to `write` | where `runWithGoAgent` is; `delete`: `DeleteRound` holds the lock |
| `todo`, `out`, `then` | messages still to append; the engine's messages past `writeLen`; whether the run goes on after the write-back |
| `cut`, `gone` | index of the repair, tool calls it removed |
| `StartSummary` ... `NoSummary` | `TryCompact`, `ForceCompact`, `doCompact`, `executeFullCompaction` |
| `TakeWord`, `PassWord`, `TakeText`, `Reply` | `resolvePermissionMagicWord` and the start of `runWithGoAgent` |
| `FindBreak` ... `Invalidate` | `repairToolPairingBreak`, `invalidatePendingsAfterRepair`, one action per call on the session |
| `Iterate`, `Suspend`, `Cancel`, `Finish` | what the engine hands to `eventBridge.Emit` |
| `Write`, `Written`, `WriteFails` | `writeBackNewMessages`, one action per `Append` |
| `HostTruncate`, `BeginDelete` ..., `Reset` | what a host may do to the log |
| `Restart`, and `Load` in `Begin` | the end of the process; the hosts load the session anew for a turn |

A message is its number, its role and its calls or the call it answers; numbers grow in the order in
which messages come into being. What an iteration of the engine may be is the constant `Rounds`: how
many calls, how many of them executed when it ends, which results are empty (`Append` filters those) and
which are followed by an image (a user message). The cool-down of a failed summary and the token
threshold are free choices. The store of a session deletes by time stamps in seconds: `Ticks` are the numbers
at which a new second begins, and a deletion may take one message of its second or more (`SameSecond`); a
message that is written once more keeps the second of its number. Hosts remove messages only between turns,
loads succeed and users send something that is not blank: these are assumptions of the model.

Five variables are history: `summarised`, `late` (appended while a summary was under way), `said` (user
messages reported as saved and not removed by the host), `replied` (answers to questions reported as saved,
whose question neither the host removed nor a repair rolled back) and `mishaps`, which records that something
happened that the code is known not to make up for. Each property names the mishaps it excludes, and a
mishap is recorded only where it happens:

| mishap | recorded when | what then goes wrong |
|---|---|---|
| `apart` | the store of a `Truncate`, `DeleteRound` or `Reset` fails half-way | memory and store differ; later lengths, which are memory's, cut the store elsewhere |
| `shared` | a round is deleted, and a message outside it was stamped in a second of it | the store deletes that message too, memory does not |
| `dropped` | a repair fails, or the process ends, between the truncation and the last user message put back | messages of the user are lost |
| `rewritten` | a write-back in the middle of a run fails after its first message | the next one writes the batch again |
| `lowered` | a truncation lowers the cursor | the store keeps the higher one |
| `stranded` | a pending record outlives its call: removed by the host, or never stored | the user is asked about a call that is gone |

### TaskGraph, MCTaskGraph, and with WebSearch StoreProofs

`TaskGraph` is the store of planning tasks. `call` is the `TaskUpdate` under way with its copy of the
task and the edges still to add; each write to the store is one action, so that refusals, failing
writes and a crash may come between any two. The tools of a session run one after the other, so one
call is enough. `CanReach` is the code's search as what it finds, the tasks in every set that has the
first one and is closed under its edges. Subjects, owners and metadata are left out: no property tells
them apart.

### Sandbox, Access, MCAccess, and with EngineRun ToolCallProofs

`Sandbox` is the two decisions about files, commands and addresses, as operators over the policy in
force and the world: the real paths that exist, one directory that may be a symbolic link (`Followed` is
where a path leads, `Behind` whether the link is on it), the addresses of hosts. A path that exists is
compared by where it leads, a path that does not by its own name, as `EvalSymlinks` leaves the code no
other; the properties of `Access`, a call on its way through the decisions, judge both by where they lead.

| in the model | in the code |
|---|---|
| `CheckFile`, `CheckCommand`, `CheckURL` | the checks of `sandbox/`, asked by `Grant` |
| `EnforceFile`, `EnforceURL` | `EnforceSandboxFileWithWhitelist` (`tools/utils.go`) and the URL check, asked by `Execute` |
| `whitelist`, `stored`, `NotLoaded` | `Session.whitelist`, `session-wl.json`, not yet loaded |
| `pending` | `pendingPermission` and `session-permission.json` |
| `CallGranted`, `CallAsks`, `Execute` | `Grant` that lets through or asks; the tool's own check |
| `MagicWord` | `resolvePermissionMagicWord` with its three words |
| `Reopen`; `UpdatePolicy`, `CreateOrRemove`, `Relink`, `Rename` | a host loads the session anew; the world changes |

A pattern is the set of names it matches, a subnet the set of addresses in it, a command its words of
interest. Letter case, missing rights and an empty project directory are left out.

### FileTracking, FileTools, FileToolsProofs, MCFileTools

`FileTracking` is the list of modified files of a session with their backups (`session/file_modify.go`
and its hook), `FileTools` the `Read`, `Edit` and `Write` tools over it, with the table of what was last
seen of each file (`staleStates`) and the table that answers a repeated reading with "unchanged"
(`readFileStates`). A tool's look at the file, its load and its store are separate actions, so that other
sessions and other programs (`ExternalWrite`, `ExternalDelete`, `ExternalTouch`) come between. A content
is the set of writes it shows; times are counted, and `Tick` lets one pass. `raced` records that a
change fell between two looks at a file, or into the millisecond another one was recorded for: the code
compares times, so it cannot see these.

A tool runs when its file is tracked, or nobody tracks for the session (`BeforeTool`); when the copy cannot be
made the hook returns an error and the call is refused (`HookRefuses`). A copy or a restoration that fails
leaves the file as it was, or with a part of what was to be written (`HalfWritten`). `mislaid` records the
files that left a session's list, or came back to it, without being tracked, confirmed or rolled back.

### KeyValueStore, WebSearch, MCWebSearch

`KeyValueStore` is the file store: an entry is fresh, old (its own date says it is too old to
serve, but the store still has it), expired or unreadable, and `Get` gives its read
lock back before it removes what expired. `WebSearch` is the tool's calls over it: `Look`, `RemoveFound`,
`AskEngines`, the engines' answers and retries (`Try`), `Collect`, `AfterFirst` and `Deadline` (the three
ways the select ends), storing (`EndFound`), and the sweep of the store, file by file.

### EngineRun, MCEngineRun

One run of the engine as this side of it records it: the loop hooks before and after a call of the
model, the tool adapter with the tool hooks, the bridge's bookkeeping (`Complete`, `WriteBack`), the
suspension and resumption of a sub-agent, and the reason told at the end. `coord` is `hookCoord`, `bridge`
the marks of `eventBridge`, `held` the request for the user that the session holds open, `log` what was
written to the session. A write-back is one action per message (`WriteMessage`, with its tokens and image;
`WriteEnds`, which moves the mark), `at` the message it has got to. A message is known by its place in the
engine's context. `Conversation` abstracts all this to "rounds"; `EngineRun` is what a round is made
of, without the session's other users.

### EventBus, EventBusProofs, MCEventBus

`calls[e]` is the stack of a goroutine's calls of `Emit`, one per bus up the chain of parents, each
waiting for the read lock, asking filters under it, or sending after it; `writers[b]` are the calls that
wait for the write lock. A run's own subscription (`Run`) forwards to the parent and calls the host's
handlers from its filter. A send to a closed channel panics in Go; here it ends the emitter's goroutine
(`dead`), as a handler's panic does.

### CappedOutput, VirtualEnv, Commands, MCCommands, CommandsProofs

`CappedOutput` is pure: the buffer that keeps a bounded number of bytes, cut near the end of a
character, and the cut to a bounded number of characters. A program writes whole characters, the pipe and
the buffer hold bytes, and a chunk may begin or end inside a character; what is shown is compared with the
characters of the whole output (`Runes`). `VirtualEnv` is a directory's `.venv` and its manager;
`Commands` is a call of Bash or RunScript with its child.

| in the model | in the code |
|---|---|
| `disk`, `managers`, `managerOf` | `.venv` and `requirements.txt`; the `venvManager`s with `reqHash` and `mu` |
| `LookUp`, `Lock`, `Create`, `ReadRequirements`, `Install` and their failures | `executePython`, `ensureVenv`, `createVenv`, `installRequirements` |
| `Start`, `Copy`, `Reap`, `GiveUp` | `exec.Cmd` with its copying goroutine and `WaitDelay` |
| `Deadline`, `Cancelled`, `Kill`, `KillChild` | the context's end, `cmd.Cancel` with the process group (Bash) or the child alone (scripts) |
| `Prints`, `Forks`, `BackgroundEnds`, `Exits` | the program, which may do anything in any order |
| `Report` | how Bash and RunScript make their result of what `Wait` returned |

The Windows variant is left out, as is an interpreter the host gives (it goes around the managers).
A language other than Python is the kind of call "Script".

## 4. Runs

All runs use small sets of model values and `CHECK_DEADLOCK FALSE`: submissions, requests, calls and
task ids are finite in every instance, and a dispatcher, a user or a store with nothing left to do is a
legitimate end. A property named `...Sound` is a conjunction of named parts, the type invariant first.

| run | what it shows | bounds |
|---|---|---|
| SubAgentsShared | slots, stop handles and claims are held by who will give them back; one run per session; failed texts go back; a task runs without its text only to continue another's work | 3 tasks of two texts that end by exhaustion or failure, 2 sessions that may be named, breaker at 2, 2 slots, panics, 1 restart |
| SubAgentsFair | no double claim while nobody names a session; every handle is settled, once, every claim returned; the dispatcher implements the service | 2 tasks, 2 main sessions, 1 slot, failing store, panics, 1 restart |
| BubbleRouted | `RegistrySound`: the registry is exact and what is in it open; no word settles a request of another session; every wait ends | 2 sub-agents, 2 runs, 2 requests of either kind, 1 main session, 1 word each |
| Access | `WhitelistSound`: the list is what the user allowed, in memory and on disk; a call let through runs, and a call that runs was not asked about, unless the two stages look at different things; what really lies outside the workspace is used only where the user allowed it, but for new files behind a link | 3 policies (one refused), 9 calls of 7 tools, one of them a write behind the link, 1 link inside that may lead out, 1 change of policy or world, failing saves, fewer than 3 entries allowed |
| ConversationTurns | `LogSound`: the log keeps the engine's order and answers a call once; requests answered, the user's messages and answers kept, nothing hidden unsummarised, pending records live, memory and store agree | 3 turns, 1 iteration with tools in each, 3 kinds of iteration, 1 disturbance of any of six kinds (a forced summary between the first turn and the third), seconds of two messages |
| ConversationSplit | a disagreement, see below | 2 turns, no disturbance |
| EngineRuns | `RecordSound`: messages written once, calls accounted once; tokens and images where they belong; the reason told is true and advice given once | 2 iterations, 2 calls each, 1 resume, any `Append` may fail |
| EventBusChain | `DeliverySound`: no send to a channel closed by surprise, none closed twice, order kept; critical events arrive; calls return | 2 buses, 3 events, 1 channel with room for 1, cancelled twice, 1 waiting writer, panicking handlers |
| FilesShared | `NothingUnnoticed`: nothing unseen written over and no false "unchanged" without a race; `TrackingSound`: what is listed is what is open, and its copy what was found; rollbacks restore | 2 sessions (1 tracks), 1 path, 3 writes, 3 ticks, tables of 1 entry, 1 failing operation: a write, a copy or a restoration (also half-way), a removal, the store |
| CommandsRun | `OutputSound`, `ProcessesSound`, `EnvironmentSound`: what is shown, what is told, what is installed; nobody hangs | a Bash call with up to 8 bytes and a cap of 6, or 2 Python calls in one directory; 1 edit, 1 removal, 1 restart |
| TaskGraphUpdates | `GraphSound`: no cycles; status forward, edges kept | 2 tasks and a team of one, one edge per call, failing writes, crashes |
| WebSearchShared | `ShelfSound`: only removals decided earlier lose a stored result; "all failed" is true; calls end | 2 callers, 2 engines, 2 parts, 2 tries, failing writes, a sweep |

Three tasks are enough for the dispatcher's races: one that holds a session, one that queues behind
it, one that chooses. Two runs are enough for a word that comes too late: they are two runs of one
session, or one of each of two. The breaker counts to 2 so that a session passes through a streak that
is above zero and below the limit, which is when the continuation prompt is used; two texts, so that it may
be another's streak. Two tasks and a team
task, with an edge per call and any number of calls, make cycles of up to three tasks possible.

Three turns are one that suspends, one that answers, fails or is repaired, and one that reads what was left;
the fourth would begin where the third ended. Seconds of two messages put a boundary inside a round, at its
ends, and a neighbour's message in its second. One disturbance at any step shows what each does alone;
two together take longer than a run should. A summary forced in the first turn, or under way in the third, would
meet the same steps with less before or after them (`ForcedBetween` leaves these out).

The liveness run of the dispatcher has two tasks and one slot: the second waits for the first whichever
session it was given, and for its mutex as well when they share one.

One change between `Grant` and `Execute`, or while a call waits for the user, is what makes a decision stale;
a second one would be another reason for the same staleness. Two iterations with two calls let every counter
of the bridge be one off in either direction, and a resumed run starts with the counters of the first. One
channel on the parent's bus sees events from both emitters, and is where an event of the child may be sent
after it was closed; a second waiting writer waits for what the first waits for. Three writes of a file are
the one that is read, the one that comes between, and the one that goes over it; one path keeps the two
sessions on it, and what the limits of the tables do to a second one is in section 8. Eight bytes of output
pass the cap of six in every way a character of three bytes can lie across it. A Bash call and a script call
share no variable, so the instance has either (`Together`). Two callers of one question meet at every step of
the store. The sets of `MCAccess` hold one of each: inside, outside, a secret outside, a directory, each kind
of tool.

### Disagreements found

`ConversationSplit` ends in a counterexample to what a comment of the repository says: a summary at the
start of the turn that answers a call hides the call, and the answer alone is in the request
(`session/session.go:545`, `agents/compactor_observation_test.go:66`). Further disagreements are in
section 8, with the property that shows each. More of what the models show of the core:

* The end of one task clears the claim of another that was sent to the same session by name; idle reuse
  then queues a third task behind it (`ReleaseSpawn`, `FindIdle`; `agents/subagent.go:371`).
* The failure of a task is reported before its anchor exists: a quick retry goes to another session
  (`RecordAnchor`; `agents/subagent.go:780`).
* The breaker reads the streak at admission, so every dispatch admitted before the first failure runs
  (`Admit`, `StreakAfter`).
* The answer to a request that was abandoned is taken for the next request of its session
  (`Recipients`; `agents/permission.go:323`). A word for a permission of the main session that was rolled
  back goes to whichever sub-agent waits longest.
* The mishaps of `Conversation` (section 3). An image between two results, or an empty
  result, makes a call look unanswered: the next turn rolls its round back (`Keeps`).
* A `TaskUpdate` whose second edge is refused leaves the far end of its first edge stored (`AddEdge`).
  Creating a team again puts its tasks back to pending, a team's own list of tasks is never filled in, and
  deleting it leaves its tasks (`TeamCreate`, `TeamDelete`).

## 5. Fairness

Weak fairness is assumed of every step of a goroutine that has begun: Go schedules runnable
goroutines, and a mutex or channel with waiters is eventually served. Strong fairness is used exactly
where a lock is taken and given back by others meanwhile: the dispatcher's semaphore and mutexes, and the
environment's mutex (`TakeLock`). Beyond that:

| run | assumed | not assumed |
|---|---|---|
| SubAgentsFair | a run ends, having a maximum of iterations and a timeout for each LLM or tool call | submissions, users, that the process stays alive |
| BubbleRouted | a wait has a timer | that a user answers, that a model stops asking |
| EventBusChain | emitters and waiting writers proceed; hosts read their channels until they cancel (asked of hosts by the code: a critical event waits for room) | that anybody emits, joins or leaves |
| CommandsRun | timers fire, goroutines copy and wait, `python -m venv` and `pip` end (`pip` runs under the call's context, `venv` does not: that it ends is asked of Python) | anything of the program: it may never exit and never close its pipe |
| WebSearchShared | the call's own goroutine and its timer | any engine: it may never answer |

The other runs check safety only.

## 6. Proofs

`SubAgentsProofs` proves for every number of tasks, sessions, main sessions, slots and restarts, from
`ConstantsAssumption` alone:

* `TypeCorrect`, `SlotsSafe`: `TypeOK` is not inductive, because `slots` goes down on release. The
  invariant `WellFormed` adds that a task past a phase has its request and session (`Placed`), that only finitely
  many sessions were used (`FinitelyUsed`, for ranks of times) and that `slots` counts the tasks
  between acquiring and releasing (`SlotCount`).
* `MutualExclusion`: `LockHeld` says that the mutex of a session is held by the task that is between
  locking and unlocking it, which `OneRunPerSession` follows from.
* `HandlesExact`: `HandlesHeld` adds which runs may be cancelled.
* `ClaimsOwned`, `VerdictFinal`: a claim has a task that will clear it; `SettledLast` says which
  phases leave the entry of the control plane pending.
* `HoldingsSafe` puts four of these together: it is the invariant `HoldingsOwned` that the run checks.
* `AnchorsHold`: from the moment a goroutine is done, its text has an anchor, at a session where a task of
  that text failed (`AnchorsKept`). It is stated of behaviours in which no anchor is recorded while the table
  is full (`NoOverflow`), because `rememberFailedTaskAnchor` empties a full table; the other steps are free.
* `ClaimsDistinct`: a claim made by finding, recovering or creating takes a session nobody on the way has
  (`ClaimsMarked`: such a session is in memory with its flag up, and what is in memory is in the store, so it
  is not created again). It is stated of behaviours in which no submission is sent to a named session, by its
  caller or by an anchor (`NobodyNames`): `ClaimExplicit` takes the session whether it is claimed or not, and
  then two tasks do share it, see section 4.
* `ContinuesWork`: with any number of texts in a session, and with no condition. A streak is that of a task of
  this process which used up its iterations there and whose text the session knows (`StreakTold`, `Spent`);
  a restart ends both. So a task told to continue has its text in the session or is told to continue
  another's work (`Excused`), and what excuses it stays (`ExcusedStays`): a spent task is never asked again, and
  histories only grow. That the text is there in every case is what the comment at
  `agents/subagent.go:562` says, and false (section 8).
* `ImplementsService`: every step of the dispatcher is a step of `SubAgentService` or changes nothing the
  callers see, from `SettledLast` and `LockHeld`: the safety half of the refinement that `ServiceSpec` checks.

`BubbleProofs` proves, for any number of sessions, runs, requests and words, from `Bubble`'s assumption alone:

* `RegistryIsSound`: a session that answers has a run of its own, used once (`RunsApart`), asks a request
  of its own (`AskedOwn`), and a closed channel belongs to a run that is over or closing (`ClosedOver`). Only
  finitely many sessions wait at a time, so the order of waits is one of numbers (`FewWait`).
* `VerdictsReachTheirSession`: between look-up and send the run that was looked up may end and another may
  begin. `WordsKept` says that a channel with a word for a sub-agent in it, or on the way to it, is that
  of no run of another session, however old the channel is.

`StoreProofs` proves, for any tasks and teams, for calls whose edges have the declared type (`EditsTyped`):

* `UpdatesForward`, `UpdatesKeepEdges`: the copy a call works on is never behind the stored task
  (`CopyAhead`), because the call writes only to other tasks until it saves; a check that let a task be its own
  neighbour (the `from = to` of `CanReach`) would break it.
* `GraphsAreSound`: no task waits for itself, for calls that add edges on one side only (`EditsOneSided`). The
  hypothesis is needed: `canReach` reads the store, which lacks the edges of the copy
  (`tools/task_update.go:151`), so a call with both kinds closes a cycle (section 8). `Unclosed` says that
  nothing the copy blocks leads back to its task, through whatever half of a call the store has seen;
  `MoreEdges`, that edges from one task to tasks which do not lead to it make no cycle. Closed sets make this
  provable without induction over paths.

and of searches, for any callers, engines, parts, tries and questions, from the assumptions of `WebSearch` and
`KeyValueStore`:

* `ShelfKept`: what is about to be removed was found not to be fresh, and nobody is about to remove what was
  stored, unless it was stored over a file whose removal had been decided (`Shelved`).
* `PiercedTold`: the call counts waiting engines by try, and failures, but not which engine is which. There is
  always an account of the engines, each in one of its tries, failed or heard, that explains all counts
  (`Accounts`), and every answer or failure moves one engine in it (`SearchesSound`); so when
  every engine is counted as failed in a part, none was heard or is still waited for, and a call that tells
  "all failed" had no engine without an error in any part.

`ConversationProofs` proves, for every set of rounds that satisfies `IsRound`
and any number of turns, failures, restarts, forced summaries and removals:

* `TypeCorrect`: `Placed` adds that a turn waits only for its own summary, that a reply has something to
  append and that a round being deleted begins in the log.
* `RequestsAnswered`: `Sound` follows what a repair keeps from the index in the window to the one in the
  log. A forced summary may move the cursor between the two; then what is kept reaches past the log
  or before the window, which is empty, and the request is sound all the same (`EmptyAnswered`,
  `TruncateAnswered`). What is kept is answered because no answer lies past a user message (`KeptAnswered`).
* `StoresAgree`: while a round is deleted the store is the log without some messages of the round: which of
  those that share a second are gone is open (`Deleting`, `Replaces`). What is left of the round can be paired
  with calls of the store still to come, each of the same second (`Pairing`), so after the last call nothing
  is left (`DeletesOne`, `DeletesRound`), and no message outside the round goes, unless one has a second of
  it: `shared`.
* `PendingsLive`: a repair that is about to truncate knows the calls of every message past the cut
  (`Rolling`), also when a forced summary moved the cursor to the end of the log meanwhile; so a pending
  call is in the log, or in what is about to be invalidated or written (`Live`).
* `UsersStay`: what was reported as saved is in the log or in what a repair still has to put back, and a round
  being deleted has none of it (`Saved`). An answer to a question is a tool message and is never put back, so
  it stays with its question (`Replied`): the calls in what a repair keeps are answered there, so an answer
  past the cut to one of them would be a second one, which `LogIsSound` rules out; that is why a batch written
  twice (`rewritten`) is excepted for answers. `UsersKept` excepts a store that differs from memory:
  truncations cut it to memory's lengths, and it is what the next turn loads. That a repair may take the
  question with its answer is `AnswersStay` in section 8.
* `HiddenIsSummarised`: the stored cursor is not past memory's, and a summary under way accounts for
  everything in the log that no summary or late message does (`Hidden`), for the turn's and the host's at once.
* `LogIsSound`: a message is known by its number and the call it answers, which waits for nothing any more
  (`Counted`); what is about to be written follows what is in the log and in the store (`Told`), and
  a removal only thins a log out (`Thinned`).

`CommandsProofs` proves, for any number of calls, directories, versions of the
requirements, deletions, failures and restarts, from `EnvAssumption`, `CommandsAssumption` and `CapAssumption`:

* `EnvironmentsSound`: `EnvSound` adds to the property that a call in `ensureVenv` holds the manager of
  its own directory (`Owned`), that directories do not share managers (`Apart`), and that the hash kept
  is never newer than what is installed unless the environment was deleted since (`Versions`): `pip` reads
  the file after it was hashed, so what it installs is at least as new. That the manager is found under
  one lock is what keeps a second one from being made for a directory.
* `ProcessesTold`: `CallsSane` says, phase by phase, what `Wait` may have returned and what is known of
  the child, its group and its pipe then. A success told is a child that exited with 0 and whose pipe was
  read to its end; a killed Bash call leaves none of its group.
* `OutputsShown`: the buffer is exactly the bytes read so far or, once the cap cut, agrees with the output up
  to a byte that begins a character and lies two to four bytes before the cap (`KeptOf`). Behind that byte
  there may be a gap: a later chunk is cut again, and `CutPoint` never stops before such a byte
  (`CutsBehind`, `BeginsBeforeCap`). No rune is longer than `CharBytes`, so by `CapAssumption` at least
  `MaxRunes` of them begin before it, alike in buffer and output (`RunesAreShort`, `AlikeRunes`). Runes
  are counted by the positions they begin at, not by recursion, which is what makes this provable; that no
  two begin at one position and none is left out is `NthIs`.

`EventBusProofs` proves, for any number of goroutines, channels and events, from `BusAssumption` and
`ChainAssumption` (a run's bus is made after the bus of the run that started it, so parents do not
form a ring):

* `DeliveriesSound`: a goroutine's calls climb to ever older buses, each below the last one asking the
  run's filter, which is telling the parent (`Climbs`); so a bus is visited once for an event, and what a
  call has yet to do no channel has seen (`Unsent`). Under the read lock, whoever was chosen is
  still subscribed, with an open channel (`Subscribed`, `Asks`); a send comes after the
  lock is given back and may meet a closed channel, which ends the goroutine.
* `CriticalsArrive`: of a critical event, those a call has sent to have it in their channel or have
  read it (`Delivered`), whoever leaves or closes meanwhile.

`ToolCallProofs` proves, for any sessions, calls, policies and links, from `AccessAssumption` and
`SandboxAssumption`:

* `ListSound`: `WhitelistSound` with the type of the lists is inductive as it stands; `AddingIsNew` says
  what an addition makes of a list, and `RememberStep` what it makes of memory and store.
* `OutsideAllowed`: where the list was compared, paths that exist were compared by where they lead
  (`ResolvedLies`), and being inside is kept when both sides are followed (`WithinWithin`, `FollowedAway`,
  `LedAway`), so what ran outside was run on an entry of the list, and every entry was given by the user
  (`ListSound`, `RanOutside`, `WasAllowed`). A new file behind a link was not followed; it is the exception,
  by name, and needed (section 8).
* `StagesAgree`: `StillGranted` adds that what `Grant` let through it would let through again until a file,
  a link, a policy or the list changes (`fresh`).

and of a run of the engine, for any numbers of iterations, calls and resumptions and any loop hooks, from
`EngineAssumption` alone:

* `RecordKept`, `TokensOfOwnCall`: the invariant `RecordInv` (`RunRecorded`) ties three counters that the code
  never compares. The messages are in the order of their iterations and every iteration past has its answer
  (`TurnsInOrder`); a booking not yet used is of this engine run and the only one of its iteration, and the
  ledger has for it what the provider reported (`Booked`); while no `Append` failed, the answers written are
  those below the bridge's counter, every other still has its booking, and the log ends at the mark
  (`Paired`). So the tokens an answer is stored with are looked up under its own iteration.
* `ImagesInPlace`: while every call left a record, a record has the number of its tool message, and the
  bridge has counted the tool messages it wrote (`Numbered`); while no write failed no image is owed
  (`Paid`). Both conditions are needed: section 8 says how an image drifts without them.
* `EndsAsTold`: how the engine stopped has left its trace in the hooks' flags, the bridge or the answer
  (`Stopped`), from which the reason is derived; the streak remembers the advice given (`Advice`).

`FileToolsProofs` proves `UnnoticedNeedsRace` for any sessions, files, sizes of the tables, failures,
rollbacks and restarts, and without the constraint of the run, which stops where the first race happened.
Its invariant `Notices` holds of the files, tables and calls as long as nothing fell into a window: a call
that read or wrote a file knows what is in it and one that is about to write was shown it (`KnowsFile`); a
file with the recorded time was seen by a tool or has the recorded content (`RecordTrue`); a file with the
time of a session's last reading is what that session was shown (`GivenTrue`). The last two are kept by
the clock: a change takes the time it shows now, and a table that has that time recorded makes it a race.
`Listed` is needed for rollbacks, whose restored files are changes like any other.

It proves `TrackingIsSound` and `RollbacksRestore` likewise, for all failures, calls that name several files
and stop between two of them, and hosts that settle a session nothing has loaded: where the code loses track
of a file, the file is `mislaid`, and all others are listed exactly while their modification is open, with a
copy of what they held before. `ListsKept` is the invariant: the list in use is the one in memory once it was
read, else the stored one; only tracking, confirming and rolling back add to it or take from it, and each
keeps the copy in step with it; every other way a file comes or goes is in `Mislays`. A restoration that fails
leaves the copy alone, whatever it left of the file.

Every invariant and every action property that a run checks is stated by a theorem here; the run checks it
on a small instance, and the proof uses the same definition. Some theorems have a condition, which the
items above name and say why it is needed. Model-checked only: liveness (`AllComesBack`, `WaitsEnd`,
`CallsReturn`, `NobodyHangs`, `SearchEnds`) and with it the fairness half of `ServiceSpec`, because temporal
reasoning with `ENABLED` is out of TLAPS' reach.

## 7. Not modelled, and what is left

Not modelled, with the reason:

* the LLM client and its adapters, prompts, skills, configuration, logging: input, output and text; their
  outcomes are free choices of the models (a round ends or fails, a summary is made or not);
* `Grep`, `Glob`, `WebFetch` and the document reader (`tools/read_doc.go`): they read and format, and keep
  no state; that they ask the sandbox is in `Access`;
* batch collection and harvest (`tools/collect_results.go`, `agents/collector.go`): reads of the control
  plane around host callbacks; the entries they read are in `SubAgents`;
* the engine and the control plane of goagent: external, modelled by what the code here sees of them;
* session restore of the file store (`FileStore`), the hosts' own interface to the search cache, and the
  Windows variant of commands;
* wording and layout everywhere; line ranges and images of `Read`; token estimates.

In the models, for each: what is left out or assumed.

* `Conversation`: hosts remove messages only between turns; loads succeed; a message written once more keeps
  the second of the first time.
* `Access`: one project directory; letter case, missing rights, an empty project directory left out. The
  run script tool's interpreter is not looked at.
* `EngineRun`: calls without an id; the text of messages.
* `EventBus`: what a caller that recovered from a panic emits afterwards.
* `FileTools`: a session whose host confirms or rolls back before its messages were ever read (`EarlyCalls`),
  and several files at once (`SeveralFiles`), are in the model and in the theorems, but not in the run.
* `VirtualEnv`: the requirements do not go back to an older content, and a directory is named by one
  spelling of its path (the managers are found by the string).
* `WebSearch`: engines and results are counted, not named.

What is left of the plan, in this order:

1. The composition of `EngineRun` with `Conversation`: that its write-back is one of the latter's rounds.
2. A run of `FileTools` with two files, when its state space allows.

## 8. Known disagreements

The code does not do, in these cases, what its documents, comments or callers expect. Each property below
is defined in its module and false of the code: no run lists it, and adding it to the run named (as an
invariant, or as a property when it speaks of steps or of the future) shows the counterexample.

| property | run | what happens | where |
|---|---|---|---|
| `StopReachesAccepted` (SubAgents) | SubAgentsShared | tasks that wait for a slot or a mutex are not stopped with their main session | `agents/subagent.go:755`, `README.md:55` |
| `DroppedAreOver` (Bubble) | BubbleRouted | an answer given before the channel is registered is consumed without effect; the sub-agent waits until its timer | `agents/subagent.go:965`, `agents/permission.go:197`, `README.md:58` |
| `CursorInRange` (Conversation) | ConversationTurns | a truncation lowers the cursor in memory only; loaded again, it is past the end | `session/session.go:741`, `:759` |
| `ApprovedRuns` (Access) | Access | a call the user approved once is refused all the same, when it is outside: only an entry in the list opens a place | `agents/permission.go:251` |
| `AnswersStay` (Conversation) | ConversationTurns | a repair puts the user's messages back but not the answer to a question, which is a tool message although the user was told it is saved | `agents/pairing_repair.go:80`, `:103`, `agents/loop.go:104` |
| `StampsIdentify` (Conversation) | ConversationTurns | a round is deleted from the store by time stamps in seconds, and the store loses a message of another round that was stamped in one of them | `session/session.go:692`, `:661`, `:640` |
| `RealPlacesCompared` (Access) | Access | a file that does not exist yet is compared by the name it was given: a new file behind a link that leads outside counts as inside | `sandbox/policy.go:19`, `sandbox/file_checker.go:160`, `README.md:211` |
| `NeverRefuses` (FileTools) | FilesShared | the hook's comment says that the tool runs whatever becomes of the copy; its error refuses the call | `hooks/action/file_modify.go:57`, `agents/tool_adapter.go:289` |
| `FatalStops` (EngineRun) | EngineRuns | the convergence hook never sees a fatal result: the hook before it takes the results of the round away | `agents/loop_hook_adapter.go:156`, `hooks/loop/convergence.go:7` |
| `ReadRecords` (FileTools) | FilesShared with one session, two `Paths`, `MaxDedup = 2` | a reading answered with "unchanged" leaves the file unrecorded once the table of readings was emptied: the edit after it is refused | `tools/read_text.go:81`, `tools/filestate/stale_state.go:31` |
| `SearchAnswersQuestion` (WebSearch) | WebSearchShared with `Keys = {qa, qb}` | questions that differ only in letters that are not ASCII share a file of the cache | `tools/web_search.go:432`, `:547` |
| `TimeoutTold` (Commands) | CommandsRun | an ordinary timeout is not told as an interruption: the killed child's exit error comes first | `tools/bash.go:361` |
| `RebuiltWhole` (VirtualEnv) | CommandsRun | a deleted environment is made again, but nothing is installed in it: the hash is still there | `tools/run_script.go:326`, `:347` |
| `GraphSound` (TaskGraph) | TaskGraphUpdates with `Edits <- BothSides` | one call with both kinds of edge stores a cycle | `tools/task_update.go:151`, `:25` |
| `TaskTextInSession` (SubAgents) | SubAgentsShared | a different task sent to a session that ran out of iterations is replaced by "continue" and lost | `agents/subagent.go:562`, `:578` |

More that the models show, by component.

* Access. Saying "for the session" to `RunScript` or `WebFetch` adds no entry that is ever used: the
  buckets are looked up by other names than the tools have (`agents/permission.go:356`, `:437`). Of a command
  `a && b` only `a` is remembered. `Execute` of Bash checks the addresses of every command, `Grant` those of
  network commands. `Write` of a new file outside passes `Grant`, which allows what does not exist, and is
  refused by `Execute`. A verdict "deny" still asks the user. A list of allowed commands that holds only
  blanks is no list. An entry added to an instance that has not read the stored list replaces it
  (`session/whitelist.go:83`).
* Files. A rollback or confirmation of a session whose messages were not read stores an empty list over the
  stored one (`session/file_modify.go:193`; `EarlyCalls`). A confirmation or rollback
  that stops at the second of its files leaves the first on the stored list, although its copy is gone, and
  so does a failing save (`session/file_modify.go:96`, `:351`): loaded again, the list names a file that
  nothing restores. All of these are `mislaid`, which `TrackingSound` excepts. When the messages cannot be read
  the list is not either, and is not tried again. A `Write` that appends makes the next `Edit` refuse its
  own change. An empty file that was read is not recorded.
* Search. "No match" is told also when the deadline ended the wait (`tools/web_search.go:519`). What is stored
  is served whatever number of results is asked for.
* Engine. An image drifts to another message, or is lost, when a call leaves no record
  (`agents/event_bridge.go:512`). An `Append` that fails makes the next write-back repeat messages, with the
  tokens of others, although `:188` and `:446` say once. A resumed engine that fails before its first round
  leaves the messages of the run before out of its context. The number of iterations told is that of the
  longest of the resumed runs, not their sum.
* Events. A handler that panics leaves the read lock held (`events/eventbus.go:89`); the deferred clean-up
  of the run then waits for the write lock for ever, so the recovery above it never settles the task
  (`CallsReturn` excepts `Held`). Events of a child after the parent's clean-up are lost.
* Commands. The capped buffer keeps a lone lead byte when the cut falls right after a whole character, and
  fills the room left with later bytes, although `tools/bash.go:39` promises whole characters; only the
  distance between the two caps hides it (`CapAssumption`). A Bash call whose background process keeps the
  pipe open is told that the command did not start, once `WaitDelay` is over (`:368`), though `:366` advises
  running in the background. A script's background process that keeps its output open keeps the call
  waiting even after it was cancelled: RunScript has no group and no `WaitDelay` (`NobodyHangs` speaks of
  Bash and of the environment). A half-made `.venv` counts as made. What a script wrote to its error
  output is left out of the result when it also wrote to its output.
