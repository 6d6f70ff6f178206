# A TLA+ model of lyteboat's agent core

lyteboat runs conversational agents: an *agent* owns a *session*, an append-only
log of events; a *driver* takes queued input, calls a model, runs the tools it
asks for, and appends everything that happens to the log; a *persistence
backend* writes the log to disk while the session is live, and *repair* makes a
log usable again after a crash. This directory holds TLA+ modules of that core,
TLC configurations that check them, and TLAPS proofs about them. Paths below
are relative to `src/dsh` unless they start with `src/`.

## 1. The system

### Components

| part | state | operations | interacts with | hard behaviour | what makes it correct |
|---|---|---|---|---|---|
| **turn driver** `core/agent-loop/src/agent.ts`, `inbox.ts`, `lyteboat/intake-reply.ts` | phase (idle, maintenance, running), abort signal, latched wake, turn and step, inbox with two lists, tool set of the step | send, cancel, runMaintenance, wakeDriver, kick, preStep, turn, step | appends to the session, hooks, LLM stream, tool batch, session observers that call back | callers between any two awaits *and* inside synchronous notifications; cancellation against every await; a wake that arrives when nobody can take it | no input lost or run twice; input cancelled before its admission never runs; balanced log; nothing held at idle; every abort converges |
| **tool batch** `core/tools/src/batch.ts`, `pipeline.ts` | group, pool, result slots, counters | executeToolBatch, runGroup, startCall, fillPool, commitReady | driver, session log, tool bodies | bodies settle in any order, cancellation and failures in the middle of any await, modes re-read while the pool fills | model order, barriers, pool size, one answer per call, no body outlives the batch |
| **write handle** `session/session-persistence-jsonl/src/storage.ts`, `index.ts`, `lease.ts` | buffer, timer, pause, chain of operations, cursor, torn tail, kernel lock, in-process claim | create, open, enqueueLive, drainLive, append, flush, close | session events, file system, other processes | one drain joined by timer, flush and close; failed writes; crashes; a second process | contiguous append-only file; flush and close keep their promise; one writer |
| **repair** `core/session/src/repair.ts`, `fork.ts`; `resumeWith` in `core/agent-loop/src/index.ts` | none (folds over the log) | openTurnClosers, ToolCallRecovery, buildForkSeed | resume, fork, the driver's failing step | a cut at any event, also inside a previous repair | the repaired log is balanced, honest, and a fixed point |
| **session and store** `core/session/src/index.ts` | log, attachment, announcement state, notices under way | prepare, enter, announce, append, detach | everything | observers run inside the call that notifies them and may append, detach, enter and announce again | every observer sees each event once and in order; an entry outlives its notices; a detach that was put off happens |
| **agent lifecycle** `core/agent-loop/src/index.ts`, `core/agent/src/index.ts` | factory, startups, memoised teardown, registry entry, write claim | create, createAgent, resume, configured restore, dispose | driver, handle, store, registries | several owners tear down at once; an abandoned open resolves late; a publication fails halfway | visible whole or not at all; nothing leaked; nothing lost; disposal ends |
| **surface** `core/session/src/surface.ts`, `core/agent-loop/src/runtime-context.ts`, `compaction/compaction/src/tool-pairing.ts` | nodes the model sees, generation, derived caches, last prompt and context | append, replace, derive, pair, project | session, compaction, driver | rewrites inside what a cache covers; restarts | caches agree with the fold; the model has heard what is in force |
| **compaction** `compaction/*` | bracket of events, retries, the maintenance slot | three automatic triggers, compactNow, recovery | surface, driver, model | the log moves while the summary is made; the summary's request overflows too; crashes | a summary replaces what it summarised; brackets are honest; an overflowing turn ends |
| **follow connection** `api/session-controller/src/web`, `src/history`, `src/client` | accumulator, listener queue, client window | listen, observe, open, deliver, restart | store, assistant stream, client | the log grows and attempts end between listening and opening | a window without holes; transient rows with an owner; the client catches up |
| **client echoes** `api/session-controller/src/client/sessions/session.ts` | receipts and settlements of submitted prompts, inbox projection | submit, observe, reconnect, dispose | prompt call, follow stream, control stream | three channels without a common order, each may be lost | receipts are true, verdicts honest, no echo is left |
| **projections, session lists, archives** `session/session-projection`, `api/session-controller/src/{list,catalog}.ts` | replayed folds | attach, replay, list | store | attach during append | not modelled |
| **LLM seam, prompts, skills** `llm/llm`, `core/system-prompt`, `skill/skill` | registries, stream assembly | stream, retry policy | driver | outcomes only | environment choices of the driver model |
| **lyteboat plugins** `src/lyteboat/plugins/*` | per plugin | intake (admission, history import, fixed replies), chat API, studio, evaluation, metrics, A2UI, routing | hooks, HTTP, projections | intake happens before any model call | the intake decision is modelled; the rest is not |
| **bundles, CLI, contracts** | composition | boot, shutdown | all | none of its own | not modelled |

`PROJECT.json` lists every component with the same verdicts, and under
`hazards` each place of the code that is hard to test, with the properties that
cover it.

### How they interact

A caller sends a message: it is spliced into the inbox (an event of the log)
and wakes the driver. The driver opens a turn (`turn/start`), claims input, asks
the intake, policy and tool hooks, opens a step (`step/start`), logs the
messages, streams a model answer (`assistant/message`), hands tool calls to the
batch (`tool/call`, `tool/result`), and closes step and turn. Every append is
published to observers synchronously; one of them routes it into the write
handle's buffer. Teardown cancels the driver, waits for it, and closes the
handle. After a crash `resumeWith` opens the file under the lock, repairs the
open turn, appends the closers and the end-seed marker, and hands the session to
a new driver.

## 2. Modules

* **`TurnLog`** is the abstract specification: the grammar of a session log
  (turns, steps, tool calls and results) as the fold `repair.ts` computes. The
  driver refines it, the batch's events are steps of it, and the repair model is
  driven by it. Its `Next` is what a log reader may rely on.
* **`AgentDriver`** is `ReactLoopAgent`. An action is one uninterrupted run of
  the JavaScript activity. `pc` is where it waits; `stack` is the JavaScript call
  stack of operations an observer interrupted (`send` between splice and wake,
  `cancel` between its two splices and before the abort, `kick` between the idle
  notification and the replayed wake, a promotion between removal and send).
  `Appending` are the places inside one of the driver's own appends: an observer
  there may abort the agent but any operation that appends throws
  (`Session.publicationEntry`). A claimed batch is logged message by message
  (`Admit`), each message a place where observers run, after the last look at
  the abort signal (`PrepareRequest`, `agent.ts:494`) and before the next one
  (`StartStream`): `Admitting` names the two places where this happens, `Doom`
  what a cancel withdraws. `Caller` is everything the outside may do,
  `Turn` and `Step` the driver, `Return` the rest of interrupted calls. Hooks,
  the model and the tools are choices: resolve or throw, reject, rewrite, reply,
  ask for tools, hit the output ceiling, fail and be retried. The history
  variables (`sent` to `doomed`) record the fate of each message and only serve
  properties.
* **`ToolBatch`** is `executeToolBatch`/`runGroup`. `pc` is the await the
  scheduler is in (`prepare`, `commit`, `race`, `drain`); `stage[i]` is the
  dispatch of call *i*, which settles on its own. `kind[i]` is chosen when the
  code reads a mode, at the head of a group and again before each later start.
* **`JsonlHandle`** is every write handle of one session, over the file, the
  lock and the claims. `queue` and `stage` are the handle's promise chain and the
  await its head is in. `draining` is the memoised drain: active, or over and
  not cleared yet. A drain of an empty buffer is over at once, and `Finally`
  (the promise reaction of `storage.ts:289`) clears it later; a `flush` in
  between joins it, so `asked` (what was published when `flush` was called) and
  `want` (what its drain was to store) differ. `Settling` says that promise
  reactions are due: they come before any timer and any result of input or
  output, while other code of the same stretch may still publish and flush.
  `Crash` ends all handles of a process at any point; a
  write in flight reaches the file whole, in part, or not at all, and what a
  reader recovers from a torn tail (`salvage`) is any prefix of the interrupted
  batch.
* **`TurnRepair`** extends `TurnLog` with a concrete event sequence: the live
  session appends by the grammar, a crash keeps a prefix, resume repairs it. The
  scan (`Observe`, `Scan`, `Results`, `Closers`) is the code's fold, written as a
  recursive function; `Balanced` and `Honest` are independent definitions from
  positions. `RepairInv`, at its end, is the inductive invariant.
* **`SessionStore`** is publication under one id. `stack` is the JavaScript call
  stack of notifications; an operation is enabled on top of any stack, which is
  what a listener may do. An event is its place in the log; `seen` records what
  each listener was told.
* **`AgentLifecycle`** is several lifecycles of one id over the store, the
  registry, the write claim and the log on disk. `pc` is where a creation
  waits, `op` its call into persistence, which goes on when the creation no
  longer waits for it, and `teardown` the shared teardown. The driver is one
  Boolean, `busy`; the handle is one state. `AgentDriver` and `JsonlHandle` have
  them in detail.
* **`Surface`** has no variables: a session is a record of its surface, its
  caches and what the projections remember, and its operators are the folds of
  `surface.ts`, `runtime-context.ts`, `tool-pairing.ts` and `deriveMessages`.
  The fold is eager where the code folds on demand, which no reader can tell.
* **`Compaction`** composes `Surface` with the part of the driver that asks the
  model, and with the compactor. `jobs` are the transactions under way, the
  driver's and a caller's. `Twist` bounds everything the environment may do to
  it.
* **`SubmissionEcho`** is a client Session. The host writes its log first and
  the client reads it afterwards: what the client reads lags by any amount and
  never holds the host up, so this order loses no behaviour of the client, and
  all interleavings of the three channels remain. What the host decides on
  account of the client (a prompt's placement) is chosen in the first phase.
* **`FollowStream`** is a connection between the host's agent, the service's
  accumulator and the client's window; the queue is all the delay there is,
  because a connection hands its items over in order.
* **`MCAgentDriver`, `MCJsonlHandle`, `MCCompaction`** instantiate for TLC; the
  other configurations use the module directly.
* **`AgentDriverProofs`, `ToolBatchProofs`, `SessionStoreProofs`,
  `AgentLifecycleProofs`, `JsonlHandleProofs`, `TurnRepairProofs`,
  `CompactionProofs`, `FollowStreamProofs`** hold the theorems.

Definitions commented *Mutant* or *Bug* are wrong variants of the definition
below them (a dropped guard, a forgotten reset). No specification uses them; a
property is trusted only because putting its variant in place breaks it. The
pairs are listed under `mutants`.

The constant `LateWork` of `JsonlHandle` lets a process still run timers,
flushes and drains of a handle whose `close` has left its loop, and so may be
releasing the lock. That is what the code does; it is off in `jsonl` and
`late_flush`, so that everything else about the handle can be checked beside this
known disagreement, and on in the run that shows it.

## 3. Runs

A property of a run is often a conjunction of named parts, each defined and
commented in its module.

| run | bounds | states | properties |
|---|---|---|---|
| `tool_batch` | 4 calls, pool of 2, every stage may fail | 40 thousand | `Scheduled`: pool size, barriers, model order. `Accounted`: one answer per call, nothing uncommitted, nothing left running, a conclusion is kept. `StepsAllowed`: no dispatch behind a failure, every event allowed by `TurnLog`. `BatchSettles` |
| `driver` | 2 messages, 2 calls, tools in steps 0 and 1, 2 attempts, 3 nested calls, opening events may be vetoed | 1.4 million | `InputKept`: input is conserved, one prompt per turn, what a cancel withdraws before its admission begins never runs. `NothingLeft`: an idle agent holds nothing, no latch outlives its activity. `LogHonest`: refinement of `TurnLog`, sticky output ceiling |
| `driver_live` | 2 messages, closing events may be vetoed, 1 nested call, no symmetry | 0.2 million | `Converges`: aborts converge, latched wakes run, a live driver claims what woke it, drivers retire |
| `jsonl` | 3 lives in 2 processes, 2 events, 2 failed operations | 0.9 million | `FileKept`: contiguous file, one locked writer, what append and close acknowledged and what the drain of a resolved flush took is there. `NothingStuck`: events in memory have somebody who will write them or were reported, and whoever waits for a drain is settled. `AppendOnly` |
| `repair` | 2 turns, 2 steps, 2 calls, 2 crashes | 0.13 million | `RepairSound`: the scan agrees with positions, every cut repairs, honestly, and repairing again changes nothing |
| `session_store` | 2 sessions, 2 listeners, 2 events each, 3 entries, 3 nested notices | 0.7 million | `ObserversAgree`, `EntryOutlivesNotices`, `DeferredDetachHappens` |
| `lifecycle` | 2 lifecycles of any kind, logs of 2 events | 0.45 million | `Whole`, `NothingLeaked`, `LogKept`, `DisposalConverges` |
| `compaction` | 2 histories, 2 renderings, 1 call per answer, 2 steps, 1 retry of either kind, 1 twist | 0.16 million | `SurfaceSound`: every call on the surface has its result next. `CachesAgree`: derived messages and pairing are the fold. `LockHonest`: a bracket is open only while a compaction runs, or a repair will close it. `SummaryFaithful`: a commit replaces exactly the nodes that were summarised. `RequestSound`: a request carries prompt and context in force. `TurnSettles` |
| `echo` | 1 prompt, 1 foreign message, 2 twists | 0.6 million | `ReceiptsTrue`, `HonestVerdicts`, `HandoffSeamless`, `EchoesSettle` |
| `follow` | 2 steps, 2 attempts, 1 chunk, 2 lives, backlog of 1, 2 twists | 1.2 million | `WindowContiguous`, `TransientsOwned`, `FollowsToTheEnd` |

Every run but `driver_live` also checks one type invariant (`repair` inside
`RepairSound`).

The bounds are the smallest at which the cases exist. Two messages give every
order of two inputs in either list, plus a claim of one while the other arrives;
three nested calls allow an observer inside an observer of a cancel. Four calls
over a pool of two give a full pool, a replacement, a barrier behind it and a
second group. Three lives give a crash during the repair of a crash with a
competitor in another process; two failures hit a drain and its retry; two
events are a batch in flight and an event behind it, or a marker and what
follows it, since a first flush stores a log without events. Two crashes give a
repair of an interrupted repair. Two sessions with three entries give a session
entered again beside another of its id; two listeners give one that acts before
the other has heard. Two lifecycles give a creation that meets the teardown of
another. A compaction needs a region of two nodes and one rewrite inside it; the
overflow loops need one retry each. An echo needs a neighbour that moves it, and
two twists give a lost connection, or an edit and a lost call. Two attempts give
a failed one and its retry, two lives a resumed session under an open
connection; a backlog of one lets a notice overtake a frame.

### Disagreements between the code and its text

Two runs check one stated promise each and find it broken.

* `late_flush`: `session/flush` is "the immediate durability and error-observation
  barrier" (`session/session-persistence/README.md:57`). A drain stays joinable
  (`draining`, `storage.ts:289`) from its last look at the buffer until a promise
  reaction clears it, and a drain of an empty buffer begins in that state. A
  flush that joins it resolves although an event published before the flush is
  only in memory: `flush(); append(e); flush()` without an await is enough.
* `handle_lock`: the lock is "held for the whole life of a write handle"
  (`lease.ts:2-3`). A timer or flush that runs while `close` awaits the release
  finds the released lease and writes without a lock.

A third one is an exception of a passing property. "Live drivers claim queued
work themselves" (`agent.ts:237`) holds but for one microtask: a waking send
between the driver's last look at the inbox (`agent.ts:470`) and its return to
idle starts nothing and latches nothing, and stays pending until the next wake.
In the model that is a `Send` at `pc = "retire"`; `waking` does not count it, and
`LiveDriverClaims`, a part of `Converges`, says that there is no other such
moment of a driver whose last turn ends without failure or abort.

### Deadlock

`tool_batch` checks deadlock: a finished batch stutters by `Ended`. The other
systems may really stop: an agent nobody calls, a session all of whose lives
have ended, and a log at its bound.

## 4. Fairness

`driver_live` assumes weak fairness of the driver's next step, of the return of
a synchronous call, and of the end of maintenance: hooks, streams, tools and jobs
settle, which is the contract of each of those interfaces, and JavaScript runs a
synchronous call to its end. Callers owe nothing. The number of retries is
bounded by `MaxAttempt`; the shipped retry policies have a finite budget. That a
driver retires is a statement about a bounded supply of messages: a caller that
never stops sending keeps any driver alive. `tool_batch` assumes that the
scheduler goes on and that each dispatch settles, a cancelled one included.

`session_store` assumes that listeners return: they are synchronous functions.
`lifecycle` assumes that reads, appends, creates and listeners of
`agent/created` settle and that a cancelled turn ends (which `driver_live`
shows), but not that an open or a caller's setup does: those the code races
against an abort. `compaction` assumes the driver and the compactor go on and
that a summary's request ends, each caller for itself. `echo` assumes that
streams are read, refusals return and frames are drawn; nothing of the host, so
a queued prompt may wait for ever. `follow` assumes that a lost connection is
opened again and read.

Where fairness is stated of a disjunction (`Unwinding`, `Proceed`, `Deliver`,
`Follow`), each of its actions uses up a part of something finite (listeners of
a notice, stages of a lifecycle, a finite log, a queue), so a run that takes
them for ever does not exist and fairness to the disjunction is fairness to
each.

## 5. Proofs

TLAPS checks, for every value of the constants:

* `AgentDriver`: `TypeCorrect`; `LatchCorrect` (no latch outlives its activity);
  and, when observers do not reject `step/end` or `turn/end` (`ClosersCommit`),
  `Quiescent`, `TokensSticky` and `LogRefinement`, that the driver implements
  `TurnLog`, and the compounds the run checks, `NothingStays` and `LogIsHonest`.
  Without any such assumption `InputIsKept`: no accepted input is lost or taken
  twice, and one that was queued or claimed when it was cancelled, its admission
  not begun, never runs, however clears, cancels and calls from observers nest
  and wherever in an admission an observer rejects (`InputInvariant`).
* `ToolBatch`: `TypeCorrect`, `PoolIsBounded`, `ExclusiveIsBarrier`,
  `ResultsInModelOrder`, `SettledBatch`, `ConclusionCounts`, `FailureStops`,
  `BatchLogs`, and the compounds the run checks: `Scheduling`, `Accounting`,
  `AllowedSteps`.
* `SessionStore`: `StoreInvariant`, `StoreTypeCorrect`, `EntriesKept`,
  `ViewInvariant` and `ObserversInStep` (what a listener has heard of an entry is
  its creation, its events and its disposal in that order), for any number of
  sessions and listeners and any depth of calls from listeners.
* `AgentLifecycle`: `LifeInvariant`, `LifeTypeCorrect`, `AlwaysWhole`,
  `NeverLeaks` and `LogIsKept` (what was recorded for the id stays, and a later
  lifecycle begins from it), for any number of lifecycles of the id, of any kinds.
* `JsonlHandle`, if no late work runs (`~LateWork`): `KeptInvariant`,
  `HandleTypeCorrect`, `FileIsKept`, `NothingIsStuck` and `FileOnlyGrows`, for any
  number of lives, processes, events, crashes and failed operations. What
  `FileIsKept` says of a resolved flush is that everything its drain was to take
  is in the file for good (`Acknowledged`), which is less than the documented
  barrier; the rest is what `late_flush` refutes.
* `TurnRepair`: `RepairInvariant` and `RepairIsSound`: wherever a crash, a fork or
  an interrupted repair cuts a log, the closers balance it, answer every
  requested call once, in order, in its step and honestly, and repairing again
  changes nothing; the scan of a live log is what its writer knows. For logs of any
  length, messages with any number of calls and any number of crashes.
* `Compaction`: `CompactInvariant`, `CompactTypeCorrect`, `CachesAreFolds`,
  `LockIsHonest` and `SummariesFaithful`; and on top of them `TalkInvariant`,
  `SurfaceIsSound` (no pruning, compaction, crash or repair parts a call from
  its result) and `RequestIsSound` (a request carries the prompt and the context
  in force): for any policy, any prices, logs of any length, and any start of a
  log that this program wrote and repaired (`HistoriesAssumption`: an offload
  names an earlier input, and the surface is a conversation without open calls).
  Sessions of this program meet the assumption again, whatever prefix a crash
  leaves of them: that is `TalkInvariant`.
* `FollowStream`: `FollowInvariant`, `FollowTypes` and `WindowIsContiguous` (the
  rows a client shows are the log without a hole, in order and none twice, but
  for a settlement held back until its attempt ends; no connection skips a
  place); and on top of them `OwnInvariant` and `RowsAreOwned` (no row of a
  streaming answer outlives its attempt or is shown beside the settlement that
  repeats it, and nothing is held back for an attempt that is over), for any
  number of steps, attempts, chunks, lives and lost connections.

`ClosersCommit` is necessary: if an observer rejects `turn/end` the code has no
second way to close the turn, and the log stays open. The run `driver_live`
checks that the driver converges even then.

`~LateWork` is necessary too: with it the code loses the property, which is what
the run `handle_lock` shows. The theorems say that this is the only way a handle
writes a file it does not own: nothing else has to be assumed.

The arguments. *Log*: `DriverInv` and `LogInv` tie the log's brackets, the
claimed batch and the held tools to `pc`. Neither the quiescence of an idle
agent nor the refinement is inductive without them: what closes a bracket
depends on where the driver waits. *Latch*: `LatchBehindActivity` is not
inductive, because a `send` classified as late may return to an agent that moved
on; `LatchInv` adds that no late send waits on the call stack unless the aborted
activity it met is still there, and none waits below a starting driver. *Batch*:
`BatchInv` joins counters to log lengths, live bodies to the pool, the pool to
the group and its mode, and each uncommitted call to its slot or its dispatch.
*Store*: `StoreInv` says that at most one creation or event is on the call
stack, however deep, that it is of the stored session, and that the flags of
every entry agree with the stack; `EntryOutlivesNotices` alone says nothing of
why a second notification cannot begin below the first. *Lifecycle*: `LifeInv`
says for each lifecycle what it holds where it waits (`Placed`: a call out to
persistence, an open handle, a teardown), when the writer's claim, the store and
the registry name it (`Named`), and who can still be around once the factory's
disposal began (`Ending`); `NothingLeaked` speaks of lifecycles that are over,
and only `Placed` knows what one carried there. `LogKept` needs besides what
each lifecycle knows of the log (`LogInv`): a lifecycle that has read it and may
still write shares it, and no other one can.

*Input*: a message is in one of six places at a time, from the list it was sent
to up to the log (`Settled`), also halfway through the admission of its batch,
which one failure cuts into a logged and a dropped part; a claim is the driver's
or that of the one `kick` frame on the call stack (`Claimed`, `Stacked`), since
a second kick returns at the latch; and a cancelled message that is still held
has the frame that will clear it below, or an abort that its claimant reads
before it appends, and is never in a batch whose admission has begun (`Spared`).
None of these is inductive alone: whether a claimed message runs depends on
frames at any depth.
*View*: for every listener and entry of a session, `Followed` computes how far
the listener is from the stage of the entry and the frames of the stack that
still owe it a notice; frames stand on the stack from the inside out
(`FramesFit`), and the inner notice, begun later, is delivered first only for a
disposal, which the guards of the store exclude below a notice (`StoreInv`).
*Handle*: `KeptInv` relates every handle to the file. Of one handle (`LocalInv`)
its cursor, its buffer and its chain of drains follow each other without a gap,
and a flush behind a drain that is over was not promised more than is stored
(`Recorded`); of the file (`DiskInv`), that it is contiguous but for a torn tail
at the end and keeps every promise; of both, that the handle with the lock and
none beside it is where the file ends (`Owned`), that a life that has not opened
the log has no event anywhere (`Unheard`), and that what was published before
`close` is stored once it has left its loop (`Covered`). It is the lock
that carries it all: `AppendOnly` of two handles fails at once without `Owned`.
*Repair*: a crash may keep any prefix, so `RepairInv` is about every prefix of the
log: `Sound` relates what its scan finds open to what its events, by their
positions, leave open and unanswered. `SoundOn` proves it of a log with one event
more, if that event may follow (`Follows`). The live writer appends only such
events, because the scan of the log is what the writer knows (`Knows`); and so does
a repair, whose first closer may follow and leaves exactly the other closers to
append (`ClosersStep`). Hence, by induction along a repaired log (`Mends`), every
prefix that begins with the log is sound and is repaired to the same. `Balanced`
then is soundness with no turn open. `RepairConverges` alone is not inductive: a
crash of a resuming process needs `Converges`, that every prefix between what was
durable and the whole repair comes to the same log.
*Compaction*: the session is at all times the fold of its log (`Folded`), and
every step goes on from it (`Grown`) or restores it. A cache is of no use to an
invariant as what it should be now; what is inductive is that it was true of a
first part of a surface from which the session went on without a rewrite
(`DerivedFor`, `PairedFor`), or that its generation is out of date. In the same
way a transaction holds what the surface told when it was measured (`Fed`): from
this and from the check before a commit (`Stable`: the span stands where it
stood, with the prices it had) follows that the checkpoint replaces what its
summary was made from, since a price tells whether an input was offloaded
meanwhile. The lock needs `Assigned`, which phases of the driver go with which
transaction, and that nobody awaits a summary once a close failed.
*Conversation*: `SurfaceSound` says nothing of what a crash leaves, and nothing
of the span a summary is being written for; a restored prefix or the commit
breaks it. `TalkInv` says that every prefix a crash may leave has a surface that
is a conversation (`Told`), since an event behind the last flush may go with its
neighbours; that a span was cut where no call was open (`Cut`), which `Stable`
carries up to the commit; and that the phase tells whether calls are open. Then
a replacement opens and answers as many calls as what it replaces (`Swaps`), and
`TellLog`, `TellNode` and `TellSpan` cover every event an action appends.
*Following*: a window that is whole today may have a hole tomorrow, because what
fills it is still on its way. `FollowInv` therefore speaks of the queue: every
place from the next one on waits in it, no event ahead of an earlier one
(`QueueCovers`), which is why a listener that registers before the log is
observed loses nothing; each frame goes on from what the frame before it leaves
running (`FramesLinked`), so an attempt is not taken for another; and a
settlement that the client will hold back has its end frame right behind it
(`SettlementsPaired`), so that it is the last place the client knows and goes
behind all its rows when it is released. `WindowContiguous` orders events only;
what is inductive is the order of all rows (`Sorted`), since the place of a
settlement is found among the rows of its attempt.
*Transient rows*: whether a row is owned says nothing of the frame that arrives
next. `OwnInv` (in `FollowStreamProofs`, relative to `FollowInv`) says that the
frames which wait lead from the attempt the client has, chunk by chunk, to the one
the agent runs (`Tracked`); that a start waits behind every event of its log and
before every later one, and an end behind its settlement (`Placed`); and that
everything up to the cursor which settles the streaming attempt is held back
(`Held`), so the end frame finds it. A kept answer must be gone when the next
attempt starts, or the client asks for a new baseline: the agent asks again only
when each message's step has ended or was left open (`Told`, `Rested`), and a kept
answer's step has no end in the window (`Kept`).
The invariants are exactly the definitions at the end of each module, but for
`OwnInv`, which stands with its proof; `Inv` of
`CompactionProofs` groups those of `CompactInv` by what a step touches. The bounds
of `SessionStore` are assumed natural numbers only: the theorems hold whatever
they are.

Only model-checked: liveness (`Converges`, `BatchSettles`,
`DeferredDetachHappens`, `DisposalConverges`, `TurnSettles`, `EchoesSettle`,
`FollowsToTheEnd`), since the prover has no fairness; and `SubmissionEcho`, whose
properties compare results of folds and filters of sequences (`FoldLeft`,
`SelectSeq`), of which the provers know nothing.

A fact for every length of a sequence needs induction, whose library theorems
take an operator as a parameter; in these proofs the facts that are needed go by
the least number that has a property, which sets suffice for (`UpTo`).
`Surface`, `TurnRepair` and `FollowStream` state their folds as recursive
functions for that reason, and the modules with their proofs begin with what
each of them computes (`SiftSteps`, `PutAllSteps`, `UnansweredSums`,
`PairFromSteps`, `WithoutPicks`, `AllKept`).

## 6. What is left out of the modelled parts

* Driver: what a cancel may not take back. Once the signal was read for the last
  time before an admission (`agent.ts:494`, or the intake's reply), the batch is
  logged to its end whatever observers do: a cancel from inside one of these
  appends aborts the turn before the model is asked, but the messages are in the
  log and a later request will contain them. `CancelledInputNeverRuns` excepts
  exactly these (`Admitting`). The driver's README
  (`core/agent-loop/README.md:120`) promises it only for cancels during the two
  asynchronous phases before. Also left out: `Inbox.prepend` and `Inbox.replace`
  (identities and order of the rest are kept); causes `parent` and `hook` behave
  as `user`; a message identity is sent once, except for a promotion; a teardown
  entered from inside an append with pending input.
* Batch: batches without a log; a wrapper that gives up its body before it
  settles.
* Handle: a rollback or a lock release that fails as well; a descriptor that
  fails to close behind an append that was synced (`index.ts:1438`), which rejects
  without a rollback; several flushes at a time, unless they join one drain, when
  the last stands for all (it covers what the earlier ones do); read handles,
  listings; generations, migrations and codecs. What close promises excludes
  events recovered from a torn tail that are not rewritten yet.
* Repair: the content of results; plugin records in the middle of a turn.
* Store: flush and archive notices, checks of an event's data, which reject
  before anything changes.
* Lifecycle: parents and children of an agent; the route of a configured agent;
  a close that fails.
* Surface and compaction: message projections; developer messages and the tool
  changes they announce; request headers behind the first; answers cut off at
  the output ceiling and empty ones; a plugin appends only to a surface that has
  its prompt. The pruner, the token meter and the store of offloaded results are
  external: their prices and choices are constants or choices.
* Echoes: a splice that cancels takes one row, while a clear of the inbox takes
  a whole list; `hasPromptRequest`, which answers a repeated request from the
  log, is not modelled, so a request is sent once. Two exceptions are part of
  the properties: a prompt whose whole life lies below the page a reopened
  stream begins with keeps its echo (`Overlooked`), and an edit replaces a
  message in place under its own identity.
* Following: the opening page is the whole log; the events of one created item
  reach the client in one step. While a resumed session's notice is ahead of
  frames of the life before (`overtaken`), the client may show their rows out of
  place until the next opening; the properties name that exception.

Not modelled at all, and why: the JSONL codecs and generations (bytes and file
formats; their effect on a log is a prefix, which `JsonlHandle` has); the LLM
seam (parsing of provider streams; outcomes are choices); the tool executor's
schemas and presentation; projections, lists, catalogs and archives of the
controller (lookups and folds without a protocol); the lyteboat plugins (policy
and presentation on hooks whose effect on a turn the driver's model has as
choices), evaluation, studio, bundles and command line.

## 7. Plan

1. *Done*: the log grammar, driver, batch, handle, repair, store, lifecycle,
   surface, compaction, echoes and following, and the proofs above.
2. Proofs: the echoes of `SubmissionEcho`, with its folds as recursive functions.
3. Publication of a rewritten log (`generation.ts`) and its recovery, as a
   module beside `JsonlHandle`; with it the failing rollback of an append and the
   failing close of its descriptor, two hazards without a property.
4. Attachment of projections during an append.
