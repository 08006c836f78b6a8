# Potami in TLA+

Potami runs AI workflows ("streams"): a request becomes a *task*, a pipeline of *jobs* (LLM dialogs,
searches, API tools) that a pool of goroutines executes under priorities, retries and timeouts, while
browsers, Redis and a callback URL are told of its progress. The code that is hard to get right is not
the jobs but what moves a task: a queue with two goroutines and four channels, a dispatcher, workers
that pass a task among themselves, a tracker, a broadcast and a shutdown, all on one shared `*Task`
object; and what changes the streams while tasks are made of them: a database, a registry and a factory that
are brought up to date one after the other. That is what these modules model, with what the jobs do to the data
they share, and the clients at the other end. Paths are relative to the repository's root; line numbers are
in `PROJECT.json`, under `map`, for every definition.

1. [Inventory](#1-inventory)
2. [Modules](#2-modules)
3. [Model checking](#3-model-checking)
4. [Proofs](#4-proofs)
5. [Where code and text differ](#5-where-code-and-text-differ)
6. [Plan, and what is not modelled](#6-plan-and-what-is-not-modelled)

## 1. Inventory

| part (source) | state it keeps | operations | what must be true of it |
|---|---|---|---|
| Retry queue (`internal/task/queue.go`) | heap, side entry channel, `close` flag, `done` and `reader` channels, two goroutines | `PushTask`, `popTask`, `readingPushedTask`, `listeningRewindTask`, `pushTaskUnsafe`, `Close` | a task is in it once; none is lost while it is open; a promised pop finds a task; its goroutines end |
| Priority heap (`pkg/queue/pq.go`) | slice, indices | `Push`, `Pop`, `Fix` | pops a largest element, loses and doubles none |
| Dispatcher (`internal/dispatch/worker.go`) | the popped task, `Done` | `start`, `Stop` | serves what it popped; attaches watchers; ends |
| Pool (`op/pool.go`, external `ppool`) | idle workers, stopped | `Serve`, `Stop` | one task per worker |
| Task execution (`internal/task/handle.go`, `task.go`) | `CurrentStage`, `ErrorReopenStage`, `Arrived`, `errorHit`, `done` | `excute`, `Roll`, `BreakOut`, `BreakOutWithError`, `Rewind`, `ReLevel`, `Close` | one owner at a time; jobs in order, once each; closed once, for a cause, and eventually |
| Task API (`api/push.go`, `look.go`, `list.go`, `info.go`) | `op.Tasks` | push (async, sync, stream), look, list | an accepted task is answered for |
| Tracking (`internal/task/listen.go`, `tracker/`) | the value in hand | `tracking`, two `Notice` | announces no end early, and every end |
| Broadcast (`internal/boardcast`, `op/boardcast.go`) | `IsStop`, `stopCh`, heartbeat | `Start`, `Send`, `Stop`, `Listen` | stopped once, after the end; its clients leave |
| Callback (`internal/task/callback.go`) | retry | `CallBackListener`, `SendCallBack` | carries the final figures |
| Shutdown (`cmd/run.go`) | order of stops | `TaskQueue.Close`, `Dispatcher.Stop`, `TaskPool.Stop` | nobody panics or hangs |
| Task factory, jobs (`factory.go`, `job.go`) | registered streams and jobs, `MetaData` | `Create`, attributes | a task sees one version of its stream |
| Stream registry (`op/stream.go`, `op/factory.go`, `api/streams.go`) | stream map, three factory maps | `UpdateStream`, `RemoveStream`, `ReloadStreamFactory` | registry, factory and database agree |
| Persistence (`service/stream`, `service/job`, `db/transactions.go`) | transaction mutex, global `queries` | `Apply`, `RemoveStream`, `Transaction` | all or nothing; the mutex is released |
| Validation (`schema/stream.go`) | none | `ValidateStream` | what it accepts gives every job its inputs |
| Job handlers (`internal/job`), parsers | the task's `MetaData`; goroutines that outlive a timeout | `Handle` of dialog, search, tool | inputs are there; outputs replace one another in order; a search keeps to its limit and size |
| Clean-up (`op/crontab.go`) | none | daily removal from `op.Tasks` | nobody who listens is disturbed |
| CLI contexts (`cli/cmd/context.go`) | a file per context, `config.json` | `context list`, `set`, `add`, `remove` | the files stay readable; the current context exists |
| CLI reader (`cli/cmd/run.go`) | finish flag, outputs printed | `stream complete` | prints the final state before it says so; leaves |
| Prompt templates, configuration, logging, generated SQL code | | | out of the core |

How they interact:

```
 API --PushTask--> RetryQueue --reader chan: popTask--> Kernal.start --Pool.Serve--> worker: excute
  |                   ^  heap                               |                          |   |
  |                   |                                     +-- CallBackListener       |   +-- wp.Serve --> next job
  |                   +--- listener <-- side entry chan <------ Rewind ----------------+
  +-- broadcast <--- tracking <--- completenesNotifyChannel <--- Roll (UpdateCompletePercent)
          |              +--> Redis
          +--> browsers (SSE), heartbeat
```

What is hard about it: the reader offers a *function* that pops the heap, not a task, so its length
check is old when the pop happens; a worker serves its task to another worker and must not touch it
afterwards; the retry path, the busy-pool path and the timeout path share `ErrorReopenStage`; `Close`
sets a flag without the lock and closes two channels one after the other; tracker, heartbeat, callback
and API read the counters of a task with no lock; progress values overtake each other; a handler that was given
up goes on writing the map its retry works on; two senders share one broadcast; the client's files are
cut before they are filled. `PROJECT.json`
lists these under `hazards`, each at its line with the properties that would catch it, or with the
reason there is none yet.

## 2. Modules

| module | what it is |
|---|---|
| `TaskBuffer` | abstract: what a queue promises. A task waits, is handed out, is given back; only a shut queue drops one. |
| `RetryQueue` | `queue.go`, one action per stretch between two locks or channel operations. Written over its own variables only, so that `TaskFlow` composes it; `QueueSpec` closes it with the most general environment. |
| `TaskLifecycle` | abstract: what the sender of a task is promised. Jobs in order, each to success once, a bounded number of errors, one end, no loss while the server is up. |
| `TaskFlow` | extends `RetryQueue` with API, dispatcher, pool, workers and shutdown. |
| `TaskWatch` | one task's tracking, broadcast, heartbeat and callback, with the worker's run of it as `TaskFlow` has it. |
| `StreamTables` | operators: the two tables and the statements that change them. |
| `StreamStore` | abstract: what the database layer promises. Every change is made on the tables as they are at that moment. A request that nobody overtook puts in, replaces or takes out one whole configuration, of the stream it asked for; one that was overtaken may hit another stream. |
| `StreamRegistry` | the requests that apply and remove streams, through database, registry and factory, and the clients that have tasks created meanwhile. |
| `StreamConfig` | operators: what a stream's configuration says about its data. The check on apply, the parameters asked for, the jobs built, what each reads and writes. |
| `JobData` | one task's metadata under its handlers, those included that a timeout has given up, and those who marshal it. |
| `LevelBag` | abstract: what a priority queue promises. |
| `PriorityHeap` | `pq.go` with `container/heap`'s sifting, swap by swap. |
| `TaskClients` | tracker, heartbeat, API, clean-up and the client that reads a task's events. |
| `ContextFiles` | the command line client's context files under the commands of several terminals. |
| `SearchJob` | one search: its pages, and the text its documents are compressed to. |
| `MCRetryQueue`, `MCTaskFlow`, `MCStreamRegistry`, `MCJobData`, `MCPriorityHeap`, `MCContextFiles`, `MCSearchJob` | finite instances for TLC. The constants of `TaskWatch` and `TaskClients` are numbers, given in the `.cfg`. |
| `TaskFlowProofs` (with those of `RetryQueue`), `TaskWatchProofs`, `TaskClientsProofs`, `StreamRegistryProofs` (with those of `StreamStore`), `JobDataProofs`, `PriorityHeapProofs`, `ContextFilesProofs`, `SearchJobProofs` | the theorems. |

**RetryQueue.** `pq` is the set of tasks in the heap (a `*Task` is one object; what a heap promises is
that `Pop` returns an element of the largest level), `side` the side entry as a sequence, `closing` the
statement of `Close` that was executed last. `reader` is `loop` in the outer select, `checked` between
`SafeLen() > 0` and the inner select, `offering` when parked in it. The difference matters: a parked
reader is woken by `close(done)` and stops, a reader that is only `checked` finds both channels closed
and may choose the send. `CloseReader` panics a sender that is parked on the channel, as `close` does in Go; that it never finds one
is `ReaderEnds` and the theorem `QueueParkedNeverPanics`. `calling` is the consumer between receiving `popTask` and calling it.
`listener` is `receiving` in the bare `<-sideEntry`, which nothing interrupts. A panic anywhere ends the
process: `panic` records why and every action needs `Running`.

**TaskFlow.** The containers a task can be in are kept apart (`pq`, `side`, `badTask`, `popped`, one
`task[w]` per worker), because nothing but the hand-over of the pointer keeps two goroutines off it;
`SingleOwner` is a claim about them, not a consequence of a single "location" variable. A handler's
outcome (success, error, timeout) is a free choice; error and timeout take the same path in
`excute`. The pool is outside the repository: `Serve` starts `Work` on an idle worker, is false when
there is none and fails once the pool is stopped. `ServeNext(w, v)` has `v # w` by the guards: `w` still
counts as busy while its `Work` runs. Times (back-off, intervals, tickers) are abstracted: the
step may come at any moment.

**TaskWatch.** `sending` is the set of progress values held by the goroutines of
`UpdateCompletePercent`; each value is sent once, so a set loses nothing, and any may be received
next. A direct send on the channel is the case where a value is received at once. `Notice` is cut where
the code looks at `Arrived` again: the event, then the broadcast tracker's check (`NoticeEnds`, with
the Redis write), then `tracking`'s own (`TrackNext`). `TrackExpire` is the tracker's own timeout. Redis
and the callback URL may fail at any time, before or after they took the message.
One observation needs no property: `"start"` is never announced, since a progress of 0 is never sent
(`WatchTypeOK` lists the events that occur).

**StreamRegistry.** Each request is a call of `StreamApply` or `StreamRemove`. Its *version* is the request itself: the
description, level and jobs it brings always go together, so what the properties must tell apart is whose they
are. The database layer: `tx[r]` is the copy of the tables a transaction works on; `Begin` takes `mutex`, keeps the
global `queries` it finds in `handle[r]` and puts its own there; `Release` is the deferred clean-up. The look-up
comes before `Begin` with whatever `queries` was then, so it may read inside another's transaction, or fail because that is
over. `seen` is the id it found, which the transaction uses later: by then it may be nobody's, or another stream's,
for sqlite gives the greatest id again after a delete. Any statement may fail, and `Begin` as well, which
leaves the mutex locked. The handler answers with an error and goes on to the registry all the same, and so does `pc`.
Registry and factory: `LoadStream` visits one entry of the Go map at a time (`left`), into the maps of the request's
own generation (`maps[r]`); `roads` and `levels` say whose maps the factory has, swapped one after the other. A client is
`CompleteStream` up to the created task: it lists the streams, checks the parameters, then reads road and level with no
lock, under the lowered name. Where a write of a Go map meets an iteration or another write, `up` is chosen: the runtime
may notice and end the process, or not. `apart`, `disturbed`, `overtaken` and `faults` are history: they
say which requests overlapped whom, whose look-up may be out of date and what failed, and no action depends on them. A request is `overtaken`
when its look-up saw what was not committed, or a commit has changed its stream between the look-up and its own `Begin` (`Passed`). `TablesSpec` is the database
layer alone, which reads nothing of the rest.

**StreamConfig and JobData.** Templates are reduced to their holes and tags, lists to sets. `Required` is what
`GetStreamList` asks the request for: every key some job names and none generates, whatever the order of the jobs and
whether the job's kind uses the field. `ValidateStream` adds a job's own inputs to the flow before it looks for them, so it
does not enforce the data-flow rule (README.md:29 of the repository); `FlowRule` states that rule, and `InputsGiven` says it is
enough. A value in `data` is the number of the call that wrote it. A handler reads, calls, and writes key by key; all
of its errors come before its first write, which is why a failed attempt leaves nothing behind. `Timeout` leaves the handler
running (`timed`), and `late`, `missed` and `readback` are history. Where two uses of the Go map meet, `up` is chosen.

**PriorityHeap.** `Up` and `Down` are one swap each, `at` the place that is sifted; the tasks inside are
the bag. That a pop of `RetryQueue` is a `Take` of `LevelBag` ties the two: both take a task of the largest level.

**TaskClients.** `post[s]` is what a sender has between looking at `IsStop`, marshalling the task and
handing the message over; `wire` are the lines that wait for the client, four per message of which the id is left
out. The data of a message is the number of jobs done when it was marshalled. `completionTaskOutputParses` sets `finish` at the
event line and leaves at the blank line after its data. `mode` "look" is a viewer through `TaskLook`, who stays until the
connection is closed.

**ContextFiles.** A command is where it stands, its arguments and what `getContexts` has seen so far. `getContexts` makes the
default context from inside itself (`AddDefault`, `BackWithDefault`, counted by `depth`), which asks for the current context,
which calls `getContexts` again. `AddCut` and `AddFill` are the halves of `os.WriteFile`, and `Kill` may come between them; what is filled into a file that was removed after the
cut is lost with it (`addlost`), and two adds of one name, whose contexts need not be alike, can leave a mixture (`Filled`). The default context that
`getContexts` writes says of itself that it is used (`Default`); one that a user adds does not (`Whole`), and is used if the config names it.
A command that asks the server (`use`, `usenamed` with `--context`) ends `refused`, which is a `log.Fatal`, when the context it needs is not among those found.
`alone`, `had` and `served` are history: it ran alone on readable files, and when it began there was a current context, and the context it needs.

**SearchJob.** Lengths are counted in runes where the code cuts and in bytes where it compares. The texts are keys
of a Go map, hence `todo` is a set. What the services find is a free choice within the number asked for.
`PagesFollow` speaks of the pages asked for: contiguous from the first result, none beyond the limit, ten results short of it at most.

## 3. Model checking

Each property of a passing run has a mutant in `PROJECT.json`: a plausible bug, written before the action it
changes, under which the property fails.

| run | states | what it shows |
|---|---|---|
| `retry_queue` | 36,846 | `QueueTypeOK`, `OnePlace`, `ClaimsBacked`; implements `TaskBuffer` (`KeepsTasks`); a rewound task returns (`RewoundReturns`); the reader ends after `Close`, and the channel is not closed under one that is parked on it (`ReaderEnds`) |
| `task_flow` | 246,780 | `FlowTypeOK`, `SingleOwner`, `NoLoss`, `ResumePoint`, `ClosedForCause`; implements `TaskLifecycle` (`KeepsPromise`); every accepted task is closed (`EventuallyClosed`) |
| `task_watch` | 115,748 | `WatchTypeOK`, `StopsOnce`, `EndIsTrue`, `CallbackTellsEnd`; implements `TaskLifecycle` (`FollowsLife`); an announced stream closes (`StreamEnds`); callback and tracker come to their end (`EndReaches`) |
| `stream_tables` | 158,292 | `WholeStreams`, `HandleAtHome`; the database layer implements `StreamStore`, no commit being lost and none changing another stream but by a request that was overtaken (`FollowsStore`); a request gets through it (`RequestEnds`) |
| `stream_registry` | 1,390,395 | `RegTypeOK`; requests that do not overlap leave factory, registry and, unless they failed, database in agreement (`SerialAgrees`); an undisturbed client's task is of the configuration its parameters were checked against (`MadeAsChecked`) |
| `job_data` | 635,707 | `DataTypeOK`; a job finds its inputs (`InputsGiven`), its outputs are replaced in order (`OutputsInTurn`), it reads none of its own failed work (`ReadsEarlier`), the calls are bounded and, without a timeout, one at a time (`CallsBounded`) |
| `priority_heap` | 7,195 | `HeapOrdered`; implements `LevelBag` (`PopsLargest`) |
| `context_files` | 3,111,847 | `ContextTypeOK`; a command alone on readable files ends by `log.Fatal` only when the context it needs was not there (`NeverDies`) and keeps a current context (`CurrentKept`) |
| `task_clients` | 449,356 | a client that reports completion has printed the last state (`DoneIsFinal`); clients leave (`ClientsLeave`) |
| `search_job` | 52,001 | pages follow on one another within the limit and ten short of it at most, the text stays near the block size (`SearchBounded`) |
| `pop_empty`, `stored_runs` | | two of the disagreements of section 5 |

**Bounds.**

- `RetryQueue.cfg`: three tasks, `MaxSize` 2, `SideCap` 1, 0 or 1 errors per rewind, `MaxLevel` 3. Three
  tasks are one more than fit the heap, so pushes are refused and rewinds overfill it; a side entry of
  one makes rewinds block; levels differ, so the order of pops matters. In the general
  environment a task can be rewound without end, and `MaxLevel` (in `MCNext`) bounds how far that raises it.
- `TaskFlow.cfg`: two tasks of one and of two jobs, two workers, one retry, `MaxSize` 1, `SideCap` 1. A task
  fails, is retried, finds the pool busy, and dies; the queue is full, overfull and empty;
  `Close` comes at every moment. All levels are equal and errors do not raise them, so the heap may pop
  any of its tasks: these behaviours include those of every choice of levels. `MaxHit` bounds the retries as in
  the code, and nothing else needs a bound.
- `TaskWatch.cfg`: three jobs and one retry, so that two old progress values can be on their way when the
  third is sent, with `Tracking` on and off.
- `StreamTables.cfg`: three requests, so that an id can be given up by one, given again to another and used, stale, by a
  third; no client, since none touches the tables, which do not tell names apart either (`MCTablesSpec` uses that).
  `StreamRegistry.cfg`: two requests, which is what overlapping needs,
  and a client; the requests are symmetric. Both have two names of which one is the other's lower case. `MaxId` is the
  number of names and requests, so that no create is ever blocked by it.
- `JobData.cfg`: two keys and the empty name; all accepted streams of up to two jobs of a family that reads, overwrites and
  passes on both keys with every kind of job, and one of three whose second job is of no known kind. One retry, so two errors: an attempt that was
  given up meets its retry, the next job, and a second given-up attempt.
- `PriorityHeap.cfg`: seven tasks, which is three levels of the tree, all full, and three weights, so that ties occur; tasks are symmetric.
- `ContextFiles.cfg`: two terminals, two contexts of which one is the default, four commands: enough for a first command on a
  fresh install, two that overlap, and one afterwards. `MaxCommands` bounds the commands. It is the longest run, one and a half minutes.
- `TaskClients.cfg`: two jobs; a heartbeat waits while more than three lines are unread (`MaxWire`), which bounds the lines, so that an end
  can arrive behind, before and between heartbeats.
- `SearchJob.cfg`: limits from -1 to 25, so no page, one, and two with and without a rest; sizes -9 to 12 on both sides of texts of 2, 5 (three bytes
  each) and 9 runes; up to three documents (`MaxDocs`), the same one more than once among them.
- Violation runs use the smallest instance that shows the case.

`CHECK_DEADLOCK FALSE` everywhere but in `priority_heap`: the modelled system stops when everything is closed, the task is
over, the commands are used up, or the process has panicked.

**Fairness.** Each goroutine keeps being scheduled (weak fairness of reader, listener, consumer or dispatcher, each
worker, tracker, stopper and callback), which the Go scheduler gives, the select loops being driven by tickers and
channel operations. A handler ends because the pool's timeout ends its context, at latest;
nothing makes it *succeed*, so liveness holds through any pattern of errors. `Serve` is retried with a
finite back-off. A `Close` that has begun runs to its end (`QueueFairness`); nobody is obliged to begin
one, to send a request, or to let the tracker's time run out. A request that has started its handler keeps being
scheduled until it ends (`LiveTablesSpec`); there are finitely many, so the transaction mutex needs no more than weak
fairness. In `TaskClients` tracker, heartbeat, both senders, the stop, the event source and the client's loop keep being scheduled
(`ClientFairness`); the task need not make progress and the connection need not break. `ClientsLeave` promises only what the code does: the
client of a task that is dead leaves, and everybody once a stop was asked for. `RequestEnds` stops promising once a `Begin` has failed. `EventuallyClosed` and
`RewoundReturns` stop promising once `Close` has set its flag or the process has panicked, which is what the code does.

## 4. Proofs

Proved for every value of the constants, under `QueueAssumption` (finite set of tasks, `NoTask` not one of them, a
side entry with room for one, natural sizes and levels), `FlowAssumption` (finitely many workers, at least one; at least one job per task;
`Hits = 0..MaxHit`), `WatchAssumption` (at least one job) and `RegistryAssumption` (`None` and `Old` are no requests,
finitely many names, an id for each of them at the start), `DataAssumption` (streams are sequences of job configurations; no value of a request is
a call's number), `HeapAssumption` (levels are natural numbers), `ContextAssumption` (finitely many terminals, contexts that are told apart
from each other and from what else a file can hold) and `SearchAssumption` (a text has the
two line breaks of its format at least, and a rune a byte). The validation of streams does not enforce
`FlowAssumption`'s one-job minimum; `excute` panics without it, and `JobData` has that case (`ExcuteNil`).

- **The queue** (first part of `TaskFlowProofs`). `QueueTypeCorrect`, then `QueueOnePlace`: types and `OnePlace` are inductive
  together (`QueueInv`), since the environment only pushes and rewinds tasks that are not inside.
  `QueueKeepsTasks`: each step maps to a step of `TaskBuffer` or a stutter; the lemmas `...InQueue` say how each
  operation moves one task. `QueueClaimsBacked`: with the types, `ClaimsBacked` is inductive (`ClaimsInv`): a tick needs
  a heap that is not empty, a hand-over moves a claim from the reader to the consumer, and a pop uses one up. a heap that is not empty, a hand-over moves a claim from the reader to the consumer, and a pop uses one up. The
  finite-set lemma `HeapSize` gives the sizes. `QueueParkedNeverPanics`: once `done` is closed nobody is parked on the reader channel
  (`ParkedInv`), which is the safety half of `ReaderEnds`.
- **The flow** (`TaskFlowProofs`). `FlowInv` is the conjunction of `FlowTypeOK`, `Untouched` (a task that was not
  accepted has done nothing), `SingleOwner`, `ResumePoint` and `ClosedForCause`. None of them stands alone: that a
  retry starts at the right job needs that only the owner moves the stage, that a task is closed once needs that
  the owner of a closed task is nobody, and that needs `SingleOwner`. One lemma per group of actors; a step that hands a
  task on (`WorkerPassesOn`) is separate from one that keeps it. Theorems `FlowTypeCorrect`, `FlowSingleOwner`,
  `FlowResumePoint`, `FlowClosedForCause`.
- **Refinement** (same module). `FlowImplementsQueue`: the flow uses the queue only as `QueueSpec`'s environment may,
  so every theorem about the queue holds inside the flow (`FlowKeepsTasks`). For `FlowNoLoss`, `LossInv` adds
  the order of shutdown (`StopOrder`: the pool is stopped after the dispatcher, and that after the queue), without
  which a failing `Serve` would lose a task of a running server. `FlowKeepsPromise`: each action is first
  reduced to its effect on one task (`Happens`: taken, refused, advanced, finished, survived, died, lost or
  quiet), and each effect to a step of `TaskLifecycle`.
- **How full it gets** (same module). `FlowLoadBounded`: never more tasks in hand than `MaxSize`, the side entry, the listener, the
  dispatcher and the workers hold together. `pushTaskUnsafe` ignores the limit, so the heap alone is not the thing to count: the number of
  owned tasks (`Load`) grows only by an API push, and that finds the heap below `MaxSize` and the other places at most full
  (`OutsideHeap`). It is proved and not run: an instance that could pass the bound needs more tasks than TLC gets through.
- **The watchers** (`TaskWatchProofs`). `WatchInv` adds to the type where the task is against its counters
  (`WorkOK`), that a value on its way was reached and an end in the tracker's hand has come (`TrackOK`), and that
  callbacks are behind the close (`CallOK`). `StopsOnce` needs the clause on `noticed`: a tracker whose first
  look saw the end has a second look that cannot miss it, since `Arrived` only grows. Theorems `WatchTypeCorrect`, `WatchStopsOnce`,
  `WatchEndIsTrue`, `WatchCallbackTellsEnd` and `WatchFollowsLife`, the last of which ties `TaskWatch` to the same promise
  `TaskFlow` is proved to keep.
- **The streams** (`StreamRegistryProofs`). `StoreNeverMixed`: every `StreamStore` keeps a stream's jobs
  of the stream's own configuration. `DbInv` is what makes the transactions one at a time: an open transaction alone holds the mutex and the
  global queries, it found the committed tables as they still are, and its copy is what its statements have made of them so
  far (`RowWritten`, then `JobsWritten`). It is needed because `Commit` replaces the tables by a copy: without the clause
  on the tables found, a commit could undo another's. `RegFollowsStore` follows, a commit being the one step that changes `StreamStore`'s tables: by a request that is not `overtaken`, `seen` is still the
  id its own stream has in them; then `RegWholeStreams` by the abstract theorem; `RegHandleAtHome` is a clause of `DbInv`. All are proved
  of `RegSpec`, with the whole registry and any number of requests and clients; `RegTypeCorrect` adds the types of the rest.
- **Requests in turn** (same module). `RegSerialAgrees` and `RegMadeAsChecked` speak of requests none of which overlapped another (`apart`); `InTurn`
  says what such a request has done so far: at most one is under way (`OneAtATime`); between its change of the registry and its swaps the factory is
  behind, by exactly the names `LoadStream` has left, and by the levels between the two swaps (`FactoryFollows`); and until it
  gets to the registry the tables are ahead of it, by exactly its change, unless something failed (`RegistryFollows`). A client that no request
  disturbed has still what it read (`Undisturbed`). Each step of a request moves from one clause to the next.
- **The data** (`JobDataProofs`). `DataInv` relates every value to the call that wrote it, and every call to its job: a call that is
  past its writes has left its outputs (or newer ones) in the map, a call that is not the last has ended, failed or been given up, and the stage is behind
  all completed jobs. `DataOutputsInTurn` and `DataReadsEarlier` are about order, and order between calls is only known through these
  clauses; `DataInputsGiven` needs besides that required keys are never removed. `DataCallsBounded` counts a call for each job done and each error.
  `DataKeepsPromise` is the third refinement of `TaskLifecycle`, after the flow's and the watchers': the life of a task begins with
  its first call of `excute`, and `InStep` says that `Arrived` counts the jobs of the road behind `CurrentStage`, so that the last one ends it. It is not run
  (`DataFollowsLife` is defined in the proofs); a task without a job on its road never begins.
- **The heap** (`PriorityHeapProofs`). `HeapInv` says which edges of the tree may be out of order: none between calls, the one above `at`
  while it goes up, those below it while it goes down, and then that its parent bounds its children. The root of an ordered tree is largest, which is
  an induction over places, made as a least counterexample (`LeastOf`). `HeapPopsLargest` maps `Push` and `PopEnd` to `Put` and `Take` and every swap to a stutter.

- **The clients** (`TaskClientsProofs`). `ClientInv` follows the end of a task along its way: a message that says it carries the last data
  (`PostsFinal`), for the sender marshals after it has looked; the wire is whole messages but for what the client has read of the first
  (`Framed`, `WireFinal`); and a client that has read the event of the end stands in that very message (`ReaderFinal`), so that the first blank line it
  meets comes after the data. `ClientDoneIsFinal` follows, of the specification with fairness, which it does not use.
- **The files** (`ContextFilesProofs`). A command is alone until another starts, and the others are at rest while it is, so what it has read still
  holds and the files are whole but for the one it writes (`AloneFiles`, `AloneFound`, `AloneCurrent`); what is used among what it has found it knows to be
  used (`AloneUsed`), and what it was to be served with stays there or is about to be added (`AloneServed`). From this `ContextNeverDies` and the action property
  `ContextCurrentKept`. That a nested `getContexts` comes back (`ContextTyped`) is an argument about all terminals: it nests again only where the default
  context it has added is gone, which takes another command that removed it and ended (`DepthBounded`).
- **The search** (`SearchJobProofs`). The pages are known one by one (`PagesInOrder`), so that they follow on one another and end near the limit is arithmetic of their starts (`InOrderFollow`). In flat mode each text
  written adds its share and a line break; in depth mode one text may cross the size and nothing comes after the one that is cut (`FlatBounded`, `DeepBounded`).

All invariants and action properties of the runs are proved, and the five refinements they check. Only model-checked: the liveness properties
(`RewoundReturns`, `ReaderEnds`, `EventuallyClosed`, `StreamEnds`, `EndReaches`, `RequestEnds`, `ClientsLeave`), which need fairness and `ENABLED`, out of the
proof system's reach; and the violations, which are counterexamples.

## 5. Where code and text differ

Two are runs of one property each that TLC violates; `findings` in `PROJECT.json` quotes the text.

- `pop_empty`: the reader can offer a second `popTask` before the dispatcher has called the first; with one task in the
  heap the second call pops an empty heap and the server panics. `QueueClaimsBacked` bounds it to one.
- `stored_runs`: an apply or a removal whose transaction failed is answered with an error and changes registry and
  factory nevertheless; what runs is not what is stored.

The others met while modelling. The modules have the behaviour, and the properties are stated so that they hold of it:

- `Close` between the reader's length check and its inner select lets it choose a send on the closed reader channel
  (`ReaderSendsOnClosed`).
- The dispatcher holds on to the task it has popped while the pool is busy; a task of higher level waits behind it.
- A task that died is stored with progress 100.00 and announced as finished (`TrackDone`).
- A tracker with an older value in hand sees `Arrived` complete and leaves; the last progress and `finished` are never sent. If its first
  look missed the end and its second sees it, the broadcast is not stopped either, and its clients get heartbeats for ever; so
  `ClientsLeave` promises nothing before a stop is asked for.
- A request whose stream another commit has changed since its look-up goes on with the id it found (`apply.go:33-38`, `131-138`). A removal of `a` finds id 1;
  another removal of `a` commits; an apply of `b` gets id 1; the first then deletes the jobs of id 1, and `b` is stored without jobs. An apply that was
  overtaken can in the same way replace another stream's configuration. `FollowsStore` allows both to requests that were overtaken and to no other.
- Two tasks created at once write the description map their roads share, and the list of streams is read while a request
  writes it; two handlers of one task, or a handler and a viewer, use its metadata at once. The Go runtime may end the process (`up`).
- `pushTaskUnsafe` does not look at `MaxSize`, so rewound tasks overfill the queue, by a bounded number (`FlowLoadBounded`). That is needed, since a bounded push would lose
  accepted tasks (the mutant `PushBounded` breaks `NoLoss`).
- A call that was given up can write after the next job, and then an older stage's value replaces a newer one (against README.md:32 of the repository);
  `OutputsInTurn` excepts such writes (`late`). Its goroutine then waits for ever for somebody to take its result.
- The `oneof` of `schema/job.go` is never evaluated, since the validator does not dive into the list of jobs: one of an unknown kind is accepted, and passed over
  by `LoadStream`; a stream of such jobs alone, or of none, makes `excute` panic. It does not enforce the data-flow rule of README.md:29.
- A JSON path that leads to null makes the parser panic (`AnswersNull`). So does writing to the metadata of a request without `params`
  (`WriteNil`).
- A refused push leaves its broadcast beating. The map of broadcasts never shrinks. The clean-up takes the zero start of a task that waits for an old
  one, so `TaskLook` does not find it. With `Tracking` off, the stream of a finished task never ends.
- `stream complete` panics when the metadata holds a list or a map and a second event comes: `currentOutput[k] != v` compares them (`ReadData`).
- `context add x` as the first command on a fresh install never creates `local` and leaves no current context; a `stream list` after it ends by `log.Fatal`
  (`cli/cmd/stream.go:263-266`), and so does every other command that asks the server, until `context set x`. `NeverDies` excepts it (`served`).
- The default context is written with `Used: true` (`cli/cmd/context.go:320`). After `context set` of another both count as used, `getCurrentContext`
  takes whichever the map gives first, and `context remove local` is refused (`Usable`).
- A command that is killed between the cut and
  the fill leaves a file on which every later command ends. Overlapping `remove` and `set` can leave a current name without a file.
- A Google search for more than 10 results asks for 10 fewer than the limit (15 of 25), and for 0 on its last page when the limit is a multiple of 10. The
  clamp to 100 comes before the assignment it should clamp. A negative `block_size` panics in flat mode; in depth mode the text that
  crosses the size is cut to the excess.

## 6. Plan, and what is not modelled

Done, in this order: the queue and its buffer; the flow and its promise; the watchers; the streams in database,
registry and factory; the data of the jobs; the heap; the clients, the clean-up and the context files; the search; the proofs of the queue, the flow, the
watchers, the streams, the data and the heap; then those of requests in turn, of the clients, the files and the search, and the bound on what rewinds
overfill. Next:

1. The bag of `RetryQueue` and that of `PriorityHeap` joined by a theorem: `LevelBag` with the queue's `pq` as its elements.
2. What validation guarantees of every stream, as lemmas about `StreamConfig`'s operators: which streams that are accepted keep the data-flow rule.

Not modelled, with the reason: the handlers' calls of external services and their text conversions (prompt templates, XML, JSON paths:
no state, and the parsers' outcomes are in `JobData`), the rendering of the CLI and its commands that send one request, configuration, logging and
sqlc output (no behaviour of this program's own), the inside of the event source library and the HTTP server's shutdown (libraries),
`RetryAbleQueue.Update` and the indices it needs (it has no caller) and the cancelled context of queue and dispatcher, which is only cancelled when
`Run` returns, after everything was stopped. `TaskList` and the other lists only read.
