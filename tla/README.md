# Verification of production-agent-runtime

TLA+ models of the agent runtime in `src/agent_runtime`, the TLC instances that check them and
the TLAPS proofs about them. Paths below are relative to the repository, line numbers refer to the
commit beside this directory. `PROJECT.json` is the index: components, runs, the
source lines of every definition, the mutations each property must notice, the disagreements
between code and documents, the hazards, and the theorems.

## 1. The system

An agent run is submitted over REST or the CLI, waits in a bounded queue, is executed by one of a
fixed number of workers through one of four agent patterns, and ends SUCCEEDED, FAILED or
CANCELLED. Everything is one asyncio event loop in one process, nothing is persisted; threads
appear only below `run_in_executor` and `to_thread`.

| Component | State | Operations | What makes it correct |
|---|---|---|---|
| scheduler (`runtime.py`) | registry, completion events, idempotency maps, queue, workers, tasks | start, submit, cancel, retry, wait, close; worker loop; execution; eviction | every accepted run is executed at most once at a time and ends; clients are released exactly when it has; the registry is bounded; keys are unique |
| state machine (`fsm.py`) | run state, one lock per run | transition, transition_if_current, transition_if_allowed, discard | states change along 12 edges whatever happens concurrently |
| task queue (`adapters/memory.py`) | bounded FIFO | put_nowait, get, full | never over capacity |
| LLM client (`llm/resilience.py`) | tokens, breaker state and counts | complete; acquire; before_call, record_*, release_probe | the rate holds, the breaker opens, recovers and never gets stuck |
| event bus (`events.py`) | a queue and workers per subscription | subscribe, start, emit, close | publishing never blocks, subscriptions do not disturb each other, close drains |
| agent patterns (`agents/patterns.py`) | loop index, plan, replies | run | bounded number of calls, the answer rests on all steps |
| session store (`sessions.py`) | a ring of messages per session | get, append_turn, clear | turns do not mix, none is repeated, no answer is lost but the oldest |
| tool registry (`tools.py`) | a semaphore and a thread pool per tool | register, execute, close | permits survive every way a call ends, nothing runs for a call that is over, a tool's faults stay its own |
| lease manager (`adapters/memory.py`) | owner and expiry per resource | acquire, renew, release, owner | a lease belongs to one owner until it lapses |
| run repository (`adapters/memory.py`) | records and two idempotency maps | add, delete, get, list | the maps are inverse and name stored runs |
| checkpoints, publisher (`adapters/memory.py`) | dictionaries, lists | the ports of `ports.py` | monotonic checkpoints |
| configuration, API, CLI, factory, providers, metrics | - | - | no control of their own |

Interaction: the API calls the scheduler. The scheduler creates one task per execution, the task
runs a pattern, the pattern calls back `_complete` and `_execute_tool`, which move the run
RUNNING -> WAITING -> RUNNING around the LLM client or the tool registry. Each transition emits an
event. An execution that produced an output appends a turn to the session.

What is hard here is not parallelism (one loop) but the points where asyncio may switch tasks:
a task is cancelled before its first step, a worker resumes after its run was retried, a record
is evicted while its task unwinds, a request answers after the breaker changed state, close()
waits for queues that others fill, a client sleeps on an event that is cleared again, a woken call
finds its permit taken, a thread outlives the call that started it. `PROJECT.json` lists these hazards with their lines.

## 2. Modules

| Module | Models | Composed of |
|---|---|---|
| `RunStates` | run states, white list, conditional transitions | - |
| `RunLifecycle` | abstract: the life of each run | `RunStates` |
| `RunScheduler` | abstract: a line of runs before a number of slots | - |
| `AgentRuntime` | scheduler, state machine, queue, workers, execution tasks | `RunStates`, implements `RunLifecycle` and `RunScheduler` |
| `MCAgentRuntime` | symmetry for TLC | `AgentRuntime` |
| `RunWaiters` | clients of `wait()`, beside every step of the runtime | extends `AgentRuntime` |
| `SessionHistory`, `MCSessionHistory` | the ring of a session, beside every step of the runtime | extends `AgentRuntime` |
| `RateLimit` | abstract: a level that rises at a constant rate | - |
| `ResilientLLM` | token bucket, breaker, retry of concurrent calls | implements `RateLimit` |
| `RateWindow` | calls let through in a window of time, beside every step of the client | extends `ResilientLLM` |
| `EventBus` | bus, subscriptions, workers, shared executor | - |
| `MCEventBus` | two subscriptions with three workers | `EventBus` |
| `PatternContract` | abstract: what the runtime relies on from a pattern | - |
| `AgentPatterns` | control of the four patterns | implements `PatternContract` |
| `ToolBulkhead` | semaphores, calls, thread pools and close() of the tool registry | - |
| `ExclusiveLease` | abstract: how long each owner may count on a resource | - |
| `MemoryAdapters` | lease manager and run repository | implements `ExclusiveLease` |
| `*_proofs` | inductive invariants and theorems of the module named; `ComposedRuntime_proofs` those of `RunWaiters` and `SessionHistory` | the module, `SequenceFacts` |
| `SequenceFacts` | lemmas about queues, rings and counting, used by the proofs | - |

**AgentRuntime.** One action is one stretch of code between two points where asyncio can switch
tasks. The runtime's locks are never held across such a point (events are emitted with
`put_nowait`, the stores are in memory), so a client operation with all its transitions is one
action: `Submit` and `SubmitNothing` include the eviction of `_cleanup_runs`, `Cancel` includes
the request to the task, `Retry` the reset of the record. `close()` (`runtime.py:235-260`) has two
awaits, the gather of the tasks and workers it cancelled and `events.close()`, and then joins the
threads of the tools and of the executor *in the event loop*. So it is four actions: `CloseBegin` up to
the gather ("closing"), `CloseGather` ("draining"), `CloseEvents` ("joining"), `CloseEnd`. Either of
the last two may never come: how the bus closes is in `EventBus`, how the tools do in `ToolBulkhead`,
and the runtime only says that while the threads are joined nothing else runs (`LoopFree`). A worker is at `queue.get` ("idle"), at `await asyncio.shield(task)` ("shield"), or gone.
An execution passes the points "created", "prepared", "calling", "returned"; a cancellation
requested for its task (`cancelReq`) may be delivered at any of them, and at "created" asyncio
ends the task without running its body. `wait_for` of Python 3.9 to 3.11 may drop a cancellation
that finds its inner task done, so `Commit` is possible while one is pending. A CancelledError may
also come from the pattern itself, raised by a provider or a tool: `HandleCancel` then cancels a run
for which nobody asked it (`runtime.py:316-319`). Data is abstracted
to what the properties tell apart: of a record the state, and whether there is an output, an
error, a turn in the session. A retention time that is over is a choice of how many of the oldest
terminal records may be evicted (`Expired`). Clients of `wait()` and the session's ring are in two
modules on top, so that they cost states only where they are asked about. `Commit` and
`CommitWithoutTurn` are the two ways an output is taken over: an empty one is refused by
`append_turn` after the user's message went in. `RunScheduler` is what a client may rely on about the
order of work: runs are started from the front of one line, at most as many at a time as there are
workers, none twice at a time and none after it was cancelled; one that is executed may be broken off
by what it executes (`Abort`). A run is executed, in these terms, while its task can still do something
for it (`ExecutingRuns`).

**RunWaiters.** A step of the runtime is the same step here, plus the wake-ups it causes: a client
that is registered with a completion event is woken for good the moment the event is set, also when a
retry clears the event before asyncio resumes the client. `wait()` of a run that has ended returns at
once and needs no step. With a timeout, `wait_for` of Python 3.9 to 3.11 makes `event.wait()` a task of
its own: the client is `starting` until that task runs (`StartWait`), and an end and a retry before it
are missed. A client's own timeout is `WaitTimesOut`, which no fairness is given.

**SessionHistory.** The two ways an output is taken over append to the ring: a whole turn
(`Record`), or, when `Message` refuses an empty output, the question alone (`RecordHalf`). All other
steps of an execution leave the ring as it is. Sessions do not share anything, so there is one. A
message is its role and its run. The length of the ring is any number, even or odd.

**ResilientLLM.** From waking up to the request going out (acquire, before_call, provider call)
there is no point where another task runs, so this is one action: `Wait`, `Send` or `Reject`.
The provider is its outcomes. Time advances in ticks; only elapsed time is kept (since the
bucket's last use, since the breaker opened, until a call wakes), and each counter stops where
the code no longer tells values apart (full bucket, elapsed window, threshold), so the model is
finite without a bound on time or calls. `Cost` allows a refill of less than one call per tick. A
capacity below one call makes `acquire` raise: `Begin` is guarded by it, and such a client only ticks.
`probes` is a history variable: the requests this half-open phase has let through. `RateWindow`
counts, from any tick on and for `WindowLength` ticks, the calls that got their tokens.

**EventBus.** `Emit` is atomic over all subscriptions, as `emit()` is. `close()` is `CloseBegin`, a
`PutPill` per worker that waits for room, and `CloseEnd`. Plain-function handlers go through the
executor that the runtime shares among subscriptions (`pool`, `Threads`). `pills` counts the pills
put so far; `NextPill` says whose queue comes next. A handler returns,
raises, or ends in CancelledError, which `except Exception` does not catch. Events are numbers; each
`subscribe` makes a new object, so `Subscriptions` names none twice;
`due` and `closeMark` are history variables.

**AgentPatterns.** A reply is told apart by what its parser finds: a usable final, a tool, neither;
for plans the number of items. The runtime model does not contain the patterns: it relies on
`PatternContract`, which `AgentPatterns` is checked to implement.

**ToolBulkhead.** Both semaphores are proved about at once, `fifo` being chosen in `Init` and kept.
`PermitsConserved` (free permits and calls inside add up to the limit, and where a permit is free while
calls wait somebody has been woken for it) is not inductive: with the early semaphore (Python 3.9, 3.10)
a woken call can find the permit gone or be cancelled, and then one wake-up more must be on its way.
`PermitsKept` says how many: free permits, executing, woken and waiting calls `Fit`. In the later one a
woken call holds its permit already, so free, executing and woken make up the limit; in the early one
at least as many calls are woken as permits are free, while any wait. Almost every action moves one
call from one place to another, so what a `Move` does to these numbers and to the queues is shown once
(`MoveCounts`, `MoveQueues`, `MoveKeeps`), and each action is left with arithmetic. Waiters stand once
each in the queue of their own tool (`WaitersFit`), and every call that waits is in it, where a wake-up
will find it (`WaitersQueued`): a call taken out without being woken would sleep beside a free permit.
`DelayedOnlyByOrphans` needs in addition that queued jobs belong to calls that
still execute (`JobsFit`), of which there are at most the limit (`InsideCounts`): then jobs and threads
of calls that are not over number at most the limit, and a job that waits has an orphan in a thread.
`NoLateStart` follows from `JobsFit` as well.

`asyncio.Semaphore` is not one thing over the supported Pythons (3.9 and later), so the model has both,
chosen in `Init`. The early one (`~fifo`) adds a released permit to its count and wakes a waiter, which
takes it when it resumes - or finds that a newcomer has, and waits again *behind* the others. The later
one (`fifo`, from 3.10.8 and 3.11 on) gives the woken call its permit, and newcomers wait behind it even
while a permit is free. Every way to move on in it is one `Move`: a call gets somewhere, the queue of
its tool changes, its first calls are woken. How many, differs too: one (`One`), or, in the latest
Pythons, all that there are permits for (`Fit`); the choice is open where both occur. The two differ
only from five calls on, more than the run has; the theorem covers them. The releases 3.10.5 to 3.10.7,
which keep a flag for a wake-up under way, are not modelled.

**MemoryAdapters.** `RepositoryConsistent` is inductive with the types. For `ExclusiveLease` each call
has a lemma of its own that says which promise it makes, keeps or ends and that its answer is the one
the promises entitle the caller to (`AcquirePromises`, `RenewPromises`, `ReleasePromises`,
`OwnerPromises`), and time runs all promises down (`TickPromises`). The invariant it rests on is that a
lease nobody has is over (`LeasesOwned`).

## 3. Runs

| Run | Instance | Shows |
|---|---|---|
| `RuntimeSafety` | 3 runs of one session, 2 workers, queue of 2 (configured: 1), registry of 3, ring of 3 messages; cancel, retry, expiry | `ScheduledOnce`, `WorkerLossAccounted`, `ResultMatchesOutcome`, `TurnEndsRun`, `TurnsUnmixed`, `AnswersRemembered`, and that the order of the work is that of `RunScheduler` |
| `RuntimeRegistry` | 4 runs, 1 worker, 2 keys, queue of 2 (configured: 1), registry of 2; all operations | `TypeOK`, `CompletionMatchesTerminal`, `IdempotencyConsistent`, `RegistryBounded`, `LocksBelong` under eviction by number and age |
| `RuntimeLiveness` | 2 runs, 2 workers, 1 client in wait(); cancel, retry, close | `EveryRunEnds`, `GatherEnds`, `WokenByEnd`, `WaitersReleased`, and that each run's life is that of `RunLifecycle` |
| `LLM` | 3 calls (2 cancellable), 3 attempts, threshold 2, 2 probes, windows of up to 2 ticks | `NoProbeLeak`, `BreakerTracksFailures`, `NoOversleep`, `RateHolds`, the bucket implements `RateLimit`, `OpenIsRetried` |
| `Bus` | 2 subscriptions with 1 and 2 workers, queues of 2 and 1, 3 events, 2 threads | `DeliveriesAccounted`, `DrainedBeforeStop`, `TakenOnceInOrder`, `CloseNeverStuck`, `CloseTerminates`, `Isolated` |
| `Patterns` | 8 steps (the default), plans of up to 10 items | `CallBudget`, `AnswerRestsOnAllSteps`, the contract |
| `Tools` | 4 calls, 3 tools: thread and may hang, thread, coroutine and may hang; limit 2; both semaphores | `PermitsConserved`, `DelayedOnlyByOrphans`, `NoLateStart`, `HealthyCallsEnd`, `EveryCallEnds`, `CloseReturns` |
| `Adapters` | 2 resources and runs, 2 owners, 2 keys, leases of up to 3 ticks | `RepositoryConsistent`, the lease manager implements `ExclusiveLease` |
| `FixedPool`, `CancelReach`, `Replay` | the smallest instances with the case | three statements of the documents or tests that the scheduler does not keep |
| `StaleProbe` | 3 calls, 1 probe | more half-open probes than configured |

*Bounds.* The registry of `RuntimeSafety` covers two workers and a configured queue of one exactly;
the injected queue takes two runs, so that there is an order in the line and a
submission to be refused; three runs let one be retried, one be cancelled and one be evicted at
once, and two workers are what re-dispatch after a retry needs, and what runs of one session need to
overlap. The ring of three messages has room for a turn and a half: a second turn pushes out the oldest
question and leaves its answer first, a lone question shifts the ring by one, and an answer can be
remembered beside a newer one. `RuntimeRegistry` needs
one run more than the registry holds, twice over, to evict the owner of a key while the other key
is in use; worker and injected queue can hold three records, one more than `max_run_records`.
Runs are identifiers used once (uuid4), so their number bounds a behaviour; retries are not
bounded. One client is enough for `RuntimeLiveness` because clients do not see each other. In `LLM`
three calls are one stale request and two probes; capacity 7, rate 2 and cost 3 have no common
divisor, so that waits are rounded and the bucket overflows; in a window of two ticks a full bucket
and its refill pay for more calls than the bucket alone. `MaxEvents` bounds `EventBus`: three
events overfill the queue of one, give both its workers one each and leave one waiting. The two workers
whose handler may hang are as many as there are threads, so both the case that `Isolated` excepts and
the one that it does not are there. `MaxItems` bounds the replies of `AgentPatterns` above the step
limit. In `Tools` four
calls with a limit of two (the default `max_concurrency`) are two whose functions hang and two that
want their permits or threads, or two that hold permits, one that is woken and a newcomer that
overtakes it; three tools are the three kinds there are apart from a coroutine
that ends, which is a thread tool that never queues. In `Adapters` two owners are one that holds
and one that takes over, and `MaxTtl` of three ticks lets a lease be renewed while part of it is
left. Symmetry is used only where no liveness is checked.

`CHECK_DEADLOCK FALSE` stands where the system may stop: a closed or idle runtime, a closed bus, a
pattern that is over, tools whose calls are all over. The LLM client and the leases never stop
(time passes), and there deadlock is checked.

*Fairness.* Weak fairness only, and only of the machinery: asyncio runs ready tasks, clients that
were woken among them; an execution's call ends at the latest with the run timeout
(`runtime.py:303`), a provider's with its own; a handler returns unless the run lets it hang; free
threads take jobs, and a tool's function ends unless the tool is one of `Hanging`; time passes;
close() continues when what it awaits is there. Of the runtime's close() only the gather is fair:
`events.close()` and the joins may block. No client has to do anything, cancel anything or
time out: where a property needs more, it says so as its premise, `OpenIsRetried` that calls keep
coming, `EveryCallEnds` that the tools' timeouts come (`GiveUp`), `CloseTerminates` of the bus that
emits stop at last (`MaxEvents` makes them stop in the run; where they do not, `put_nowait` may take the
room of a pill again and again), `Isolated` that hanging handlers do not keep all threads for ever.
`HealthyCallsEnd` relies on no timeout at all; with the early semaphore, newcomers without end could
starve a woken call, and the run has finitely many. The three liveness properties of the tools except
the case `Stuck`: close() has begun, the pool of a tool that may hang is shut down, and a thread of it
is left to be joined in the event loop. Then nothing runs any more, no timeout either, and the runs show
that this is the only such case. `EveryRunEnds` and `WaitersReleased` except a run that is `Stranded`:
queued while every worker is lost, or retried after close() began; `WaitersReleased` also the joins of
close(), in which no client runs.

## 4. Where code and documents disagree

Each has a run that finds it, and an entry under "findings".

- A run cancelled between the creation of its task and the task's first step ends its worker for
  good (`runtime.py:276`); `WorkerLossAccounted` bounds the damage to one worker per such run.
- The worker's `_tasks.pop(run.id)` can remove the task of a later attempt of the same run
  (`runtime.py:278`): cancel() then returns True and the execution goes on.
- Replaying a key in a full registry can evict the run it names and create another
  (`runtime.py:124`).
- Cancelling a request from before the breaker opened frees a half-open probe it never held
  (`resilience.py:113`).

Also disagreements, found while the properties of the passing runs were stated, which therefore say
less than the documents:

- `README.md:148-149` says that a slow, failing or congested handler affects its own subscription only.
  All plain-function handlers share one executor (`events.py:153`): handlers that hang in every thread
  stop every subscription with such a handler. `Isolated` excepts this case, and without the exception
  the run `Bus` finds it.
- `README.md:194` says that later requests carry the most recent turns of the session (whole rounds of
  question and answer). After a refused, empty output a question stands in the history without its
  answer (`sessions.py:29-30`), and once more when the run is retried; a ring of odd length, or one
  shifted by a lone question, starts with an answer whose question has fallen out (`sessions.py:18`).
  `TurnsUnmixed` and `AnswersRemembered` say what remains.
- `docs/state-machine.md:11` says that CANCELLED comes from the user or from the shutdown. A
  CancelledError that a provider or tool raises of itself also cancels its run (`runtime.py:316-319`),
  which nobody asked for.

Seen in the models as well; no document promises otherwise:

- retry() works on a closed runtime and leaves a READY run nobody executes (`runtime.py:215`): see
  `Stranded`.
- close() of the tools joins threads in the event loop (`tools.py:113`), see `Stuck`; so does close() of
  the runtime (`runtime.py:256-258`), and it awaits the bus before, which may never close: `GatherEnds`
  claims no more than its gather.
- close() of the bus competes with emits for the room in a queue (`events.py:137`).
- With a timeout, `wait()` can miss an end that is followed by a retry at once (`runtime.py:195`, Python
  3.9 to 3.11); the end of the next attempt releases it.
- A CancelledError of a handler ends its worker, with its event uncounted (`events.py:158`).
- Acquiring a lease one holds answers True without extending it (`memory.py:148`); the promise of
  `ExclusiveLease` is therefore what is left of the old lease.
- A task that unwinds after its record was evicted creates the run's lock again (`fsm.py:118`), and
  nothing removes it; `LocksBelong` says that no other lock is left behind.
- An injected queue larger than `queue_capacity` lets the registry exceed `max_run_records`, up to what
  workers and queue hold; `RegistryBounded` has both bounds.
- A late success closes an OPEN breaker inside its recovery window (`resilience.py:92`).

## 5. Proofs

Every type invariant, safety invariant, action property and refinement that a passing run checks is
also a theorem: for any runs, tools, owners, keys and topics, any finite set of workers or calls,
and any limits that the named assumptions admit. Those are what `RuntimeConfig.validate` and the
constructors enforce (`ConfigAssumption`, `StepsAssumption`, `LimitsAssumption`, `BusAssumption`,
`HistoryAssumption`, `LimitAssumption`, `TtlAssumption`), that the stand-ins for None are not
elements (`NoneAssumption`), and which operations an instance has (`OperationsAssumption`). Each
inductive invariant was checked by TLC before it was proved. The type invariants of `ResilientLLM`,
`EventBus`, `ToolBulkhead` and `MemoryAdapters` are proved and not in a run.

**AgentRuntime.** Of the runtime's properties hardly one is inductive alone. `ScheduledOnce` says
where unfinished runs are, but a step of a worker preserves it only if worker, task and state agree:
a worker at its shield has a task, an idle one has none that is live (`WorkersFitTasks`); a task's
point fixes the states its run can have (`TasksFitStates`: a run whose task is calling is WAITING or
CANCELLED); tasks, and the doomed ones that their worker has not yet noticed, belong to different
runs (`HoldersDistinct`); nothing queued is held (`QueuedNotLive`); `finished` holds exactly the
terminal records while submissions are possible (`FinishedFits`), which is what makes eviction safe.
`ScheduleInv` is the conjunction of eleven such parts. `ClientInv` builds the client properties on
it, `BoundInv` the registry's bound: `finished` has all terminal records (`FinishedAll`), and the
others are queued or executed (`UnfinishedBounded`), so there are at most as many as workers and
queue have room for; that is the bound where an injected queue makes it larger than
`max_run_records`. `LocksBelong` is inductive relative to
`ScheduleInv`. Most steps of a task do the same thing, move one task and its run, so one lemma
(`MoveKeepsSchedule`) carries them. `ImplementsLifecycle` maps each step to a step of one run's life.
`ImplementsScheduler` reads the order of the work off `ScheduleInv`: what a worker takes from the
queue is in no slot (`QueuedNotLive`), an idle worker's slot is free, so that there is one
(`SlotFree`: the executing runs are those of the other workers), a run that joins the line is neither
in it nor in a slot (`JoinsLine`), and whatever else happens to a task either leaves its slot taken or
ends its run's execution (`TaskStepSchedules`, `ExecutionEnds`), also when the worker is lost with it
or when the pattern itself raises a CancelledError (`Abort`).

**RunWaiters, SessionHistory** (`ComposedRuntime_proofs`). A step of either module is a step of the
runtime or leaves it alone (`WaitersStep`, `SessionStep`), which lifts `ScheduleInv` and `ClientInv`
to them. `WokenByEnd` needs that a client waits only for a run that was accepted (`WaitsFit`; no step
unmakes a run, `NeverAbsentAgain`): where the record is gone the run has ended, and where it is there
the event is set only in a terminal state. `TurnsUnmixed` needs that a run is recorded once, so that
the reply that goes in is new: a run with a turn is out of the queue and has no live task
(`TurnsOver`), which follows from `TurnEndsRun`, and replies in the ring belong to such runs
(`RepliesRecorded`; both in `HistoryInv`); so the run that records now has none (`RecorderIsNew`).
Nothing is assumed about the length of the ring or about refused outputs. `AnswersRemembered` is
proved in its two parts. That an answer is there until the ring is full (`AnswersKept`) needs that a
run succeeds only in the step that records it (`OnlyRecordSucceeds`) and that a ring that loses a
message is full and has the new one (`RingRemembers`). That the ring loses the oldest first
(`AnswersOrdered`) needs that ended runs keep their place in `finished` or leave it (`FinishedMoves`,
`OrderStays`), and that dropping from the front keeps what comes after (`RingOrder`).

**ResilientLLM.** The level is a function of the last use and the time since, so each step is first
reduced to what it does to the level: refill by one tick, take `Cost`, or leave it (`LevelStep`);
this is the refinement of `RateLimit`. `NoOversleep` needs that the wait is the *least* number of
ticks (`WaitIsLeast`, a fact about rounding up a quotient), that it stays least when others take
tokens or time passes (`StillLeast`), and that calls not asleep have no ticks left (`SleepInv`).
`NoProbeLeak` needs that counted probes are requests still out, and that outside a half-open phase
none are counted: a failure that does not open the breaker must not come from a probe (`ProbeInv`).
`RateHolds` is not inductive: what the calls of a window took is paid for by the bucket that was there
when it opened, so the invariant adds what is left now, `taken * Cost + Level <= Capacity + ticks *
RefillRate`, which each step keeps by `LevelStep`. None of these needs that a call's cost fits the
capacity. The provers know nothing of powers with a variable exponent; `TypeOK` needs of `BackoffDelay` only
that it is clamped to `MaxDelay`.

**EventBus.** That a worker stops only when its queue is drained (`DrainedBeforeStop`) rests on the
place of the pills: before close() there is none (`OpenHasNoPill`), and behind a pill stands nothing
that was emitted before close() (`PillsLast`). `DeliveriesAccounted` counts what waits: taking the
head of a queue renumbers the rest, and the count drops by one because the renumbering is a
bijection (`HeadTakenCounts`). `TakenOnceInOrder` is inductive beside `HoldersFit`: what a queue holds
is newer than what its workers hold, so the head that is taken is nobody else's. `CloseNeverStuck`
rests on a count of the pills, `PillsPlaced`: those in the i-th queue and the workers they stopped
make up what close() has given that subscription, which is all of its workers, none, or what is left
of `pills` after the subscriptions before it (`Given`). `UpToFits` gives the bounds, `NextPillFits` the
subscription whose turn it is, as the least of those not yet served (`LeastNumber`). So a worker that
has not stopped is still owed a pill: it is in its queue once all are put (`PillAwaits`), and before
that the full queue close() waits for has such a worker (`NextPillHasWorker`). A worker whose handler
waits for a thread is in the pool's queue (`PooledInPool`), and a pool without a free thread has a
handler at work (`BusyThread`).

**ToolBulkhead.** `PermitsConserved` (free permits and calls inside add up to the limit, and a
permit is free only where no call waits) needs that waiters stand once each in the queue of their own
tool (`WaitersFit`), and that every call that waits is in it, where a permit will find it
(`WaitersQueued`): a call taken out of the queue without being woken would sleep beside a free
permit. `DelayedOnlyByOrphans` needs in addition that queued jobs belong to calls that
still execute (`JobsFit`): then jobs and threads of calls that are not over number at most the
limit, and a job that waits has an orphan in a thread. `NoLateStart` follows from `JobsFit` as well.

**AgentPatterns.** `PatternInv` says for each pattern how many calls it has made when it is at a
stage; `CallBudget`, `AnswerRestsOnAllSteps` and the contract are read off it.

**MemoryAdapters.** `RepositoryConsistent` is inductive with the types. For `ExclusiveLease` each
operation is shown to be a promise made, kept, given back or run out.

*Only model-checked:* liveness, which is out of the prover's reach: `EveryRunEnds`,
`WaitersReleased`, `GatherEnds`, `CloseTerminates`, `Isolated`, `OpenIsRetried`, `HealthyCallsEnd`,
`EveryCallEnds`, `CloseReturns`.

## 6. Not modelled

- Parsing, HTTP, JSON shapes, prompts and wording (`api.py`, `cli.py`, `factory.py`,
  `llm/openai_compatible.py`, `config.py` apart from the limits that validate() enforces): no state
  of their own, and no order of steps that could be wrong.
- The calculator (`safe_calculate`): a pure function over an expression tree.
- Checkpoint store and event publisher (`adapters/memory.py`): one guarded assignment and one
  append, under a lock, that nothing in the runtime calls. A model would restate them.
- Workers that hold leases and save checkpoints across a crash: the ports are there, the repository
  has no such worker. `MemoryAdapters` calls the leases in any order instead.
- `SessionStore.clear`: nothing calls it.
- The audit ring of the event bus, metrics other than the delivery counts, timestamps except as the
  order of ends: nothing in the runtime reads them.

## 7. Open

Hazards without a property, with the reason in `PROJECT.json`: the second close() that returns early
(`runtime.py:236`), a retry after close() (`runtime.py:215`; the model has the step, and `Stranded`
excepts its run), the bus worker that a handler's CancelledError ends (`events.py:158`; modelled, its
event is accounted as held by the dead worker), the late success (`resilience.py:92`), starvation among callers that wait for
tokens (`resilience.py:59`; the code promises no order), the capacity below one token
(`config.py:40`; such a client refuses every call, which the theorems cover and no run explores). What
would add most next: the patterns' calls of `AgentPatterns` taken through `ResilientLLM` and
`ToolBulkhead` in one composed model, and the safety half of the other liveness properties stated and
proved as `CloseNeverStuck` is for close() of the bus: that the runtime's gather and the tools' waiting
calls always have someone to wait for.
