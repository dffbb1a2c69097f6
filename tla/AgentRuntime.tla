---------------------------- MODULE AgentRuntime -----------------------------
(***************************************************************************)
(* The scheduler of runtime.py: a registry of runs, a bounded queue, a     *)
(* fixed pool of workers, one asyncio task per execution, cancellation,    *)
(* retry, eviction and shutdown.                                           *)
(*                                                                         *)
(* One action is one stretch of code between two points where asyncio can  *)
(* switch tasks.  The runtime's own locks (submission, lifecycle, per run) *)
(* are never held across such a point, so submit, retry, cancel and a      *)
(* state transition with its events are each one step.                     *)
(*                                                                         *)
(* Every execution task is awaited by the worker that created it, and a    *)
(* worker has one at a time: a task is named by its worker.                *)
(***************************************************************************)
EXTENDS RunStates, Naturals, FiniteSets, SequencesExt

CONSTANTS
  Runs,                \* identifiers submit may draw, each once (uuid4)
  Workers,             \* config.max_concurrency of them
  Keys,                \* idempotency keys
  NoRun, NoWorker, NoKey,
  QueueCapacity,       \* capacity of the TaskQueue in use
  ConfiguredCapacity,  \* config.queue_capacity
  MaxRunRecords,       \* config.max_run_records
  Operations           \* the optional operations the clients use

ASSUME NoneAssumption ==
  NoRun \notin Runs /\ NoWorker \notin Workers /\ NoKey \notin Keys

(* RuntimeConfig.validate *)
ASSUME ConfigAssumption ==
  /\ IsFiniteSet(Workers) /\ Workers # {}
  /\ QueueCapacity \in Nat \ {0}
  /\ ConfiguredCapacity \in Nat \ {0}
  /\ MaxRunRecords \in Nat
  /\ MaxRunRecords >= Cardinality(Workers) + ConfiguredCapacity

ASSUME OperationsAssumption ==
  Operations \subseteq {"cancel", "retry", "close", "expiry"}

VARIABLES
  phase,       \* _started and _closed: "new", "open"; where close() is:
               \* "closing", "draining", "joining", then "closed"
  runs,        \* _runs: the identifiers of the retained records
  state,       \* RunRecord.state, also of evicted records still in use
  completion,  \* _completion_events that are set
  finished,    \* retained terminal runs, earliest finished_at first
  index,       \* _idempotency_index: key to run
  byRun,       \* _idempotency_by_run: run to key
  locks,       \* StateMachine._locks
  queue,       \* the task queue
  workerPc,    \* where each worker is
  taskPc,      \* where the execution task of each worker is
  taskRun,     \* the run that task executes
  cancelReq,   \* tasks with a cancellation not yet delivered
  tasks,       \* _tasks: run to the task registered for it
  awaited,     \* tasks that close() gathers
  output,      \* runs whose record has an output
  error,       \* runs whose record has an error
  turns        \* runs whose turn is in the session history

registryVars == <<runs, index, byRun>>
taskVars     == <<taskPc, taskRun, cancelReq>>
resultVars   == <<output, error, turns>>
vars == <<phase, runs, state, completion, finished, index, byRun, locks, queue,
          workerPc, taskPc, taskRun, cancelReq, tasks, awaited, output, error,
          turns>>

(***************************************************************************)
(* The points an execution can be at: "created" (its coroutine not yet     *)
(* entered), "prepared" (RUNNING, before its first call), "calling" (an    *)
(* LLM or tool call is out), "returned" (the pattern is over and _execute  *)
(* has not resumed).  Then "done", "cancelled" (the task itself, nothing   *)
(* caught it) or "crashed" (an exception left _execute).                   *)
(***************************************************************************)
Live == {"created", "prepared", "calling", "returned"}
Over == {"done", "cancelled", "crashed"}

Init ==
  /\ phase = "new"
  /\ runs = {} /\ completion = {} /\ locks = {}
  /\ state = [r \in Runs |-> "absent"]
  /\ finished = <<>> /\ queue = <<>>
  /\ index = [k \in Keys |-> NoRun]
  /\ byRun = [r \in Runs |-> NoKey]
  /\ workerPc = [w \in Workers |-> "idle"]
  /\ taskPc = [w \in Workers |-> "none"]
  /\ taskRun = [w \in Workers |-> NoRun]
  /\ tasks = [r \in Runs |-> NoWorker]
  /\ cancelReq = {} /\ awaited = {}
  /\ output = {} /\ error = {} /\ turns = {}

-----------------------------------------------------------------------------
(* State transitions.                                                      *)

(***************************************************************************)
(* StateMachine._apply: the run takes the target state; the first terminal *)
(* one stamps finished_at.  _lock_for leaves a lock behind for the run     *)
(* whether or not the transition takes place.                              *)
(***************************************************************************)
Enter(r, target) ==
  /\ state' = [state EXCEPT ![r] = target]
  /\ locks' = locks \cup {r}
  /\ finished' = IF target \in Terminal /\ state[r] \notin Terminal
                 THEN Append(finished, r) ELSE finished

-----------------------------------------------------------------------------
(* Submission, with the eviction of old records that precedes it.          *)

(* A mutant of Evictions: only the age of a record counts. *)
EvictionsByAgeOnly(expired) == expired

(***************************************************************************)
(* _cleanup_runs(reserve=1): the number of terminal records evicted, oldest*)
(* first, when the retention time is over for the first `expired` of them. *)
(***************************************************************************)
Evictions(expired) ==
  LET overflow == Cardinality(runs) + 1 - MaxRunRecords
  IN IF expired >= overflow         THEN expired
     ELSE IF overflow > Len(finished) THEN Len(finished)
     ELSE overflow

Oldest(n) == {finished[i] : i \in 1..n}

(* A mutant of IndexWithout: the key of an evicted run stays reserved. *)
StaleIndex(gone) == index

IndexWithout(gone) ==
  [k \in Keys |-> IF \E r \in gone : byRun[r] = k THEN NoRun ELSE index[k]]

ByRunWithout(gone) == [r \in Runs |-> IF r \in gone THEN NoKey ELSE byRun[r]]

(* A mutant of LocksWithout: StateMachine.discard is not called. *)
LocksKept(gone) == locks

LocksWithout(gone) == locks \ gone

Cleanup(n) ==
  /\ finished' = SubSeq(finished, n + 1, Len(finished))
  /\ completion' = completion \ Oldest(n)

(* How many records may have outlived their retention time. *)
Expired == IF "expiry" \in Operations THEN 0..Len(finished) ELSE {0}

(* A mutant of Room: one task too many. *)
RoomOffByOne == Len(queue) <= QueueCapacity

(* ~TaskQueue.full() *)
Room == Len(queue) < QueueCapacity

(* start(): the workers are idle tasks from the start of the model. *)
Start ==
  /\ phase = "new"
  /\ phase' = "open"
  /\ UNCHANGED <<registryVars, taskVars, resultVars, state, completion,
                 finished, locks, queue, workerPc, tasks, awaited>>

(***************************************************************************)
(* submit() that accepts a new run, with the idempotency key k or without. *)
(***************************************************************************)
Submit(r, k, n) ==
  LET gone == Oldest(n) IN
  /\ phase = "open"
  /\ state[r] = "absent"
  /\ k \in Keys => IndexWithout(gone)[k] \notin runs \ gone
  /\ Room
  /\ Cleanup(n)
  /\ runs' = (runs \ gone) \cup {r}
  /\ locks' = LocksWithout(gone) \cup {r}
  /\ index' = [i \in Keys |-> IF i = k THEN r ELSE IndexWithout(gone)[i]]
  /\ byRun' = [ByRunWithout(gone) EXCEPT ![r] = k]
  /\ state' = [state EXCEPT ![r] = "ready"]
  /\ queue' = Append(queue, r)
  /\ UNCHANGED <<phase, taskVars, resultVars, workerPc, tasks, awaited>>

(***************************************************************************)
(* submit() that creates nothing: the key belongs to a retained run (which *)
(* is returned, or IdempotencyConflictError if the request differs), or    *)
(* the queue is full.  The eviction has happened all the same.             *)
(***************************************************************************)
SubmitNothing(n) ==
  LET gone == Oldest(n) IN
  /\ phase = "open"
  /\ \/ \E k \in Keys : IndexWithout(gone)[k] \in runs \ gone
     \/ ~Room
  /\ Cleanup(n)
  /\ runs' = runs \ gone
  /\ locks' = LocksWithout(gone)
  /\ index' = IndexWithout(gone)
  /\ byRun' = ByRunWithout(gone)
  /\ UNCHANGED <<phase, state, taskVars, resultVars, queue, workerPc, tasks,
                 awaited>>

-----------------------------------------------------------------------------
(* The other client operations.                                            *)

(***************************************************************************)
(* cancel(): the run is CANCELLED at once; the task registered for it, if  *)
(* any, is asked to stop.                                                  *)
(***************************************************************************)
Cancel(r) ==
  LET w == tasks[r] IN
  /\ "cancel" \in Operations
  /\ r \in runs /\ CanTransition(state[r], "cancelled")
  /\ Enter(r, "cancelled")
  /\ cancelReq' = IF w # NoWorker /\ taskPc[w] \in Live
                  THEN cancelReq \cup {w} ELSE cancelReq
  /\ completion' = completion \cup {r}
  /\ UNCHANGED <<phase, registryVars, resultVars, queue, workerPc, taskPc,
                 taskRun, tasks, awaited>>

(* A mutant of Retryable: anything that has ended may be retried. *)
RetryableIfTerminal(r) == state[r] \in Terminal

Retryable(r) == CanTransition(state[r], "ready")

(* A mutant of ResetRecord: clients that wait again are not held. *)
ResetRecordKeepsEvent(r) ==
  /\ output' = output \ {r} /\ error' = error \ {r}
  /\ UNCHANGED completion

(* A mutant of ResetRecord: the record keeps the error of the last attempt. *)
ResetRecordKeepsError(r) ==
  /\ output' = output \ {r} /\ UNCHANGED error
  /\ completion' = completion \ {r}

ResetRecord(r) ==
  /\ output' = output \ {r} /\ error' = error \ {r}
  /\ completion' = completion \ {r}

(* retry(): a FAILED run is queued again with a clean record. *)
Retry(r) ==
  /\ "retry" \in Operations
  /\ r \in runs /\ Retryable(r)
  /\ Room
  /\ state' = [state EXCEPT ![r] = "ready"]
  /\ locks' = locks \cup {r}
  /\ \E i \in 1..Len(finished) : /\ finished[i] = r
                                 /\ finished' = RemoveAt(finished, i)
  /\ ResetRecord(r)
  /\ queue' = Append(queue, r)
  /\ UNCHANGED <<phase, registryVars, taskVars, turns, workerPc, tasks, awaited>>

(***************************************************************************)
(* close() up to its gather: every unfinished run becomes CANCELLED, every *)
(* registered task and every worker is asked to stop.  The order of        *)
(* `finished` is only read by submit, which refuses from here on.          *)
(***************************************************************************)
CloseBegin ==
  LET open   == {r \in runs : state[r] \notin Terminal}
      active == {w \in Workers : /\ taskPc[w] \in Live
                                 /\ \E r \in Runs : tasks[r] = w} IN
  /\ "close" \in Operations
  /\ phase \in {"new", "open"}
  /\ phase' = "closing"
  /\ state' = [r \in Runs |-> IF r \in open THEN "cancelled" ELSE state[r]]
  /\ locks' = locks \cup open
  /\ completion' = completion \cup open
  /\ cancelReq' = cancelReq \cup active
  /\ awaited' = active
  /\ UNCHANGED <<registryVars, resultVars, finished, queue, workerPc, taskPc,
                 taskRun, tasks>>

ClosePasses(from, to) ==
  /\ phase = from /\ phase' = to
  /\ UNCHANGED <<registryVars, taskVars, resultVars, state, completion,
                 finished, locks, queue, workerPc, tasks, awaited>>

(* The gather of close() ends: all that it waited for has stopped. *)
CloseGather ==
  /\ \A w \in Workers : workerPc[w] \in {"stopped", "dead"}
  /\ \A w \in awaited : taskPc[w] \notin Live
  /\ ClosePasses("closing", "draining")

(* `await self.events.close()` returns (EventBus says when). *)
CloseEvents == ClosePasses("draining", "joining")

(***************************************************************************)
(* tools.close() and executor.shutdown(wait=True) have joined the threads, *)
(* in the event loop: as long as they did, no other step took place.       *)
(***************************************************************************)
CloseEnd == ClosePasses("joining", "closed")

LoopFree == phase # "joining"

-----------------------------------------------------------------------------
(* The workers: _worker_loop.                                              *)

(* A mutant of Unfinished: only an evicted run is passed over. *)
UnfinishedIfRetained(r) == r \in runs

Unfinished(r) == r \in runs /\ state[r] \notin Terminal

(* A worker takes a run from the queue and creates its execution task. *)
Dispatch(w) ==
  LET r == Head(queue) IN
  /\ phase = "open" /\ workerPc[w] = "idle" /\ queue # <<>>
  /\ Unfinished(r)
  /\ queue' = Tail(queue)
  /\ workerPc' = [workerPc EXCEPT ![w] = "shield"]
  /\ taskPc' = [taskPc EXCEPT ![w] = "created"]
  /\ taskRun' = [taskRun EXCEPT ![w] = r]
  /\ cancelReq' = cancelReq \ {w}
  /\ tasks' = [tasks EXCEPT ![r] = w]
  /\ UNCHANGED <<phase, registryVars, resultVars, state, completion, finished,
                 locks, awaited>>

(* The run was cancelled, or cancelled and evicted, while it was queued. *)
Skip(w) ==
  /\ phase = "open" /\ workerPc[w] = "idle" /\ queue # <<>>
  /\ ~Unfinished(Head(queue))
  /\ queue' = Tail(queue)
  /\ UNCHANGED <<phase, registryVars, taskVars, resultVars, state, completion,
                 finished, locks, workerPc, tasks, awaited>>

(***************************************************************************)
(* The worker leaves `await asyncio.shield(task)`; its finally unregisters *)
(* whatever task _tasks holds for the run by now.                          *)
(***************************************************************************)
LeaveShield(w, pc) ==
  /\ workerPc[w] = "shield"
  /\ workerPc' = [workerPc EXCEPT ![w] = pc]
  /\ tasks' = [tasks EXCEPT ![taskRun[w]] = NoWorker]
  /\ UNCHANGED <<phase, registryVars, taskVars, resultVars, state, completion,
                 finished, locks, queue, awaited>>

Resume(w) ==
  /\ phase = "open" /\ taskPc[w] = "done"
  /\ LeaveShield(w, "idle")

(***************************************************************************)
(* The shield re-raises the CancelledError of a task that was cancelled    *)
(* before its first step, or the exception of one that crashed: nothing in *)
(* the loop catches it.                                                    *)
(***************************************************************************)
Die(w) ==
  /\ phase = "open" /\ taskPc[w] \in {"cancelled", "crashed"}
  /\ LeaveShield(w, "dead")

(* A mutant of Stop: the worker sits out the task that it shields. *)
StopIdle(w) ==
  /\ phase = "closing" /\ workerPc[w] = "idle"
  /\ workerPc' = [workerPc EXCEPT ![w] = "stopped"]
  /\ UNCHANGED <<phase, registryVars, taskVars, resultVars, state, completion,
                 finished, locks, queue, tasks, awaited>>

(* close() has cancelled the worker. *)
Stop(w) ==
  /\ phase = "closing"
  /\ \/ LeaveShield(w, "stopped")
     \/ /\ workerPc[w] = "idle"
        /\ workerPc' = [workerPc EXCEPT ![w] = "stopped"]
        /\ UNCHANGED <<phase, registryVars, taskVars, resultVars, state,
                       completion, finished, locks, queue, tasks, awaited>>

-----------------------------------------------------------------------------
(* The execution task: _execute.                                           *)

TaskUnchanged == UNCHANGED <<phase, registryVars, queue, workerPc, taskRun,
                             cancelReq, tasks, awaited>>

(***************************************************************************)
(* The run takes its last state in this execution, then the finally block  *)
(* wakes the clients waiting for it, or fails with KeyError when the       *)
(* record of the terminal run has been evicted.                            *)
(***************************************************************************)
End(w, target) ==
  LET r == taskRun[w] IN
  /\ Enter(r, target)
  /\ IF target \in Terminal /\ r \notin runs
     THEN /\ taskPc' = [taskPc EXCEPT ![w] = "crashed"]
          /\ UNCHANGED completion
     ELSE /\ taskPc' = [taskPc EXCEPT ![w] = "done"]
          /\ completion' = IF target \in Terminal
                           THEN completion \cup {r} ELSE completion

Begin(w) ==
  LET r == taskRun[w] IN
  /\ taskPc[w] = "created" /\ w \notin cancelReq
  /\ CanTransition(state[r], "running")
  /\ Enter(r, "running")
  /\ taskPc' = [taskPc EXCEPT ![w] = "prepared"]
  /\ TaskUnchanged /\ UNCHANGED <<resultVars, completion>>

(* _execute finds its run already cancelled and returns at once. *)
BeginCancelled(w) ==
  LET r == taskRun[w] IN
  /\ taskPc[w] = "created" /\ w \notin cancelReq
  /\ state[r] = "cancelled"
  /\ IF r \in runs
     THEN /\ taskPc' = [taskPc EXCEPT ![w] = "done"]
          /\ completion' = completion \cup {r}
     ELSE /\ taskPc' = [taskPc EXCEPT ![w] = "crashed"]
          /\ UNCHANGED completion
  /\ TaskUnchanged /\ UNCHANGED <<resultVars, state, finished, locks>>

(* asyncio cancels a task that has not started without running its body. *)
CancelledBeforeStart(w) ==
  /\ taskPc[w] = "created" /\ w \in cancelReq
  /\ taskPc' = [taskPc EXCEPT ![w] = "cancelled"]
  /\ TaskUnchanged
  /\ UNCHANGED <<resultVars, state, completion, finished, locks>>

(* _complete or _execute_tool: WAITING, and the call goes out. *)
Call(w) ==
  LET r == taskRun[w] IN
  /\ taskPc[w] = "prepared"
  /\ CanTransition(state[r], "waiting")
  /\ Enter(r, "waiting")
  /\ taskPc' = [taskPc EXCEPT ![w] = "calling"]
  /\ TaskUnchanged /\ UNCHANGED <<resultVars, completion>>

(***************************************************************************)
(* The last call of the pattern ends, with an answer, an error or the run  *)
(* timeout.  A pattern goes from one call to the next without giving up    *)
(* control, so the calls in between leave the run as it is.                *)
(***************************************************************************)
Return(w) ==
  LET r == taskRun[w] IN
  /\ taskPc[w] = "calling"
  /\ Enter(r, IfCurrent(state[r], "waiting", "running"))
  /\ taskPc' = [taskPc EXCEPT ![w] = "returned"]
  /\ TaskUnchanged /\ UNCHANGED <<resultVars, completion>>

(***************************************************************************)
(* The pattern produced an output: it is recorded, with the session turn,  *)
(* before the state is looked at.  A cancellation may be pending: wait_for *)
(* of Python 3.9 to 3.11 drops one that finds the inner task done.         *)
(***************************************************************************)
Commit(w) ==
  LET r == taskRun[w] IN
  /\ taskPc[w] = "returned"
  /\ output' = output \cup {r} /\ turns' = turns \cup {r}
  /\ End(w, IfCurrent(state[r], "running", "succeeded"))
  /\ TaskUnchanged /\ UNCHANGED error

(* An empty output is recorded, but append_turn refuses it. *)
CommitWithoutTurn(w) ==
  LET r == taskRun[w] IN
  /\ taskPc[w] = "returned"
  /\ output' = output \cup {r} /\ error' = error \cup {r}
  /\ End(w, IfAllowed(state[r], "failed"))
  /\ TaskUnchanged /\ UNCHANGED turns

(* A mutant of Fail: the exception leaves _execute. *)
FailEscapes(w) ==
  /\ taskPc[w] \in {"prepared", "returned"}
  /\ taskPc' = [taskPc EXCEPT ![w] = "crashed"]
  /\ TaskUnchanged
  /\ UNCHANGED <<resultVars, state, completion, finished, locks>>

(***************************************************************************)
(* An exception of the pattern, the run timeout, or the refusal of a       *)
(* transition of a run that was cancelled meanwhile.                       *)
(***************************************************************************)
Fail(w) ==
  LET r == taskRun[w] IN
  /\ taskPc[w] \in {"prepared", "returned"}
  /\ error' = error \cup {r}
  /\ End(w, IfAllowed(state[r], "failed"))
  /\ TaskUnchanged /\ UNCHANGED <<output, turns>>

(***************************************************************************)
(* A CancelledError reaches _execute: the pending cancellation, or one     *)
(* that a provider or a tool raised of itself, in which case the run is    *)
(* cancelled here and not by a client.                                     *)
(***************************************************************************)
HandleCancel(w) ==
  LET r == taskRun[w] IN
  /\ \/ taskPc[w] = "returned"
     \/ taskPc[w] \in {"prepared", "calling"} /\ w \in cancelReq
  /\ End(w, IfAllowed(state[r], "cancelled"))
  /\ TaskUnchanged /\ UNCHANGED resultVars

-----------------------------------------------------------------------------
WorkerStep(w) == Dispatch(w) \/ Skip(w) \/ Resume(w) \/ Die(w) \/ Stop(w)

TaskStep(w) ==
  /\ LoopFree
  /\ \/ Begin(w) \/ BeginCancelled(w) \/ CancelledBeforeStart(w)
     \/ Call(w) \/ Return(w)
     \/ Commit(w) \/ CommitWithoutTurn(w) \/ Fail(w) \/ HandleCancel(w)

ClientStep ==
  /\ LoopFree
  /\ \/ Start
     \/ \E e \in Expired : \/ SubmitNothing(Evictions(e))
                           \/ \E r \in Runs, k \in Keys \cup {NoKey} :
                                 Submit(r, k, Evictions(e))
     \/ \E r \in Runs : Cancel(r) \/ Retry(r)
     \/ CloseBegin

CloseStep == CloseGather \/ CloseEvents \/ CloseEnd

Next ==
  \/ ClientStep
  \/ \E w \in Workers : WorkerStep(w) \/ TaskStep(w)
  \/ CloseStep

Spec == Init /\ [][Next]_vars

(***************************************************************************)
(* asyncio runs every ready task, a task that awaits a call becomes ready  *)
(* at the latest when run_timeout_seconds is over, and a cancelled task is *)
(* resumed.  Clients need not do anything, and neither events.close() nor  *)
(* the joins of close() need return.                                       *)
(***************************************************************************)
Fairness ==
  /\ \A w \in Workers : WF_vars(WorkerStep(w)) /\ WF_vars(TaskStep(w))
  /\ WF_vars(CloseGather)

FairSpec == Spec /\ Fairness

-----------------------------------------------------------------------------
(* Safety.                                                                 *)

(* The runs that have a live task, and the task's place in its run's life. *)
Executing(r) == {w \in Workers : taskRun[w] = r /\ taskPc[w] \in Live}

(***************************************************************************)
(* Every variable has its type; the queue never holds more than its        *)
(* capacity (put_nowait never raises QueueFull, runtime.py:143 and 218).   *)
(***************************************************************************)
TypeOK ==
  /\ phase \in {"new", "open", "closing", "draining", "joining", "closed"}
  /\ runs \subseteq Runs
  /\ state \in [Runs -> RunState \cup {"absent"}]
  /\ completion \subseteq Runs
  /\ finished \in Seq(Runs)
  /\ index \in [Keys -> Runs \cup {NoRun}]
  /\ byRun \in [Runs -> Keys \cup {NoKey}]
  /\ locks \subseteq Runs
  /\ queue \in Seq(Runs) /\ Len(queue) <= QueueCapacity
  /\ workerPc \in [Workers -> {"idle", "shield", "dead", "stopped"}]
  /\ taskPc \in [Workers -> {"none"} \cup Live \cup Over]
  /\ taskRun \in [Workers -> Runs \cup {NoRun}]
  /\ cancelReq \subseteq Workers
  /\ tasks \in [Runs -> Workers \cup {NoWorker}]
  /\ awaited \subseteq Workers
  /\ output \subseteq Runs /\ error \subseteq Runs /\ turns \subseteq Runs

(***************************************************************************)
(* No accepted run is lost and none is executed twice at a time: a READY   *)
(* run is in the queue, once, or has one task that has not begun; a        *)
(* RUNNING or WAITING run has one task, at the matching point; and no run  *)
(* is both queued and executing, whatever cancel, retry, eviction and      *)
(* close do in between.                                                    *)
(***************************************************************************)
ScheduledOnce ==
  /\ \A i, j \in 1..Len(queue) : queue[i] = queue[j] => i = j
  /\ \A v, w \in Workers : taskPc[v] \in Live /\ taskPc[w] \in Live
                             /\ taskRun[v] = taskRun[w] => v = w
  /\ \A i \in 1..Len(queue) : /\ Executing(queue[i]) = {}
                              /\ state[queue[i]] \in {"ready", "cancelled"}
  /\ \A r \in Runs :
       /\ state[r] = "ready" =>
            \/ \E i \in 1..Len(queue) : queue[i] = r
            \/ \E w \in Workers : taskRun[w] = r /\ taskPc[w] = "created"
       /\ state[r] = "running" =>
            \E w \in Workers : /\ taskRun[w] = r
                              /\ taskPc[w] \in {"prepared", "returned"}
       /\ state[r] = "waiting" =>
            \E w \in Workers : taskRun[w] = r /\ taskPc[w] = "calling"

(***************************************************************************)
(* A client that waits for a run is held exactly while the run has not     *)
(* ended: the completion event of every retained record is set if and only *)
(* if its state is terminal (wait, cancel, retry, close and the finally of *)
(* _execute agree on it), and no event outlives its record.                *)
(***************************************************************************)
CompletionMatchesTerminal ==
  completion = {r \in runs : state[r] \in Terminal}

(***************************************************************************)
(* The two idempotency maps stay inverse to each other and only name       *)
(* retained runs, so that an evicted run neither blocks its key nor        *)
(* frees the key of a later run (_idempotency_index, _idempotency_by_run). *)
(***************************************************************************)
IdempotencyConsistent ==
  /\ \A k \in Keys : index[k] # NoRun => /\ index[k] \in runs
                                        /\ byRun[index[k]] = k
  /\ \A r \in Runs : byRun[r] # NoKey => index[byRun[r]] = r

(***************************************************************************)
(* The registry never exceeds max_run_records, or what an injected queue   *)
(* larger than queue_capacity and the workers can hold, although only      *)
(* terminal records are evicted and retries make records unfinished again  *)
(* (_cleanup_runs with the check of RuntimeConfig.validate).               *)
(***************************************************************************)
RegistryBounded ==
  \/ Cardinality(runs) <= MaxRunRecords
  \/ Cardinality(runs) <= Cardinality(Workers) + QueueCapacity

(***************************************************************************)
(* A worker is only ever lost to a cancelled run, and each cancelled run   *)
(* costs at most one worker: failures, timeouts and evictions of other     *)
(* runs leave the pool as it is (_worker_loop has no handler of its own).  *)
(***************************************************************************)
WorkerLossAccounted ==
  \A v, w \in Workers :
    workerPc[v] = "dead" =>
      /\ state[taskRun[v]] = "cancelled"
      /\ workerPc[w] = "dead" /\ taskRun[v] = taskRun[w] => v = w

(***************************************************************************)
(* What a client reads in a record that has ended fits the state: a        *)
(* SUCCEEDED run has its output and no error left from an earlier attempt, *)
(* a FAILED one has an error, an unfinished one neither.                   *)
(***************************************************************************)
ResultMatchesOutcome ==
  \A r \in Runs :
    /\ state[r] = "succeeded" => r \in output \ error
    /\ state[r] = "failed" => r \in error
    /\ state[r] \in {"ready", "running", "waiting"} => r \notin output \cup error

(***************************************************************************)
(* A run adds at most one turn to its conversation: once the turn is in    *)
(* the session history the run has ended in a state it cannot leave, so no *)
(* retry repeats it (append_turn before transition_if_current).            *)
(***************************************************************************)
TurnEndsRun == \A r \in turns : state[r] \in {"succeeded", "cancelled"}

(***************************************************************************)
(* Only cancellation leaks locks: a lock without a record was left by the  *)
(* task of a CANCELLED run that unwound after the eviction (fsm.discard    *)
(* against the setdefault of fsm._lock_for).                               *)
(***************************************************************************)
LocksBelong == \A r \in locks : r \in runs \/ state[r] = "cancelled"

-----------------------------------------------------------------------------
(* The life of each run is the one the state machine promises.             *)

(* The states of all runs evolve as RunLifecycle allows (fsm.py). *)
Lifecycle == INSTANCE RunLifecycle
LifecycleSpec == Lifecycle!Spec

ExecutingRuns == {taskRun[w] : w \in {v \in Workers : taskPc[v] \in Live}}
CancelledRuns == {r \in Runs : state[r] = "cancelled"}

(***************************************************************************)
(* The queue and the pool are one line of runs with as many slots as there *)
(* are workers: _worker_loop starts them in the order submit and retry     *)
(* accepted them and only passes over cancelled ones; no cancellation,     *)
(* eviction or lost worker makes it start a run twice.                     *)
(***************************************************************************)
Scheduler == INSTANCE RunScheduler
  WITH Capacity <- QueueCapacity, Slots <- Cardinality(Workers),
       waiting <- queue, executing <- ExecutingRuns, cancelled <- CancelledRuns
SchedulerSpec == Scheduler!Spec

-----------------------------------------------------------------------------
(* Liveness.                                                               *)

(***************************************************************************)
(* A queued run that nobody will ever take: every worker was lost, or it   *)
(* was retried after close() had begun, which retry() does not refuse.     *)
(***************************************************************************)
Stranded(r) ==
  /\ state[r] = "ready"
  /\ \/ \A w \in Workers : workerPc[w] = "dead"
     \/ phase \notin {"new", "open"}

(***************************************************************************)
(* Every accepted run ends, through any number of retries of others and    *)
(* cancellations, unless it is left in the queue with nobody to take it.   *)
(***************************************************************************)
EveryRunEnds ==
  \A r \in Runs : state[r] \in {"ready", "running", "waiting"}
                  ~> state[r] \in Terminal \/ Stranded(r)

(***************************************************************************)
(* A close() that has begun gets past its gather, whatever the workers and *)
(* the tasks were doing: no worker sits out what it shields, no task that  *)
(* was asked to stop goes on for ever (runtime.py:247-254).  What follows  *)
(* may block; see CloseTerminates of EventBus, CloseReturns of             *)
(* ToolBulkhead.                                                           *)
(***************************************************************************)
GatherEnds == phase = "closing" ~> phase # "closing"

-----------------------------------------------------------------------------
(* What the documents say and the code does not do.                        *)

(* README.md:176: the runtime uses a fixed number of workers. *)
FixedWorkerPool == phase = "open" => \A w \in Workers : workerPc[w] # "dead"

(***************************************************************************)
(* tests/test_runtime.py:46: a running task can be cancelled.  A cancelled *)
(* run has no execution left that was not told to stop.                    *)
(***************************************************************************)
CancelReachesTask ==
  \A w \in Workers : taskPc[w] \in Live \ {"created"}
                      /\ state[taskRun[w]] = "cancelled" => w \in cancelReq

(***************************************************************************)
(* README.md:176: the same key with the same payload returns the existing  *)
(* run.  A key of a retained, unexpired run never moves to another run.    *)
(***************************************************************************)
SameKeySameRun ==
  [][\A k \in Keys : index[k] # NoRun => index'[k] \in {index[k], NoRun}]_vars
=============================================================================
