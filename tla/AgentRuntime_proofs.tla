------------------------- MODULE AgentRuntime_proofs -------------------------
(***************************************************************************)
(* Proofs about AgentRuntime for any number of runs, workers and keys, and *)
(* any capacities.                                                         *)
(***************************************************************************)
EXTENDS AgentRuntime, SequenceFacts

-----------------------------------------------------------------------------
(* The inductive invariant.                                                *)

(* Tasks that still hold their run, or took it along when they died. *)
Doomed == {"cancelled", "crashed"}
Holding == Live \cup Doomed

(* A worker awaits a task exactly while it is in the shield. *)
WorkersFitTasks ==
  \A w \in Workers :
    /\ taskPc[w] # "none" => taskRun[w] \in Runs
    /\ workerPc[w] = "shield" => taskPc[w] # "none"
    /\ workerPc[w] = "idle" => taskPc[w] \in {"none", "done"}
    /\ workerPc[w] = "dead" => taskPc[w] \in Doomed

(* Only records that have ended are ever dropped, and none is made up. *)
RecordsFitStates ==
  /\ IsFiniteSet(runs)
  /\ \A r \in Runs :
       /\ state[r] # "created"
       /\ r \in runs => state[r] # "absent"
       /\ state[r] \in {"ready", "running", "waiting"} => r \in runs
       /\ state[r] = "absent" => r \notin output \cup error \cup turns

(* The place of a task in its coroutine fits the state of its run. *)
TasksFitStates ==
  \A w \in Workers :
    /\ taskPc[w] = "created" => state[taskRun[w]] \in {"ready", "cancelled"}
    /\ taskPc[w] \in {"prepared", "returned"} =>
         state[taskRun[w]] \in {"running", "cancelled"}
    /\ taskPc[w] = "calling" => state[taskRun[w]] \in {"waiting", "cancelled"}
    /\ taskPc[w] \in Doomed => state[taskRun[w]] = "cancelled"

(* No two tasks hold the same run. *)
HoldersDistinct ==
  \A v, w \in Workers : taskPc[v] \in Holding /\ taskPc[w] \in Holding
                        /\ taskRun[v] = taskRun[w] => v = w

QueueDistinct ==
  \A i, j \in 1..Len(queue) : queue[i] = queue[j] => i = j

QueuedNotLive ==
  \A i \in 1..Len(queue) :
    /\ state[queue[i]] \in {"ready", "cancelled"}
    /\ \A w \in Workers : taskPc[w] \in Live => taskRun[w] # queue[i]

(* Every unfinished run is in the queue or has its task. *)
UnfinishedHeld ==
  \A r \in Runs :
    /\ state[r] = "ready" =>
         \/ \E i \in 1..Len(queue) : queue[i] = r
         \/ \E w \in Workers : taskRun[w] = r /\ taskPc[w] = "created"
    /\ state[r] = "running" =>
         \E w \in Workers : taskRun[w] = r /\ taskPc[w] \in {"prepared", "returned"}
    /\ state[r] = "waiting" =>
         \E w \in Workers : taskRun[w] = r /\ taskPc[w] = "calling"

(* While submit may still evict, it only finds records that have ended. *)
FinishedFits ==
  /\ \A i, j \in 1..Len(finished) : finished[i] = finished[j] => i = j
  /\ phase \in {"new", "open"} =>
       \A i \in 1..Len(finished) : /\ finished[i] \in runs
                                   /\ state[finished[i]] \in Terminal
  /\ \A i \in 1..Len(finished) : state[finished[i]] \in Terminal

(* A registered task is the one its worker awaits for that run. *)
RegisteredAwaited ==
  \A r \in Runs : tasks[r] # NoWorker =>
    /\ workerPc[tasks[r]] = "shield"
    /\ taskRun[tasks[r]] = r

(* A task is only asked to stop when its run is cancelled. *)
StopsFitStates ==
  \A w \in cancelReq : taskPc[w] \in Live => state[taskRun[w]] = "cancelled"

KeysFit ==
  /\ IdempotencyConsistent
  /\ \A r \in Runs : byRun[r] # NoKey => r \in runs

ScheduleInv ==
  /\ TypeOK
  /\ WorkersFitTasks
  /\ RecordsFitStates
  /\ TasksFitStates
  /\ HoldersDistinct
  /\ QueueDistinct
  /\ QueuedNotLive
  /\ UnfinishedHeld
  /\ FinishedFits
  /\ RegisteredAwaited
  /\ StopsFitStates

ClientInv ==
  /\ CompletionMatchesTerminal
  /\ KeysFit
  /\ ResultMatchesOutcome
  /\ TurnEndsRun

-----------------------------------------------------------------------------
(* What one step of an execution task does, whichever step it is.          *)

Move(w, target, pc) ==
  /\ taskPc[w] \in Live
  /\ state' = [state EXCEPT ![taskRun[w]] = target]
  /\ locks' \in SUBSET Runs
  /\ finished' = IF target \in Terminal /\ state[taskRun[w]] \notin Terminal
                 THEN Append(finished, taskRun[w]) ELSE finished
  /\ taskPc' = [taskPc EXCEPT ![w] = pc]
  /\ TaskUnchanged
  /\ completion' \in SUBSET Runs
  /\ output' \in {output, output \cup {taskRun[w]}}
  /\ error' \in {error, error \cup {taskRun[w]}}
  /\ turns' \in {turns, turns \cup {taskRun[w]}}

(* The ends of an edge: where the task may be for the state it leaves. *)
Fits(w, target, pc) ==
  /\ state[taskRun[w]] \in Terminal => target = state[taskRun[w]]
  /\ \/ target = "running" /\ pc \in {"prepared", "returned"}
     \/ target = "waiting" /\ pc = "calling"
     \/ target \in {"succeeded", "failed"} /\ pc = "done"
     \/ target = "cancelled" /\ pc \in {"prepared", "calling", "returned"} \cup Over

LEMMA MoveKeepsSchedule ==
  ASSUME ScheduleInv, NEW w \in Workers, NEW target, NEW pc,
         Move(w, target, pc), Fits(w, target, pc)
  PROVE  ScheduleInv'
<1> DEFINE r == taskRun[w]
<1>0. /\ r \in Runs /\ state[r] \in RunState /\ pc # "created"
      /\ target \in RunState \ {"created", "ready"}
      /\ pc \in {"prepared", "calling", "returned"} \cup Over
  BY DEF ScheduleInv, TypeOK, WorkersFitTasks, RecordsFitStates,
     TasksFitStates, Move, Fits, Live, Over,
     RunState, Terminal
<1>1. TypeOK'
  BY <1>0
  DEF ScheduleInv, TypeOK, Move, TaskUnchanged, registryVars, Over, Live
<1>2. WorkersFitTasks'
  BY <1>0 DEF ScheduleInv, TypeOK, WorkersFitTasks, Move, TaskUnchanged,
     registryVars, Over, Live, Doomed
<1>3. RecordsFitStates'
  BY <1>0
  DEF ScheduleInv, TypeOK, RecordsFitStates, TasksFitStates, Move, Fits,
     TaskUnchanged,
     registryVars, Terminal, Live
<1>4. TasksFitStates'
  <2> SUFFICES ASSUME NEW v \in Workers
               PROVE  TasksFitStates!(v)'
    BY DEF TasksFitStates
  <2> QED
    BY <1>0
    DEF ScheduleInv, TypeOK, TasksFitStates, HoldersDistinct, Move, Fits,
       TaskUnchanged,
     registryVars, Over, Live, Doomed, Holding, Terminal
<1>5. HoldersDistinct'
  BY <1>0 DEF ScheduleInv, TypeOK, HoldersDistinct, Move, Fits, TaskUnchanged,
     registryVars, Over, Live, Doomed, Holding
<1>6. QueueDistinct'
  BY DEF ScheduleInv, QueueDistinct, Move, TaskUnchanged
<1>7. QueuedNotLive'
  BY <1>0
  DEF ScheduleInv, TypeOK, QueuedNotLive, Move, TaskUnchanged, Live, Over
<1>8. UnfinishedHeld'
  BY <1>0
  DEF ScheduleInv, TypeOK, UnfinishedHeld, Move, Fits, TaskUnchanged, Over,
     HoldersDistinct, Holding, Live, Doomed
<1>9. FinishedFits'
  BY <1>0
  DEF ScheduleInv, TypeOK, FinishedFits, RecordsFitStates, TasksFitStates,
     Move, Fits, TaskUnchanged,
     registryVars, Terminal, Live
<1>10. RegisteredAwaited'
  BY DEF ScheduleInv, RegisteredAwaited, Move, TaskUnchanged
<1>11. StopsFitStates'
  BY <1>0 DEF ScheduleInv, TypeOK, StopsFitStates, Move, Fits, TaskUnchanged,
     Terminal, Over, Live
<1> QED
  BY <1>1, <1>2, <1>3, <1>4, <1>5, <1>6, <1>7, <1>8, <1>9, <1>10, <1>11
     DEF ScheduleInv

(* Every step of a task is such a move, and moves its run along an edge.   *)
LEMMA TaskStepKeepsSchedule ==
  ASSUME ScheduleInv, NEW w \in Workers, TaskStep(w)
  PROVE  ScheduleInv'
<1> DEFINE r == taskRun[w]
<1>0. r \in Runs \/ taskPc[w] = "none"
  BY DEF ScheduleInv, WorkersFitTasks
<1>1. CASE Begin(w)
  <2>1. Move(w, "running", "prepared")
    BY <1>0, <1>1 DEF Begin, Move, Enter, Live, Terminal, ScheduleInv, TypeOK,
       TaskUnchanged, resultVars, Terminal
  <2>2. Fits(w, "running", "prepared")
    BY <1>1 DEF Begin, Fits, Terminal, CanTransition, LegalTransitions
  <2> QED BY <2>1, <2>2, MoveKeepsSchedule
<1>2. CASE BeginCancelled(w)
  <2> DEFINE pc == IF r \in runs THEN "done" ELSE "crashed"
  <2>1. Move(w, "cancelled", pc)
    BY <1>0, <1>2 DEF BeginCancelled, Move, Live, ScheduleInv, TypeOK,
       TaskUnchanged, resultVars, Terminal
  <2>2. Fits(w, "cancelled", pc)
    BY <1>2 DEF BeginCancelled, Fits, Over
  <2> QED BY <2>1, <2>2, MoveKeepsSchedule
<1>3. CASE CancelledBeforeStart(w)
  <2>1. Move(w, "cancelled", "cancelled")
    BY <1>0, <1>3 DEF CancelledBeforeStart, Move, Live, ScheduleInv, TypeOK,
       StopsFitStates, TaskUnchanged, resultVars, Terminal
  <2>2. Fits(w, "cancelled", "cancelled")
    BY <1>3 DEF CancelledBeforeStart, Fits, Over, Live, ScheduleInv,
       StopsFitStates
  <2> QED BY <2>1, <2>2, MoveKeepsSchedule
<1>4. CASE Call(w)
  <2>1. Move(w, "waiting", "calling")
    BY <1>0, <1>4 DEF Call, Move, Enter, Live, ScheduleInv, TypeOK,
       TaskUnchanged, resultVars, Terminal
  <2>2. Fits(w, "waiting", "calling")
    BY <1>4 DEF Call, Fits, Terminal, CanTransition, LegalTransitions
  <2> QED BY <2>1, <2>2, MoveKeepsSchedule
<1>5. CASE Return(w)
  <2> DEFINE t == IfCurrent(state[r], "waiting", "running")
  <2>1. Move(w, t, "returned")
    BY <1>0, <1>5 DEF Return, Move, Enter, Live, ScheduleInv, TypeOK,
       TaskUnchanged, resultVars
  <2>2. Fits(w, t, "returned")
    BY <1>5 DEF Return, Fits, Terminal, IfCurrent, ScheduleInv, TasksFitStates
  <2> QED BY <2>1, <2>2, MoveKeepsSchedule
<1>6. CASE Commit(w)
  <2> DEFINE t  == IfCurrent(state[r], "running", "succeeded")
             pc == IF t \in Terminal /\ r \notin runs THEN "crashed" ELSE "done"
  <2>1. Move(w, t, pc)
    BY <1>0, <1>6 DEF Commit, Move, End, Enter, Live, ScheduleInv, TypeOK
  <2>2. Fits(w, t, pc)
    BY <1>0, <1>6 DEF Commit, Fits, Terminal, IfCurrent, ScheduleInv,
       TasksFitStates, RecordsFitStates, Over
  <2> QED BY <2>1, <2>2, MoveKeepsSchedule
<1>7. CASE CommitWithoutTurn(w) \/ Fail(w)
  <2> DEFINE t  == IfAllowed(state[r], "failed")
             pc == IF t \in Terminal /\ r \notin runs THEN "crashed" ELSE "done"
  <2>1. Move(w, t, pc)
    BY <1>0, <1>7 DEF CommitWithoutTurn, Fail, Move, End, Enter, Live,
       ScheduleInv, TypeOK
  <2>2. Fits(w, t, pc)
    BY <1>0, <1>7 DEF CommitWithoutTurn, Fail, Fits, Terminal, IfAllowed,
       CanTransition, LegalTransitions, ScheduleInv, TasksFitStates,
       RecordsFitStates, Over
  <2> QED BY <2>1, <2>2, MoveKeepsSchedule
<1>8. CASE HandleCancel(w)
  <2> DEFINE t  == IfAllowed(state[r], "cancelled")
             pc == IF t \in Terminal /\ r \notin runs THEN "crashed" ELSE "done"
  <2>1. Move(w, t, pc)
    BY <1>0, <1>8
    DEF HandleCancel, Move, End, Enter, Live, ScheduleInv, TypeOK,
       resultVars
  <2>2. Fits(w, t, pc)
    BY <1>0, <1>8 DEF HandleCancel, Fits, Terminal, IfAllowed,
       CanTransition, LegalTransitions, ScheduleInv, TasksFitStates,
       RecordsFitStates, Over
  <2> QED BY <2>1, <2>2, MoveKeepsSchedule
<1> QED
  BY <1>1, <1>2, <1>3, <1>4, <1>5, <1>6, <1>7, <1>8 DEF TaskStep

-----------------------------------------------------------------------------
(* The steps of the workers.                                               *)

LEMMA DispatchKeepsSchedule ==
  ASSUME ScheduleInv, NEW w \in Workers, Dispatch(w)
  PROVE  ScheduleInv'
<1> USE DEF ScheduleInv, TypeOK, Dispatch, Unfinished, registryVars, taskVars,
       resultVars
<1>a. queue \in Seq(Runs)
  OBVIOUS
<1>b. queue # <<>>
  OBVIOUS
<1>c. /\ Len(queue') = Len(queue) - 1 /\ Head(queue) = queue[1] /\ 1 \in 1..Len(queue)
      /\ \A i \in 1..Len(queue') : i + 1 \in 1..Len(queue) /\ queue'[i] = queue[i + 1]
      /\ \A r \in Runs : (\E i \in 1..Len(queue) : queue[i] = r)
                       => r = Head(queue) \/ \E i \in 1..Len(queue') : queue'[i] = r
      /\ queue' \in Seq(Runs) /\ Head(queue) \in Runs
  BY <1>a, <1>b, TailElements
<1>1. TypeOK'
  BY <1>c, ConfigAssumption DEF Live
<1>2. WorkersFitTasks'
  BY <1>c DEF WorkersFitTasks, Doomed
<1>3. RecordsFitStates'
  BY DEF RecordsFitStates, Terminal
<1>4. TasksFitStates'
  BY <1>c DEF TasksFitStates, Live, Over, Doomed, QueuedNotLive, Terminal
<1>5. HoldersDistinct'
  BY <1>c DEF HoldersDistinct, Holding, Live, Doomed, QueuedNotLive, Terminal,
     TasksFitStates
<1>6. QueueDistinct'
  BY <1>c DEF QueueDistinct
<1>7. QueuedNotLive'
  BY <1>c DEF QueuedNotLive, Live, Terminal, QueueDistinct
<1>8. UnfinishedHeld'
  <2> SUFFICES ASSUME NEW r \in Runs
               PROVE  UnfinishedHeld!(r)'
    BY DEF UnfinishedHeld
  <2>1. CASE r = Head(queue)
    BY <2>1, <1>c DEF QueuedNotLive
  <2>2. CASE r # Head(queue)
    <3>1. (\E i \in 1..Len(queue) : queue[i] = r)
             => \E i \in 1..Len(queue') : queue'[i] = r
      BY <2>2, <1>c
    <3> QED BY <3>1 DEF UnfinishedHeld, WorkersFitTasks
  <2> QED BY <2>1, <2>2
<1>9. FinishedFits'
  BY DEF FinishedFits, Terminal
<1>10. RegisteredAwaited'
  BY <1>c DEF RegisteredAwaited, WorkersFitTasks
<1>11. StopsFitStates'
  BY DEF StopsFitStates, Live
<1> QED
  BY <1>1, <1>2, <1>3, <1>4, <1>5, <1>6, <1>7, <1>8, <1>9, <1>10, <1>11

LEMMA SkipKeepsSchedule ==
  ASSUME ScheduleInv, NEW w \in Workers, Skip(w)
  PROVE  ScheduleInv'
<1> USE DEF ScheduleInv, TypeOK, Skip, Unfinished, registryVars, taskVars,
       resultVars
<1>a. queue \in Seq(Runs)
  OBVIOUS
<1>b. queue # <<>>
  OBVIOUS
<1>c. /\ Len(queue') = Len(queue) - 1 /\ Head(queue) = queue[1] /\ 1 \in 1..Len(queue)
      /\ \A i \in 1..Len(queue') : i + 1 \in 1..Len(queue) /\ queue'[i] = queue[i + 1]
      /\ \A r \in Runs : (\E i \in 1..Len(queue) : queue[i] = r)
                       => r = Head(queue) \/ \E i \in 1..Len(queue') : queue'[i] = r
      /\ queue' \in Seq(Runs) /\ Head(queue) \in Runs
  <2>1. queue' = Tail(queue)
    OBVIOUS
  <2> HIDE DEF ScheduleInv, TypeOK, Skip
  <2> QED BY <1>a, <1>b, <2>1, TailElements
<1>1. TypeOK'
  BY <1>c, ConfigAssumption
<1>2. WorkersFitTasks'
  BY <1>c DEF WorkersFitTasks, Doomed
<1>3. RecordsFitStates'
  BY DEF RecordsFitStates, Terminal
<1>4. TasksFitStates'
  BY <1>c DEF TasksFitStates, Live, Over, Doomed
<1>5. HoldersDistinct'
  BY <1>c DEF HoldersDistinct, Holding, Live, Doomed
<1>6. QueueDistinct'
  BY <1>c DEF QueueDistinct
<1>7. QueuedNotLive'
  BY <1>c DEF QueuedNotLive, Live, Terminal
<1>8. UnfinishedHeld'
  <2> SUFFICES ASSUME NEW r \in Runs
               PROVE  UnfinishedHeld!(r)'
    BY DEF UnfinishedHeld
  <2>1. state[Head(queue)] # "ready"
    BY <1>c DEF RecordsFitStates, Terminal
  <2>2. r # Head(queue) /\ (\E i \in 1..Len(queue) : queue[i] = r)
           => \E i \in 1..Len(queue') : queue'[i] = r
    BY <1>c
  <2> QED BY <2>1, <2>2 DEF UnfinishedHeld
<1>9. FinishedFits'
  BY DEF FinishedFits, Terminal
<1>10. RegisteredAwaited'
  BY <1>c DEF RegisteredAwaited
<1>11. StopsFitStates'
  BY DEF StopsFitStates, Live
<1> QED
  BY <1>1, <1>2, <1>3, <1>4, <1>5, <1>6, <1>7, <1>8, <1>9, <1>10, <1>11

LEMMA LeaveKeepsSchedule ==
  ASSUME ScheduleInv, NEW w \in Workers, Resume(w) \/ Die(w) \/ Stop(w)
  PROVE  ScheduleInv'
<1> USE DEF ScheduleInv, TypeOK, Resume, Die, Stop, LeaveShield, registryVars,
       taskVars, resultVars
<1>1. TypeOK'
  OBVIOUS
<1>2. WorkersFitTasks'
  BY DEF WorkersFitTasks, Doomed
<1>3. RecordsFitStates'
  BY DEF RecordsFitStates, Terminal
<1>4. TasksFitStates'
  BY DEF TasksFitStates, Live, Over, Doomed
<1>5. HoldersDistinct'
  BY DEF HoldersDistinct, Holding, Live, Doomed
<1>6. QueueDistinct'
  BY DEF QueueDistinct
<1>7. QueuedNotLive'
  BY DEF QueuedNotLive, Live, Terminal
<1>8. UnfinishedHeld'
  BY DEF UnfinishedHeld, Live
<1>9. FinishedFits'
  BY DEF FinishedFits, Terminal
<1>10. RegisteredAwaited'
  BY DEF RegisteredAwaited, WorkersFitTasks
<1>11. StopsFitStates'
  BY DEF StopsFitStates, Live
<1> QED
  BY <1>1, <1>2, <1>3, <1>4, <1>5, <1>6, <1>7, <1>8, <1>9, <1>10, <1>11

-----------------------------------------------------------------------------
(* The operations of the clients.                                          *)

LEMMA CancelKeepsSchedule ==
  ASSUME ScheduleInv, NEW r \in Runs, Cancel(r)
  PROVE  ScheduleInv'
<1> USE DEF ScheduleInv, TypeOK, Cancel, Enter, registryVars, taskVars,
       resultVars
<1>1. TypeOK'
  BY DEF RunState
<1>2. WorkersFitTasks'
  BY DEF WorkersFitTasks, Doomed
<1>3. RecordsFitStates'
  BY DEF RecordsFitStates, Terminal, CanTransition, LegalTransitions
<1>4. TasksFitStates'
  BY DEF TasksFitStates, Live, Over, Doomed, CanTransition, LegalTransitions
<1>5. HoldersDistinct'
  BY DEF HoldersDistinct, Holding, Live, Doomed
<1>6. QueueDistinct'
  BY DEF QueueDistinct
<1>7. QueuedNotLive'
  BY DEF QueuedNotLive, Live, Terminal
<1>8. UnfinishedHeld'
  BY DEF UnfinishedHeld, Live, CanTransition, LegalTransitions
<1>9. FinishedFits'
  BY DEF FinishedFits, Terminal, CanTransition, LegalTransitions
<1>10. RegisteredAwaited'
  BY DEF RegisteredAwaited
<1>11. StopsFitStates'
  BY DEF StopsFitStates, Live, RegisteredAwaited, CanTransition,
     LegalTransitions
<1> QED
  BY <1>1, <1>2, <1>3, <1>4, <1>5, <1>6, <1>7, <1>8, <1>9, <1>10, <1>11

LEMMA RetryKeepsSchedule ==
  ASSUME ScheduleInv, NEW r \in Runs, Retry(r)
  PROVE  ScheduleInv'
<1>0. queue \in Seq(Runs) /\ finished \in Seq(Runs)
  BY DEF ScheduleInv, TypeOK
<1>a. /\ Len(queue') = Len(queue) + 1 /\ queue' \in Seq(Runs)
      /\ \A i \in 1..Len(queue) : i \in 1..Len(queue') /\ queue'[i] = queue[i]
      /\ queue'[Len(queue')] = r /\ Len(queue') \in 1..Len(queue')
      /\ \A i \in 1..Len(queue') : i \in 1..Len(queue) \/ i = Len(queue')
  <2>1. queue' = Append(queue, r)
    BY DEF Retry
  <2> QED BY <1>0, <2>1, AppendElements
<1>c. PICK k \in 1..Len(finished) : finished[k] = r /\ finished' = RemoveAt(finished, k)
  BY DEF Retry
<1>d. /\ finished' \in Seq(Runs) /\ Len(finished') = Len(finished) - 1
      /\ \A j \in 1..Len(finished') :
           /\ j < k => finished'[j] = finished[j]
           /\ j >= k => finished'[j] = finished[j + 1]
  BY <1>0, <1>c, RemoveAtElements
<1> USE DEF ScheduleInv, TypeOK, Retry, ResetRecord, registryVars, taskVars,
       resultVars
<1>b. state[r] = "failed"
  BY DEF Retryable, CanTransition, LegalTransitions, RecordsFitStates
<1>e. \A i \in 1..Len(queue) : queue[i] # r
  BY <1>b DEF QueuedNotLive
<1>f. \A w \in Workers : taskPc[w] \in Holding => taskRun[w] # r
  BY <1>b DEF TasksFitStates, Holding, Live, Doomed
<1>1. TypeOK'
  BY <1>a, <1>d, ConfigAssumption DEF Room, RunState
<1>2. WorkersFitTasks'
  BY DEF WorkersFitTasks, Doomed
<1>3. RecordsFitStates'
  BY <1>b DEF RecordsFitStates, Terminal
<1>4. TasksFitStates'
  BY <1>b, <1>f DEF TasksFitStates, Live, Over, Doomed, Holding,
     WorkersFitTasks
<1>5. HoldersDistinct'
  BY DEF HoldersDistinct, Holding, Live, Doomed
<1>6. QueueDistinct'
  BY <1>a, <1>e DEF QueueDistinct
<1>7. QueuedNotLive'
  BY <1>a, <1>e, <1>f DEF QueuedNotLive, Live, Terminal, Holding
<1>8. UnfinishedHeld'
  BY <1>a, <1>b DEF UnfinishedHeld, Live
<1>9. FinishedFits'
  <2>1. \A i, j \in 1..Len(finished') : finished'[i] = finished'[j] => i = j
    <3> SUFFICES ASSUME NEW i \in 1..Len(finished'), NEW j \in 1..Len(finished'),
                        finished'[i] = finished'[j]
                 PROVE  i = j
      OBVIOUS
    <3> DEFINE old(l) == IF l < k THEN l ELSE l + 1
    <3>1. /\ old(i) \in 1..Len(finished) /\ finished'[i] = finished[old(i)]
          /\ old(j) \in 1..Len(finished) /\ finished'[j] = finished[old(j)]
      BY <1>d
    <3>2. old(i) = old(j)
      BY <3>1 DEF FinishedFits
    <3> QED BY <3>2
  <2>2. ASSUME NEW j \in 1..Len(finished')
        PROVE  \E i \in 1..Len(finished) : i # k /\ finished'[j] = finished[i]
    <3> DEFINE old == IF j < k THEN j ELSE j + 1
    <3>1. old \in 1..Len(finished) /\ old # k /\ finished'[j] = finished[old]
      BY <1>d
    <3> QED BY <3>1
  <2>3. ASSUME NEW j \in 1..Len(finished')
        PROVE  /\ state'[finished'[j]] \in Terminal
               /\ phase \in {"new", "open"} => finished'[j] \in runs
    BY <1>c, <2>2 DEF FinishedFits
  <2> QED BY <2>1, <2>3 DEF FinishedFits
<1>10. RegisteredAwaited'
  BY DEF RegisteredAwaited
<1>11. StopsFitStates'
  BY <1>f DEF StopsFitStates, Live, Holding
<1> QED
  BY <1>1, <1>2, <1>3, <1>4, <1>5, <1>6, <1>7, <1>8, <1>9, <1>10, <1>11

LEMMA CloseKeepsSchedule ==
  ASSUME ScheduleInv, Start \/ CloseBegin \/ CloseStep
  PROVE  ScheduleInv'
<1> USE DEF ScheduleInv, TypeOK, Start, CloseBegin, CloseStep,
       CloseGather, CloseEvents, CloseEnd, ClosePasses, registryVars,
       taskVars, resultVars
<1>1. TypeOK'
  BY DEF RunState
<1>2. WorkersFitTasks'
  BY DEF WorkersFitTasks, Doomed
<1>3. RecordsFitStates'
  BY DEF RecordsFitStates, Terminal
<1>4. TasksFitStates'
  BY DEF TasksFitStates, WorkersFitTasks, Live, Over, Doomed, Terminal
<1>5. HoldersDistinct'
  BY DEF HoldersDistinct, Holding, Live, Doomed
<1>6. QueueDistinct'
  BY DEF QueueDistinct
<1>7. QueuedNotLive'
  BY DEF QueuedNotLive, Live, Terminal, Terminal
<1>8. UnfinishedHeld'
  BY DEF UnfinishedHeld, Live, RecordsFitStates, Terminal
<1>9. FinishedFits'
  BY DEF FinishedFits, Terminal, RecordsFitStates
<1>10. RegisteredAwaited'
  BY DEF RegisteredAwaited
<1>11. StopsFitStates'
  BY NoneAssumption
  DEF StopsFitStates, WorkersFitTasks, Live, RegisteredAwaited,
     RecordsFitStates, TasksFitStates, Terminal
<1> QED
  BY <1>1, <1>2, <1>3, <1>4, <1>5, <1>6, <1>7, <1>8, <1>9, <1>10, <1>11

(* The eviction count is a number of records that have ended. *)
LEMMA EvictionsBounded ==
  ASSUME ScheduleInv, NEW e \in Expired
  PROVE  Evictions(e) \in 0..Len(finished)
<1>1. Cardinality(runs) \in Nat
  BY FS_CardinalityType DEF ScheduleInv, RecordsFitStates
<1>2. e \in 0..Len(finished) /\ Len(finished) \in Nat
  BY DEF Expired, ScheduleInv, TypeOK
<1> QED
  BY <1>1, <1>2, ConfigAssumption DEF Evictions

(* What the eviction of the n oldest records leaves of `finished`. *)
LEMMA CleanupElements ==
  ASSUME ScheduleInv, NEW n \in 0..Len(finished), Cleanup(n)
  PROVE  /\ finished' \in Seq(Runs) /\ Len(finished') = Len(finished) - n
         /\ \A i \in 1..Len(finished') : /\ finished'[i] = finished[i + n]
                                         /\ i + n \in 1..Len(finished)
                                         /\ finished'[i] \notin Oldest(n)
<1>1. finished \in Seq(Runs) /\ finished' = SubSeq(finished, n + 1, Len(finished))
  BY DEF ScheduleInv, TypeOK, Cleanup
<1>2. /\ finished' \in Seq(Runs) /\ Len(finished') = Len(finished) - n
      /\ \A i \in 1..Len(finished') : /\ finished'[i] = finished[i + n]
                                      /\ i + n \in 1..Len(finished)
  BY <1>1, DropElements
<1>3. \A i, j \in 1..Len(finished) : finished[i] = finished[j] => i = j
  BY DEF ScheduleInv, FinishedFits
<1>4. ASSUME NEW i \in 1..Len(finished'), NEW j \in 1..n
      PROVE  finished'[i] # finished[j]
  <2>1. /\ i + n \in 1..Len(finished) /\ j \in 1..Len(finished) /\ i + n # j
        /\ finished'[i] = finished[i + n]
    BY <1>1, <1>2
  <2> QED BY <1>3, <2>1
<1> QED BY <1>2, <1>4 DEF Oldest

(* Only records that have ended are evicted. *)
LEMMA OldestEnded ==
  ASSUME ScheduleInv, phase = "open", NEW n \in 0..Len(finished)
  PROVE  \A g \in Oldest(n) : g \in runs /\ state[g] \in Terminal
<1>1. Len(finished) \in Nat
  BY DEF ScheduleInv, TypeOK
<1>2. \A i \in 1..Len(finished) : /\ finished[i] \in runs
                                 /\ state[finished[i]] \in Terminal
  BY DEF ScheduleInv, FinishedFits
<1> QED BY <1>1, <1>2 DEF Oldest

LEMMA SubmitKeepsSchedule ==
  ASSUME ScheduleInv, NEW n \in 0..Len(finished), NEW r \in Runs,
         NEW k \in Keys \cup {NoKey}, Submit(r, k, n)
  PROVE  ScheduleInv'
<1>0. queue \in Seq(Runs) /\ queue' = Append(queue, r)
  BY DEF ScheduleInv, TypeOK, Submit
<1>a. /\ Len(queue') = Len(queue) + 1 /\ queue' \in Seq(Runs)
      /\ \A i \in 1..Len(queue) : i \in 1..Len(queue') /\ queue'[i] = queue[i]
      /\ queue'[Len(queue')] = r /\ Len(queue') \in 1..Len(queue')
      /\ \A i \in 1..Len(queue') : i \in 1..Len(queue) \/ i = Len(queue')
  BY <1>0, AppendElements
<1>d. /\ finished' \in Seq(Runs) /\ Len(finished') = Len(finished) - n
      /\ \A i \in 1..Len(finished') :
           finished'[i] = finished[i + n] /\ i + n \in 1..Len(finished)
  BY CleanupElements DEF Submit
<1>h. \A i \in 1..Len(finished') : finished'[i] \notin Oldest(n)
  BY CleanupElements DEF Submit
<1>g. \A g \in Oldest(n) : g \in runs /\ state[g] \in Terminal
  BY OldestEnded DEF Submit
<1> USE DEF ScheduleInv, TypeOK, Submit, Cleanup, registryVars, taskVars,
       resultVars
<1>i. IsFiniteSet(runs \ Oldest(n))
  BY FS_Subset DEF RecordsFitStates
<1>e. \A i \in 1..Len(queue) : queue[i] # r
  BY DEF QueuedNotLive
<1>f. \A w \in Workers : taskPc[w] \in Holding => taskRun[w] # r
  BY DEF TasksFitStates, Holding, Live, Doomed
<1>j. r \notin runs
  BY DEF RecordsFitStates
<1>1. TypeOK'
  BY <1>a, <1>d, ConfigAssumption DEF Room, RunState, IndexWithout,
     ByRunWithout, LocksWithout
<1>2. WorkersFitTasks'
  BY DEF WorkersFitTasks, Doomed
<1>3. RecordsFitStates'
  BY <1>g, <1>i, FS_AddElement DEF RecordsFitStates, Terminal
<1>4. TasksFitStates'
  BY <1>f DEF TasksFitStates, Live, Over, Doomed, Holding, WorkersFitTasks
<1>5. HoldersDistinct'
  BY DEF HoldersDistinct, Holding, Live, Doomed
<1>6. QueueDistinct'
  BY <1>a, <1>e DEF QueueDistinct
<1>7. QueuedNotLive'
  BY <1>a, <1>e, <1>f DEF QueuedNotLive, Live, Terminal, Holding
<1>8. UnfinishedHeld'
  BY <1>a DEF UnfinishedHeld, Live
<1>9. FinishedFits'
  <2>1. \A i, j \in 1..Len(finished') : finished'[i] = finished'[j] => i = j
    BY <1>d DEF FinishedFits
  <2>2. ASSUME NEW i \in 1..Len(finished')
        PROVE  /\ finished'[i] \in runs \ Oldest(n)
               /\ state[finished'[i]] \in Terminal
    BY <1>d, <1>h DEF FinishedFits
  <2>3. ASSUME NEW i \in 1..Len(finished')
        PROVE  /\ finished'[i] \in runs'
               /\ state'[finished'[i]] \in Terminal
    BY <2>2, <1>j
  <2> QED BY <2>1, <2>3 DEF FinishedFits
<1>10. RegisteredAwaited'
  BY DEF RegisteredAwaited
<1>11. StopsFitStates'
  BY <1>f DEF StopsFitStates, Live, Holding
<1> QED
  BY <1>1, <1>2, <1>3, <1>4, <1>5, <1>6, <1>7, <1>8, <1>9, <1>10, <1>11

LEMMA SubmitNothingKeepsSchedule ==
  ASSUME ScheduleInv, NEW n \in 0..Len(finished), SubmitNothing(n)
  PROVE  ScheduleInv'
<1>d. /\ finished' \in Seq(Runs) /\ Len(finished') = Len(finished) - n
      /\ \A i \in 1..Len(finished') :
           finished'[i] = finished[i + n] /\ i + n \in 1..Len(finished)
  BY CleanupElements DEF SubmitNothing
<1>h. \A i \in 1..Len(finished') : finished'[i] \notin Oldest(n)
  BY CleanupElements DEF SubmitNothing
<1>g. \A g \in Oldest(n) : g \in runs /\ state[g] \in Terminal
  BY OldestEnded DEF SubmitNothing
<1> USE DEF ScheduleInv, TypeOK, SubmitNothing, Cleanup, registryVars,
       taskVars, resultVars
<1>i. IsFiniteSet(runs \ Oldest(n))
  BY FS_Subset DEF RecordsFitStates
<1>1. TypeOK'
  BY <1>d DEF IndexWithout, ByRunWithout, LocksWithout
<1>2. WorkersFitTasks'
  BY DEF WorkersFitTasks, Doomed
<1>3. RecordsFitStates'
  BY <1>g, <1>i DEF RecordsFitStates, Terminal
<1>4. TasksFitStates'
  BY DEF TasksFitStates, Live, Over, Doomed
<1>5. HoldersDistinct'
  BY DEF HoldersDistinct, Holding, Live, Doomed
<1>6. QueueDistinct'
  BY DEF QueueDistinct
<1>7. QueuedNotLive'
  BY DEF QueuedNotLive, Live, Terminal
<1>8. UnfinishedHeld'
  BY DEF UnfinishedHeld, Live
<1>9. FinishedFits'
  <2>1. \A i, j \in 1..Len(finished') : finished'[i] = finished'[j] => i = j
    BY <1>d DEF FinishedFits
  <2>2. ASSUME NEW i \in 1..Len(finished')
        PROVE  /\ finished'[i] \in runs \ Oldest(n)
               /\ state[finished'[i]] \in Terminal
    BY <1>d, <1>h DEF FinishedFits
  <2> QED BY <2>1, <2>2 DEF FinishedFits
<1>10. RegisteredAwaited'
  BY DEF RegisteredAwaited
<1>11. StopsFitStates'
  BY DEF StopsFitStates, Live
<1> QED
  BY <1>1, <1>2, <1>3, <1>4, <1>5, <1>6, <1>7, <1>8, <1>9, <1>10, <1>11

-----------------------------------------------------------------------------
(* The schedule of the runs, for every behaviour.                          *)

LEMMA InitSchedule == Init => ScheduleInv
<1> USE DEF Init
<1>1. Init => TypeOK
  BY ConfigAssumption DEF TypeOK
<1>2. Init => RecordsFitStates
  BY FS_EmptySet DEF RecordsFitStates
<1>3. Init => /\ WorkersFitTasks /\ TasksFitStates /\ HoldersDistinct
              /\ QueueDistinct /\ QueuedNotLive /\ UnfinishedHeld /\ FinishedFits
              /\ RegisteredAwaited /\ StopsFitStates
  BY DEF WorkersFitTasks, TasksFitStates, HoldersDistinct, QueueDistinct,
     QueuedNotLive, UnfinishedHeld, FinishedFits, RegisteredAwaited,
     StopsFitStates, Holding, Live, Doomed
<1> QED BY <1>1, <1>2, <1>3 DEF ScheduleInv

LEMMA NextKeepsSchedule == ScheduleInv /\ [Next]_vars => ScheduleInv'
<1> SUFFICES ASSUME ScheduleInv, [Next]_vars
             PROVE  ScheduleInv'
  OBVIOUS
<1>1. CASE ClientStep
  <2>1. CASE Start \/ CloseBegin
    BY <2>1, CloseKeepsSchedule
  <2>2. ASSUME NEW e \in Expired, SubmitNothing(Evictions(e))
        PROVE  ScheduleInv'
    BY <2>2, EvictionsBounded, SubmitNothingKeepsSchedule
  <2>3. ASSUME NEW e \in Expired, NEW r \in Runs, NEW k \in Keys \cup {NoKey},
               Submit(r, k, Evictions(e))
        PROVE  ScheduleInv'
    BY <2>3, EvictionsBounded, SubmitKeepsSchedule
  <2>4. ASSUME NEW r \in Runs, Cancel(r) \/ Retry(r)
        PROVE  ScheduleInv'
    BY <2>4, CancelKeepsSchedule, RetryKeepsSchedule
  <2> QED
    BY <1>1, <2>1, <2>2, <2>3, <2>4 DEF ClientStep
<1>2. ASSUME NEW w \in Workers, WorkerStep(w)
      PROVE  ScheduleInv'
  BY <1>2, DispatchKeepsSchedule, SkipKeepsSchedule, LeaveKeepsSchedule
     DEF WorkerStep
<1>3. ASSUME NEW w \in Workers, TaskStep(w)
      PROVE  ScheduleInv'
  BY <1>3, TaskStepKeepsSchedule
<1>4. CASE CloseStep
  BY <1>4, CloseKeepsSchedule
<1>5. CASE UNCHANGED vars
  BY <1>5 DEF ScheduleInv, vars, TypeOK, WorkersFitTasks, RecordsFitStates,
     TasksFitStates, HoldersDistinct, QueueDistinct, QueuedNotLive,
     UnfinishedHeld, FinishedFits, RegisteredAwaited, StopsFitStates
<1> QED
  BY <1>1, <1>2, <1>3, <1>4, <1>5 DEF Next

(* The schedule stays consistent in every behaviour of the runtime. *)
THEOREM ScheduleInvariant == Spec => []ScheduleInv
  BY InitSchedule, NextKeepsSchedule, PTL DEF Spec

(***************************************************************************)
(* Types, and the bound of the queue: put_nowait never finds it full.      *)
(***************************************************************************)
THEOREM TypeCorrect == Spec => []TypeOK
<1>1. ScheduleInv => TypeOK
  BY DEF ScheduleInv
<1> QED BY <1>1, ScheduleInvariant, PTL

(***************************************************************************)
(* No accepted run is lost and none is executed twice at a time, for any   *)
(* number of runs and workers and any order of the clients' calls.         *)
(***************************************************************************)
THEOREM ScheduledOnceAlways == Spec => []ScheduledOnce
<1>1. ScheduleInv => ScheduledOnce
  BY DEF ScheduleInv, ScheduledOnce, HoldersDistinct, QueueDistinct,
     QueuedNotLive, UnfinishedHeld, Executing, Holding
<1> QED BY <1>1, ScheduleInvariant, PTL

(***************************************************************************)
(* A worker is only lost to a cancelled run, and no two to the same one.   *)
(***************************************************************************)
THEOREM WorkerLossAlwaysAccounted == Spec => []WorkerLossAccounted
<1>1. ScheduleInv => WorkerLossAccounted
  BY DEF ScheduleInv, WorkerLossAccounted, WorkersFitTasks, TasksFitStates,
     HoldersDistinct, Holding
<1> QED BY <1>1, ScheduleInvariant, PTL

-----------------------------------------------------------------------------
(* What the clients see.                                                   *)

LEMMA InitClient == Init => ClientInv
  BY NoneAssumption DEF Init, ClientInv, CompletionMatchesTerminal, KeysFit,
     IdempotencyConsistent, ResultMatchesOutcome, TurnEndsRun

(* The workers do not touch the records. *)
LEMMA WorkerStepKeepsClient ==
  ASSUME ClientInv, NEW w \in Workers, WorkerStep(w)
  PROVE  ClientInv'
<1>1. UNCHANGED <<registryVars, resultVars, state, completion>>
  BY DEF WorkerStep, Dispatch, Skip, Resume, Die, Stop, LeaveShield
<1> QED
  BY <1>1 DEF ClientInv, CompletionMatchesTerminal, KeysFit, registryVars,
     IdempotencyConsistent, ResultMatchesOutcome, TurnEndsRun, resultVars

LEMMA TaskStepKeepsClient ==
  ASSUME ScheduleInv, ClientInv, NEW w \in Workers, TaskStep(w)
  PROVE  ClientInv'
<1> USE
     DEF ScheduleInv, TypeOK, ClientInv, TaskUnchanged, registryVars,
        resultVars
<1> DEFINE r == taskRun[w]
<1>0. taskPc[w] \in Live => r \in Runs
  BY DEF WorkersFitTasks, Live
<1>a. taskPc[w] \in Live => r \in runs \/ state[r] = "cancelled"
  BY DEF WorkersFitTasks, RecordsFitStates, TasksFitStates, Live
<1>k. KeysFit'
  BY DEF TaskStep, Begin, BeginCancelled, CancelledBeforeStart, Call, Return,
     Commit, CommitWithoutTurn, Fail, HandleCancel, KeysFit, IdempotencyConsistent
<1>1. CASE Begin(w)
  <2>1. CompletionMatchesTerminal'
    BY <1>0, <1>a, <1>1 DEF Begin, Enter, CanTransition, LegalTransitions,
       CompletionMatchesTerminal, Terminal, Live
  <2>2. ResultMatchesOutcome'
    BY <1>0, <1>1 DEF Begin, Enter, CanTransition, LegalTransitions,
       ResultMatchesOutcome, TasksFitStates, Live
  <2>3. TurnEndsRun'
    BY <1>0, <1>1 DEF Begin, Enter, CanTransition, LegalTransitions,
       TurnEndsRun, TasksFitStates, Live
  <2> QED BY <1>k, <2>1, <2>2, <2>3
<1>2. CASE BeginCancelled(w)
  <2>1. CompletionMatchesTerminal'
    BY <1>0, <1>a, <1>2 DEF BeginCancelled, CompletionMatchesTerminal,
       Terminal, Live, TasksFitStates
  <2>2. ResultMatchesOutcome'
    BY <1>0, <1>2 DEF BeginCancelled, ResultMatchesOutcome, TasksFitStates,
       Live
  <2>3. TurnEndsRun'
    BY <1>0, <1>2 DEF BeginCancelled, TurnEndsRun, TasksFitStates, Live
  <2> QED BY <1>k, <2>1, <2>2, <2>3
<1>3. CASE CancelledBeforeStart(w)
  <2>1. CompletionMatchesTerminal'
    BY <1>0, <1>a, <1>3 DEF CancelledBeforeStart, CompletionMatchesTerminal,
       Terminal, Live, TasksFitStates
  <2>2. ResultMatchesOutcome'
    BY <1>0, <1>3 DEF CancelledBeforeStart, ResultMatchesOutcome,
       TasksFitStates, Live
  <2>3. TurnEndsRun'
    BY <1>0, <1>3 DEF CancelledBeforeStart, TurnEndsRun, TasksFitStates, Live
  <2> QED BY <1>k, <2>1, <2>2, <2>3
<1>4. CASE Call(w)
  <2>1. CompletionMatchesTerminal'
    BY <1>0, <1>a, <1>4 DEF Call, Enter, CanTransition, LegalTransitions,
       CompletionMatchesTerminal, Terminal, Live
  <2>2. ResultMatchesOutcome'
    BY <1>0, <1>4 DEF Call, Enter, CanTransition, LegalTransitions,
       ResultMatchesOutcome, TasksFitStates, Live
  <2>3. TurnEndsRun'
    BY <1>0, <1>4 DEF Call, Enter, CanTransition, LegalTransitions,
       TurnEndsRun, TasksFitStates, Live
  <2> QED BY <1>k, <2>1, <2>2, <2>3
<1>5. CASE Return(w)
  <2>1. CompletionMatchesTerminal'
    BY <1>0, <1>a, <1>5 DEF Return, Enter, IfCurrent,
       CompletionMatchesTerminal, Terminal, Live, TasksFitStates
  <2>2. ResultMatchesOutcome'
    BY <1>0, <1>5 DEF Return, Enter, IfCurrent, ResultMatchesOutcome,
       TasksFitStates, Live
  <2>3. TurnEndsRun'
    BY <1>0, <1>5 DEF Return, Enter, IfCurrent, TurnEndsRun, TasksFitStates,
       Live
  <2> QED BY <1>k, <2>1, <2>2, <2>3
<1>6. CASE Commit(w)
  <2>1. CompletionMatchesTerminal'
    BY <1>0, <1>a, <1>6 DEF Commit, End, Enter, IfCurrent,
       CompletionMatchesTerminal, Terminal, Live, TasksFitStates
  <2>2. ResultMatchesOutcome'
    BY <1>0, <1>6 DEF Commit, End, Enter, IfCurrent, ResultMatchesOutcome,
       TasksFitStates, Live, Terminal
  <2>3. TurnEndsRun'
    BY <1>0, <1>6 DEF Commit, End, Enter, IfCurrent, TurnEndsRun,
       TasksFitStates, Live, Terminal
  <2> QED BY <1>k, <2>1, <2>2, <2>3
<1>7. CASE CommitWithoutTurn(w)
  <2>1. CompletionMatchesTerminal'
    BY <1>0, <1>a, <1>7 DEF CommitWithoutTurn, End, Enter, IfAllowed,
       CanTransition, LegalTransitions, CompletionMatchesTerminal, Terminal,
       Live, TasksFitStates
  <2>2. ResultMatchesOutcome'
    BY <1>0, <1>7 DEF CommitWithoutTurn, End, Enter, IfAllowed, CanTransition,
       LegalTransitions, ResultMatchesOutcome, TasksFitStates, Live, Terminal
  <2>3. TurnEndsRun'
    BY <1>0, <1>7 DEF CommitWithoutTurn, End, Enter, IfAllowed, CanTransition,
       LegalTransitions, TurnEndsRun, TasksFitStates, Live, Terminal
  <2> QED BY <1>k, <2>1, <2>2, <2>3
<1>8. CASE Fail(w)
  <2>1. CompletionMatchesTerminal'
    BY <1>0, <1>a, <1>8 DEF Fail, End, Enter, IfAllowed, CanTransition,
       LegalTransitions, CompletionMatchesTerminal, Terminal, Live,
       TasksFitStates
  <2>2. ResultMatchesOutcome'
    BY <1>0, <1>8 DEF Fail, End, Enter, IfAllowed, CanTransition,
       LegalTransitions, ResultMatchesOutcome, TasksFitStates, Live, Terminal
  <2>3. TurnEndsRun'
    BY <1>0, <1>8 DEF Fail, End, Enter, IfAllowed, CanTransition,
       LegalTransitions, TurnEndsRun, TasksFitStates, Live, Terminal
  <2> QED BY <1>k, <2>1, <2>2, <2>3
<1>9. CASE HandleCancel(w)
  <2>1. CompletionMatchesTerminal'
    BY <1>0, <1>a, <1>9 DEF HandleCancel, End, Enter, IfAllowed,
       CanTransition, LegalTransitions, CompletionMatchesTerminal, Terminal,
       Live, TasksFitStates
  <2>2. ResultMatchesOutcome'
    BY <1>0, <1>9 DEF HandleCancel, End, Enter, IfAllowed, CanTransition,
       LegalTransitions, ResultMatchesOutcome, TasksFitStates, Live, Terminal
  <2>3. TurnEndsRun'
    BY <1>0, <1>9 DEF HandleCancel, End, Enter, IfAllowed, CanTransition,
       LegalTransitions, TurnEndsRun, TasksFitStates, Live, Terminal
  <2> QED BY <1>k, <2>1, <2>2, <2>3
<1> QED
  BY <1>1, <1>2, <1>3, <1>4, <1>5, <1>6, <1>7, <1>8, <1>9 DEF TaskStep

(* The evicted records leave no trace in the registry. *)
LEMMA EvictionKeepsKeys ==
  ASSUME TypeOK, KeysFit, NEW gone \in SUBSET Runs
  PROVE  /\ \A k \in Keys : IndexWithout(gone)[k] # NoRun =>
              /\ IndexWithout(gone)[k] = index[k]
              /\ IndexWithout(gone)[k] \in runs \ gone
              /\ ByRunWithout(gone)[index[k]] = k
         /\ \A r \in Runs : ByRunWithout(gone)[r] # NoKey =>
              /\ r \in runs \ gone /\ ByRunWithout(gone)[r] = byRun[r]
              /\ IndexWithout(gone)[byRun[r]] = r
  BY NoneAssumption DEF TypeOK, KeysFit, IdempotencyConsistent, IndexWithout,
     ByRunWithout

LEMMA SubmitKeepsClient ==
  ASSUME ScheduleInv, ClientInv, NEW n \in 0..Len(finished), NEW r \in Runs,
         NEW k \in Keys \cup {NoKey}, Submit(r, k, n)
  PROVE  ClientInv'
<1> USE DEF ClientInv, Submit
<1>0. /\ TypeOK /\ Oldest(n) \in SUBSET Runs /\ r \notin runs
      /\ r \notin output \cup error \cup turns
  BY DEF ScheduleInv, TypeOK, Oldest, RecordsFitStates
<1>1. CompletionMatchesTerminal'
  BY <1>0 DEF TypeOK, CompletionMatchesTerminal, Cleanup, Terminal
<1>2. KeysFit'
  <2> DEFINE gone == Oldest(n)
  <2>1. /\ index' = [i \in Keys |-> IF i = k THEN r ELSE IndexWithout(gone)[i]]
        /\ byRun' = [ByRunWithout(gone) EXCEPT ![r] = k]
        /\ runs' = (runs \ gone) \cup {r}
        /\ IndexWithout(gone) \in [Keys -> Runs \cup {NoRun}]
        /\ ByRunWithout(gone) \in [Runs -> Keys \cup {NoKey}]
        /\ k \in Keys => IndexWithout(gone)[k] \notin runs \ gone
    BY <1>0 DEF TypeOK, IndexWithout, ByRunWithout
  <2>2. /\ \A i \in Keys : IndexWithout(gone)[i] # NoRun =>
             /\ IndexWithout(gone)[i] = index[i]
             /\ IndexWithout(gone)[i] \in runs \ gone
             /\ ByRunWithout(gone)[index[i]] = i
        /\ \A q \in Runs : ByRunWithout(gone)[q] # NoKey =>
             /\ q \in runs \ gone /\ ByRunWithout(gone)[q] = byRun[q]
             /\ IndexWithout(gone)[byRun[q]] = q
    BY <1>0, EvictionKeepsKeys
  <2> HIDE DEF gone, ClientInv, Submit
  <2> QED BY <1>0, <2>1, <2>2, NoneAssumption
       DEF KeysFit, IdempotencyConsistent
<1>3. ResultMatchesOutcome'
  BY <1>0 DEF TypeOK, ResultMatchesOutcome, resultVars
<1>4. TurnEndsRun'
  BY <1>0 DEF TypeOK, TurnEndsRun, resultVars
<1> QED BY <1>1, <1>2, <1>3, <1>4

LEMMA SubmitNothingKeepsClient ==
  ASSUME ScheduleInv, ClientInv, NEW n \in 0..Len(finished), SubmitNothing(n)
  PROVE  ClientInv'
<1> USE DEF ClientInv, SubmitNothing
<1>0. TypeOK /\ Oldest(n) \in SUBSET Runs
  BY DEF ScheduleInv, TypeOK, Oldest
<1>1. CompletionMatchesTerminal'
  BY <1>0 DEF TypeOK, CompletionMatchesTerminal, Cleanup
<1>2. KeysFit'
  <2> DEFINE gone == Oldest(n)
  <2>1. /\ index' = IndexWithout(gone) /\ byRun' = ByRunWithout(gone)
        /\ runs' = runs \ gone
        /\ IndexWithout(gone) \in [Keys -> Runs \cup {NoRun}]
        /\ ByRunWithout(gone) \in [Runs -> Keys \cup {NoKey}]
    BY <1>0 DEF TypeOK, IndexWithout, ByRunWithout
  <2>2. /\ \A i \in Keys : IndexWithout(gone)[i] # NoRun =>
             /\ IndexWithout(gone)[i] = index[i]
             /\ IndexWithout(gone)[i] \in runs \ gone
             /\ ByRunWithout(gone)[index[i]] = i
        /\ \A q \in Runs : ByRunWithout(gone)[q] # NoKey =>
             /\ q \in runs \ gone /\ ByRunWithout(gone)[q] = byRun[q]
             /\ IndexWithout(gone)[byRun[q]] = q
    BY <1>0, EvictionKeepsKeys
  <2> HIDE DEF gone, ClientInv, SubmitNothing
  <2> QED BY <1>0, <2>1, <2>2, NoneAssumption
       DEF KeysFit, IdempotencyConsistent
<1>3. ResultMatchesOutcome' /\ TurnEndsRun'
  BY DEF ResultMatchesOutcome, TurnEndsRun, resultVars
<1> QED BY <1>1, <1>2, <1>3

LEMMA CancelKeepsClient ==
  ASSUME ScheduleInv, ClientInv, NEW r \in Runs, Cancel(r)
  PROVE  ClientInv'
<1> USE
     DEF ScheduleInv, TypeOK, ClientInv, Cancel, Enter, registryVars,
        resultVars
<1>1. CompletionMatchesTerminal'
  BY DEF CompletionMatchesTerminal, Terminal
<1>2. KeysFit'
  BY DEF KeysFit, IdempotencyConsistent
<1>3. ResultMatchesOutcome' /\ TurnEndsRun'
  BY DEF ResultMatchesOutcome, TurnEndsRun
<1> QED BY <1>1, <1>2, <1>3

LEMMA RetryKeepsClient ==
  ASSUME ScheduleInv, ClientInv, NEW r \in Runs, Retry(r)
  PROVE  ClientInv'
<1> USE DEF ClientInv, Retry, ResetRecord, registryVars
<1>0. state[r] = "failed" /\ TypeOK
  BY DEF ScheduleInv, RecordsFitStates, Retryable, CanTransition,
     LegalTransitions
<1>1. CompletionMatchesTerminal'
  BY <1>0 DEF TypeOK, CompletionMatchesTerminal, Terminal
<1>2. KeysFit'
  BY DEF KeysFit, IdempotencyConsistent
<1>3. ResultMatchesOutcome'
  BY <1>0 DEF TypeOK, ResultMatchesOutcome
<1>4. TurnEndsRun'
  BY <1>0 DEF TypeOK, TurnEndsRun
<1> QED BY <1>1, <1>2, <1>3, <1>4

LEMMA CloseKeepsClient ==
  ASSUME ScheduleInv, ClientInv, Start \/ CloseBegin \/ CloseStep
  PROVE  ClientInv'
<1> USE DEF ClientInv, Start, CloseBegin, CloseStep,
       CloseGather, CloseEvents, CloseEnd, ClosePasses, registryVars, resultVars
<1>1. CompletionMatchesTerminal'
  BY DEF ScheduleInv, TypeOK, CompletionMatchesTerminal, Terminal
<1>2. KeysFit'
  BY DEF KeysFit, IdempotencyConsistent
<1>3. ResultMatchesOutcome' /\ TurnEndsRun'
  BY DEF ScheduleInv, TypeOK, ResultMatchesOutcome, TurnEndsRun, Terminal
<1> QED BY <1>1, <1>2, <1>3

LEMMA NextKeepsClient == ScheduleInv /\ ClientInv /\ [Next]_vars => ClientInv'
<1> SUFFICES ASSUME ScheduleInv, ClientInv, [Next]_vars
             PROVE  ClientInv'
  OBVIOUS
<1>1. CASE ClientStep
  <2>1. CASE Start \/ CloseBegin
    BY <2>1, CloseKeepsClient
  <2>2. ASSUME NEW e \in Expired, SubmitNothing(Evictions(e))
        PROVE  ClientInv'
    BY <2>2, EvictionsBounded, SubmitNothingKeepsClient
  <2>3. ASSUME NEW e \in Expired, NEW r \in Runs, NEW k \in Keys \cup {NoKey},
               Submit(r, k, Evictions(e))
        PROVE  ClientInv'
    BY <2>3, EvictionsBounded, SubmitKeepsClient
  <2>4. ASSUME NEW r \in Runs, Cancel(r) \/ Retry(r)
        PROVE  ClientInv'
    BY <2>4, CancelKeepsClient, RetryKeepsClient
  <2> QED
    BY <1>1, <2>1, <2>2, <2>3, <2>4 DEF ClientStep
<1>2. ASSUME NEW w \in Workers, WorkerStep(w)
      PROVE  ClientInv'
  BY <1>2, WorkerStepKeepsClient
<1>3. ASSUME NEW w \in Workers, TaskStep(w)
      PROVE  ClientInv'
  BY <1>3, TaskStepKeepsClient
<1>4. CASE CloseStep
  BY <1>4, CloseKeepsClient
<1>5. CASE UNCHANGED vars
  BY <1>5 DEF ClientInv, vars, CompletionMatchesTerminal, KeysFit,
     IdempotencyConsistent, ResultMatchesOutcome, TurnEndsRun
<1> QED
  BY <1>1, <1>2, <1>3, <1>4, <1>5 DEF Next

(* What the clients see stays consistent in every behaviour. *)
THEOREM ClientInvariant == Spec => []ClientInv
  BY InitClient, NextKeepsClient, ScheduleInvariant, PTL DEF Spec

(* A client is held by wait() exactly while its run has not ended. *)
THEOREM CompletionAlwaysMatches == Spec => []CompletionMatchesTerminal
<1>1. ClientInv => CompletionMatchesTerminal
  BY DEF ClientInv
<1> QED BY <1>1, ClientInvariant, PTL

(* The two idempotency maps stay inverse and name retained runs only. *)
THEOREM IdempotencyAlwaysConsistent == Spec => []IdempotencyConsistent
<1>1. ClientInv => IdempotencyConsistent
  BY DEF ClientInv, KeysFit
<1> QED BY <1>1, ClientInvariant, PTL

(* The output and the error of a record that has ended fit its state. *)
THEOREM ResultAlwaysMatches == Spec => []ResultMatchesOutcome
<1>1. ClientInv => ResultMatchesOutcome
  BY DEF ClientInv
<1> QED BY <1>1, ClientInvariant, PTL

(* A run adds at most one turn to its conversation. *)
THEOREM TurnAlwaysEndsRun == Spec => []TurnEndsRun
<1>1. ClientInv => TurnEndsRun
  BY DEF ClientInv
<1> QED BY <1>1, ClientInvariant, PTL

-----------------------------------------------------------------------------
(* What a step of a task does to the state of its run.                     *)

Edge(s, t) == \/ t = s
              \/ CanTransition(s, t)
              \/ s = "absent" /\ t = "ready"

LEMMA TaskStepEnters ==
  ASSUME ScheduleInv, NEW w \in Workers, TaskStep(w)
  PROVE  \/ UNCHANGED <<state, finished>>
         \/ /\ taskRun[w] \in Runs
            /\ \E t \in RunState : Edge(state[taskRun[w]], t) /\ Enter(taskRun[w], t)
<1> DEFINE r == taskRun[w]
<1> USE DEF Edge
<1>1. CASE BeginCancelled(w) \/ CancelledBeforeStart(w)
  BY <1>1 DEF BeginCancelled, CancelledBeforeStart
<1>2. CASE ~(BeginCancelled(w) \/ CancelledBeforeStart(w))
  <2>1. r \in Runs /\ state[r] \in RunState
    BY DEF TaskStep, Begin, BeginCancelled, CancelledBeforeStart, Call,
       Return, Commit, CommitWithoutTurn, Fail, HandleCancel, ScheduleInv,
       TypeOK, WorkersFitTasks, TasksFitStates, RunState
  <2>2. \E t \in RunState : Edge(state[r], t) /\ Enter(r, t)
    <3>1. CASE Begin(w)
      BY <3>1 DEF Begin, RunState
    <3>2. CASE Call(w)
      BY <3>2 DEF Call, RunState
    <3>3. CASE Return(w)
      BY <2>1, <3>3 DEF Return, RunState, IfCurrent, CanTransition,
         LegalTransitions
    <3>4. CASE Commit(w)
      BY <2>1, <3>4 DEF Commit, End, RunState, IfCurrent, CanTransition,
         LegalTransitions
    <3>5. CASE CommitWithoutTurn(w) \/ Fail(w) \/ HandleCancel(w)
      BY <2>1, <3>5 DEF CommitWithoutTurn, Fail, HandleCancel, End, RunState,
         IfAllowed
    <3> QED
      BY <1>2, <3>1, <3>2, <3>3, <3>4, <3>5 DEF TaskStep
  <2> QED BY <2>1, <2>2
<1> QED BY <1>1, <1>2

-----------------------------------------------------------------------------
(* The bound of the registry.                                              *)

(* While submit may still evict, it finds every record that has ended. *)
FinishedAll ==
  phase \in {"new", "open"} =>
    \A r \in runs : state[r] \in Terminal =>
                      \E i \in 1..Len(finished) : finished[i] = r

BoundInv == FinishedAll /\ RegistryBounded

(***************************************************************************)
(* The records that cannot be evicted: each unfinished run is in the queue *)
(* or has a worker.                                                        *)
(***************************************************************************)
LEMMA UnfinishedBounded ==
  ASSUME ScheduleInv
  PROVE  LET U == {r \in runs : state[r] \notin Terminal}
         IN  /\ IsFiniteSet(U)
             /\ Cardinality(U) <= Len(queue) + Cardinality(Workers)
<1> DEFINE U == {r \in runs : state[r] \notin Terminal}
           Q == {queue[i] : i \in 1..Len(queue)}
           T == {taskRun[w] : w \in Workers}
           q == [i \in 1..Len(queue) |-> queue[i]]
           t == [w \in Workers |-> taskRun[w]]
<1>1. Len(queue) \in Nat
  BY DEF ScheduleInv, TypeOK
<1>2. IsFiniteSet(Q) /\ Cardinality(Q) <= Len(queue)
  <2>1. IsFiniteSet(1..Len(queue)) /\ Cardinality(1..Len(queue)) = Len(queue)
    BY <1>1, FirstNumbers
  <2>2. q \in Surjection(1..Len(queue), Q)
    BY DEF Surjection
  <2> QED BY <2>1, <2>2, FS_Surjection
<1>3. IsFiniteSet(T) /\ Cardinality(T) <= Cardinality(Workers)
  <2>1. t \in Surjection(Workers, T)
    BY DEF Surjection
  <2> QED BY <2>1, FS_Surjection, ConfigAssumption
<1>4. U \subseteq Q \cup T
  BY DEF ScheduleInv, TypeOK, RecordsFitStates, UnfinishedHeld, Terminal,
     RunState
<1> HIDE DEF U, Q, T, q, t
<1>5. IsFiniteSet(Q \cup T)
      /\ Cardinality(Q \cup T) <= Cardinality(Q) + Cardinality(T)
  <2>1. IsFiniteSet(Q \cap T)
    BY <1>2, FS_Subset
  <2>2. /\ Cardinality(Q \cap T) \in Nat /\ Cardinality(Q) \in Nat
        /\ Cardinality(T) \in Nat
    BY <1>2, <1>3, <2>1, FS_CardinalityType
  <2> QED BY <1>2, <1>3, <2>2, FS_Union
<1>6. IsFiniteSet(U) /\ Cardinality(U) <= Cardinality(Q \cup T)
  BY <1>4, <1>5, FS_Subset
<1>7. /\ Cardinality(U) \in Nat /\ Cardinality(Q \cup T) \in Nat
      /\ Cardinality(Q) \in Nat /\ Cardinality(T) \in Nat
      /\ Cardinality(Workers) \in Nat
  BY <1>2, <1>3, <1>5, <1>6, ConfigAssumption, FS_CardinalityType
<1>8. Cardinality(U) <= Len(queue) + Cardinality(Workers)
  BY <1>1, <1>2, <1>3, <1>5, <1>6, <1>7
<1> QED BY <1>6, <1>8 DEF U

(* Eviction removes as many records as it counts. *)
LEMMA OldestCounted ==
  ASSUME ScheduleInv, phase = "open", NEW n \in 0..Len(finished)
  PROVE  /\ Oldest(n) \subseteq runs
         /\ Cardinality(runs \ Oldest(n)) = Cardinality(runs) - n
         /\ IsFiniteSet(runs \ Oldest(n))
<1> DEFINE f == [i \in 1..n |-> finished[i]]
<1>1. Len(finished) \in Nat /\ n \in Nat /\ n <= Len(finished)
  BY DEF ScheduleInv, TypeOK
<1>2. Oldest(n) \subseteq runs
  BY <1>1 DEF ScheduleInv, FinishedFits, Oldest
<1>3. f \in Bijection(1..n, Oldest(n))
  BY <1>1
  DEF ScheduleInv, FinishedFits, Oldest, Bijection, Injection, IsInjective,
     Surjection
<1>4. Cardinality(Oldest(n)) = n
  <2>1. IsFiniteSet(1..n) /\ Cardinality(1..n) = n
    BY <1>1, FirstNumbers
  <2>2. ExistsBijection(1..n, Oldest(n))
    BY <1>3 DEF ExistsBijection
  <2> QED BY <2>1, <2>2, FS_Bijection
<1>5. IsFiniteSet(runs)
  BY DEF ScheduleInv, RecordsFitStates
<1>6. runs \cap Oldest(n) = Oldest(n)
  BY <1>2
<1>7. /\ IsFiniteSet(runs \ Oldest(n))
      /\ Cardinality(runs \ Oldest(n)) =
           Cardinality(runs) - Cardinality(runs \cap Oldest(n))
  BY <1>5, FS_Difference
<1> QED BY <1>2, <1>4, <1>6, <1>7

LEMMA EvictionKeepsFinishedAll ==
  ASSUME ScheduleInv, FinishedAll, phase = "open", NEW n \in 0..Len(finished),
         Cleanup(n)
  PROVE  \A r \in runs \ Oldest(n) : state[r] \in Terminal =>
            \E i \in 1..Len(finished') : finished'[i] = r
<1>1. finished \in Seq(Runs) /\ Len(finished) \in Nat
  BY DEF ScheduleInv, TypeOK
<1>2. /\ Len(finished') = Len(finished) - n
      /\ \A i \in 1..Len(finished) - n : finished'[i] = finished[i + n]
  BY <1>1, DropElements DEF Cleanup
<1>3. ASSUME NEW i \in 1..Len(finished), finished[i] \notin Oldest(n)
      PROVE  i - n \in 1..Len(finished') /\ finished'[i - n] = finished[i]
  BY <1>1, <1>2, <1>3 DEF Oldest
<1> QED BY <1>3 DEF FinishedAll

LEMMA SubmitKeepsBound ==
  ASSUME ScheduleInv, BoundInv, NEW e \in Expired, NEW r \in Runs,
         NEW k \in Keys \cup {NoKey}, Submit(r, k, Evictions(e))
  PROVE  BoundInv'
<1> DEFINE n == Evictions(e)
           left == runs \ Oldest(n)
<1>1. n \in 0..Len(finished) /\ Len(finished) \in Nat /\ phase = "open"
  BY EvictionsBounded DEF Submit, ScheduleInv, TypeOK
<1>2. IsFiniteSet(runs) /\ Cardinality(runs) \in Nat
  BY FS_CardinalityType DEF ScheduleInv, RecordsFitStates
<1>3. /\ Oldest(n) \subseteq runs /\ IsFiniteSet(left)
      /\ Cardinality(left) = Cardinality(runs) - n
  BY <1>1, OldestCounted
<1>4. r \notin runs /\ runs' = left \cup {r}
  BY DEF Submit, ScheduleInv, RecordsFitStates
<1>5. FinishedAll'
  <2>1. \A x \in left : state[x] \in Terminal =>
          \E i \in 1..Len(finished') : finished'[i] = x
    BY <1>1, EvictionKeepsFinishedAll DEF Submit, BoundInv
  <2>2. state' = [state EXCEPT ![r] = "ready"] /\ state \in [Runs -> RunState \cup {"absent"}]
        /\ runs \subseteq Runs
    BY DEF Submit, ScheduleInv, TypeOK
  <2> QED BY <1>4, <2>1, <2>2 DEF FinishedAll, Terminal
<1>6. RegistryBounded'
  <2>1. Cardinality(runs') = Cardinality(left) + 1 /\ Cardinality(left) \in Nat
    BY <1>3, <1>4, FS_AddElement, FS_CardinalityType
  <2>2. CASE n >= Cardinality(runs) + 1 - MaxRunRecords
    BY <1>1, <1>2, <1>3, <2>1, <2>2, ConfigAssumption DEF RegistryBounded
  <2>3. CASE ~(n >= Cardinality(runs) + 1 - MaxRunRecords)
    <3> DEFINE U == {x \in runs : state[x] \notin Terminal}
    <3>1. n = Len(finished)
      BY <1>1, <1>2, <2>3, ConfigAssumption DEF Evictions, Expired
    <3>2. left \subseteq U
      BY <1>1, <3>1 DEF BoundInv, FinishedAll, Oldest
    <3>3. /\ IsFiniteSet(U)
          /\ Cardinality(U) <= Len(queue) + Cardinality(Workers)
      BY UnfinishedBounded
    <3>4. Cardinality(left) <= Cardinality(U)
      BY <3>2, <3>3, FS_Subset
    <3>5. Len(queue) \in Nat /\ Len(queue) < QueueCapacity
      BY DEF Submit, Room, ScheduleInv, TypeOK
    <3>6. Cardinality(U) \in Nat /\ Cardinality(Workers) \in Nat
      BY <3>3, ConfigAssumption, FS_CardinalityType
    <3> HIDE DEF U, left, n
    <3>7. Cardinality(runs') <= Cardinality(Workers) + QueueCapacity
      BY <2>1, <3>3, <3>4, <3>5, <3>6, ConfigAssumption
    <3> QED BY <3>7 DEF RegistryBounded
  <2> QED BY <2>2, <2>3
<1> QED BY <1>5, <1>6 DEF BoundInv

LEMMA SubmitNothingKeepsBound ==
  ASSUME ScheduleInv, BoundInv, NEW n \in 0..Len(finished), SubmitNothing(n)
  PROVE  BoundInv'
<1>1. /\ phase = "open" /\ runs' = runs \ Oldest(n) /\ state' = state
      /\ Cleanup(n) /\ IsFiniteSet(runs)
  BY DEF SubmitNothing, ScheduleInv, RecordsFitStates
<1>2. FinishedAll'
  BY <1>1, EvictionKeepsFinishedAll DEF BoundInv, FinishedAll
<1>3. /\ Cardinality(runs') \in Nat /\ Cardinality(runs) \in Nat
      /\ Cardinality(runs') <= Cardinality(runs)
  BY <1>1, FS_Subset, FS_CardinalityType
<1>4. Cardinality(Workers) \in Nat
  BY ConfigAssumption, FS_CardinalityType
<1> QED
  BY <1>2, <1>3, <1>4, ConfigAssumption DEF BoundInv, RegistryBounded

(* The other steps neither add nor drop records. *)
LEMMA OthersKeepBound ==
  ASSUME ScheduleInv, BoundInv, UNCHANGED runs,
         \/ UNCHANGED <<state, finished, phase>>
         \/ Start \/ CloseBegin \/ CloseStep
         \/ \E r \in Runs, t \in RunState : Enter(r, t) /\ UNCHANGED phase
         \/ \E r \in Runs : Retry(r)
  PROVE  BoundInv'
<1>1. RegistryBounded'
  BY DEF BoundInv, RegistryBounded
<1>2. CASE UNCHANGED <<state, finished, phase>>
  BY <1>1, <1>2 DEF BoundInv, FinishedAll
<1>3. CASE Start \/ CloseBegin \/ CloseStep
  BY <1>1, <1>3
  DEF BoundInv, FinishedAll, Start, CloseBegin, CloseStep, CloseGather,
     CloseEvents, CloseEnd, ClosePasses
<1>4. ASSUME NEW r \in Runs, NEW t \in RunState, Enter(r, t), UNCHANGED phase
      PROVE  BoundInv'
  <2>1. /\ finished \in Seq(Runs) /\ runs \subseteq Runs
        /\ state' = [state EXCEPT ![r] = t]
        /\ state \in [Runs -> RunState \cup {"absent"}]
    BY <1>4 DEF Enter, ScheduleInv, TypeOK
  <2>2. CASE t \in Terminal /\ state[r] \notin Terminal
    <3>1. finished' = Append(finished, r)
      BY <1>4, <2>2 DEF Enter
    <3>2. \A x : (\E i \in 1..Len(finished') : finished'[i] = x)
                   <=> (x = r \/ \E i \in 1..Len(finished) : finished[i] = x)
      BY <2>1, <3>1, AppendKeeps
    <3> QED BY <1>1, <1>4, <2>1, <3>2 DEF BoundInv, FinishedAll
  <2>3. CASE ~(t \in Terminal /\ state[r] \notin Terminal)
    <3>1. finished' = finished
      BY <1>4, <2>3 DEF Enter
    <3> QED BY <1>1, <1>4, <2>1, <2>3, <3>1 DEF BoundInv, FinishedAll
  <2> QED BY <2>2, <2>3
<1>5. ASSUME NEW r \in Runs, Retry(r)
      PROVE  BoundInv'
  <2>1. PICK k \in 1..Len(finished) : finished[k] = r /\ finished' = RemoveAt(finished, k)
    BY <1>5 DEF Retry
  <2>2. /\ finished \in Seq(Runs) /\ Len(finished) \in Nat /\ runs \subseteq Runs
        /\ state' = [state EXCEPT ![r] = "ready"] /\ UNCHANGED phase
        /\ state \in [Runs -> RunState \cup {"absent"}]
    BY <1>5 DEF Retry, ScheduleInv, TypeOK
  <2>3. /\ Len(finished') = Len(finished) - 1
        /\ \A j \in 1..Len(finished) - 1 :
             /\ j < k => finished'[j] = finished[j]
             /\ j >= k => finished'[j] = finished[j + 1]
    BY <2>1, <2>2, RemoveAtElements
  <2>4. ASSUME NEW i \in 1..Len(finished), finished[i] # r
        PROVE  \E j \in 1..Len(finished') : finished'[j] = finished[i]
    <3>1. CASE i < k
      BY <2>2, <2>3, <3>1
    <3>2. CASE i > k
      <4>1. i - 1 \in 1..Len(finished') /\ finished'[i - 1] = finished[i]
        BY <2>2, <2>3, <3>2
      <4> QED BY <4>1
    <3> QED BY <2>1, <2>4, <3>1, <3>2
  <2>5. FinishedAll'
    <3> SUFFICES ASSUME phase \in {"new", "open"}, NEW x \in runs,
                        state'[x] \in Terminal
                 PROVE  \E j \in 1..Len(finished') : finished'[j] = x
      BY <2>2 DEF FinishedAll
    <3>1. x # r /\ state[x] \in Terminal
      BY <2>2 DEF Terminal
    <3>2. PICK i \in 1..Len(finished) : finished[i] = x
      BY <3>1 DEF BoundInv, FinishedAll
    <3> QED BY <2>4, <3>1, <3>2
  <2> QED BY <1>1, <2>5 DEF BoundInv
<1> QED BY <1>2, <1>3, <1>4, <1>5

LEMMA NextKeepsBound == ScheduleInv /\ BoundInv /\ [Next]_vars => BoundInv'
<1> SUFFICES ASSUME ScheduleInv, BoundInv, [Next]_vars
             PROVE  BoundInv'
  OBVIOUS
<1>1. CASE ClientStep
  <2>1. CASE Start \/ CloseBegin
    BY <2>1, OthersKeepBound DEF Start, CloseBegin, registryVars
  <2>2. ASSUME NEW e \in Expired, SubmitNothing(Evictions(e))
        PROVE  BoundInv'
    BY <2>2, EvictionsBounded, SubmitNothingKeepsBound
  <2>3. ASSUME NEW e \in Expired, NEW r \in Runs, NEW k \in Keys \cup {NoKey},
               Submit(r, k, Evictions(e))
        PROVE  BoundInv'
    BY <2>3, SubmitKeepsBound
  <2>4. ASSUME NEW r \in Runs, Cancel(r)
        PROVE  BoundInv'
    <3>1. Enter(r, "cancelled") /\ UNCHANGED <<phase, runs>>
      BY <2>4 DEF Cancel, registryVars
    <3> QED BY <3>1, OthersKeepBound DEF RunState
  <2>5. ASSUME NEW r \in Runs, Retry(r)
        PROVE  BoundInv'
    BY <2>5, OthersKeepBound DEF Retry, registryVars
  <2> QED
    BY <1>1, <2>1, <2>2, <2>3, <2>4, <2>5 DEF ClientStep
<1>2. ASSUME NEW w \in Workers, WorkerStep(w)
      PROVE  BoundInv'
  <2>1. UNCHANGED <<runs, state, finished, phase>>
    BY <1>2 DEF WorkerStep, Dispatch, Skip, Resume, Die, Stop, LeaveShield,
       registryVars
  <2> QED BY <2>1, OthersKeepBound
<1>3. ASSUME NEW w \in Workers, TaskStep(w)
      PROVE  BoundInv'
  <2>1. UNCHANGED <<runs, phase>>
    BY <1>3 DEF TaskStep, Begin, BeginCancelled, CancelledBeforeStart, Call,
       Return, Commit, CommitWithoutTurn, Fail, HandleCancel, TaskUnchanged,
       registryVars
  <2>2. CASE UNCHANGED <<state, finished>>
    BY <2>1, <2>2, OthersKeepBound
  <2>3. CASE \E t \in RunState : Enter(taskRun[w], t) /\ taskRun[w] \in Runs
    BY <2>1, <2>3, OthersKeepBound
  <2> QED
    BY <1>3, <2>2, <2>3, TaskStepEnters
<1>4. CASE CloseStep
  BY <1>4, OthersKeepBound
  DEF CloseStep, CloseGather, CloseEvents, CloseEnd, ClosePasses,
     registryVars
<1>5. CASE UNCHANGED vars
  BY <1>5, OthersKeepBound DEF vars
<1> QED
  BY <1>1, <1>2, <1>3, <1>4, <1>5 DEF Next

(***************************************************************************)
(* The registry never exceeds max_run_records, or what the workers and the *)
(* queue hold, for any configuration that RuntimeConfig.validate accepts   *)
(* and an injected queue of any capacity.                                  *)
(***************************************************************************)
THEOREM RegistryAlwaysBounded == Spec => []RegistryBounded
<1>1. Init => BoundInv
  BY FS_EmptySet, ConfigAssumption
  DEF Init, BoundInv, FinishedAll, RegistryBounded
<1>2. BoundInv => RegistryBounded
  BY DEF BoundInv
<1> QED
  BY <1>1, <1>2, NextKeepsBound, ScheduleInvariant, PTL DEF Spec

-----------------------------------------------------------------------------
(* Locks without a record.                                                 *)

(***************************************************************************)
(* A task that moves its run either has the record, or finds the evicted   *)
(* run CANCELLED and leaves it so.                                         *)
(***************************************************************************)
LEMMA TaskStepKeepsLocks ==
  ASSUME ScheduleInv, LocksBelong, NEW w \in Workers, TaskStep(w)
  PROVE  LocksBelong'
<1> DEFINE r == taskRun[w]
<1>1. taskPc[w] \in Live =>
        /\ r \in Runs
        /\ state[r] \in {"ready", "running", "waiting", "cancelled"}
        /\ r \in runs \/ state[r] = "cancelled"
  BY DEF ScheduleInv, WorkersFitTasks, TasksFitStates, RecordsFitStates, Live
<1>2. /\ UNCHANGED runs
      /\ taskPc[w] \in Live
      /\ \/ UNCHANGED <<state, locks>>
         \/ \E t : Enter(r, t) /\ (state[r] = "cancelled" => t = "cancelled")
  BY DEF TaskStep, Begin, BeginCancelled, CancelledBeforeStart, Call, Return,
     Commit, CommitWithoutTurn, Fail, HandleCancel, End, TaskUnchanged,
     registryVars, Live, IfCurrent, IfAllowed, CanTransition, LegalTransitions
<1>3. state \in [Runs -> RunState \cup {"absent"}]
  BY DEF ScheduleInv, TypeOK
<1>4. CASE UNCHANGED <<state, locks>>
  BY <1>2, <1>4 DEF LocksBelong
<1>5. ASSUME NEW t, Enter(r, t), state[r] = "cancelled" => t = "cancelled"
      PROVE  LocksBelong'
  BY <1>1, <1>2, <1>3, <1>5 DEF Enter, LocksBelong
<1> QED BY <1>2, <1>4, <1>5

LEMMA NextKeepsLocks == ScheduleInv /\ LocksBelong /\ [Next]_vars => LocksBelong'
<1> SUFFICES ASSUME ScheduleInv, LocksBelong, [Next]_vars
             PROVE  LocksBelong'
  OBVIOUS
<1>0. /\ runs \subseteq Runs /\ locks \subseteq Runs
      /\ state \in [Runs -> RunState \cup {"absent"}]
  BY DEF ScheduleInv, TypeOK
<1>1. CASE ClientStep
  <2>1. CASE Start
    BY <2>1 DEF Start, registryVars, LocksBelong
  <2>2. ASSUME NEW n, SubmitNothing(n)
        PROVE  LocksBelong'
    BY <2>2 DEF SubmitNothing, LocksWithout, LocksBelong
  <2>3. ASSUME NEW n, NEW r \in Runs, NEW k, Submit(r, k, n)
        PROVE  LocksBelong'
    BY <1>0, <2>3 DEF Submit, LocksWithout, LocksBelong
  <2>4. ASSUME NEW r \in Runs, Cancel(r) \/ Retry(r)
        PROVE  LocksBelong'
    BY <1>0, <2>4 DEF Cancel, Retry, Enter, registryVars, LocksBelong
  <2>5. CASE CloseBegin
    BY <1>0, <2>5 DEF CloseBegin, registryVars, LocksBelong
  <2> QED
    BY <1>1, <2>1, <2>2, <2>3, <2>4, <2>5 DEF ClientStep
<1>2. ASSUME NEW w \in Workers, WorkerStep(w)
      PROVE  LocksBelong'
  BY <1>2 DEF WorkerStep, Dispatch, Skip, Resume, Die, Stop, LeaveShield,
     registryVars, LocksBelong
<1>3. ASSUME NEW w \in Workers, TaskStep(w)
      PROVE  LocksBelong'
  BY <1>3, TaskStepKeepsLocks
<1>4. CASE CloseStep \/ UNCHANGED vars
  BY <1>4
  DEF CloseStep, CloseGather, CloseEvents, CloseEnd, ClosePasses,
     vars, registryVars, LocksBelong
<1> QED
  BY <1>1, <1>2, <1>3, <1>4 DEF Next

(* Every lock that outlives its record was left by a cancelled run. *)
THEOREM LocksAlwaysBelong == Spec => []LocksBelong
<1>1. Init => LocksBelong
  BY DEF Init, LocksBelong
<1> QED BY <1>1, NextKeepsLocks, ScheduleInvariant, PTL DEF Spec

-----------------------------------------------------------------------------
(* The runtime implements the life cycle of fsm.py.                        *)

LEMMA InitLifecycle == Init => Lifecycle!Init
  BY DEF Init, Lifecycle!Init

LEMMA NextLifecycle ==
  ScheduleInv /\ ScheduleInv' /\ [Next]_vars => [Lifecycle!Next]_state
<1> SUFFICES ASSUME ScheduleInv, ScheduleInv', [Next]_vars
             PROVE  Lifecycle!Next \/ UNCHANGED state
  OBVIOUS
<1> USE DEF Edge
<1>0. /\ state' \in [Runs -> RunState \cup {"absent"}]
      /\ state \in [Runs -> RunState \cup {"absent"}]
  BY DEF ScheduleInv, TypeOK
<1>b. /\ Lifecycle!LifeState = RunState \cup {"absent"}
      /\ \A s, t : Lifecycle!CanTransition(s, t) <=> CanTransition(s, t)
  BY DEF Lifecycle!LifeState, Lifecycle!RunState, RunState,
     Lifecycle!CanTransition, CanTransition, Lifecycle!LegalTransitions,
     LegalTransitions
<1>1. ASSUME NEW r \in Runs, NEW t \in RunState, Edge(state[r], t),
             state' = [state EXCEPT ![r] = t]
      PROVE  Lifecycle!Next
  BY <1>0, <1>b, <1>1 DEF Lifecycle!Next
<1>2. CASE ClientStep
  <2>1. CASE Start \/ \E e \in Expired : SubmitNothing(Evictions(e))
    BY <2>1 DEF Start, SubmitNothing
  <2>2. ASSUME NEW e \in Expired, NEW r \in Runs, NEW k \in Keys \cup {NoKey},
               Submit(r, k, Evictions(e))
        PROVE  Lifecycle!Next
    BY <1>1, <2>2 DEF Submit, RunState
  <2>3. ASSUME NEW r \in Runs, Cancel(r)
        PROVE  Lifecycle!Next
    <3>1. CanTransition(state[r], "cancelled")
      BY <2>3 DEF Cancel
    <3>2. state' = [state EXCEPT ![r] = "cancelled"]
      BY <2>3 DEF Cancel, Enter
    <3> QED BY <1>1, <3>1, <3>2 DEF RunState
  <2>4. ASSUME NEW r \in Runs, Retry(r)
        PROVE  Lifecycle!Next
    <3>1. CanTransition(state[r], "ready")
      BY <2>4 DEF Retry, Retryable
    <3>2. state' = [state EXCEPT ![r] = "ready"]
      BY <2>4 DEF Retry
    <3> QED BY <1>1, <3>1, <3>2 DEF RunState
  <2>5. CASE CloseBegin
    <3>1. ASSUME NEW r \in Runs, r \in runs, state[r] \notin Terminal
          PROVE  CanTransition(state[r], "cancelled")
      BY <3>1, <1>0 DEF Terminal, CanTransition, LegalTransitions, ScheduleInv,
         RecordsFitStates, RunState
    <3>2. \A r \in Runs : state'[r] = IF r \in runs /\ state[r] \notin Terminal
                                    THEN "cancelled" ELSE state[r]
      BY <2>5 DEF CloseBegin
    <3> QED BY <1>0, <1>b, <3>1, <3>2 DEF Lifecycle!Next
  <2> QED BY <1>2, <2>1, <2>2, <2>3, <2>4, <2>5 DEF ClientStep
<1>3. ASSUME NEW w \in Workers, WorkerStep(w)
      PROVE  UNCHANGED state
  BY <1>3 DEF WorkerStep, Dispatch, Skip, Resume, Die, Stop, LeaveShield
<1>4. ASSUME NEW w \in Workers, TaskStep(w)
      PROVE  Lifecycle!Next \/ UNCHANGED state
  BY <1>1, <1>4, TaskStepEnters DEF Enter
<1>5. CASE CloseStep \/ UNCHANGED vars
  BY <1>5
  DEF CloseStep, CloseGather, CloseEvents, CloseEnd, ClosePasses,
     vars
<1> QED
  BY <1>2, <1>3, <1>4, <1>5 DEF Next

(***************************************************************************)
(* Whatever clients, workers and tasks do, each run moves along the white  *)
(* list of fsm.py: AgentRuntime implements RunLifecycle.                   *)
(***************************************************************************)
THEOREM ImplementsLifecycle == Spec => LifecycleSpec
  BY InitLifecycle, NextLifecycle, ScheduleInvariant, PTL
     DEF Spec, LifecycleSpec, Lifecycle!Spec

-----------------------------------------------------------------------------
(* The runtime schedules its runs as one line with so many slots.          *)

(* A step of a task at most ends its own execution and cancels its own run. *)
LEMMA TaskStepSchedules ==
  ASSUME ScheduleInv, NEW w \in Workers, TaskStep(w)
  PROVE  /\ UNCHANGED <<queue, taskRun>>
         /\ taskPc[w] \in Live /\ taskRun[w] \in Runs
         /\ \E pc : /\ taskPc' = [taskPc EXCEPT ![w] = pc]
                    /\ \/ UNCHANGED CancelledRuns
                       \/ /\ pc \notin Live
                          /\ CancelledRuns' = CancelledRuns \cup {taskRun[w]}
<1> DEFINE r == taskRun[w]
<1>1. UNCHANGED <<queue, taskRun>> /\ taskPc[w] \in Live
  BY DEF TaskStep, Begin, BeginCancelled, CancelledBeforeStart, Call, Return,
     Commit, CommitWithoutTurn, Fail, HandleCancel, TaskUnchanged, Live
<1>2. r \in Runs /\ state \in [Runs -> RunState \cup {"absent"}]
  BY <1>1 DEF ScheduleInv, TypeOK, WorkersFitTasks, Live
<1>3. \E pc : taskPc' = [taskPc EXCEPT ![w] = pc]
  BY DEF TaskStep, Begin, BeginCancelled, CancelledBeforeStart, Call, Return,
     Commit, CommitWithoutTurn, Fail, HandleCancel, End
<1>4. ASSUME ~HandleCancel(w)
      PROVE  UNCHANGED CancelledRuns
  <2>1. ASSUME NEW t, Enter(r, t), t = "cancelled" <=> state[r] = "cancelled"
        PROVE  UNCHANGED CancelledRuns
    BY <1>2, <2>1 DEF Enter, CancelledRuns
  <2>2. CASE BeginCancelled(w) \/ CancelledBeforeStart(w)
    BY <2>2 DEF BeginCancelled, CancelledBeforeStart, CancelledRuns
  <2>3. CASE Begin(w) \/ Call(w)
    BY <2>1, <2>3 DEF Begin, Call, CanTransition, LegalTransitions
  <2>4. CASE Return(w)
    BY <2>1, <2>4 DEF Return, IfCurrent
  <2>5. CASE Commit(w)
    BY <2>1, <2>5 DEF Commit, End, IfCurrent
  <2>6. CASE CommitWithoutTurn(w) \/ Fail(w)
    BY <2>1, <2>6 DEF CommitWithoutTurn, Fail, End, IfAllowed, CanTransition,
       LegalTransitions
  <2> QED BY <1>4, <2>2, <2>3, <2>4, <2>5, <2>6 DEF TaskStep
<1>5. CASE HandleCancel(w)
  <2>1. /\ Enter(r, "cancelled") \/ Enter(r, state[r])
        /\ \E pc \in Over : taskPc' = [taskPc EXCEPT ![w] = pc]
    BY <1>5 DEF HandleCancel, End, Over, IfAllowed
  <2>2. CancelledRuns' \in {CancelledRuns, CancelledRuns \cup {r}}
    BY <1>2, <2>1 DEF Enter, CancelledRuns
  <2> QED BY <1>1, <1>2, <2>1, <2>2 DEF Over, Live
<1> QED BY <1>1, <1>2, <1>3, <1>4, <1>5

(* When the task of w moves, its run stays executed or is finished. *)
LEMMA ExecutionEnds ==
  ASSUME ScheduleInv, NEW w \in Workers, NEW pc, taskPc[w] \in Live,
         taskPc' = [taskPc EXCEPT ![w] = pc], UNCHANGED taskRun
  PROVE  /\ taskRun[w] \in ExecutingRuns
         /\ ExecutingRuns' \in {ExecutingRuns, ExecutingRuns \ {taskRun[w]}}
         /\ pc \notin Live => ExecutingRuns' = ExecutingRuns \ {taskRun[w]}
<1>1. taskPc \in [Workers -> {"none"} \cup Live \cup Over]
  BY DEF ScheduleInv, TypeOK
<1>2. taskRun[w] \in ExecutingRuns
  BY DEF ExecutingRuns
<1>3. \A v \in Workers : taskPc[v] \in Live /\ taskRun[v] = taskRun[w] => v = w
  BY DEF ScheduleInv, HoldersDistinct, Holding
<1>4. \A v \in Workers : taskPc'[v] = IF v = w THEN pc ELSE taskPc[v]
  BY <1>1
<1>5. CASE pc \in Live
  BY <1>1, <1>2, <1>4, <1>5 DEF ExecutingRuns
<1>6. CASE pc \notin Live
  BY <1>1, <1>2, <1>3, <1>4, <1>6 DEF ExecutingRuns
<1> QED BY <1>2, <1>5, <1>6

(* A worker that is not busy leaves a slot. *)
LEMMA SlotFree ==
  ASSUME ScheduleInv, NEW w \in Workers, taskPc[w] \notin Live
  PROVE  Cardinality(ExecutingRuns) < Cardinality(Workers)
<1> DEFINE busy == {v \in Workers : taskPc[v] \in Live}
           f == [v \in busy |-> taskRun[v]]
<1>1. IsFiniteSet(Workers) /\ busy \subseteq Workers \ {w}
  BY ConfigAssumption
<1>2. /\ IsFiniteSet(Workers \ {w}) /\ Cardinality(Workers) \in Nat
      /\ Cardinality(Workers \ {w}) = Cardinality(Workers) - 1
  BY <1>1, FS_RemoveElement, FS_CardinalityType
<1>3. IsFiniteSet(busy) /\ Cardinality(busy) <= Cardinality(Workers \ {w})
  BY <1>1, <1>2, FS_Subset
<1>4. /\ IsFiniteSet(ExecutingRuns)
      /\ Cardinality(ExecutingRuns) <= Cardinality(busy)
  <2>1. f \in Surjection(busy, ExecutingRuns)
    BY DEF Surjection, ExecutingRuns
  <2> HIDE DEF busy, f
  <2> QED BY <1>3, <2>1, FS_Surjection
<1> HIDE DEF busy
<1>5. Cardinality(ExecutingRuns) \in Nat /\ Cardinality(busy) \in Nat
  BY <1>3, <1>4, FS_CardinalityType
<1> QED BY <1>2, <1>3, <1>4, <1>5

(* A run that the queue does not hold and no task executes can join. *)
LEMMA JoinsLine ==
  ASSUME ScheduleInv, NEW r \in Runs, state[r] \notin {"ready", "cancelled"},
         \A w \in Workers : taskPc[w] \in Live => taskRun[w] # r,
         Room, queue' = Append(queue, r),
         UNCHANGED <<ExecutingRuns, CancelledRuns>>
  PROVE  Scheduler!Next
<1>1. r \notin Scheduler!InLine
  BY DEF Scheduler!InLine, ScheduleInv, QueuedNotLive
<1>2. r \notin ExecutingRuns \cup CancelledRuns
  BY DEF ExecutingRuns, CancelledRuns
<1>3. Scheduler!Accept(r)
  BY <1>1, <1>2 DEF Scheduler!Accept, Room
<1> QED BY <1>3 DEF Scheduler!Next

(* An instance has its own copy of what its module extends. *)
LEMMA SameCardinality == \A S : Scheduler!Cardinality(S) = Cardinality(S)
  BY Zenon DEF Scheduler!Cardinality, Cardinality

LEMMA InitScheduler == Init => Scheduler!Init
  BY DEF Init, Scheduler!Init, ExecutingRuns, CancelledRuns, Live

LEMMA NextScheduler ==
  ScheduleInv /\ [Next]_vars
    => [Scheduler!Next]_<<queue, ExecutingRuns, CancelledRuns>>
<1> SUFFICES ASSUME ScheduleInv, [Next]_vars
             PROVE  \/ Scheduler!Next
                    \/ UNCHANGED <<queue, ExecutingRuns, CancelledRuns>>
  OBVIOUS
<1>0. /\ state \in [Runs -> RunState \cup {"absent"}]
      /\ queue \in Seq(Runs)
      /\ taskPc \in [Workers -> {"none"} \cup Live \cup Over]
      /\ taskRun \in [Workers -> Runs \cup {NoRun}]
  BY DEF ScheduleInv, TypeOK
<1>1. UNCHANGED <<taskPc, taskRun>> => UNCHANGED ExecutingRuns
  BY DEF ExecutingRuns
<1>2. UNCHANGED state => UNCHANGED CancelledRuns
  BY DEF CancelledRuns
<1>3. CASE Start \/ CloseStep \/ UNCHANGED vars
  BY <1>1, <1>2, <1>3
  DEF Start, CloseStep, CloseGather, CloseEvents, CloseEnd, ClosePasses,
     vars, taskVars
<1>4. ASSUME NEW e \in Expired, SubmitNothing(Evictions(e))
      PROVE  UNCHANGED <<queue, ExecutingRuns, CancelledRuns>>
  BY <1>1, <1>2, <1>4 DEF SubmitNothing, taskVars
<1>5. ASSUME NEW e \in Expired, NEW r \in Runs, NEW k \in Keys \cup {NoKey},
             Submit(r, k, Evictions(e))
      PROVE  Scheduler!Next
  <2>1. /\ state[r] = "absent" /\ Room /\ queue' = Append(queue, r)
        /\ state' = [state EXCEPT ![r] = "ready"] /\ UNCHANGED <<taskPc, taskRun>>
    BY <1>5 DEF Submit, taskVars
  <2>2. UNCHANGED <<ExecutingRuns, CancelledRuns>>
    BY <1>0, <1>1, <2>1 DEF CancelledRuns
  <2>3. \A w \in Workers : taskPc[w] \in Live => taskRun[w] # r
    BY <2>1 DEF ScheduleInv, TasksFitStates, Live
  <2> QED BY <2>1, <2>2, <2>3, JoinsLine
<1>6. ASSUME NEW r \in Runs, Retry(r)
      PROVE  Scheduler!Next
  <2>1. /\ state[r] = "failed" /\ Room /\ queue' = Append(queue, r)
        /\ state' = [state EXCEPT ![r] = "ready"] /\ UNCHANGED <<taskPc, taskRun>>
    <3>1. CanTransition(state[r], "ready") /\ state[r] # "created"
      BY <1>6 DEF Retry, Retryable, ScheduleInv, RecordsFitStates
    <3> QED BY <1>6, <3>1 DEF Retry, taskVars, CanTransition, LegalTransitions
  <2>2. UNCHANGED <<ExecutingRuns, CancelledRuns>>
    BY <1>0, <1>1, <2>1 DEF CancelledRuns
  <2>3. \A w \in Workers : taskPc[w] \in Live => taskRun[w] # r
    BY <2>1 DEF ScheduleInv, TasksFitStates, Live
  <2> QED BY <2>1, <2>2, <2>3, JoinsLine
<1>7. ASSUME NEW S \in SUBSET Runs,
             \A r \in S : r \in runs /\ state[r] \notin Terminal,
             \A r \in Runs : state'[r] = IF r \in S THEN "cancelled" ELSE state[r],
             UNCHANGED <<queue, taskPc, taskRun>>
      PROVE  Scheduler!Next
  <2>1. CancelledRuns' = CancelledRuns \cup S
    BY <1>7 DEF CancelledRuns
  <2>2. ASSUME NEW r \in S PROVE r \in Scheduler!InLine \cup ExecutingRuns
    <3>1. state[r] \in {"ready", "running", "waiting"}
      BY <1>0, <1>7 DEF ScheduleInv, RecordsFitStates, RunState, Terminal
    <3>2. \/ \E i \in 1..Len(queue) : queue[i] = r
          \/ \E w \in Workers : taskRun[w] = r /\ taskPc[w] \in Live
      BY <3>1 DEF ScheduleInv, UnfinishedHeld, Live
    <3> QED BY <3>2 DEF Scheduler!InLine, ExecutingRuns
  <2>3. Scheduler!Cancel(S)
    BY <1>1, <1>7, <2>1 DEF Scheduler!Cancel
  <2> QED BY <2>2, <2>3 DEF Scheduler!Next
<1>8. ASSUME NEW r \in Runs, Cancel(r)
      PROVE  Scheduler!Next
  <2>1. r \in runs /\ state[r] \notin Terminal
    BY <1>8 DEF Cancel, CanTransition, LegalTransitions, Terminal
  <2>2. \A s \in Runs : state'[s] = IF s \in {r} THEN "cancelled" ELSE state[s]
    BY <1>0, <1>8 DEF Cancel, Enter
  <2>3. UNCHANGED <<queue, taskPc, taskRun>>
    BY <1>8 DEF Cancel
  <2> QED BY <1>7, <2>1, <2>2, <2>3
<1>9. CASE CloseBegin
  <2> DEFINE S == {r \in runs : state[r] \notin Terminal}
  <2>1. S \in SUBSET Runs
    BY DEF ScheduleInv, TypeOK
  <2>2. /\ \A r \in Runs : state'[r] = IF r \in S THEN "cancelled" ELSE state[r]
        /\ UNCHANGED <<queue, taskPc, taskRun>>
    BY <1>9 DEF CloseBegin, taskVars
  <2> QED BY <1>7, <2>1, <2>2
<1>10. ASSUME NEW w \in Workers, Dispatch(w)
       PROVE  Scheduler!Next
  <2> DEFINE r == Head(queue)
  <2>1. /\ queue # <<>> /\ queue' = Tail(queue) /\ workerPc[w] = "idle"
        /\ r \in runs /\ state[r] \notin Terminal /\ UNCHANGED state
        /\ taskPc' = [taskPc EXCEPT ![w] = "created"]
        /\ taskRun' = [taskRun EXCEPT ![w] = r]
    BY <1>10 DEF Dispatch, Unfinished
  <2>2. taskPc[w] \notin Live
    BY <2>1 DEF ScheduleInv, WorkersFitTasks, Live
  <2>3. r = queue[1] /\ 1 \in 1..Len(queue)
    BY <1>0, <2>1, TailElements
  <2>4. r \notin ExecutingRuns \cup CancelledRuns
    BY <2>1, <2>3
    DEF ScheduleInv, QueuedNotLive, ExecutingRuns, CancelledRuns, Terminal
  <2>5. ExecutingRuns' = ExecutingRuns \cup {r}
    BY <1>0, <2>1, <2>2 DEF ExecutingRuns, Live
  <2>6. Scheduler!Cardinality(ExecutingRuns) < Cardinality(Workers)
    BY <2>2, SlotFree, SameCardinality
  <2>7. Scheduler!StartFirst
    BY <1>2, <2>1, <2>4, <2>5, <2>6 DEF Scheduler!StartFirst
  <2> QED BY <2>7 DEF Scheduler!Next
<1>11. ASSUME NEW w \in Workers, Skip(w)
       PROVE  Scheduler!Next
  <2> DEFINE r == Head(queue)
  <2>1. /\ queue # <<>> /\ queue' = Tail(queue) /\ ~Unfinished(r)
        /\ UNCHANGED <<state, taskPc, taskRun>>
    BY <1>11 DEF Skip, taskVars
  <2>2. r = queue[1] /\ 1 \in 1..Len(queue) /\ r \in Runs
    BY <1>0, <2>1, TailElements
  <2>3. state[r] = "cancelled"
    BY <2>1, <2>2
    DEF ScheduleInv, QueuedNotLive, RecordsFitStates, Unfinished, Terminal
  <2>4. Scheduler!DropFirst
    BY <1>1, <1>2, <2>1, <2>2, <2>3 DEF Scheduler!DropFirst, CancelledRuns
  <2> QED BY <2>4 DEF Scheduler!Next
<1>12. ASSUME NEW w \in Workers, Resume(w) \/ Die(w) \/ Stop(w)
       PROVE  UNCHANGED <<queue, ExecutingRuns, CancelledRuns>>
  BY <1>1, <1>2, <1>12 DEF Resume, Die, Stop, LeaveShield, taskVars
<1>13. ASSUME NEW w \in Workers, TaskStep(w)
       PROVE  Scheduler!Next \/ UNCHANGED <<queue, ExecutingRuns, CancelledRuns>>
  <2>1. /\ UNCHANGED <<queue, taskRun>>
        /\ taskPc[w] \in Live /\ taskRun[w] \in Runs
    BY <1>13, TaskStepSchedules
  <2>2. PICK pc : /\ taskPc' = [taskPc EXCEPT ![w] = pc]
                  /\ \/ UNCHANGED CancelledRuns
                     \/ /\ pc \notin Live
                        /\ CancelledRuns' = CancelledRuns \cup {taskRun[w]}
    BY <1>13, TaskStepSchedules
  <2>3. /\ taskRun[w] \in ExecutingRuns
        /\ ExecutingRuns' \in {ExecutingRuns, ExecutingRuns \ {taskRun[w]}}
        /\ pc \notin Live => ExecutingRuns' = ExecutingRuns \ {taskRun[w]}
    BY <2>1, <2>2, ExecutionEnds
  <2>4. CASE UNCHANGED CancelledRuns /\ ExecutingRuns' = ExecutingRuns \ {taskRun[w]}
    <3>1. Scheduler!Finish(taskRun[w])
      BY <2>1, <2>3, <2>4 DEF Scheduler!Finish
    <3> QED BY <2>1, <3>1 DEF Scheduler!Next
  <2>5. CASE pc \notin Live /\ CancelledRuns' = CancelledRuns \cup {taskRun[w]}
    <3>1. Scheduler!Abort(taskRun[w])
      BY <2>1, <2>3, <2>5 DEF Scheduler!Abort
    <3> QED BY <2>1, <3>1 DEF Scheduler!Next
  <2> QED BY <2>1, <2>2, <2>3, <2>4, <2>5
<1> QED
  BY <1>3, <1>4, <1>5, <1>6, <1>8, <1>9, <1>10, <1>11, <1>12, <1>13
  DEF Next, ClientStep, WorkerStep

(***************************************************************************)
(* Whatever clients, workers and tasks do, runs are executed in the order  *)
(* they were accepted, in as many slots as there are workers, and none is  *)
(* started after it was cancelled: AgentRuntime implements RunScheduler.   *)
(***************************************************************************)
THEOREM ImplementsScheduler == Spec => SchedulerSpec
  BY InitScheduler, NextScheduler, ScheduleInvariant, PTL
     DEF Spec, SchedulerSpec, Scheduler!Spec
=============================================================================
