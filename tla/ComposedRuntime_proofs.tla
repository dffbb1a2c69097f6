----------------------- MODULE ComposedRuntime_proofs ------------------------
(***************************************************************************)
(* Proofs about the two modules composed with AgentRuntime, RunWaiters and *)
(* SessionHistory: what is proved of AgentRuntime holds with any number of *)
(* clients and in any session, a client is only woken by the end of the    *)
(* run it waits for, turns do not mix in the session's ring, and it loses  *)
(* no answer but the oldest.                                               *)
(***************************************************************************)
EXTENDS RunWaiters, SessionHistory, AgentRuntime_proofs

-----------------------------------------------------------------------------
(* RunWaiters.                                                             *)

(* A step with clients is a step of the runtime or none. *)
LEMMA WaitersStep == [WaitersNext]_allVars => [Next]_vars
  BY DEF WaitersNext, Wakes, Wait, StartWait, WaitReturns, WaitTimesOut,
     StopWaiting, allVars

LEMMA WaitersSchedule == WaitersSpec => [](ScheduleInv /\ ClientInv)
<1>1. WaitersInit => ScheduleInv /\ ClientInv
  BY InitSchedule, InitClient DEF WaitersInit
<1>2. ScheduleInv /\ ClientInv /\ [WaitersNext]_allVars
        => (ScheduleInv /\ ClientInv)'
  BY WaitersStep, NextKeepsSchedule, NextKeepsClient
<1> QED BY <1>1, <1>2, PTL DEF WaitersSpec

(***************************************************************************)
(* Whoever waits does so for a run that was accepted: once it has no record*)
(* it has ended, which is why the event it left is set (EventSet).         *)
(***************************************************************************)
WaitsFit ==
  /\ waitsFor \in [Clients -> Runs \cup {NoRun}]
  /\ \A u \in Clients : waitsFor[u] # NoRun => state[waitsFor[u]] # "absent"
  /\ starting \subseteq {u \in Clients : waitsFor[u] # NoRun}

(* No step unmakes a run. *)
LEMMA NeverAbsentAgain ==
  ASSUME ScheduleInv, ScheduleInv', [Next]_vars, NEW r \in Runs, state[r] # "absent"
  PROVE  state'[r] # "absent"
<1>1. [Lifecycle!Next]_state
  BY NextLifecycle
<1>2. CASE UNCHANGED state
  BY <1>2
<1>3. CASE Lifecycle!Next
  BY <1>3 DEF Lifecycle!Next, Lifecycle!CanTransition, Lifecycle!LegalTransitions
<1> QED BY <1>1, <1>2, <1>3

LEMMA NextKeepsWaits ==
  ScheduleInv /\ ScheduleInv' /\ WaitsFit /\ [WaitersNext]_allVars => WaitsFit'
<1> SUFFICES ASSUME ScheduleInv, ScheduleInv', WaitsFit, [WaitersNext]_allVars
             PROVE  WaitsFit'
  OBVIOUS
<1>1. \A r \in Runs : state[r] # "absent" => state'[r] # "absent"
  BY WaitersStep, NeverAbsentAgain
<1>2. CASE Wakes(Next) \/ UNCHANGED allVars
  BY <1>1, <1>2 DEF Wakes, allVars, WaitsFit
<1>3. ASSUME NEW u \in Clients, NEW r \in Runs, Wait(u, r)
      PROVE  WaitsFit'
  <2>1. state[r] # "absent" /\ NoRun \notin Runs
    BY <1>3, NoneAssumption DEF Wait, ScheduleInv, RecordsFitStates
  <2> QED BY <1>1, <1>3, <2>1 DEF Wait, WaitsFit
<1>4. ASSUME NEW u \in Clients, StartWait(u) \/ WaitReturns(u) \/ WaitTimesOut(u)
      PROVE  WaitsFit'
  BY <1>1, <1>4 DEF StartWait, WaitReturns, WaitTimesOut, StopWaiting, WaitsFit
<1> QED BY <1>2, <1>3, <1>4 DEF WaitersNext

(***************************************************************************)
(* When wait() returns without its timeout, the run has just ended; the    *)
(* proof rests on CompletionMatchesTerminal, before and after the step.    *)
(***************************************************************************)
THEOREM AlwaysWokenByEnd == WaitersSpec => WokenByEnd
<1>1. ASSUME ScheduleInv, ClientInv, ClientInv', WaitsFit, [WaitersNext]_allVars,
             NEW u \in woken' \ woken
      PROVE  state'[waitsFor'[u]] \in Terminal
  <2>1. \A r : r \in completion' => state'[r] \in Terminal
    BY <1>1 DEF ClientInv, CompletionMatchesTerminal
  <2>2. \A r \in Runs : EventSet(r) /\ state[r] # "absent" => state[r] \in Terminal
    BY <1>1 DEF EventSet, ClientInv, CompletionMatchesTerminal, ScheduleInv,
       RecordsFitStates, TypeOK, RunState, Terminal
  <2>3. CASE Wakes(Next)
    BY <1>1, <2>1, <2>3 DEF Wakes, SetEvents, Sleepers
  <2>4. ASSUME NEW v \in Clients, StartWait(v)
        PROVE  state'[waitsFor'[u]] \in Terminal
    <3>1. u = v /\ EventSet(waitsFor[v]) /\ UNCHANGED <<state, waitsFor>>
      BY <1>1, <2>4 DEF StartWait, vars
    <3>2. waitsFor[v] \in Runs /\ state[waitsFor[v]] # "absent"
      BY <1>1, <2>4 DEF StartWait, WaitsFit
    <3> QED BY <2>2, <3>1, <3>2
  <2>5. ASSUME NEW v \in Clients, WaitReturns(v) \/ WaitTimesOut(v)
        PROVE  woken' \subseteq woken
    BY <2>5 DEF WaitReturns, WaitTimesOut, StopWaiting
  <2>6. ASSUME NEW v \in Clients, NEW r \in Runs, Wait(v, r)
        PROVE  woken' = woken
    BY <2>6 DEF Wait
  <2>7. CASE UNCHANGED allVars
    BY <2>7, <1>1 DEF allVars
  <2> QED BY <1>1, <2>3, <2>4, <2>5, <2>6, <2>7 DEF WaitersNext
<1>2. WaitersInit => WaitsFit
  BY DEF WaitersInit, Init, WaitsFit
<1>3. ScheduleInv /\ ClientInv /\ ClientInv' /\ WaitsFit /\ [WaitersNext]_allVars
        => [\A u \in woken' \ woken : state'[waitsFor'[u]] \in Terminal]_allVars
  BY <1>1
<1> QED
  BY <1>2, <1>3, NextKeepsWaits, WaitersSchedule, PTL DEF WaitersSpec, WokenByEnd

-----------------------------------------------------------------------------
(* SessionHistory.                                                         *)

Message == [role : {"user", "assistant"}, run : Runs]

-----------------------------------------------------------------------------
(* What the ring holds.                                                    *)

(* How many messages fall out of the ring. *)
Excess(s) == IF Len(s) <= HistoryMessages THEN 0 ELSE Len(s) - HistoryMessages

LEMMA RingElements ==
  ASSUME NEW s \in Seq(Message)
  PROVE  /\ InRing(s) \in Seq(Message) /\ Excess(s) \in 0..Len(s)
         /\ Len(InRing(s)) = Len(s) - Excess(s)
         /\ \A i \in 1..Len(s) - Excess(s) : /\ i + Excess(s) \in 1..Len(s)
                                             /\ InRing(s)[i] = s[i + Excess(s)]
<1>1. Len(s) \in Nat /\ HistoryMessages \in Nat \ {0}
  BY HistoryAssumption
<1>2. CASE Len(s) <= HistoryMessages
  BY <1>1, <1>2 DEF InRing, Excess
<1>3. CASE Len(s) > HistoryMessages
  <2>1. /\ Excess(s) \in 0..Len(s)
        /\ Excess(s) + 1 = Len(s) - HistoryMessages + 1
    BY <1>1, <1>3 DEF Excess
  <2>2. InRing(s) = SubSeq(s, Excess(s) + 1, Len(s))
    BY <1>1, <1>3, <2>1 DEF InRing
  <2> QED BY <2>1, <2>2, DropElements
<1> QED BY <1>1, <1>2, <1>3

(* A message is a question or a reply, and of which run. *)
LEMMA Messages ==
  ASSUME NEW r \in Runs
  PROVE  /\ Question(r) \in Message /\ Reply(r) \in Message
         /\ Question(r).role = "user" /\ Question(r).run = r
         /\ Reply(r).role = "assistant" /\ Reply(r).run = r
         /\ \A s \in Runs : Question(s) # Reply(r)
  BY DEF Question, Reply, Message

(* The history with a turn behind it. *)
LEMMA TurnElements ==
  ASSUME NEW s \in Seq(Message), NEW r \in Runs
  PROVE  LET full == s \o Turn(r)
         IN  /\ full \in Seq(Message) /\ Len(full) = Len(s) + 2
             /\ \A i \in 1..Len(s) : full[i] = s[i]
             /\ full[Len(s) + 1] = Question(r) /\ full[Len(s) + 2] = Reply(r)
<1>1. /\ Turn(r) \in Seq(Message) /\ Len(Turn(r)) = 2
      /\ Turn(r)[1] = Question(r) /\ Turn(r)[2] = Reply(r)
  BY Messages DEF Turn
<1>2. Len(s) \in Nat
  OBVIOUS
<1>3. /\ s \o Turn(r) \in Seq(Message)
      /\ Len(s \o Turn(r)) = Len(s) + Len(Turn(r))
      /\ \A j \in 1..Len(s) + Len(Turn(r)) :
           (s \o Turn(r))[j] = IF j <= Len(s) THEN s[j] ELSE Turn(r)[j - Len(s)]
  BY <1>1, ConcatElements
<1>4. (s \o Turn(r))[Len(s) + 1] = Turn(r)[1]
  BY <1>1, <1>2, <1>3
<1>5. (s \o Turn(r))[Len(s) + 2] = Turn(r)[2]
  BY <1>1, <1>2, <1>3
<1>6. \A i \in 1..Len(s) : (s \o Turn(r))[i] = s[i]
  BY <1>1, <1>2, <1>3
<1> QED BY <1>1, <1>3, <1>4, <1>5, <1>6

-----------------------------------------------------------------------------
(* The inductive invariant.                                                *)

(* A run whose turn is recorded is neither queued nor executing any more. *)
TurnsOver ==
  \A r \in turns :
    /\ \A i \in 1..Len(queue) : queue[i] # r
    /\ \A w \in Workers : taskRun[w] = r => taskPc[w] \notin Live

(* The replies in the ring are those of recorded turns. *)
RepliesRecorded ==
  \A i \in 1..Len(history) :
    history[i].role = "assistant" => history[i].run \in turns

HistoryInv ==
  /\ history \in Seq(Message)
  /\ TurnEndsRun
  /\ TurnsOver
  /\ RepliesRecorded
  /\ TurnsUnmixed

(* The runtime under the sessions is AgentRuntime. *)
LEMMA SessionStep == [SessionNext]_<<vars, history>> => [Next]_vars
  BY DEF SessionNext, Next, Record, RecordHalf, SilentStep, TaskStep, LoopFree

LEMMA SessionSchedule == SessionSpec => [](ScheduleInv /\ ClientInv)
<1>1. SessionInit => ScheduleInv /\ ClientInv
  BY InitSchedule, InitClient DEF SessionInit
<1>2. ScheduleInv /\ ClientInv /\ [SessionNext]_<<vars, history>>
        => (ScheduleInv /\ ClientInv)'
  BY SessionStep, NextKeepsSchedule, NextKeepsClient
<1> QED BY <1>1, <1>2, PTL DEF SessionSpec

-----------------------------------------------------------------------------
(* The steps that leave the ring alone.                                    *)

(***************************************************************************)
(* A turn stays over: only a FAILED run is queued again, and only a queued *)
(* run gets a task.                                                        *)
(***************************************************************************)
LEMMA TurnsStayOver ==
  ASSUME ScheduleInv, TurnEndsRun, TurnsOver, [Next]_vars, UNCHANGED turns
  PROVE  TurnsOver'
<1>0. /\ queue \in Seq(Runs) /\ Len(queue) \in Nat
      /\ taskPc \in [Workers -> {"none"} \cup Live \cup Over]
      /\ taskRun \in [Workers -> Runs \cup {NoRun}]
  BY DEF ScheduleInv, TypeOK
<1>1. ASSUME NEW r \in Runs, r \notin turns, queue' = Append(queue, r),
             UNCHANGED taskVars
      PROVE  TurnsOver'
  BY <1>0, <1>1, AppendElements DEF TurnsOver, taskVars
<1>2. ASSUME UNCHANGED <<queue, taskRun>>,
             \A w \in Workers : taskPc'[w] \in Live => taskPc[w] \in Live
      PROVE  TurnsOver'
  BY <1>2 DEF TurnsOver
<1>3. ASSUME NEW w \in Workers, Dispatch(w) \/ Skip(w)
      PROVE  TurnsOver'
  <2>1. queue # <<>> /\ queue' = Tail(queue)
    BY <1>3 DEF Dispatch, Skip
  <2>2. /\ Len(queue') = Len(queue) - 1
        /\ \A i \in 1..Len(queue') : i + 1 \in 1..Len(queue) /\ queue'[i] = queue[i + 1]
        /\ Head(queue) = queue[1] /\ 1 \in 1..Len(queue)
    BY <1>0, <2>1, TailElements
  <2>3. \A r \in turns : \A i \in 1..Len(queue') : queue'[i] # r
    BY <2>2 DEF TurnsOver
  <2>4. \A r \in turns, v \in Workers : taskRun'[v] = r => taskPc'[v] \notin Live
    BY <1>0, <1>3, <2>2 DEF TurnsOver, Dispatch, Skip, taskVars
  <2> QED BY <2>3, <2>4 DEF TurnsOver
<1>4. CASE ClientStep
  <2>1. ASSUME NEW r \in Runs, Retry(r)
        PROVE  TurnsOver'
    <3>1. r \notin turns
      BY <2>1 DEF Retry, Retryable, CanTransition, LegalTransitions, TurnEndsRun
    <3> QED BY <1>1, <2>1, <3>1 DEF Retry
  <2>2. ASSUME NEW r \in Runs, NEW k, NEW n, Submit(r, k, n)
        PROVE  TurnsOver'
    <3>1. r \notin turns
      BY <2>2 DEF Submit, TurnEndsRun
    <3> QED BY <1>1, <2>2, <3>1 DEF Submit
  <2>3. CASE \/ Start \/ CloseBegin \/ \E n : SubmitNothing(n)
             \/ \E r \in Runs : Cancel(r)
    BY <1>2, <2>3 DEF Start, CloseBegin, SubmitNothing, Cancel, taskVars
  <2> QED BY <1>4, <2>1, <2>2, <2>3 DEF ClientStep
<1>5. ASSUME NEW w \in Workers, Resume(w) \/ Die(w) \/ Stop(w)
      PROVE  TurnsOver'
  BY <1>2, <1>5 DEF Resume, Die, Stop, LeaveShield, taskVars
<1>6. ASSUME NEW w \in Workers, TaskStep(w)
      PROVE  TurnsOver'
  <2>1. UNCHANGED <<queue, taskRun>>
    BY <1>6 DEF TaskStep, Begin, BeginCancelled, CancelledBeforeStart, Call,
       Return, Commit, CommitWithoutTurn, Fail, HandleCancel, TaskUnchanged
  <2>2. \A v \in Workers : taskPc'[v] \in Live => taskPc[v] \in Live
    BY <1>0, <1>6 DEF TaskStep, Begin, BeginCancelled, CancelledBeforeStart,
       Call, Return, Commit, CommitWithoutTurn, Fail, HandleCancel, End, Live
  <2> QED BY <1>2, <2>1, <2>2
<1>7. CASE CloseStep \/ UNCHANGED vars
  BY <1>2, <1>7 DEF CloseStep, CloseGather, CloseEvents, CloseEnd, ClosePasses, vars, taskVars
<1> QED BY <1>3, <1>4, <1>5, <1>6, <1>7 DEF Next, WorkerStep

LEMMA QuietKeepsHistory ==
  ASSUME ScheduleInv, ClientInv', HistoryInv, [Next]_vars,
         UNCHANGED <<turns, history>>
  PROVE  HistoryInv'
<1>1. TurnsOver'
  BY TurnsStayOver DEF HistoryInv
<1>2. RepliesRecorded' /\ TurnsUnmixed'
  BY DEF HistoryInv, RepliesRecorded, TurnsUnmixed
<1> QED BY <1>1, <1>2 DEF HistoryInv, ClientInv

-----------------------------------------------------------------------------
(* The steps that append to the ring.                                      *)

(* A run whose pattern has returned has not recorded its turn before. *)
LEMMA RecorderIsNew ==
  ASSUME ScheduleInv, HistoryInv, NEW w \in Workers, taskPc[w] = "returned"
  PROVE  /\ taskRun[w] \in Runs \ turns
         /\ \A i \in 1..Len(queue) : queue[i] # taskRun[w]
         /\ \A v \in Workers \ {w} :
              taskRun[v] = taskRun[w] => taskPc[v] \notin Live
<1>1. taskPc[w] \in Live /\ taskRun[w] \in Runs
  BY DEF ScheduleInv, WorkersFitTasks, Live
<1>2. taskRun[w] \notin turns
  BY <1>1 DEF HistoryInv, TurnsOver
<1> QED
  BY <1>1, <1>2 DEF ScheduleInv, QueuedNotLive, HoldersDistinct, Holding

LEMMA RecordKeepsTurns ==
  ASSUME ScheduleInv, HistoryInv, NEW w \in Workers, Record(w)
  PROVE  TurnsOver' /\ turns' = turns \cup {taskRun[w]}
<1>1. /\ taskPc[w] = "returned" /\ UNCHANGED <<queue, taskRun>>
      /\ turns' = turns \cup {taskRun[w]}
      /\ \E pc \in Over : taskPc' = [taskPc EXCEPT ![w] = pc]
  BY DEF Record, Commit, End, TaskUnchanged, Over
<1>2. taskPc \in [Workers -> {"none"} \cup Live \cup Over]
  BY DEF ScheduleInv, TypeOK
<1>3. \A v \in Workers : taskPc'[v] \in Live => v # w /\ taskPc[v] \in Live
  BY <1>1, <1>2 DEF Live, Over
<1> QED BY <1>1, <1>3, RecorderIsNew DEF HistoryInv, TurnsOver

LEMMA RecordKeepsRing ==
  ASSUME ScheduleInv, HistoryInv, NEW w \in Workers, Record(w)
  PROVE  /\ history' \in Seq(Message) /\ RepliesRecorded'
         /\ TurnsUnmixed'
<1> DEFINE r == taskRun[w]
           n == Len(history)
           full == history \o Turn(r)
           d == Excess(full)
<1>1. /\ history' = InRing(full) /\ turns' = turns \cup {r}
      /\ history \in Seq(Message) /\ n \in Nat /\ n <= HistoryMessages
      /\ HistoryMessages \in Nat \ {0}
  BY HistoryAssumption DEF Record, Commit, HistoryInv, TurnsUnmixed
<1>2. r \in Runs /\ r \notin turns
  BY RecorderIsNew DEF Record, Commit
<1>3. /\ full \in Seq(Message) /\ Len(full) = n + 2
      /\ \A i \in 1..n : full[i] = history[i]
      /\ full[n + 1] = Question(r) /\ full[n + 2] = Reply(r)
  BY <1>1, <1>2, TurnElements
<1> HIDE DEF full, r
<1>4. /\ history' \in Seq(Message) /\ d \in 0..n + 2 /\ Len(history') = n + 2 - d
      /\ d = IF n + 2 <= HistoryMessages THEN 0 ELSE n + 2 - HistoryMessages
      /\ \A i \in 1..n + 2 - d : i + d \in 1..n + 2 /\ history'[i] = full[i + d]
  <2>1. /\ InRing(full) \in Seq(Message) /\ Excess(full) \in 0..Len(full)
        /\ Len(InRing(full)) = Len(full) - Excess(full)
        /\ \A i \in 1..Len(full) - Excess(full) :
             i + Excess(full) \in 1..Len(full) /\ InRing(full)[i] = full[i + Excess(full)]
    BY <1>3, RingElements
  <2>2. Excess(full) = IF n + 2 <= HistoryMessages THEN 0 ELSE n + 2 - HistoryMessages
    BY <1>1, <1>3 DEF Excess
  <2> HIDE DEF n
  <2> QED BY <1>1, <1>3, <2>1, <2>2
<1>n. d \in Nat /\ d <= n + 2 /\ n \in Nat
  BY <1>1, <1>4
<1> HIDE DEF d, n
<1>5. ASSUME NEW i \in 1..n + 2, full[i].role = "assistant"
      PROVE  \/ i = n + 2 /\ full[i] = Reply(r)
             \/ /\ i \in 1..n /\ full[i] = history[i] /\ history[i].role = "assistant"
                /\ history[i].run \in turns /\ full[i] # Reply(r)
  <2>1. i # n + 1
    BY <1>2, <1>3, <1>5, Messages
  <2>2. CASE i = n + 2
    BY <1>3, <2>2
  <2>3. CASE i \in 1..n
    <3>1. full[i] = history[i] /\ history[i].run \in turns
      BY <1>3, <1>5, <2>3 DEF HistoryInv, RepliesRecorded, n
    <3> QED BY <1>2, <1>5, <2>3, <3>1, Messages
  <2> QED BY <1>1, <2>1, <2>2, <2>3
<1>6. RepliesRecorded'
  BY <1>1, <1>2, <1>4, <1>5, Messages DEF RepliesRecorded
<1>7. \A i, j \in 1..n + 2 :
        full[i].role = "assistant" /\ full[j] = full[i] => i = j
  BY <1>5 DEF HistoryInv, TurnsUnmixed, n
<1>8. \A i \in 2..n + 2 : full[i].role = "assistant" =>
        full[i - 1] = Question(full[i].run)
  <2> SUFFICES ASSUME NEW i \in 2..n + 2, full[i].role = "assistant"
               PROVE  full[i - 1] = Question(full[i].run)
    OBVIOUS
  <2>1. CASE i = n + 2
    BY <1>1, <1>2, <1>3, <2>1, Messages
  <2>2. CASE i # n + 2
    <3>1. i \in 1..n /\ full[i] = history[i] /\ history[i].role = "assistant"
      BY <1>1, <1>5, <2>2
    <3>2. history[i - 1] = Question(history[i].run) /\ i - 1 \in 1..n
      BY <1>1, <3>1 DEF HistoryInv, TurnsUnmixed, n
    <3> QED BY <1>3, <3>1, <3>2
  <2> QED BY <2>1, <2>2
<1>9. TurnsUnmixed'
  <2>1. Len(history') <= HistoryMessages
    BY <1>1, <1>4
  <2>2. ASSUME NEW i \in 1..Len(history'), NEW j \in 1..Len(history'),
               history'[i].role = "assistant", history'[j] = history'[i]
        PROVE  i = j
    <3>1. /\ i \in 1..n + 2 - d /\ j \in 1..n + 2 - d
          /\ i \in Nat /\ j \in Nat
      BY <1>n, <1>4, <2>2
    <3>2. /\ i + d \in 1..n + 2 /\ j + d \in 1..n + 2
          /\ history'[i] = full[i + d] /\ history'[j] = full[j + d]
      BY <1>4, <3>1
    <3>3. full[i + d].role = "assistant" /\ full[j + d] = full[i + d]
      BY <2>2, <3>2
    <3>4. i + d = j + d
      BY <1>7, <3>2, <3>3
    <3> QED BY <1>n, <3>1, <3>4
  <2>3. ASSUME NEW i \in 1..Len(history'), history'[i].role = "assistant", i # 1
        PROVE  history'[i - 1] = Question(history'[i].run)
    <3>1. i \in 1..n + 2 - d /\ i \in Nat
      BY <1>n, <1>4, <2>3
    <3>2. /\ i - 1 \in 1..n + 2 - d /\ i + d \in 2..n + 2
          /\ (i - 1) + d = (i + d) - 1
      BY <1>n, <2>3, <3>1
    <3>3. history'[i] = full[i + d] /\ history'[i - 1] = full[(i + d) - 1]
      BY <1>4, <3>1, <3>2
    <3> QED BY <1>8, <2>3, <3>2, <3>3
  <2> QED BY <1>1, <2>1, <2>2, <2>3 DEF TurnsUnmixed
<1> QED BY <1>4, <1>6, <1>9

(* A lone question: the history with one message behind it. *)
LEMMA RecordHalfKeepsHistory ==
  ASSUME ScheduleInv, ClientInv', HistoryInv, LoopFree, NEW w \in Workers,
         RecordHalf(w)
  PROVE  HistoryInv'
<1> DEFINE r == taskRun[w]
           n == Len(history)
           full == Append(history, Question(r))
           d == Excess(full)
<1>1. /\ history' = InRing(full) /\ UNCHANGED turns
      /\ history \in Seq(Message) /\ n \in Nat /\ n <= HistoryMessages
      /\ HistoryMessages \in Nat \ {0} /\ TaskStep(w)
  BY HistoryAssumption
     DEF RecordHalf, CommitWithoutTurn, TaskUnchanged, HistoryInv, TurnsUnmixed, TaskStep
<1>2. r \in Runs
  BY RecorderIsNew DEF RecordHalf, CommitWithoutTurn
<1>3. /\ full \in Seq(Message) /\ Len(full) = n + 1
      /\ \A i \in 1..n : full[i] = history[i]
      /\ full[n + 1] = Question(r)
  BY <1>1, <1>2, Messages, AppendElements
<1> HIDE DEF full, r
<1>4. /\ history' \in Seq(Message) /\ d \in 0..n + 1 /\ Len(history') = n + 1 - d
      /\ n + 1 - d <= HistoryMessages
      /\ \A i \in 1..n + 1 - d : i + d \in 1..n + 1 /\ history'[i] = full[i + d]
  <2>1. /\ InRing(full) \in Seq(Message) /\ Excess(full) \in 0..Len(full)
        /\ Len(InRing(full)) = Len(full) - Excess(full)
        /\ \A i \in 1..Len(full) - Excess(full) :
             i + Excess(full) \in 1..Len(full) /\ InRing(full)[i] = full[i + Excess(full)]
    BY <1>3, RingElements
  <2>2. Excess(full) = IF n + 1 <= HistoryMessages THEN 0 ELSE n + 1 - HistoryMessages
    BY <1>1, <1>3 DEF Excess
  <2> HIDE DEF n
  <2> QED BY <1>1, <1>3, <2>1, <2>2
<1>n. d \in Nat /\ d <= n + 1 /\ n \in Nat
  BY <1>1, <1>4
<1> HIDE DEF d, n
<1>5. ASSUME NEW i \in 1..n + 1, full[i].role = "assistant"
      PROVE  /\ i \in 1..n /\ full[i] = history[i] /\ history[i].role = "assistant"
             /\ history[i].run \in turns
  <2>1. i \in 1..n
    BY <1>n, <1>2, <1>3, <1>5, Messages
  <2> QED BY <1>3, <1>5, <2>1 DEF HistoryInv, RepliesRecorded, n
<1>6. RepliesRecorded'
  BY <1>1, <1>4, <1>5 DEF RepliesRecorded
<1>7. TurnsOver' /\ TurnEndsRun'
  BY <1>1, TurnsStayOver DEF HistoryInv, Next, ClientInv
<1>8. TurnsUnmixed'
  <2>1. ASSUME NEW i \in 1..Len(history'), NEW j \in 1..Len(history'),
               history'[i].role = "assistant", history'[j] = history'[i]
        PROVE  i = j
    <3>1. /\ i \in 1..n + 1 - d /\ j \in 1..n + 1 - d /\ i \in Nat /\ j \in Nat
      BY <1>n, <1>4, <2>1
    <3>2. /\ i + d \in 1..n /\ j + d \in 1..n
          /\ history[i + d].role = "assistant" /\ history[j + d] = history[i + d]
      BY <1>4, <1>5, <2>1, <3>1
    <3>3. i + d = j + d
      BY <3>2 DEF HistoryInv, TurnsUnmixed, n
    <3> QED BY <1>n, <3>1, <3>3
  <2>2. ASSUME NEW i \in 1..Len(history'), history'[i].role = "assistant", i # 1
        PROVE  history'[i - 1] = Question(history'[i].run)
    <3>1. i \in 1..n + 1 - d /\ i - 1 \in 1..n + 1 - d /\ i \in Nat
      BY <1>n, <1>4, <2>2
    <3>2. /\ i + d \in 1..n /\ i + d # 1 /\ (i - 1) + d = (i + d) - 1
          /\ (i + d) - 1 \in 1..n
          /\ history'[i] = history[i + d] /\ history[i + d].role = "assistant"
      <4>1. i + d \in 1..n /\ history'[i] = full[i + d] /\ full[i + d] = history[i + d]
        BY <1>4, <1>5, <2>2, <3>1
      <4> QED BY <1>n, <2>2, <3>1, <4>1
    <3>3. history[(i + d) - 1] = Question(history[i + d].run)
      BY <3>2 DEF HistoryInv, TurnsUnmixed, n
    <3> QED BY <1>3, <1>4, <3>1, <3>2, <3>3
  <2> QED BY <1>1, <1>4, <2>1, <2>2 DEF TurnsUnmixed
<1> QED BY <1>1, <1>4, <1>6, <1>7, <1>8 DEF HistoryInv

LEMMA NextKeepsHistory ==
  ScheduleInv /\ ClientInv' /\ HistoryInv /\ [SessionNext]_<<vars, history>>
    => HistoryInv'
<1> SUFFICES ASSUME ScheduleInv, ClientInv', HistoryInv,
                    [SessionNext]_<<vars, history>>
             PROVE  HistoryInv'
  OBVIOUS
<1>1. ASSUME NEW w \in Workers, Record(w)
      PROVE  HistoryInv'
  BY <1>1, RecordKeepsTurns, RecordKeepsRing DEF HistoryInv, ClientInv, Record
<1>2. ASSUME LoopFree, NEW w \in Workers, RecordHalf(w)
      PROVE  HistoryInv'
  BY <1>2, RecordHalfKeepsHistory
<1>3. ASSUME UNCHANGED history,
             \/ ClientStep \/ CloseStep \/ UNCHANGED vars
             \/ \E w \in Workers : WorkerStep(w) \/ SilentStep(w)
      PROVE  HistoryInv'
  <2>1. UNCHANGED turns
    BY <1>3 DEF ClientStep, Start, Submit, SubmitNothing, Cancel, Retry,
       CloseBegin, CloseStep, CloseGather, CloseEvents, CloseEnd, ClosePasses, WorkerStep, Dispatch, Skip, Resume, Die, Stop,
       LeaveShield, SilentStep, Begin, BeginCancelled, CancelledBeforeStart,
       Call, Return, Fail, HandleCancel, resultVars, vars
  <2> QED BY <1>3, <2>1, QuietKeepsHistory, SessionStep
<1> QED BY <1>1, <1>2, <1>3 DEF SessionNext

LEMMA InitHistory == SessionInit => HistoryInv
<1> SUFFICES ASSUME SessionInit PROVE HistoryInv
  OBVIOUS
<1>1. /\ history = <<>> /\ Len(history) = 0
      /\ turns = {} /\ 0 <= HistoryMessages
  BY HistoryAssumption DEF SessionInit, Init
<1>2. history \in Seq(Message)
  BY <1>1
<1> QED
  BY <1>1, <1>2 DEF HistoryInv, TurnEndsRun, TurnsOver, RepliesRecorded, TurnsUnmixed

LEMMA HistoryInvariant == SessionSpec => []HistoryInv
  BY InitHistory, NextKeepsHistory, SessionSchedule, PTL DEF SessionSpec

(***************************************************************************)
(* Turns do not mix, for a ring of any length and whatever outputs were    *)
(* refused: only the oldest answer may have lost its question.             *)
(***************************************************************************)
THEOREM TurnsNeverMix == SessionSpec => []TurnsUnmixed
<1>1. HistoryInv => TurnsUnmixed
  BY DEF HistoryInv
<1> QED BY <1>1, HistoryInvariant, PTL

-----------------------------------------------------------------------------
(* The answers of the runs that succeeded.                                 *)

(* Only a recorded answer makes a run SUCCEEDED. *)
LEMMA OnlyRecordSucceeds ==
  ASSUME ScheduleInv, NEW q \in Runs, state'[q] = "succeeded",
         \/ ClientStep \/ CloseStep \/ UNCHANGED vars
         \/ \E w \in Workers : WorkerStep(w) \/ SilentStep(w)
  PROVE  state[q] = "succeeded"
<1>0. state \in [Runs -> RunState \cup {"absent"}]
  BY DEF ScheduleInv, TypeOK
<1>1. CASE ClientStep
  BY <1>0, <1>1 DEF ClientStep, Start, Submit, SubmitNothing, Cancel, Retry,
     CloseBegin, Enter
<1>2. ASSUME NEW w \in Workers, SilentStep(w)
      PROVE  state[q] = "succeeded"
  BY <1>0, <1>2 DEF SilentStep, Begin, BeginCancelled, CancelledBeforeStart,
     Call, Return, Fail, HandleCancel, End, Enter, IfCurrent, IfAllowed
<1>3. ASSUME NEW w \in Workers, WorkerStep(w)
      PROVE  state[q] = "succeeded"
  BY <1>3 DEF WorkerStep, Dispatch, Skip, Resume, Die, Stop, LeaveShield
<1>4. CASE CloseStep \/ UNCHANGED vars
  BY <1>4 DEF CloseStep, CloseGather, CloseEvents, CloseEnd, ClosePasses, vars
<1> QED BY <1>1, <1>2, <1>3, <1>4

(* What a step that appends leaves in the ring: its last message is new. *)
LEMMA RingRemembers ==
  ASSUME NEW s \in Seq(Message), s # <<>>
  PROVE  /\ InRing(s) # <<>> /\ Last(InRing(s)) = s[Len(s)]
         /\ Len(InRing(s)) \in 1..Len(InRing(s))
         /\ InRing(s)[Len(InRing(s))] = s[Len(s)]
         /\ InRing(s) = s \/ Len(InRing(s)) = HistoryMessages
<1>1. Len(s) \in Nat \ {0} /\ HistoryMessages \in Nat \ {0}
  BY HistoryAssumption
<1>2. /\ InRing(s) \in Seq(Message) /\ Excess(s) \in 0..Len(s)
      /\ Len(InRing(s)) = Len(s) - Excess(s)
      /\ \A i \in 1..Len(s) - Excess(s) : InRing(s)[i] = s[i + Excess(s)]
  BY RingElements
<1>3. Len(InRing(s)) \in 1..Len(InRing(s))
  BY <1>1, <1>2 DEF Excess
<1>4. InRing(s) # <<>> /\ Last(InRing(s)) = InRing(s)[Len(InRing(s))]
  BY <1>2, <1>3 DEF Last
<1>5. InRing(s)[Len(InRing(s))] = s[Len(s)]
  BY <1>1, <1>2, <1>3
<1>6. InRing(s) = s \/ Len(InRing(s)) = HistoryMessages
  BY <1>1, <1>2 DEF InRing, Excess
<1> QED BY <1>3, <1>4, <1>5, <1>6

(* The first part of AnswersRemembered. *)
AnswersKept ==
  \A r \in Runs : state[r] = "succeeded" =>
    /\ \/ \E i \in 1..Len(history) : history[i] = Reply(r)
       \/ Len(history) = HistoryMessages
    /\ history # <<>> /\ Last(history) # Question(r)

LEMMA NextKeepsAnswers ==
  ScheduleInv /\ HistoryInv /\ AnswersKept /\ [SessionNext]_<<vars, history>>
    => AnswersKept'
<1> SUFFICES ASSUME ScheduleInv, HistoryInv, AnswersKept,
                    [SessionNext]_<<vars, history>>,
                    NEW q \in Runs, state'[q] = "succeeded"
             PROVE  /\ \/ \E i \in 1..Len(history') : history'[i] = Reply(q)
                       \/ Len(history') = HistoryMessages
                    /\ history' # <<>> /\ Last(history') # Question(q)
  BY DEF AnswersKept
<1>0. /\ history \in Seq(Message) /\ Len(history) \in Nat
      /\ Len(history) <= HistoryMessages /\ HistoryMessages \in Nat \ {0}
      /\ state \in [Runs -> RunState \cup {"absent"}]
  BY HistoryAssumption DEF HistoryInv, TurnsUnmixed, ScheduleInv, TypeOK
<1>1. ASSUME NEW w \in Workers, Record(w)
      PROVE  /\ \/ \E i \in 1..Len(history') : history'[i] = Reply(q)
                \/ Len(history') = HistoryMessages
             /\ history' # <<>> /\ Last(history') # Question(q)
  <2> DEFINE r == taskRun[w]
             n == Len(history)
             full == history \o Turn(r)
  <2>1. r \in Runs /\ history' = InRing(full)
    BY <1>1, RecorderIsNew DEF Record, Commit
  <2>2. /\ full \in Seq(Message) /\ Len(full) = n + 2
        /\ \A i \in 1..n : full[i] = history[i]
        /\ full[n + 2] = Reply(r)
    BY <1>0, <2>1, TurnElements
  <2>3. /\ history' # <<>> /\ Last(history') = Reply(r)
        /\ Len(history') \in 1..Len(history')
        /\ history'[Len(history')] = Reply(r)
        /\ history' = full \/ Len(history') = HistoryMessages
    <3> HIDE DEF full, r
    <3>1. full # <<>>
      BY <1>0, <2>2
    <3> QED BY <2>1, <2>2, <3>1, RingRemembers
  <2>4. Last(history') # Question(q)
    BY <2>1, <2>3, Messages
  <2>5. CASE q = r
    BY <2>3, <2>4, <2>5
  <2>6. CASE q # r
    <3>1. state[q] = "succeeded"
      BY <1>0, <1>1, <2>6 DEF Record, Commit, End, Enter
    <3>2. CASE \E i \in 1..n : history[i] = Reply(q)
      <4>1. PICK i \in 1..n : history[i] = Reply(q)
        BY <3>2
      <4>2. n \in Nat /\ i \in 1..n + 2 /\ full[i] = Reply(q)
        BY <1>0, <2>2, <4>1
      <4> HIDE DEF full, n, r
      <4>3. CASE history' = full
        BY <2>2, <2>3, <2>4, <4>2, <4>3
      <4> QED BY <2>3, <2>4, <4>3
    <3>3. CASE n = HistoryMessages
      <4>1. history' # full \/ Len(history') = n + 2
        BY <2>2
      <4>2. Len(history') <= HistoryMessages
        BY <1>1, RecordKeepsRing DEF TurnsUnmixed
      <4> QED BY <1>0, <2>3, <2>4, <3>3, <4>1, <4>2
    <3> QED BY <3>1, <3>2, <3>3 DEF AnswersKept
  <2> QED BY <2>5, <2>6
<1>2. ASSUME NEW w \in Workers, RecordHalf(w)
      PROVE  /\ \/ \E i \in 1..Len(history') : history'[i] = Reply(q)
                \/ Len(history') = HistoryMessages
             /\ history' # <<>> /\ Last(history') # Question(q)
  <2> DEFINE r == taskRun[w]
             n == Len(history)
             full == Append(history, Question(r))
  <2>1. r \in Runs /\ history' = InRing(full) /\ state[r] # "succeeded"
    BY <1>2, RecorderIsNew
       DEF RecordHalf, CommitWithoutTurn, ScheduleInv, TasksFitStates
  <2>2. state[q] = "succeeded" /\ q # r
    BY <1>0, <1>2, <2>1
       DEF RecordHalf, CommitWithoutTurn, End, Enter, IfAllowed
  <2>3. /\ full \in Seq(Message) /\ Len(full) = n + 1
        /\ \A i \in 1..n : full[i] = history[i]
        /\ full[n + 1] = Question(r)
    BY <1>0, <2>1, Messages, AppendElements
  <2>4. /\ history' # <<>> /\ Last(history') = Question(r)
        /\ history' = full \/ Len(history') = HistoryMessages
    <3> HIDE DEF full, r
    <3>1. full # <<>>
      BY <1>0, <2>3
    <3> QED BY <2>1, <2>3, <3>1, RingRemembers
  <2>5. Last(history') # Question(q)
    BY <2>1, <2>2, <2>4, Messages
  <2>6. CASE \E i \in 1..n : history[i] = Reply(q)
    BY <1>0, <2>3, <2>4, <2>5, <2>6
  <2>7. CASE n = HistoryMessages
    <3>1. history' # full \/ Len(history') = n + 1
      BY <2>3
    <3>2. Len(InRing(full)) <= HistoryMessages
      <4> HIDE DEF full
      <4>1. Len(InRing(full)) = Len(full) - Excess(full)
        BY <2>3, RingElements
      <4>2. Len(full) \in Nat
        BY <1>0, <2>3
      <4> QED BY <1>0, <4>1, <4>2 DEF Excess
    <3> QED BY <1>0, <2>1, <2>4, <2>5, <2>7, <3>1, <3>2
  <2> QED BY <2>2, <2>6, <2>7 DEF AnswersKept
<1>3. ASSUME UNCHANGED history,
             \/ ClientStep \/ CloseStep \/ UNCHANGED vars
             \/ \E w \in Workers : WorkerStep(w) \/ SilentStep(w)
      PROVE  /\ \/ \E i \in 1..Len(history') : history'[i] = Reply(q)
                \/ Len(history') = HistoryMessages
             /\ history' # <<>> /\ Last(history') # Question(q)
  <2>1. state[q] = "succeeded"
    BY <1>3, OnlyRecordSucceeds
  <2> QED BY <1>3, <2>1 DEF AnswersKept
<1> QED BY <1>1, <1>2, <1>3 DEF SessionNext

-----------------------------------------------------------------------------
(* The order of the answers.                                               *)

(* The second part of AnswersRemembered. *)
AnswersOrdered ==
  \A m, n \in 1..Len(finished) :
    m < n /\ state[finished[m]] = "succeeded" /\ state[finished[n]] = "succeeded"
      /\ Remembered(finished[m]) => Before(finished[m], finished[n])

(* The line of ended runs only loses runs, or gets one that ends now. *)
LEMMA FinishedMoves ==
  ASSUME ScheduleInv, [Next]_vars
  PROVE  \/ UNCHANGED finished
         \/ \E n \in 0..Len(finished) :
              finished' = SubSeq(finished, n + 1, Len(finished))
         \/ \E k \in 1..Len(finished) : finished' = RemoveAt(finished, k)
         \/ \E r \in Runs : state[r] \notin Terminal /\ finished' = Append(finished, r)
<1>1. CASE ClientStep
  <2>1. ASSUME NEW n \in 0..Len(finished), Cleanup(n)
        PROVE  finished' = SubSeq(finished, n + 1, Len(finished))
    BY <2>1 DEF Cleanup
  <2>2. ASSUME NEW e \in Expired,
               \/ SubmitNothing(Evictions(e))
               \/ \E r \in Runs, k \in Keys \cup {NoKey} : Submit(r, k, Evictions(e))
        PROVE  \E n \in 0..Len(finished) : finished' = SubSeq(finished, n + 1, Len(finished))
    <3>1. Cleanup(Evictions(e))
      BY <2>2 DEF SubmitNothing, Submit
    <3>2. phase = "open"
      BY <2>2 DEF SubmitNothing, Submit
    <3> QED BY <2>1, <3>1, <3>2, EvictionsBounded
  <2>3. CASE Start \/ CloseBegin
    BY <2>3 DEF Start, CloseBegin
  <2>4. ASSUME NEW r \in Runs, Cancel(r) \/ Retry(r)
        PROVE  \/ UNCHANGED finished
               \/ \E k \in 1..Len(finished) : finished' = RemoveAt(finished, k)
               \/ state[r] \notin Terminal /\ finished' = Append(finished, r)
    BY <2>4 DEF Cancel, Retry, Enter
  <2> QED BY <1>1, <2>2, <2>3, <2>4 DEF ClientStep
<1>2. ASSUME NEW w \in Workers, WorkerStep(w)
      PROVE  UNCHANGED finished
  BY <1>2 DEF WorkerStep, Dispatch, Skip, Resume, Die, Stop, LeaveShield
<1>3. ASSUME NEW w \in Workers, TaskStep(w)
      PROVE  \/ UNCHANGED finished
             \/ \E r \in Runs : state[r] \notin Terminal /\ finished' = Append(finished, r)
  BY <1>3, TaskStepEnters DEF Enter
<1>4. CASE CloseStep \/ UNCHANGED vars
  BY <1>4 DEF CloseStep, CloseGather, CloseEvents, CloseEnd, ClosePasses, vars
<1> QED BY <1>1, <1>2, <1>3, <1>4 DEF Next

(* What stands in the line behind another one did so before. *)
LEMMA OrderStays ==
  ASSUME ScheduleInv, [Next]_vars,
         NEW m \in 1..Len(finished'), NEW n \in 1..Len(finished'), m < n,
         state[finished'[n]] \in Terminal
  PROVE  \E i, j \in 1..Len(finished) :
            i < j /\ finished[i] = finished'[m] /\ finished[j] = finished'[n]
<1>1. finished \in Seq(Runs) /\ Len(finished) \in Nat
  BY DEF ScheduleInv, TypeOK
<1>2. ASSUME NEW d \in 0..Len(finished),
             finished' = SubSeq(finished, d + 1, Len(finished))
      PROVE  \E i, j \in 1..Len(finished) :
               i < j /\ finished[i] = finished'[m] /\ finished[j] = finished'[n]
  <2>1. /\ Len(finished') = Len(finished) - d
        /\ \A i \in 1..Len(finished) - d : finished'[i] = finished[i + d]
    BY <1>1, <1>2, DropElements
  <2>2. /\ m + d \in 1..Len(finished) /\ n + d \in 1..Len(finished) /\ m + d < n + d
        /\ finished'[m] = finished[m + d] /\ finished'[n] = finished[n + d]
    BY <1>1, <2>1
  <2> QED BY <2>2
<1>3. ASSUME NEW k \in 1..Len(finished), finished' = RemoveAt(finished, k)
      PROVE  \E i, j \in 1..Len(finished) :
               i < j /\ finished[i] = finished'[m] /\ finished[j] = finished'[n]
  <2> DEFINE at(i) == IF i < k THEN i ELSE i + 1
  <2>1. /\ Len(finished') = Len(finished) - 1
        /\ \A j \in 1..Len(finished) - 1 :
             /\ j < k => finished'[j] = finished[j]
             /\ j >= k => finished'[j] = finished[j + 1]
    BY <1>1, <1>3, RemoveAtElements
  <2>2. /\ at(m) \in 1..Len(finished) /\ at(n) \in 1..Len(finished) /\ at(m) < at(n)
        /\ finished'[m] = finished[at(m)] /\ finished'[n] = finished[at(n)]
    BY <1>1, <2>1
  <2> QED BY <2>2
<1>4. ASSUME NEW r \in Runs, state[r] \notin Terminal, finished' = Append(finished, r)
      PROVE  \E i, j \in 1..Len(finished) :
               i < j /\ finished[i] = finished'[m] /\ finished[j] = finished'[n]
  <2>1. /\ Len(finished') = Len(finished) + 1
        /\ \A i \in 1..Len(finished) : finished'[i] = finished[i]
        /\ finished'[Len(finished) + 1] = r
    BY <1>1, <1>4, AppendElements
  <2>2. n # Len(finished) + 1
    BY <1>4, <2>1
  <2> QED BY <1>1, <2>1, <2>2
<1> QED BY <1>2, <1>3, <1>4, FinishedMoves

(* What is appended to the ring leaves the older answers in their order. *)
LEMMA RingOrder ==
  ASSUME HistoryInv, NEW s \in Seq(Message), NEW q \in Runs, NEW r \in Runs,
         Len(s) >= Len(history), \A i \in 1..Len(history) : s[i] = history[i],
         \A i \in 1..Len(s) : s[i] = Reply(q) => i \in 1..Len(history),
         Remembered(q) => Before(q, r), history' = InRing(s), Remembered(q)'
  PROVE  Before(q, r)'
<1>1. /\ Len(s) \in Nat /\ Len(history) \in Nat /\ Excess(s) \in Nat
      /\ Len(history') = Len(s) - Excess(s)
      /\ \A i \in 1..Len(s) - Excess(s) : /\ i + Excess(s) \in 1..Len(s)
                                          /\ history'[i] = s[i + Excess(s)]
  <2>1. /\ Excess(s) \in 0..Len(s) /\ Len(InRing(s)) = Len(s) - Excess(s)
        /\ \A i \in 1..Len(s) - Excess(s) : /\ i + Excess(s) \in 1..Len(s)
                                            /\ InRing(s)[i] = s[i + Excess(s)]
    BY RingElements
  <2>2. Len(s) \in Nat /\ Len(history) \in Nat
    BY DEF HistoryInv
  <2> QED BY <2>1, <2>2
<1>2. PICK p \in 1..Len(history') : history'[p] = Reply(q)
  BY DEF Remembered
<1> DEFINE d == Excess(s)
<1>3. p + d \in 1..Len(history) /\ history[p + d] = Reply(q)
  BY <1>1, <1>2
<1>4. PICK j \in 1..Len(history) :
        history[j] = Reply(r) /\ \E i \in 1..j - 1 : history[i] = Reply(q)
  BY <1>3 DEF Remembered, Before
<1>5. PICK i \in 1..j - 1 : history[i] = Reply(q)
  BY <1>4
<1>6. i = p + d
  <2>1. i \in 1..Len(history) /\ history[i].role = "assistant" /\ history[p + d] = history[i]
    BY <1>1, <1>3, <1>4, <1>5, Messages
  <2> QED BY <1>3, <2>1 DEF HistoryInv, TurnsUnmixed
<1> HIDE DEF d
<1>7. d \in Nat /\ p \in Nat /\ i \in Nat /\ j \in Nat
  BY <1>1, <1>4, <1>5 DEF d
<1>8. j - d \in 1..Len(history') /\ p \in 1..(j - d) - 1 /\ (j - d) + d = j
  BY <1>1, <1>2, <1>4, <1>5, <1>6, <1>7 DEF d
<1>9. history'[j - d] = Reply(r)
  BY <1>1, <1>4, <1>8 DEF d
<1> QED BY <1>2, <1>8, <1>9 DEF Before

LEMMA NextKeepsOrder ==
  ScheduleInv /\ ScheduleInv' /\ HistoryInv /\ AnswersOrdered
    /\ [SessionNext]_<<vars, history>> => AnswersOrdered'
<1> SUFFICES ASSUME ScheduleInv, ScheduleInv', HistoryInv, AnswersOrdered,
                    [SessionNext]_<<vars, history>>,
                    NEW m \in 1..Len(finished'), NEW n \in 1..Len(finished'), m < n,
                    state'[finished'[m]] = "succeeded",
                    state'[finished'[n]] = "succeeded",
                    Remembered(finished[m])'
             PROVE  Before(finished[m], finished[n])'
  BY DEF AnswersOrdered
<1>0. PICK q \in Runs, r \in Runs : q = finished'[m] /\ r = finished'[n]
  BY DEF ScheduleInv, TypeOK
<1>a. q # r /\ Remembered(q)'
  BY <1>0 DEF ScheduleInv, FinishedFits, Remembered
<1>b. SUFFICES Before(q, r)'
  BY <1>0 DEF Before
<1>c. state[q] = "succeeded" /\ state[r] = "succeeded" => (Remembered(q) => Before(q, r))
  <2>1. ASSUME state[q] = "succeeded", state[r] = "succeeded"
        PROVE  \E i, j \in 1..Len(finished) : i < j /\ finished[i] = q /\ finished[j] = r
    BY <1>0, <2>1, OrderStays, SessionStep DEF Terminal
  <2> QED BY <2>1 DEF AnswersOrdered
<1>d. /\ history \in Seq(Message) /\ Len(history) \in Nat
      /\ state \in [Runs -> RunState \cup {"absent"}]
  BY DEF HistoryInv, ScheduleInv, TypeOK
<1>1. ASSUME NEW w \in Workers, Record(w)
      PROVE  Before(q, r)'
  <2> DEFINE t == taskRun[w]
             full == history \o Turn(t)
  <2>1. t \in Runs /\ history' = InRing(full) /\ state[t] \in {"running", "cancelled"}
    BY <1>1, RecorderIsNew DEF Record, Commit, ScheduleInv, TasksFitStates
  <2>2. /\ full \in Seq(Message) /\ Len(full) = Len(history) + 2
        /\ \A i \in 1..Len(history) : full[i] = history[i]
        /\ full[Len(history) + 1] = Question(t) /\ full[Len(history) + 2] = Reply(t)
    BY <1>d, <2>1, TurnElements
  <2>3. \A x \in Runs \ {t} : state'[x] = state[x]
    BY <1>d, <1>1 DEF Record, Commit, End, Enter
  <2> HIDE DEF full, t
  <2>4. ASSUME q # t
        PROVE  \A i \in 1..Len(full) : full[i] = Reply(q) => i \in 1..Len(history)
    BY <1>d, <2>1, <2>2, <2>4, Messages
  <2>5. CASE q # t /\ r # t
    BY <1>0, <1>a, <1>c, <1>d, <2>1, <2>2, <2>3, <2>4, <2>5, RingOrder
  <2>6. CASE q # t /\ r = t
    <3>1. /\ history'[Len(history')] = Reply(r) /\ Len(history') \in 1..Len(history')
      <4>1. full # <<>>
        BY <1>d, <2>2
      <4> QED BY <1>d, <2>1, <2>2, <2>6, <4>1, RingRemembers
    <3>2. PICK p \in 1..Len(history') : history'[p] = Reply(q)
      BY <1>a DEF Remembered
    <3>3. p # Len(history')
      BY <1>a, <3>1, <3>2, Messages
    <3>4. p \in 1..Len(history') - 1
      BY <3>1, <3>2, <3>3
    <3> QED BY <3>1, <3>2, <3>4 DEF Before
  <2>7. CASE q = t
    <3>1. state[r] = "succeeded"
      BY <1>0, <1>a, <2>3, <2>7
    <3>2. PICK i \in 1..Len(finished) : finished[i] = q
      BY <1>0, <3>1, OrderStays, SessionStep DEF Terminal
    <3>3. state[t] = "cancelled"
      BY <2>1, <2>7, <3>2 DEF ScheduleInv, FinishedFits, Terminal
    <3>4. state'[t] = "cancelled"
      BY <1>d, <1>1, <2>1, <3>3 DEF Record, Commit, End, Enter, IfCurrent, t
    <3> QED BY <1>0, <2>7, <3>4
  <2> QED BY <2>5, <2>6, <2>7
<1>2. ASSUME NEW w \in Workers, RecordHalf(w)
      PROVE  Before(q, r)'
  <2> DEFINE t == taskRun[w]
             full == Append(history, Question(t))
  <2>1. t \in Runs /\ history' = InRing(full)
    BY <1>2, RecorderIsNew DEF RecordHalf, CommitWithoutTurn
  <2>2. /\ full \in Seq(Message) /\ Len(full) = Len(history) + 1
        /\ \A i \in 1..Len(history) : full[i] = history[i]
        /\ full[Len(history) + 1] = Question(t)
    BY <1>d, <2>1, Messages, AppendElements
  <2>3. state[q] = "succeeded" /\ state[r] = "succeeded"
    BY <1>0, <1>d, <1>2 DEF RecordHalf, CommitWithoutTurn, End, Enter, IfAllowed
  <2> HIDE DEF full, t
  <2>4. \A i \in 1..Len(full) : full[i] = Reply(q) => i \in 1..Len(history)
    BY <1>d, <2>1, <2>2, Messages
  <2> QED BY <1>a, <1>c, <1>d, <2>1, <2>2, <2>3, <2>4, RingOrder
<1>3. ASSUME UNCHANGED history,
             \/ ClientStep \/ CloseStep \/ UNCHANGED vars
             \/ \E w \in Workers : WorkerStep(w) \/ SilentStep(w)
      PROVE  Before(q, r)'
  <2>1. state[q] = "succeeded" /\ state[r] = "succeeded"
    BY <1>0, <1>3, OnlyRecordSucceeds
  <2>2. Remembered(q)
    BY <1>a, <1>3 DEF Remembered
  <2> QED BY <1>c, <1>3, <2>1, <2>2 DEF Before
<1> QED BY <1>1, <1>2, <1>3 DEF SessionNext

(***************************************************************************)
(* The answer of a run that SUCCEEDED stays until newer messages push it   *)
(* out of the ring, whatever its length, the answers leave in the order in *)
(* which the runs succeeded, and the newest message is never its question. *)
(***************************************************************************)
THEOREM AnswersAlwaysRemembered == SessionSpec => []AnswersRemembered
<1>1. SessionInit => AnswersKept /\ AnswersOrdered
  BY DEF SessionInit, Init, AnswersKept, AnswersOrdered
<1>2. HistoryInv /\ AnswersKept /\ AnswersOrdered => AnswersRemembered
  BY HistoryAssumption
  DEF AnswersKept, AnswersOrdered, AnswersRemembered, Remembered
<1> QED
  BY <1>1, <1>2, NextKeepsAnswers, NextKeepsOrder, HistoryInvariant,
     SessionSchedule, PTL DEF SessionSpec
=============================================================================
