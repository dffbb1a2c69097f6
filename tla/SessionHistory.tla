--------------------------- MODULE SessionHistory ----------------------------
(***************************************************************************)
(* The conversation that the runs of a session share (sessions.py): a ring *)
(* of messages to which executions append.  Every step of AgentRuntime is  *)
(* a step here, with its effect on the ring.  Sessions do not touch each   *)
(* other; the model has one.                                               *)
(***************************************************************************)
EXTENDS AgentRuntime

CONSTANT HistoryMessages    \* config.history_messages, the length of the ring

ASSUME HistoryAssumption == HistoryMessages \in Nat \ {0}

VARIABLE history    \* the ring of messages, oldest first

SessionInit == Init /\ history = <<>>

Question(r) == [role |-> "user", run |-> r]
Reply(r) == [role |-> "assistant", run |-> r]

(* A mutant of InRing: a full ring takes nothing more. *)
InRingKeepsOldest(messages) ==
  IF Len(messages) <= HistoryMessages THEN messages
  ELSE SubSeq(messages, 1, HistoryMessages)

(* deque(maxlen): what is too much falls out at the old end. *)
InRing(messages) ==
  IF Len(messages) <= HistoryMessages THEN messages
  ELSE SubSeq(messages, Len(messages) - HistoryMessages + 1, Len(messages))

(* A mutant of Turn: the answer goes in first. *)
TurnReversed(r) == <<Reply(r), Question(r)>>

Turn(r) == <<Question(r), Reply(r)>>

(* append_turn *)
Record(w) ==
  /\ Commit(w)
  /\ history' = InRing(history \o Turn(taskRun[w]))

(***************************************************************************)
(* Message refuses an empty output when the question is in already; the    *)
(* run fails, and a retry of it appends the question again.                *)
(***************************************************************************)
RecordHalf(w) ==
  /\ CommitWithoutTurn(w)
  /\ history' = InRing(Append(history, Question(taskRun[w])))

(* The steps of an execution that leave the session alone. *)
SilentStep(w) ==
  \/ Begin(w) \/ BeginCancelled(w) \/ CancelledBeforeStart(w)
  \/ Call(w) \/ Return(w) \/ Fail(w) \/ HandleCancel(w)

SessionNext ==
  \/ /\ \/ ClientStep \/ CloseStep \/ \E w \in Workers : WorkerStep(w)
        \/ LoopFree /\ \E w \in Workers : SilentStep(w)
     /\ UNCHANGED history
  \/ LoopFree /\ \E w \in Workers : Record(w) \/ RecordHalf(w)

SessionSpec == SessionInit /\ [][SessionNext]_<<vars, history>>

-----------------------------------------------------------------------------
(***************************************************************************)
(* Turns do not mix: though the runs of a session overlap, fail, are       *)
(* retried and are cancelled, every answer is in the history once and      *)
(* right behind the question it answers, except that the oldest message    *)
(* may be an answer whose question has fallen out (append_turn).           *)
(***************************************************************************)
TurnsUnmixed ==
  /\ Len(history) <= HistoryMessages
  /\ \A i, j \in 1..Len(history) :
       history[i].role = "assistant" /\ history[j] = history[i] => i = j
  /\ \A i \in 2..Len(history) :
       history[i].role = "assistant" => history[i - 1] = Question(history[i].run)

Remembered(r) == \E i \in 1..Len(history) : history[i] = Reply(r)

Before(q, r) ==
  \E j \in 1..Len(history) : /\ history[j] = Reply(r)
                             /\ \E i \in 1..j - 1 : history[i] = Reply(q)

(***************************************************************************)
(* The answers of the runs that SUCCEEDED are in the history until newer   *)
(* messages push them out: all of them while there is room, later those of *)
(* the runs that succeeded last, in the order in which they succeeded; and *)
(* no question of such a run is the newest message (append_turn before     *)
(* transition_if_current).                                                 *)
(***************************************************************************)
AnswersRemembered ==
  /\ \A r \in Runs : state[r] = "succeeded" =>
       /\ Len(history) < HistoryMessages => Remembered(r)
       /\ history # <<>> /\ Last(history) # Question(r)
  /\ \A m, n \in 1..Len(finished) :
       LET q == finished[m]
           r == finished[n]
       IN  m < n /\ state[q] = "succeeded" /\ state[r] = "succeeded"
             /\ Remembered(q) => Before(q, r)
=============================================================================
