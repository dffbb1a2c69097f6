------------------------------ MODULE RunWaiters -----------------------------
(***************************************************************************)
(* AgentRuntime with the clients that call wait() and sleep on the         *)
(* completion event of a run (runtime.py).  Every step of the runtime is a *)
(* step here, with the wake-ups it causes.                                 *)
(***************************************************************************)
EXTENDS AgentRuntime

CONSTANT Clients   \* callers of wait()

VARIABLES
  waitsFor,   \* the run each client waits for
  starting,   \* clients whose event.wait() has not begun to run
  woken       \* clients whose event was set since they began to wait

allVars == <<vars, waitsFor, starting, woken>>

WaitersInit ==
  /\ Init /\ waitsFor = [u \in Clients |-> NoRun]
  /\ starting = {} /\ woken = {}

(* The clients registered with the event of their run. *)
Sleepers == {u \in Clients \ starting : waitsFor[u] # NoRun}

(* A mutant of SetEvents: it wakes only if the event stays set. *)
SetEventsLater ==
  {u \in Sleepers : waitsFor[u] \in completion /\ waitsFor[u] \in completion'}

(***************************************************************************)
(* Event.set() wakes whoever is registered, for good: a retry that clears  *)
(* the event again does not put them back to sleep.                        *)
(***************************************************************************)
SetEvents == {u \in Sleepers : waitsFor[u] \in completion'}

Wakes(step) ==
  step /\ woken' = woken \cup SetEvents /\ UNCHANGED <<waitsFor, starting>>

(***************************************************************************)
(* wait() of a run that has not ended; otherwise it returns at once.  With *)
(* a timeout, wait_for of Python 3.9 to 3.11 makes event.wait() a task of  *)
(* its own, which has not begun to run when wait() gives up control.       *)
(***************************************************************************)
Wait(u, r) ==
  /\ LoopFree
  /\ waitsFor[u] = NoRun
  /\ r \in runs /\ state[r] \notin Terminal
  /\ waitsFor' = [waitsFor EXCEPT ![u] = r]
  /\ starting' \in {starting, starting \cup {u}}
  /\ UNCHANGED <<vars, woken>>

(* An evicted run has ended, and nothing clears the event it leaves. *)
EventSet(r) == r \in completion \/ r \notin runs

(* That task registers the client, if the event is not set by now. *)
StartWait(u) ==
  /\ LoopFree
  /\ u \in starting /\ starting' = starting \ {u}
  /\ woken' = IF EventSet(waitsFor[u]) THEN woken \cup {u} ELSE woken
  /\ UNCHANGED <<vars, waitsFor>>

StopWaiting(u) ==
  /\ LoopFree
  /\ waitsFor' = [waitsFor EXCEPT ![u] = NoRun]
  /\ starting' = starting \ {u} /\ woken' = woken \ {u}
  /\ UNCHANGED vars

WaitReturns(u) == u \in woken /\ StopWaiting(u)

WaitTimesOut(u) == waitsFor[u] # NoRun /\ u \notin woken /\ StopWaiting(u)

WaitersNext ==
  \/ Wakes(Next)
  \/ \E u \in Clients : \/ StartWait(u) \/ WaitReturns(u) \/ WaitTimesOut(u)
                        \/ \E r \in Runs : Wait(u, r)

(* As in AgentRuntime; and asyncio runs a client's task and resumes it. *)
WaitersSpec ==
  /\ WaitersInit /\ [][WaitersNext]_allVars
  /\ \A w \in Workers : /\ WF_allVars(Wakes(WorkerStep(w)))
                        /\ WF_allVars(Wakes(TaskStep(w)))
  /\ WF_allVars(Wakes(CloseGather))
  /\ \A u \in Clients : WF_allVars(StartWait(u)) /\ WF_allVars(WaitReturns(u))

-----------------------------------------------------------------------------
(***************************************************************************)
(* A client is woken by the end of the run it waits for and by nothing     *)
(* else, neither the end of an earlier attempt nor another run's; the      *)
(* record it then reads may belong to a later attempt (runtime.py:194).    *)
(***************************************************************************)
WokenByEnd ==
  [][\A u \in woken' \ woken : state'[waitsFor'[u]] \in Terminal]_allVars

(***************************************************************************)
(* Whoever waits is released without a timeout of its own, even if the run *)
(* ends and is retried, and its event set and cleared, before the client   *)
(* runs again, or before it is registered at all: it then misses that end, *)
(* and the end of the next attempt releases it.  It is not released if its *)
(* run is left in the queue for ever, or close() does not come back from   *)
(* the threads that it joins in the event loop.                            *)
(***************************************************************************)
WaitersReleased ==
  \A u \in Clients : waitsFor[u] # NoRun
    ~> \/ waitsFor[u] = NoRun
       \/ Stranded(waitsFor[u])
       \/ ~LoopFree
=============================================================================
