---------------------------- MODULE ToolBulkhead -----------------------------
(***************************************************************************)
(* The tool registry of tools.py: every tool has a semaphore, a timeout    *)
(* and, unless its function is a coroutine function, a thread pool of its  *)
(* own with as many threads as the semaphore has permits.                  *)
(*                                                                         *)
(* The registry lives in one event loop; only the functions in the pools   *)
(* run beside it.  A call that is given up cancels its job while that is   *)
(* queued, but cannot stop a thread: the function then outlives its call.  *)
(*                                                                         *)
(* asyncio.Semaphore differs between the supported Pythons (pyproject.toml *)
(* has >= 3.9).  At first, a release adds to the permits and wakes a call, *)
(* which takes one when it resumes, if a newcomer has left one, and queues *)
(* again otherwise.  From 3.10.8 and 3.11 on a woken call has its permit,  *)
(* and newcomers wait behind it: fifo.                                     *)
(***************************************************************************)
EXTENDS Naturals, FiniteSets, SequencesExt

CONSTANTS
  Calls,        \* calls of execute
  Tools,        \* names in the registry
  ThreadTools,  \* those whose function is not a coroutine function
  Hanging,      \* those whose function may never return
  Limit,        \* max_concurrency of each tool
  NoTool

ASSUME ToolsAssumption ==
  /\ ThreadTools \subseteq Tools /\ Hanging \subseteq Tools
  /\ NoTool \notin Tools /\ IsFiniteSet(Calls)

(* ToolRegistry.register *)
ASSUME LimitAssumption == Limit \in Nat \ {0}

VARIABLES
  tool,     \* the tool of each call
  pc,       \* where each call is: "new", "waiting" for a permit, "woken" to
            \* have one, "executing" its function, "over"
  free,     \* permits of each tool's semaphore that nobody holds
  waiters,  \* its waiting calls, in order
  work,     \* jobs queued in each tool's thread pool, in order
  running,  \* calls whose function runs, in a thread or as a coroutine
  phase,    \* of close(): "open", "closing", "closed"
  shut,     \* tools whose thread pool is shut down
  fifo      \* the semaphore is that of the later Pythons

callVars  == <<tool, pc, free, waiters, fifo>>
closeVars == <<phase, shut>>
vars == <<callVars, work, running, closeVars>>

Init ==
  /\ tool = [c \in Calls |-> NoTool] /\ pc = [c \in Calls |-> "new"]
  /\ free = [t \in Tools |-> Limit]
  /\ waiters = [t \in Tools |-> <<>>] /\ work = [t \in Tools |-> <<>>]
  /\ running = {} /\ phase = "open" /\ shut = {}
  /\ fifo \in BOOLEAN

(* close() joins the threads in the event loop, which stands still meanwhile. *)
LoopFree == phase # "closing"

Of(t) == {c \in Calls : tool[c] = t}
At(t, p) == {c \in Of(t) : pc[c] = p}
Threads(t) == running \cap Of(t)

Holds(s, c) == \E i \in 1..Len(s) : s[i] = c
Queued(c) == Holds(work[tool[c]], c)

(* A call is in a queue once or not at all. *)
Without(s, c) ==
  IF Holds(s, c) THEN RemoveAt(s, CHOOSE i \in 1..Len(s) : s[i] = c) ELSE s

-----------------------------------------------------------------------------
(* The semaphores.                                                         *)

(***************************************************************************)
(* Call c gets as far as p; what waits then is the queue q without its     *)
(* first k calls, which are woken, and f permits are left with fifo if     *)
(* they take none.                                                         *)
(***************************************************************************)
Move(c, p, q, f, k) ==
  LET t == tool[c]
      first == {q[i] : i \in 1..k}
  IN  /\ pc' = [d \in Calls |-> IF d = c THEN p
                               ELSE IF d \in first THEN "woken" ELSE pc[d]]
      /\ waiters' = [waiters EXCEPT ![t] = SubSeq(q, k + 1, Len(q))]
      /\ free' = [free EXCEPT ![t] = IF fifo THEN f - k ELSE f]

(* _wake_up_next, when there are f permits *)
One(q, f) == IF f > 0 /\ q # <<>> THEN 1 ELSE 0

(* As many as there are permits for; what the latest Pythons do. *)
Fit(q, f) == IF f < Len(q) THEN f ELSE Len(q)

(* A newcomer finds the semaphore unlocked. *)
Enters(t) == free[t] > 0 /\ (fifo => waiters[t] = <<>> /\ At(t, "woken") = {})

-----------------------------------------------------------------------------
(* The calls: execute and _invoke.                                         *)

(***************************************************************************)
(* _invoke with a permit.  run_in_executor refuses a job for a pool that   *)
(* was shut down: the call then fails at once, see Answer.  Between the    *)
(* permit and the job asyncio may switch tasks once; a call given up there *)
(* is as good as one given up with its job queued.                         *)
(***************************************************************************)
Invoke(c, t) ==
  CASE t \notin ThreadTools -> running' = running \cup {c} /\ UNCHANGED work
    [] t \in shut -> UNCHANGED <<running, work>>
    [] OTHER -> work' = [work EXCEPT ![t] = Append(@, c)] /\ UNCHANGED running

(* A call enters the semaphore, or waits behind the others. *)
Execute(c, t) ==
  /\ LoopFree /\ pc[c] = "new"
  /\ tool' = [tool EXCEPT ![c] = t]
  /\ IF Enters(t)
     THEN /\ pc' = [pc EXCEPT ![c] = "executing"]
          /\ free' = [free EXCEPT ![t] = @ - 1]
          /\ Invoke(c, t) /\ UNCHANGED waiters
     ELSE /\ pc' = [pc EXCEPT ![c] = "waiting"]
          /\ waiters' = [waiters EXCEPT ![t] = Append(@, c)]
          /\ UNCHANGED <<free, work, running>>
  /\ UNCHANGED <<fifo, closeVars>>

(* With fifo a call that has its permit may find more of them free. *)
Resume(c) ==
  LET t == tool[c]
      q == waiters[t]
      f == free[t]
  IN  /\ LoopFree /\ pc[c] = "woken"
      /\ \/ /\ fifo /\ \E k \in {One(q, f), Fit(q, f)} : Move(c, "executing", q, f, k)
            /\ Invoke(c, t)
         \/ /\ ~fifo /\ f > 0 /\ Move(c, "executing", q, f - 1, 0)
            /\ Invoke(c, t)
         \/ /\ ~fifo /\ f = 0 /\ Move(c, "waiting", Append(q, c), 0, 0)
            /\ UNCHANGED <<work, running>>
      /\ UNCHANGED <<tool, fifo, closeVars>>

(* A mutant of Leave: the permit is returned and nobody is woken. *)
LeaveSilently(c) ==
  Move(c, "over", waiters[tool[c]], free[tool[c]] + 1, 0)

(* release *)
Leave(c) ==
  LET q == waiters[tool[c]]
      f == free[tool[c]] + 1
  IN  Move(c, "over", q, f, One(q, f))

(* The function has ended, or its job was cancelled or refused by the pool. *)
Answer(c) ==
  /\ LoopFree /\ pc[c] = "executing"
  /\ c \notin running /\ ~Queued(c)
  /\ Leave(c)
  /\ UNCHANGED <<tool, fifo, work, running, closeVars>>

(* A mutant of Abandon: the job of a call that was given up stays queued. *)
AbandonKeepsJob(c) ==
  /\ UNCHANGED work
  /\ running' = IF tool[c] \in ThreadTools THEN running ELSE running \ {c}

(* wait_for cancels what it waits for: a coroutine, or a job not yet begun. *)
Abandon(c) ==
  /\ work' = [work EXCEPT ![tool[c]] = Without(@, c)]
  /\ running' = IF tool[c] \in ThreadTools THEN running ELSE running \ {c}

(* A mutant of GiveUp: the permit is only released after a result. *)
GiveUpKeepsPermit(c) ==
  /\ LoopFree /\ pc[c] = "executing"
  /\ c \in running \/ Queued(c)
  /\ Abandon(c) /\ pc' = [pc EXCEPT ![c] = "over"]
  /\ UNCHANGED <<tool, free, waiters, fifo, closeVars>>

(* The timeout of the tool, or a cancellation of the run, ends the call. *)
GiveUp(c) ==
  /\ LoopFree /\ pc[c] = "executing"
  /\ c \in running \/ Queued(c)
  /\ Abandon(c) /\ Leave(c)
  /\ UNCHANGED <<tool, fifo, closeVars>>

(***************************************************************************)
(* The run is cancelled, or times out, while the call waits for a permit;  *)
(* the latest Pythons look for idle permits then, too.                     *)
(***************************************************************************)
CancelWaiting(c) ==
  LET t == tool[c]
      q == Without(waiters[t], c)
      f == free[t]
  IN  /\ LoopFree /\ pc[c] = "waiting"
      /\ \E k \in {0} \cup (IF fifo THEN {Fit(q, f)} ELSE {}) : Move(c, "over", q, f, k)
      /\ UNCHANGED <<tool, fifo, work, running, closeVars>>

(* ... or when it has been woken: what woke it is passed on. *)
CancelWoken(c) ==
  LET t == tool[c]
      q == waiters[t]
      f == IF fifo THEN free[t] + 1 ELSE free[t]
  IN  /\ LoopFree /\ pc[c] = "woken"
      /\ \E k \in {One(q, f)} \cup (IF fifo THEN {Fit(q, f)} ELSE {}) :
           Move(c, "over", q, f, k)
      /\ UNCHANGED <<tool, fifo, work, running, closeVars>>

-----------------------------------------------------------------------------
(* The functions.                                                          *)

(* A mutant of ThreadFree: all tools share the threads. *)
ThreadFreeShared(t) == Cardinality(running) < Limit

ThreadFree(t) == Cardinality(Threads(t)) < Limit

TakeJob(t) ==
  /\ work[t] # <<>> /\ ThreadFree(t)
  /\ running' = running \cup {Head(work[t])}
  /\ work' = [work EXCEPT ![t] = Tail(@)]
  /\ UNCHANGED <<callVars, closeVars>>

FunctionEnds(c) ==
  /\ c \in running
  /\ tool[c] \in ThreadTools \/ LoopFree
  /\ running' = running \ {c}
  /\ UNCHANGED <<callVars, work, closeVars>>

-----------------------------------------------------------------------------
(* close().                                                                *)

CloseBegin ==
  /\ phase = "open" /\ phase' = "closing"
  /\ UNCHANGED <<callVars, work, running, shut>>

(* A mutant of Joined: the calls of those pools are waited for, too. *)
JoinedCalls == \A t \in shut : \A c \in Of(t) : pc[c] \in {"new", "over"}

(* No thread is left of the pools shut down so far. *)
Joined == \A t \in shut : Threads(t) = {}

(* executor.shutdown(wait=True, cancel_futures=True) of the next tool *)
Shut(t) ==
  /\ phase = "closing" /\ t \in ThreadTools \ shut /\ Joined
  /\ shut' = shut \cup {t}
  /\ work' = [work EXCEPT ![t] = <<>>]
  /\ UNCHANGED <<callVars, running, phase>>

CloseEnd ==
  /\ phase = "closing" /\ shut = ThreadTools /\ Joined
  /\ phase' = "closed"
  /\ UNCHANGED <<callVars, work, running, shut>>

-----------------------------------------------------------------------------
CloseStep == (\E t \in Tools : Shut(t)) \/ CloseEnd

CallStep(c) ==
  Resume(c) \/ Answer(c) \/ GiveUp(c) \/ CancelWaiting(c) \/ CancelWoken(c)

Next ==
  \/ \E c \in Calls : CallStep(c) \/ FunctionEnds(c)
                      \/ \E t \in Tools : Execute(c, t)
  \/ \E t \in Tools : TakeJob(t)
  \/ CloseBegin \/ CloseStep

Spec == Init /\ [][Next]_vars

(* A function ends unless it may hang; no timeout is relied on. *)
EndsByItself(c) == tool[c] \notin Hanging /\ FunctionEnds(c)

Fairness ==
  /\ \A c \in Calls : WF_vars(Resume(c)) /\ WF_vars(Answer(c))
                      /\ WF_vars(EndsByItself(c))
  /\ \A t \in Tools : WF_vars(TakeJob(t))
  /\ WF_vars(CloseStep)

FairSpec == Spec /\ Fairness

-----------------------------------------------------------------------------
(* The calls that have a permit. *)
Inside(t) == At(t, "executing") \cup (IF fifo THEN At(t, "woken") ELSE {})

TypeOK ==
  /\ tool \in [Calls -> Tools \cup {NoTool}]
  /\ pc \in [Calls -> {"new", "waiting", "woken", "executing", "over"}]
  /\ free \in [Tools -> 0..Limit]
  /\ waiters \in [Tools -> Seq(Calls)] /\ work \in [Tools -> Seq(Calls)]
  /\ running \subseteq Calls
  /\ phase \in {"open", "closing", "closed"} /\ shut \subseteq ThreadTools
  /\ fifo \in BOOLEAN

(***************************************************************************)
(* No permit is lost or made and no wake-up is lost: however calls end     *)
(* (answer, error, timeout, cancellation while waiting, just woken or      *)
(* executing), the permits in the semaphore and the calls that have one    *)
(* make up max_concurrency, and while a permit is idle and calls wait, one *)
(* that was woken is about to look for it (async with tool.semaphore).     *)
(***************************************************************************)
PermitsConserved ==
  \A t \in Tools :
    /\ free[t] + Cardinality(Inside(t)) = Limit
    /\ free[t] > 0 /\ At(t, "waiting") # {} => At(t, "woken") # {}

(***************************************************************************)
(* A call that holds a permit waits for a thread only behind threads whose *)
(* calls were given up: the pool is as large as the semaphore, so nothing  *)
(* but functions that outlived their timeout can use up a tool's threads.  *)
(***************************************************************************)
DelayedOnlyByOrphans ==
  \A t \in ThreadTools :
    work[t] # <<>> /\ ~ThreadFree(t) => \E c \in Threads(t) : pc[c] = "over"

(***************************************************************************)
(* A function starts in a thread only while its call waits for it: neither *)
(* a call that timed out in the pool's queue nor one whose pool was shut   *)
(* down takes effect later.                                                *)
(***************************************************************************)
NoLateStart ==
  [][\A c \in running' \ running : pc'[c] = "executing" /\ tool'[c] \notin shut']_vars

(***************************************************************************)
(* close() joins the threads of a tool, in the event loop, and one of them *)
(* runs a function that may never return.                                  *)
(***************************************************************************)
Stuck == phase = "closing" /\ \E t \in shut \cap Hanging : Threads(t) # {}

InFlight(c) == pc[c] \in {"waiting", "woken", "executing"}

(***************************************************************************)
(* Bulkhead (README.md:143): a call of a tool that does not hang ends,     *)
(* without any timeout, whatever the other tools do, unless close() joins  *)
(* a thread that hangs.  With the early semaphore newcomers may overtake a *)
(* woken call; there are finitely many of them here.                       *)
(***************************************************************************)
HealthyCallsEnd ==
  \A c \in Calls : InFlight(c) /\ tool[c] \notin Hanging
                   ~> pc[c] = "over" \/ Stuck

(***************************************************************************)
(* When the timeouts are on time every call ends, also one of a tool whose *)
(* threads all hang, and also one that still waits for a permit, which the *)
(* tool's timeout does not cover.                                          *)
(***************************************************************************)
EveryCallEnds ==
  (\A c \in Calls : WF_vars(GiveUp(c)))
     => \A c \in Calls : InFlight(c) ~> pc[c] = "over" \/ Stuck

(* close() returns unless it joins a thread that hangs. *)
CloseReturns == phase = "closing" ~> phase = "closed" \/ Stuck
=============================================================================
