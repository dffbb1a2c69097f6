------------------------------- MODULE EventBus ------------------------------
(***************************************************************************)
(* The publish-subscribe bus of events.py: each subscription has a bounded *)
(* queue and workers of its own; emit never blocks and drops what does not *)
(* fit; close() puts one poison pill per worker behind the queued events.  *)
(*                                                                         *)
(* The runtime starts the bus once and closes it once, so a bus has one    *)
(* life here.  Handlers that are plain functions run in the executor the   *)
(* runtime gives the bus, which all subscriptions share.                   *)
(***************************************************************************)
EXTENDS Naturals, FiniteSets, SequencesExt

CONSTANTS
  Subscriptions,    \* in the order of registration: a sequence
  Workers,          \* the worker tasks of all of them
  SubOf,            \* the subscription of each worker
  QueueSize,        \* queue_size of each subscription
  Topics, Audience, \* the subscriptions that a topic concerns ("*": all)
  Blocking,         \* subscriptions whose handler is a plain function
  Fragile,          \* those whose handler may end in CancelledError
  Hanging,          \* those whose handler need not return
  Threads,          \* RuntimeConfig.thread_workers
  MaxEvents         \* a bound on the events emitted in the model

Subs == {Subscriptions[i] : i \in 1..Len(Subscriptions)}

ASSUME BusAssumption ==
  /\ Len(Subscriptions) \in Nat /\ IsFiniteSet(Workers)
  /\ \A i, j \in 1..Len(Subscriptions) :
       Subscriptions[i] = Subscriptions[j] => i = j
  /\ SubOf \in [Workers -> Subs]
  /\ QueueSize \in [Subs -> Nat \ {0}]
  /\ Audience \in [Topics -> SUBSET Subs]
  /\ Blocking \subseteq Subs /\ Hanging \subseteq Subs /\ Fragile \subseteq Subs
  /\ Threads \in Nat \ {0} /\ MaxEvents \in Nat

VARIABLES
  phase,      \* "new", "started", "closing" or "closed" (_started, close())
  pills,      \* poison pills that close() has put into the queues
  queue,      \* the queue of each subscription
  pc,         \* where each worker is
  held,       \* the event each worker has taken
  pool,       \* workers whose handler waits for a thread of the executor
  emitted,    \* events emitted; an event is its number
  closeMark,  \* history: events emitted when close() began
  due,        \* history: deliveries owed by all emits so far
  dropped,    \* event_deliveries_dropped_total
  delivered,  \* event_deliveries_total
  errors      \* event_handler_errors_total

busVars     == <<phase, pills, closeMark>>
emitVars    == <<emitted, due, dropped>>
handlerVars == <<delivered, errors>>
vars == <<phase, pills, queue, pc, held, pool, emitted, closeMark, due,
          dropped, delivered, errors>>

Pill == 0

Init ==
  /\ phase = "new" /\ pills = 0 /\ closeMark = 0
  /\ queue = [s \in Subs |-> <<>>]
  /\ pc = [w \in Workers |-> "none"]
  /\ held = [w \in Workers |-> Pill]
  /\ pool = <<>>
  /\ emitted = 0 /\ due = 0 /\ dropped = 0 /\ delivered = 0 /\ errors = 0

(* The queue of s is not full. *)
Fits(s) == Len(queue[s]) < QueueSize[s]

-----------------------------------------------------------------------------
(* The bus.                                                                *)

Start ==
  /\ phase = "new"
  /\ phase' = "started"
  /\ pc' = [w \in Workers |-> "idle"]
  /\ UNCHANGED <<pills, closeMark, queue, held, pool, emitVars, handlerVars>>

(***************************************************************************)
(* emit(), in any phase: runs that are retried or cancelled after close()  *)
(* still publish, and so may handlers.                                     *)
(***************************************************************************)
Emit(t) ==
  LET e == emitted + 1
      refused == {s \in Audience[t] : ~Fits(s)} IN
  /\ emitted < MaxEvents
  /\ emitted' = e
  /\ queue' = [s \in Subs |-> IF s \in Audience[t] \ refused
                              THEN Append(queue[s], e) ELSE queue[s]]
  /\ due' = due + Cardinality(Audience[t])
  /\ dropped' = dropped + Cardinality(refused)
  /\ UNCHANGED <<busVars, pc, held, pool, handlerVars>>

WorkersOf(s) == {w \in Workers : SubOf[w] = s}

(* A mutant of PillsOwed: one pill per subscription. *)
PillsOwedOnePerQueue == Cardinality(Subs)

(* One pill per worker ... *)
PillsOwed == Cardinality(Workers)

WorkersUpTo(i) == UNION {WorkersOf(Subscriptions[j]) : j \in 1..i}

(* ... one subscription after the other. *)
NextPill ==
  Subscriptions[CHOOSE i \in 1..Len(Subscriptions) :
                  /\ Cardinality(WorkersUpTo(i - 1)) <= pills
                  /\ pills < Cardinality(WorkersUpTo(i))]

(* close() begins. *)
CloseBegin ==
  /\ phase = "started"
  /\ phase' = "closing"
  /\ closeMark' = emitted
  /\ UNCHANGED <<pills, queue, pc, held, pool, emitVars, handlerVars>>

(* A mutant of WithPill: the pill overtakes the queued events. *)
WithPillFirst(s) == [queue EXCEPT ![s] = <<Pill>> \o @]

WithPill(s) == [queue EXCEPT ![s] = Append(@, Pill)]

(* `await queue.put(None)` gets its place. *)
PutPill ==
  /\ phase = "closing" /\ pills < PillsOwed
  /\ Fits(NextPill)
  /\ queue' = WithPill(NextPill)
  /\ pills' = pills + 1
  /\ UNCHANGED <<phase, closeMark, pc, held, pool, emitVars, handlerVars>>

(* The gather of close() is over. *)
CloseEnd ==
  /\ phase = "closing" /\ pills = PillsOwed
  /\ \A w \in Workers : pc[w] \in {"stopped", "dead"}
  /\ phase' = "closed"
  /\ UNCHANGED <<pills, closeMark, queue, pc, held, pool, emitVars,
                 handlerVars>>

-----------------------------------------------------------------------------
(* The workers: _worker.                                                   *)

(* A worker takes an event; a plain function is handed to the executor. *)
Take(w) ==
  LET s == SubOf[w] IN
  /\ pc[w] = "idle" /\ queue[s] # <<>> /\ Head(queue[s]) # Pill
  /\ queue' = [queue EXCEPT ![s] = Tail(@)]
  /\ held' = [held EXCEPT ![w] = Head(queue[s])]
  /\ IF s \in Blocking
     THEN /\ pc' = [pc EXCEPT ![w] = "pooled"]
          /\ pool' = Append(pool, w)
     ELSE /\ pc' = [pc EXCEPT ![w] = "handling"]
          /\ UNCHANGED pool
  /\ UNCHANGED <<busVars, emitVars, handlerVars>>

TakePill(w) ==
  LET s == SubOf[w] IN
  /\ pc[w] = "idle" /\ queue[s] # <<>> /\ Head(queue[s]) = Pill
  /\ queue' = [queue EXCEPT ![s] = Tail(@)]
  /\ pc' = [pc EXCEPT ![w] = "stopped"]
  /\ UNCHANGED <<busVars, held, pool, emitVars, handlerVars>>

InThread == {w \in Workers : pc[w] = "handling" /\ SubOf[w] \in Blocking}

(* A mutant of ThreadFree: the last thread is never used. *)
ThreadFreeOffByOne == Cardinality(InThread) + 1 < Threads

ThreadFree == Cardinality(InThread) < Threads

(* The executor runs the handlers it was given in their order. *)
RunInThread(w) ==
  /\ pool # <<>> /\ Head(pool) = w /\ ThreadFree
  /\ pool' = Tail(pool)
  /\ pc' = [pc EXCEPT ![w] = "handling"]
  /\ UNCHANGED <<busVars, queue, held, emitVars, handlerVars>>

HandlerOver(w, next) ==
  /\ pc[w] = "handling"
  /\ pc' = [pc EXCEPT ![w] = next]
  /\ UNCHANGED <<busVars, queue, pool, emitVars>>

HandlerReturns(w) ==
  /\ HandlerOver(w, "idle")
  /\ held' = [held EXCEPT ![w] = Pill]
  /\ delivered' = delivered + 1 /\ UNCHANGED errors

(* A mutant of HandlerRaises: the failure is not counted. *)
HandlerRaisesUncounted(w) ==
  /\ HandlerOver(w, "idle")
  /\ held' = [held EXCEPT ![w] = Pill]
  /\ UNCHANGED handlerVars

(* A mutant of HandlerRaises: the event goes back to the end of the queue. *)
HandlerRaisesRequeues(w) ==
  /\ pc[w] = "handling"
  /\ pc' = [pc EXCEPT ![w] = "idle"]
  /\ held' = [held EXCEPT ![w] = Pill]
  /\ queue' = [queue EXCEPT ![SubOf[w]] = Append(@, held[w])]
  /\ errors' = errors + 1
  /\ UNCHANGED <<busVars, pool, emitVars, delivered>>

HandlerRaises(w) ==
  /\ HandlerOver(w, "idle")
  /\ held' = [held EXCEPT ![w] = Pill]
  /\ errors' = errors + 1 /\ UNCHANGED delivered

(* CancelledError is no Exception: it ends the worker, its event uncounted. *)
HandlerCancelled(w) ==
  /\ SubOf[w] \in Fragile
  /\ HandlerOver(w, "dead")
  /\ UNCHANGED <<held, handlerVars>>

Handle(w) == HandlerReturns(w) \/ HandlerRaises(w) \/ HandlerCancelled(w)

Next ==
  \/ Start \/ CloseBegin \/ PutPill \/ CloseEnd
  \/ \E t \in Topics : Emit(t)
  \/ \E w \in Workers : Take(w) \/ TakePill(w) \/ RunInThread(w) \/ Handle(w)

Spec == Init /\ [][Next]_vars

(***************************************************************************)
(* asyncio runs ready tasks and the executor queued calls.  Handlers return*)
(* except where the model lets them hang.                                  *)
(***************************************************************************)
Fairness ==
  /\ WF_vars(PutPill) /\ WF_vars(CloseEnd)
  /\ \A w \in Workers : /\ WF_vars(Take(w) \/ TakePill(w))
                        /\ WF_vars(RunInThread(w))
                        /\ SubOf[w] \notin Hanging => WF_vars(Handle(w))

FairSpec == Spec /\ Fairness

-----------------------------------------------------------------------------
(* Safety.                                                                 *)

(* Every variable has its type; no queue exceeds its queue_size. *)
TypeOK ==
  /\ phase \in {"new", "started", "closing", "closed"}
  /\ pills \in 0..PillsOwed
  /\ queue \in [Subs -> Seq(0..emitted)]
  /\ \A s \in Subs : Len(queue[s]) <= QueueSize[s]
  /\ pc \in [Workers -> {"none", "idle", "pooled", "handling", "stopped",
                         "dead"}]
  /\ held \in [Workers -> 0..emitted]
  /\ pool \in Seq(Workers)
  /\ emitted \in 0..MaxEvents /\ closeMark \in 0..emitted
  /\ due \in Nat /\ dropped \in Nat /\ delivered \in Nat /\ errors \in Nat

Waiting(s) == {i \in 1..Len(queue[s]) : queue[s][i] # Pill}
AllWaiting == UNION {{<<s, i>> : i \in Waiting(s)} : s \in Subs}
Holders == {w \in Workers : held[w] # Pill}

(***************************************************************************)
(* No delivery disappears: what the emits owed is dropped at the publisher *)
(* and counted, waiting, in a handler, counted as handled or failed, or was*)
(* lost with a worker that died (emit and _worker count each exactly once).*)
(***************************************************************************)
DeliveriesAccounted ==
  due = dropped + delivered + errors + Cardinality(Holders)
        + Cardinality(AllWaiting)

(***************************************************************************)
(* close() drains: a worker that stops leaves behind only events emitted   *)
(* after close() began, although the pills wait for room and emits slip in *)
(* between them.                                                           *)
(***************************************************************************)
DrainedBeforeStop ==
  \A w \in Workers :
    pc[w] = "stopped" =>
      \A i \in Waiting(SubOf[w]) : queue[SubOf[w]][i] > closeMark

(***************************************************************************)
(* Each subscription gets an event once, and in the order of the emits:    *)
(* what waits is newer than what its workers hold, and no two of them hold *)
(* the same event, whether their handlers return, fail or are waiting for  *)
(* a thread (emit, _worker).                                               *)
(***************************************************************************)
TakenOnceInOrder ==
  \A s \in Subs :
    /\ \A i, j \in Waiting(s) : i < j => queue[s][i] < queue[s][j]
    /\ \A w \in WorkersOf(s), i \in Waiting(s) : held[w] < queue[s][i]
    /\ \A v, w \in WorkersOf(s) : held[v] = held[w] /\ held[v] # Pill => v = w

(***************************************************************************)
(* close() is never stuck: a pill finds room, the gather is over, a worker *)
(* has something to take, or a handler gets a thread - or a handler is at  *)
(* work, or a CancelledError took a worker.  No worker is left without its *)
(* pill behind a queue that close() waits for.                             *)
(***************************************************************************)
CloseNeverStuck ==
  phase = "closing" =>
    \/ pills < PillsOwed /\ Fits(NextPill)
    \/ pills = PillsOwed /\ \A w \in Workers : pc[w] = "stopped"
    \/ \E w \in Workers : pc[w] = "idle" /\ queue[SubOf[w]] # <<>>
    \/ pool # <<>> /\ ThreadFree
    \/ \E w \in Workers : pc[w] \in {"handling", "dead"}

-----------------------------------------------------------------------------
(* Liveness.                                                               *)

(***************************************************************************)
(* Once nobody emits any more, a close() that has begun returns, with full *)
(* queues and handlers at work, unless a worker died of a CancelledError or*)
(* a handler hangs.  While events are emitted put_nowait may take the room *)
(* each time that `await queue.put(None)` is about to have it.             *)
(***************************************************************************)
CloseTerminates ==
  <>[][emitted' = emitted]_vars =>
    (phase = "closing" ~> \/ phase = "closed"
                          \/ \E w \in Workers : pc[w] = "dead"
                          \/ \E w \in Workers : /\ SubOf[w] \in Hanging
                                                /\ pc[w] = "handling")

(* Handlers that need not return have all the threads. *)
ThreadsHang == Cardinality({w \in InThread : SubOf[w] \in Hanging}) >= Threads

(***************************************************************************)
(* README.md, section 5: a slow, failing or congested handler affects only *)
(* its own subscription.  The queue of a healthy subscription always moves *)
(* on while it has workers, although handlers of another one hang - but not*)
(* if its handler is a plain function and hanging ones keep all threads of *)
(* the shared executor for ever.                                           *)
(***************************************************************************)
Isolated ==
  \A s \in Subs \ Hanging, e \in 1..MaxEvents :
    (s \in Blocking => []<>~ThreadsHang) =>
      ((\E i \in Waiting(s) : queue[s][i] = e)
         ~> \/ ~ \E i \in Waiting(s) : queue[s][i] = e
            \/ \A w \in WorkersOf(s) : pc[w] \in {"none", "stopped", "dead"})
=============================================================================
