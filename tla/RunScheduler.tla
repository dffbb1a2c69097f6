----------------------------- MODULE RunScheduler -----------------------------
(***************************************************************************)
(* What the runtime promises about the order of its work, whatever its     *)
(* workers do: accepted runs wait in line, are executed from the front, so *)
(* many at a time, never twice at a time, and a cancelled run is neither   *)
(* started nor accepted again.  AgentRuntime implements it.                *)
(***************************************************************************)
EXTENDS Naturals, FiniteSets, Sequences

CONSTANTS
  Runs,        \* the run identifiers
  Capacity,    \* how many runs may wait
  Slots        \* how many may be executed at a time

VARIABLES
  waiting,     \* the runs in line, the next one first
  executing,   \* the runs that are being executed
  cancelled    \* the runs that were cancelled

InLine == {waiting[i] : i \in 1..Len(waiting)}

Init == waiting = <<>> /\ executing = {} /\ cancelled = {}

(* A new run, or one that failed, joins the line. *)
Accept(r) ==
  /\ r \notin InLine \cup executing \cup cancelled
  /\ Len(waiting) < Capacity
  /\ waiting' = Append(waiting, r)
  /\ UNCHANGED <<executing, cancelled>>

StartFirst ==
  /\ waiting # <<>> /\ Head(waiting) \notin cancelled \cup executing
  /\ Cardinality(executing) < Slots
  /\ executing' = executing \cup {Head(waiting)}
  /\ waiting' = Tail(waiting)
  /\ UNCHANGED cancelled

DropFirst ==
  /\ waiting # <<>> /\ Head(waiting) \in cancelled
  /\ waiting' = Tail(waiting)
  /\ UNCHANGED <<executing, cancelled>>

Finish(r) ==
  /\ r \in executing /\ executing' = executing \ {r}
  /\ UNCHANGED <<waiting, cancelled>>

(* A run is broken off by what it executes. *)
Abort(r) ==
  /\ r \in executing /\ executing' = executing \ {r}
  /\ cancelled' = cancelled \cup {r}
  /\ UNCHANGED waiting

(* Only what is in line or executed can be cancelled; shutdown cancels all. *)
Cancel(S) ==
  /\ cancelled' = cancelled \cup S
  /\ UNCHANGED <<waiting, executing>>

Next ==
  \/ \E r \in Runs : Accept(r) \/ Finish(r) \/ Abort(r)
  \/ StartFirst \/ DropFirst
  \/ \E S \in SUBSET (InLine \cup executing) : Cancel(S)

Spec == Init /\ [][Next]_<<waiting, executing, cancelled>>
=============================================================================
