---------------------------- MODULE RunLifecycle -----------------------------
(***************************************************************************)
(* What the runtime promises about the life of each run, whatever happens  *)
(* concurrently: a run appears as READY and from then on its state changes *)
(* only along the white list of fsm.py.  AgentRuntime implements it.       *)
(***************************************************************************)
EXTENDS RunStates

CONSTANT Runs            \* the run identifiers

VARIABLE state           \* the state of each run, "absent" before submit

LifeState == RunState \cup {"absent"}

Init == state = [r \in Runs |-> "absent"]

(***************************************************************************)
(* One atomic step may move several runs (the runtime's shutdown cancels   *)
(* all of them), each by one edge.  An accepted run passes CREATED inside  *)
(* the step that creates it.                                               *)
(***************************************************************************)
Next ==
  /\ state' \in [Runs -> LifeState]
  /\ \A r \in Runs : \/ state'[r] = state[r]
                     \/ CanTransition(state[r], state'[r])
                     \/ state[r] = "absent" /\ state'[r] = "ready"

Spec == Init /\ [][Next]_state
=============================================================================
