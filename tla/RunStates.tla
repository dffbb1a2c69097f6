------------------------------ MODULE RunStates ------------------------------
(***************************************************************************)
(* The states of an agent run and the transitions its state machine allows *)
(* (models.py, fsm.py), as pure definitions shared by every module that    *)
(* talks about runs.                                                       *)
(***************************************************************************)

(* models.RunState *)
RunState == {"created", "ready", "running", "waiting",
             "succeeded", "failed", "cancelled"}

(* fsm.LEGAL_TRANSITIONS, the white list of twelve edges *)
LegalTransitions ==
  { <<"created", "ready">>,     <<"created", "cancelled">>,
    <<"ready",   "running">>,   <<"ready",   "cancelled">>,
    <<"running", "waiting">>,   <<"running", "succeeded">>,
    <<"running", "failed">>,    <<"running", "cancelled">>,
    <<"waiting", "running">>,   <<"waiting", "failed">>,
    <<"waiting", "cancelled">>, <<"failed",  "ready">> }

(* runtime._TERMINAL_STATES *)
Terminal == {"succeeded", "failed", "cancelled"}

(* StateMachine.can_transition *)
CanTransition(source, target) == <<source, target>> \in LegalTransitions

(* A mutant of IfAllowed: the white list is not consulted. *)
IfForced(source, target) == target

(***************************************************************************)
(* The state a run has after StateMachine.transition_if_allowed(target):   *)
(* an edge off the white list leaves the run alone.                        *)
(***************************************************************************)
IfAllowed(source, target) ==
  IF CanTransition(source, target) THEN target ELSE source

(* A mutant of IfCurrent: the transition is never made. *)
IfCurrentLost(source, expected, target) == source

(***************************************************************************)
(* The state after StateMachine.transition_if_current(expected, target).   *)
(* Every caller names a legal edge, so the exception branch is not needed. *)
(***************************************************************************)
IfCurrent(source, expected, target) ==
  IF source = expected THEN target ELSE source
=============================================================================
