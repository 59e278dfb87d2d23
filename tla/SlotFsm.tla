------------------------------- MODULE SlotFsm -------------------------------
(***************************************************************************)
(* The per-request state machine of fsm.py: the table of legal transitions *)
(* and the walk by which the manager parks a slot whose processing died.   *)
(***************************************************************************)

EXTENDS Integers

SlotStates == {"RECEIVED", "ACCEPT_BUFFER", "STAGED", "LOADING", "LOADING_FAIL",
               "ACTIVE", "GRACE", "GRACE_BUSY", "ACTIVE_MATCH", "POPPED",
               "IDLE_HOT", "COLD"}

\* fsm.LEGAL_TRANSITIONS: the states a slot may move to from each state.
LegalTargets ==
  [ RECEIVED      |-> {"ACCEPT_BUFFER", "STAGED"},
    ACCEPT_BUFFER |-> {"STAGED", "COLD"},
    STAGED        |-> {"LOADING", "COLD", "ACTIVE_MATCH"},
    LOADING       |-> {"ACTIVE", "LOADING_FAIL", "COLD"},
    LOADING_FAIL  |-> {"STAGED", "POPPED"},
    ACTIVE        |-> {"GRACE", "ACTIVE_MATCH"},
    GRACE         |-> {"GRACE_BUSY", "POPPED", "ACTIVE"},
    GRACE_BUSY    |-> {"GRACE", "POPPED"},
    ACTIVE_MATCH  |-> {"ACTIVE"},
    POPPED        |-> {"IDLE_HOT", "STAGED", "COLD"},
    IDLE_HOT      |-> {"ACTIVE", "POPPED", "COLD"},
    COLD          |-> {} ]

CanTransition(from, to) == to \in LegalTargets[from]

IsTerminal(state) == LegalTargets[state] = {}

(***************************************************************************)
(* One hop of the walk in _force_cold: COLD when it is legal, otherwise    *)
(* towards it through POPPED, GRACE or LOADING_FAIL, and straight to COLD, *)
(* outside the table, when none of these is legal.                         *)
(***************************************************************************)
ForceColdHop(state) ==
  LET legal == LegalTargets[state]
  IN  IF \/ "COLD" \in legal
         \/ legal \cap {"POPPED", "GRACE", "LOADING_FAIL"} = {} THEN "COLD"
      ELSE IF "POPPED" \in legal THEN "POPPED"
      ELSE IF "GRACE" \in legal THEN "GRACE"
      ELSE "LOADING_FAIL"

\* A mutant of ForceColdBound: the longest walk, from ACTIVE, needs three hops.
ForceColdTwoHops == 2

\* The loop of _force_cold is bounded by four hops.
ForceColdBound == 4

\* The state in which _force_cold leaves a slot.
ForceCold(state) ==
  LET walk[n \in 0 .. ForceColdBound] ==
        IF n = 0 \/ IsTerminal(state) THEN state
        ELSE IF IsTerminal(walk[n - 1]) THEN walk[n - 1]
        ELSE ForceColdHop(walk[n - 1])
  IN  walk[ForceColdBound]
==============================================================================
