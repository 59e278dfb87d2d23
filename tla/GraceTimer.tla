----------------------------- MODULE GraceTimer ------------------------------
(***************************************************************************)
(* GraceTimer of queue.py: the window after a completion in which a        *)
(* follow-up of the same (thread_id, model_tag) is worth keeping the       *)
(* sidecar for.  Clock readings are abstracted to whether the window is    *)
(* still open; GraceElapses is the passage of grace_seconds.               *)
(***************************************************************************)
EXTENDS Integers

CONSTANTS
  MaxExtensions,  \* max_extensions
  NoKey           \* thread_id and model_tag before the first start

ASSUME GraceAssumption == MaxExtensions \in Nat

VARIABLES
  graceKey,       \* thread_id and model_tag
  graceOpen,      \* ~expired()
  graceCount      \* extension_count

graceVars == <<graceKey, graceOpen, graceCount>>

GraceInit ==
  /\ graceKey = NoKey
  /\ graceOpen = FALSE
  /\ graceCount = 0

GraceMatches(k) == graceOpen /\ graceKey = k

GraceStart(k) ==
  /\ graceKey' = k
  /\ graceOpen' = TRUE
  /\ graceCount' = 0

GraceMayExtend == graceCount < MaxExtensions

\* A mutant of GraceRestart: the extension cap is not looked at.
GraceRestartUncapped ==
  /\ graceOpen' = TRUE
  /\ graceCount' = graceCount + 1
  /\ UNCHANGED graceKey

\* restart_for_followup; it returns GraceMayExtend.
GraceRestart ==
  IF GraceMayExtend
  THEN /\ graceOpen' = TRUE
       /\ graceCount' = graceCount + 1
       /\ UNCHANGED graceKey
  ELSE UNCHANGED graceVars

GraceElapses ==
  /\ graceOpen
  /\ graceOpen' = FALSE
  /\ UNCHANGED <<graceKey, graceCount>>
==============================================================================
