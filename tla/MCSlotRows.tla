------------------------------ MODULE MCSlotRows ------------------------------
(***************************************************************************)
(* Two requests over three lives: one anchor, one follow-up or successor.    *)
(***************************************************************************)
EXTENDS SlotRows
==============================================================================
