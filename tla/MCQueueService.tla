---------------------------- MODULE MCQueueService ---------------------------
(***************************************************************************)
(* Five requests, two of them turns of one conversation, on a staging      *)
(* queue and a buffer of two places each: staging overflows into a buffer  *)
(* that may fill up, is overfilled by head insertions, and runs empty with *)
(* two requests still buffered.                                            *)
(***************************************************************************)
EXTENDS QueueService

MCSlots == {"a1", "a2", "b1", "c1", "d1"}
MCKey == [a1 |-> "A", a2 |-> "A", b1 |-> "B", c1 |-> "C", d1 |-> "D"]
==============================================================================
