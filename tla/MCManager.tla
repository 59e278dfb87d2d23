------------------------------ MODULE MCManager ------------------------------
(***************************************************************************)
(* Small workloads for the manager: a1 and a2 are turns of conversation A  *)
(* on model m1, b1 is another agent's request for model m2.                *)
(***************************************************************************)
EXTENDS ManagerProperties

MCKey   == [a1 |-> "A", a2 |-> "A", a3 |-> "A", b1 |-> "B", c1 |-> "C"]
MCModel == [a1 |-> "m1", a2 |-> "m1", a3 |-> "m1", b1 |-> "m2", c1 |-> "m1"]
==============================================================================
