---------------------------- MODULE MCSupervision ------------------------------
(***************************************************************************)
(* Two processes are a llama-server with a helper, or with its successor;  *)
(* a third is a successor that meets a helper.  The manager dies once.     *)
(***************************************************************************)
EXTENDS Supervision
==============================================================================
