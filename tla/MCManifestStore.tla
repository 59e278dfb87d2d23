--------------------------- MODULE MCManifestStore ----------------------------
(***************************************************************************)
(* Two clients and four writes: a lost update takes three, and one more    *)
(* lets a DELETE or a power failure come between them.                     *)
(***************************************************************************)
EXTENDS ManifestStore
==============================================================================
