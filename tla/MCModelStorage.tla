---------------------------- MODULE MCModelStorage -----------------------------
(***************************************************************************)
(* Two streams at a time of two contents, and two writes of the manifest,  *)
(* the second after a DELETE.  Streams are alike, and so are contents.     *)
(***************************************************************************)
EXTENDS ModelStorage, TLC

Symmetry == Permutations(Stream) \cup Permutations(Hash)
==============================================================================
