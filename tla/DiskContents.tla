----------------------------- MODULE DiskContents -----------------------------
(***************************************************************************)
(* What the manifest store and the blob store have in common: the contents *)
(* a GGUF file can have, which are also the names they are stored under,   *)
(* and the two ways a file may fail to be there.                           *)
(***************************************************************************)
CONSTANTS
  Hash,   \* contents, and the sha256 names they go by
  None,   \* no file, nothing read, nobody
  Torn    \* a file whose content did not reach the disk
==============================================================================
