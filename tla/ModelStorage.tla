----------------------------- MODULE ModelStorage ------------------------------
(***************************************************************************)
(* The manifest of one model, the blobs it may name, and the llama-server  *)
(* started from both.  The program has one event loop: a PUT of the        *)
(* manifest, an import, and the end of a pull each run on it alone.  A     *)
(* crash strikes all of it at once.                                        *)
(***************************************************************************)
EXTENDS ManifestStore, BlobStore

VARIABLES
  loading,   \* what _process_slot has read of the manifest, or None
  running    \* the llama-server: what it was started for, and its content

server == <<loading, running>>
vars   == <<manifestVars, blobVars, server>>

StorageInit ==
  /\ ManifestInit /\ BlobInit
  /\ loading = None /\ running = None

------------------------------------------------------------------------------
LoopIsFree == Free /\ loop = None

\* _process_slot reads the manifest; without one it goes on with missing.gguf.
Stages ==
  /\ LoopIsFree /\ loading = None
  /\ loading' = [version |-> file]
  /\ UNCHANGED <<manifestVars, blobVars, running>>

\* A warm llama-server of the same tag is taken over, whatever the manifest
\* says by now.
TakesOver ==
  /\ LoopIsFree /\ loading # None /\ running # None
  /\ loading' = None
  /\ UNCHANGED <<manifestVars, blobVars, running>>

\* A mutant of Opens: the manifest is read again for the name of the file.
OpensCurrent ==
  IF file = None \/ loading.version = None THEN None ELSE blob[file.gguf]

\* The file llama-server opens: the path was built when the slot was staged.
Opens == IF loading.version = None THEN None ELSE blob[loading.version.gguf]

\* The llama-server opens its file, some time after the slot was staged: the
\* manifest may be a later one and the blob gone by then.
Loads ==
  /\ loading # None /\ running = None
  /\ loading' = None
  /\ running' = IF Opens = None THEN None
                ELSE [version |-> loading.version, content |-> Opens]
  /\ UNCHANGED <<manifestVars, blobVars>>

\* The request has ended and the warm holder expires.
Stops ==
  /\ LoopIsFree /\ running # None /\ loading = None
  /\ running' = None
  /\ UNCHANGED <<manifestVars, blobVars, loading>>

ServerStep == Stages \/ TakesOver \/ Loads \/ Stops

ProcessDies ==
  /\ ManifestProcessDies /\ BlobProcessDies
  /\ loading' = None /\ running' = None

PowerFails ==
  /\ ManifestPowerFails /\ BlobPowerFails
  /\ loading' = None /\ running' = None

StorageNext ==
  \/ loop = None /\ ManifestStep /\ UNCHANGED <<blobVars, server>>
  \/ Free /\ BlobStep /\ UNCHANGED <<manifestVars, server>>
  \/ /\ LoopIsFree  \* at any other time it changes nothing of interest
     /\ \E h \in Hash : WriteBack(h)
     /\ UNCHANGED <<manifestVars, server>>
  \/ ServerStep
  \/ ProcessDies
  \/ PowerFails

\* No fairness: nobody has to store or to ask for a model.
StorageSpec == StorageInit /\ [][StorageNext]_vars

------------------------------------------------------------------------------
\* The llama-server runs the file named by the manifest its slot was staged
\* with: the content behind a hash never differs from the hash, whatever
\* PUT, DELETE, pull and crash came in between.
RunsWhatItNames ==
  running # None => running.content = running.version.gguf
==============================================================================
