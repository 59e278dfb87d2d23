------------------------------- MODULE BlobStore -------------------------------
(***************************************************************************)
(* The content-addressed store of GGUF files: pulls (coroutines that give  *)
(* way between two chunks), imports (which keep the event loop from the    *)
(* first byte to the last), DELETE /api/delete, and what a crash of the    *)
(* program or of the machine may leave.                                    *)
(*                                                                         *)
(* A content and the name it is stored under are the same value of Hash;   *)
(* every name is taken to have a shard directory of its own.               *)
(***************************************************************************)
EXTENDS FiniteSets, DiskContents

CONSTANT Stream   \* pulls and imports that may be under way at a time

ASSUME StreamAssumption == None \notin Stream

VARIABLES
  stage,    \* [Stream -> how far it is], "none" without one
  got,      \* [Stream -> the content it wrote]
  wants,    \* [Stream -> expected_sha256]
  synced,   \* streams whose temporary file was fsynced
  temps,    \* streams whose temporary file is in incoming/
  blob,     \* [Hash -> the content found under that name]
  onDisk,   \* [Hash -> what a power failure may leave there]
  shards,   \* shard directories that exist
  fresh,    \* those whose own entry may not have reached the disk
  stored,   \* names whose stream was answered, not deleted since
  loop      \* the stream that keeps the event loop, or None

files    == <<temps, blob, onDisk, shards, fresh>>
blobVars == <<stage, got, wants, synced, files, stored, loop>>

BlobInit ==
  /\ stage = [x \in Stream |-> "none"]
  /\ got = [x \in Stream |-> None] /\ wants = [x \in Stream |-> None]
  /\ synced = {} /\ temps = {}
  /\ blob = [h \in Hash |-> None] /\ onDisk = [h \in Hash |-> {None}]
  /\ shards = {} /\ fresh = {} /\ stored = {} /\ loop = None

------------------------------------------------------------------------------
\* The temporary file is opened O_EXCL under a random name.
Starts(x) ==
  /\ stage[x] = "none" /\ loop = None
  /\ \E h \in Hash \cup {None} : wants' = [wants EXCEPT ![x] = h]
  /\ stage' = [stage EXCEPT ![x] = "writing"]
  /\ temps' = temps \cup {x}
  /\ UNCHANGED <<got, synced, blob, onDisk, shards, fresh, stored>>

PullStarts(x) == Starts(x) /\ UNCHANGED loop

ImportStarts(x) == Starts(x) /\ loop' = x

MayRun(x) == loop \in {None, x}

Unlinks(x) == temps' = temps \ {x}

Ends(x) ==
  /\ stage' = [stage EXCEPT ![x] = "none"]
  /\ got' = [got EXCEPT ![x] = None]
  /\ wants' = [wants EXCEPT ![x] = None]
  /\ synced' = synced \ {x}
  /\ loop' = None

GivesUp(x) == Ends(x) /\ UNCHANGED <<blob, onDisk, shards, fresh, stored>>

\* Too many bytes (413), an error upstream (502) or a redirect refused, a
\* caller that goes away, a file that is not GGUF (400), a full disk.
StreamAborts(x) ==
  /\ stage[x] = "writing" /\ MayRun(x)
  /\ Unlinks(x)
  /\ GivesUp(x)

\* The stream has ended: flush, fsync, and the computed hash.  No await comes
\* between here and the answer.
LastByte(x) ==
  /\ stage[x] = "writing" /\ MayRun(x)
  /\ \E h \in Hash : got' = [got EXCEPT ![x] = h]
  /\ stage' = [stage EXCEPT ![x] = "written"]
  /\ synced' = synced \cup {x}
  /\ loop' = x
  /\ UNCHANGED <<wants, files, stored>>

HashIsWanted(x) == wants[x] \in {None, got[x]}

HashMismatch(x) ==
  /\ stage[x] = "written" /\ ~HashIsWanted(x)
  /\ Unlinks(x)
  /\ GivesUp(x)

\* _final_path(blobs_root, computed): the name is the content's own hash.
NameOf(x) == got[x]

\* mkdir of the shard directory, which nobody syncs, and os.replace.
Rename(x) ==
  /\ stage[x] = "written" /\ HashIsWanted(x)
  /\ LET h == NameOf(x)
         left == {got[x]} \cup (IF x \in synced THEN {} ELSE {Torn})
     IN /\ blob' = [blob EXCEPT ![h] = got[x]]
        /\ onDisk' = [onDisk EXCEPT ![h] = @ \cup left]
        /\ shards' = shards \cup {h}
        /\ fresh' = IF h \in shards THEN fresh ELSE fresh \cup {h}
  /\ temps' = temps \ {x}
  /\ stage' = [stage EXCEPT ![x] = "renamed"]
  /\ UNCHANGED <<got, wants, synced, stored, loop>>

\* A mutant of SyncShard: the directory is not synced before the answer.
AnswerUnsynced(x) ==
  /\ stage[x] = "renamed"
  /\ stored' = stored \cup {NameOf(x)}
  /\ Ends(x)
  /\ UNCHANGED files

\* fsync of the shard directory, chmod, and 200 with the hash.
SyncShard(x) ==
  /\ stage[x] = "renamed"
  /\ LET h == NameOf(x)
     IN /\ onDisk' = [onDisk EXCEPT ![h] =
                        {blob[h]} \cup (IF h \in fresh THEN {None} ELSE {})]
        /\ stored' = stored \cup {h}
  /\ Ends(x)
  /\ UNCHANGED <<temps, blob, shards, fresh>>

\* The sync or the chmod raises: 500, and the blob is there.
SyncShardFails(x) ==
  /\ stage[x] = "renamed"
  /\ UNCHANGED temps
  /\ GivesUp(x)

\* DELETE /api/delete: unlink, and nothing is synced.  Nobody asks whether a
\* manifest names the blob.
DeleteBlob(h) ==
  /\ loop = None /\ blob[h] # None
  /\ blob' = [blob EXCEPT ![h] = None]
  /\ onDisk' = [onDisk EXCEPT ![h] = @ \cup {None}]
  /\ stored' = stored \ {h}
  /\ UNCHANGED <<stage, got, wants, synced, temps, shards, fresh, loop>>

\* The kernel writes back what it holds of one name.
WriteBack(h) ==
  /\ h \in fresh \/ onDisk[h] # {blob[h]}
  /\ onDisk' = [onDisk EXCEPT ![h] = {blob[h]}]
  /\ fresh' = fresh \ {h}
  /\ UNCHANGED <<stage, got, wants, synced, temps, blob, shards, stored, loop>>

StreamsDie ==
  /\ stage' = [x \in Stream |-> "none"]
  /\ got' = [x \in Stream |-> None] /\ wants' = [x \in Stream |-> None]
  /\ synced' = {} /\ temps' = {} /\ loop' = None

\* The program dies.  Its temporary files stay under names nobody will use
\* again, and no code collects them (gc_stale_incoming has no caller): they
\* are not followed any further.
BlobProcessDies ==
  /\ StreamsDie
  /\ UNCHANGED <<blob, onDisk, shards, fresh, stored>>

\* The machine loses power.
BlobPowerFails ==
  /\ StreamsDie
  /\ \E found \in [Hash -> UNION {onDisk[h] : h \in Hash}] :
       /\ \A h \in Hash : found[h] \in onDisk[h]
       /\ blob' = found
       /\ onDisk' = [h \in Hash |-> {found[h]}]
       /\ LET lost == {h \in fresh : found[h] = None}
          IN shards' = shards \ lost /\ stored' = stored \ lost
  /\ fresh' = {}

BlobStep ==
  \/ \E x \in Stream :
       \/ PullStarts(x) \/ ImportStarts(x) \/ StreamAborts(x) \/ LastByte(x)
       \/ HashMismatch(x) \/ Rename(x) \/ SyncShard(x) \/ SyncShardFails(x)
  \/ \E h \in Hash : DeleteBlob(h)

------------------------------------------------------------------------------
\* A stream that is answered has the file its caller expected, and the file
\* survives a power failure until a DELETE, once its shard directory has
\* reached the disk.
StoredBlobSurvives ==
  /\ \A x \in Stream : stage[x] = "renamed" => wants[x] \in {None, got[x]}
  /\ \A h \in stored : blob[h] = h /\ onDisk[h] \subseteq {h, None}
  /\ \A h \in stored \ fresh : onDisk[h] = {h}
==============================================================================
