-------------------------- MODULE ModelStorageProofs --------------------------
(***************************************************************************)
(* Theorems about ModelStorage: blobs, manifests and the llama-server      *)
(* together, for any contents and any number of pulls.  The part of the    *)
(* manifests is that of ManifestStoreProofs.                               *)
(***************************************************************************)
EXTENDS ModelStorage, ManifestStoreProofs

------------------------------------------------------------------------------
(* The inductive invariant *)

BlobTypes ==
  /\ stage \in [Stream -> {"none", "writing", "written", "renamed"}]
  /\ got \in [Stream -> Hash \cup {None}]
  /\ wants \in [Stream -> Hash \cup {None}]
  /\ blob \in [Hash -> Hash \cup {None}]
  /\ onDisk \in [Hash -> SUBSET (Hash \cup {None, Torn})]
  /\ stored \subseteq Hash /\ shards \subseteq Hash /\ fresh \subseteq Hash
  /\ synced \subseteq Stream

\* A stream past its last byte has the event loop for itself, and its file is
\* on the disk; once renamed it is the file of its name.
StreamShape ==
  \A x \in Stream :
    /\ stage[x] \in {"written", "renamed"} => loop = x /\ got[x] \in Hash
    /\ stage[x] = "written" => x \in synced
    /\ stage[x] = "renamed" => HashIsWanted(x) /\ blob[got[x]] = got[x]

\* Whatever is found under a name, now or after a power failure, has its hash.
Named ==
  \A h \in Hash : /\ blob[h] \in {h, None}
                  /\ onDisk[h] \subseteq {h, None}

Stored ==
  \A h \in stored : blob[h] = h /\ (h \notin fresh => onDisk[h] = {h})

BlobInv == BlobTypes /\ StreamShape /\ Named /\ Stored

\* What the llama-server was started for is what it has.
ServerInv ==
  /\ loading # None => loading.version \in Version \cup {None}
  /\ running # None => running.content = running.version.gguf

StorageInv == SafeInv /\ BlobInv /\ ServerInv

------------------------------------------------------------------------------
(* Blobs *)

\* None is no content, and a torn file is neither.
LEMMA HashFacts == None \notin Hash /\ Torn \notin Hash /\ None # Torn /\ None \notin Stream
BY ManifestAssumption, StreamAssumption

LEMMA InitBlob == BlobInit => BlobInv
BY HashFacts DEF BlobInit, BlobInv, BlobTypes, StreamShape, Named, Stored

\* A stream that ends leaves the others alone, and nobody has the event loop.
LEMMA EndsStep ==
  ASSUME BlobInv, NEW x \in Stream, Ends(x), stage[x] = "writing" \/ loop = x,
         loop \in {None, x},
         UNCHANGED <<blob, shards, fresh>>,
         stored' \subseteq Hash,
         onDisk' \in [Hash -> SUBSET (Hash \cup {None, Torn})],
         Named', Stored'
  PROVE  BlobInv'
<1> USE HashFacts DEF Ends, BlobInv, BlobTypes
<1>1. BlobTypes'
  OBVIOUS
<1>2. StreamShape'
  BY DEF StreamShape, HashIsWanted
<1>3. QED  BY <1>1, <1>2

\* Every step of the store preserves its invariant.
LEMMA StepBlob ==
  ASSUME BlobInv, BlobStep \/ UNCHANGED blobVars
  PROVE  BlobInv'
<1> USE HashFacts
<1>1. ASSUME NEW x \in Stream, PullStarts(x) \/ ImportStarts(x) PROVE BlobInv'
  <2>1. BlobTypes'
    BY <1>1 DEF PullStarts, ImportStarts, Starts, BlobInv, BlobTypes
  <2>2. StreamShape'
    BY <1>1 DEF PullStarts, ImportStarts, Starts, BlobInv, BlobTypes, StreamShape,
       HashIsWanted
  <2>3. Named' /\ Stored'
    BY <1>1 DEF PullStarts, ImportStarts, Starts, BlobInv, Named, Stored
  <2>4. QED  BY <2>1, <2>2, <2>3 DEF BlobInv
<1>2. ASSUME NEW x \in Stream,
             StreamAborts(x) \/ HashMismatch(x) \/ SyncShardFails(x)
      PROVE  BlobInv'
  <2>1. /\ Ends(x) /\ UNCHANGED <<blob, onDisk, shards, fresh, stored>>
        /\ stage[x] = "writing" \/ loop = x
        /\ loop \in {None, x}
    BY <1>2 DEF StreamAborts, HashMismatch, SyncShardFails, GivesUp, MayRun, BlobInv,
       StreamShape
  <2>2. Named' /\ Stored'
    BY <2>1 DEF BlobInv, Named, Stored
  <2>3. QED  BY <2>1, <2>2, EndsStep DEF BlobInv, BlobTypes
<1>3. ASSUME NEW x \in Stream, LastByte(x) PROVE BlobInv'
  <2>1. BlobTypes'
    BY <1>3 DEF LastByte, BlobInv, BlobTypes, files
  <2>2. StreamShape'
    BY <1>3 DEF LastByte, MayRun, BlobInv, BlobTypes, StreamShape, files, HashIsWanted
  <2>3. Named' /\ Stored'
    BY <1>3 DEF LastByte, BlobInv, Named, Stored, files
  <2>4. QED  BY <2>1, <2>2, <2>3 DEF BlobInv
<1>4. ASSUME NEW x \in Stream, Rename(x) PROVE BlobInv'
  <2> DEFINE h == got[x]
  <2>1. /\ h \in Hash /\ loop = x /\ x \in synced /\ HashIsWanted(x)
        /\ stage' = [stage EXCEPT ![x] = "renamed"]
        /\ blob' = [blob EXCEPT ![h] = h]
        /\ onDisk' = [onDisk EXCEPT ![h] = @ \cup {h}]
        /\ shards' = shards \cup {h} /\ fresh \subseteq fresh' /\ fresh' \subseteq fresh \cup {h}
        /\ UNCHANGED <<got, wants, synced, stored, loop>>
        /\ h \notin stored \/ h \in fresh' \/ onDisk[h] = {h}
    BY <1>4 DEF Rename, NameOf, BlobInv, StreamShape, Stored
  <2>2. BlobTypes'
    BY <2>1 DEF BlobInv, BlobTypes
  <2>3. StreamShape'
    BY <2>1 DEF BlobInv, BlobTypes, StreamShape, HashIsWanted
  <2>4. Named' /\ Stored'
    BY <2>1 DEF BlobInv, BlobTypes, Named, Stored
  <2>5. QED  BY <2>2, <2>3, <2>4 DEF BlobInv
<1>5. ASSUME NEW x \in Stream, SyncShard(x) PROVE BlobInv'
  <2> DEFINE h == got[x]
             left == {blob[h]} \cup (IF h \in fresh THEN {None} ELSE {})
  <2>1. /\ h \in Hash /\ loop = x /\ blob[h] = h /\ Ends(x)
        /\ onDisk' = [onDisk EXCEPT ![h] = left]
        /\ stored' = stored \cup {h} /\ UNCHANGED <<blob, shards, fresh>>
    BY <1>5 DEF SyncShard, NameOf, BlobInv, StreamShape
  <2>2. /\ left \subseteq {h, None} /\ (h \notin fresh => left = {h})
    BY <2>1
  <2> HIDE DEF left
  <2>3. Named' /\ Stored'
    BY <2>1, <2>2 DEF BlobInv, BlobTypes, Named, Stored
  <2>4. onDisk' \in [Hash -> SUBSET (Hash \cup {None, Torn})] /\ stored' \subseteq Hash
    BY <2>1, <2>2 DEF BlobInv, BlobTypes
  <2>5. QED  BY <2>1, <2>3, <2>4, EndsStep
<1>6. ASSUME NEW h \in Hash, DeleteBlob(h) PROVE BlobInv'
  <2>1. BlobTypes'
    BY <1>6 DEF DeleteBlob, BlobInv, BlobTypes
  <2>2. StreamShape'
    BY <1>6 DEF DeleteBlob, BlobInv, BlobTypes, StreamShape, HashIsWanted
  <2>3. Named' /\ Stored'
    BY <1>6 DEF DeleteBlob, BlobInv, BlobTypes, Named, Stored
  <2>4. QED  BY <2>1, <2>2, <2>3 DEF BlobInv
<1>7. CASE UNCHANGED blobVars
  BY <1>7 DEF blobVars, files, BlobInv, BlobTypes, StreamShape, Named, Stored,
     HashIsWanted
<1>8. QED  BY <1>1, <1>2, <1>3, <1>4, <1>5, <1>6, <1>7 DEF BlobStep

\* What the kernel writes back is what programs see.
LEMMA WriteBackStep ==
  ASSUME BlobInv, NEW h \in Hash, WriteBack(h)
  PROVE  BlobInv'
<1> USE HashFacts DEF WriteBack, BlobInv, BlobTypes
<1>1. BlobTypes'
  OBVIOUS
<1>2. StreamShape'
  BY DEF StreamShape, HashIsWanted
<1>3. Named' /\ Stored'
  BY DEF Named, Stored
<1>4. QED  BY <1>1, <1>2, <1>3

\* A crash of the program or of the machine.
LEMMA CrashStep ==
  ASSUME BlobInv, BlobProcessDies \/ BlobPowerFails
  PROVE  BlobInv'
<1> USE HashFacts
<1>1. CASE BlobProcessDies
  BY <1>1 DEF BlobProcessDies, StreamsDie, BlobInv, BlobTypes, StreamShape, Named,
     Stored
<1>2. CASE BlobPowerFails
  <2>1. PICK found \in [Hash -> UNION {onDisk[h] : h \in Hash}] :
          /\ \A h \in Hash : found[h] \in onDisk[h]
          /\ blob' = found
          /\ onDisk' = [h \in Hash |-> {found[h]}]
          /\ LET lost == {h \in fresh : found[h] = None}
             IN shards' = shards \ lost /\ stored' = stored \ lost
    BY <1>2 DEF BlobPowerFails
  <2>2. \A h \in Hash : found[h] \in {h, None}
    BY <2>1 DEF BlobInv, Named
  <2>3. blob' \in [Hash -> Hash \cup {None}]
    BY <2>1, <2>2
  <2>4. BlobTypes'
    BY <1>2, <2>1, <2>2, <2>3 DEF BlobPowerFails, StreamsDie, BlobInv, BlobTypes
  <2>5. StreamShape'
    BY <1>2 DEF BlobPowerFails, StreamsDie, StreamShape
  <2>6. Named'
    BY <2>1, <2>2 DEF Named
  <2>7. Stored'
    <3> SUFFICES ASSUME NEW h \in stored'
                 PROVE  found[h] = h
      BY <2>1 DEF Stored, BlobInv, BlobTypes
    <3>1. h \in Hash /\ h \in stored /\ (h \in fresh => found[h] # None)
      BY <2>1 DEF BlobInv, BlobTypes
    <3>2. h \notin fresh => found[h] = h
      BY <2>1, <3>1 DEF BlobInv, Stored
    <3>3. QED  BY <2>2, <3>1, <3>2
  <2>8. QED  BY <2>4, <2>5, <2>6, <2>7 DEF BlobInv
<1>3. QED  BY <1>1, <1>2

------------------------------------------------------------------------------
(* The whole *)

LEMMA InitStorage == StorageInit => StorageInv
BY InitSafe, InitBlob DEF StorageInit, StorageInv, ServerInv

\* The steps of the llama-server: what it opens has the hash it was staged for.
LEMMA ServerStepInv ==
  ASSUME SafeInv, BlobInv, ServerInv, ServerStep
  PROVE  ServerInv'
<1> USE HashFacts DEF ServerInv
<1>1. CASE Stages
  BY <1>1, Kinds DEF Stages, SafeInv, ManifestTypeOK, AckedManifestSurvives
<1>2. CASE TakesOver \/ Stops
  BY <1>2 DEF TakesOver, Stops
<1>3. CASE Loads
  <2>1. /\ loading # None /\ loading.version \in Version \cup {None}
        /\ loading' = None
        /\ running' = IF Opens = None THEN None
                      ELSE [version |-> loading.version, content |-> Opens]
    BY <1>3 DEF Loads
  <2>2. Opens # None => Opens = loading.version.gguf
    BY <2>1 DEF Opens, Version, BlobInv, Named
  <2>3. QED  BY <2>1, <2>2
<1>4. QED  BY <1>1, <1>2, <1>3 DEF ServerStep

LEMMA StepStorage == StorageInv /\ [StorageNext]_vars => StorageInv'
<1> SUFFICES ASSUME StorageInv, [StorageNext]_vars PROVE StorageInv'
  OBVIOUS
<1> USE DEF StorageInv
<1>1. ASSUME ManifestNext \/ UNCHANGED manifestVars PROVE SafeInv'
  BY <1>1, StepSafe
<1>2. ASSUME UNCHANGED server PROVE ServerInv'
  BY <1>2 DEF server, ServerInv
<1>3. CASE ManifestStep /\ UNCHANGED <<blobVars, server>>
  BY <1>1, <1>2, <1>3, StepBlob DEF ManifestNext
<1>4. CASE BlobStep /\ UNCHANGED <<manifestVars, server>>
  BY <1>1, <1>2, <1>4, StepBlob
<1>5. CASE (\E h \in Hash : WriteBack(h)) /\ UNCHANGED <<manifestVars, server>>
  BY <1>1, <1>2, <1>5, WriteBackStep
<1>6. CASE ServerStep
  <2>1. UNCHANGED <<manifestVars, blobVars>>
    BY <1>6 DEF ServerStep, Stages, TakesOver, Loads, Stops
  <2>2. QED  BY <1>1, <1>6, <2>1, ServerStepInv, StepBlob
<1>7. CASE ProcessDies \/ PowerFails
  <2>1. SafeInv' /\ BlobInv'
    BY <1>1, <1>7, CrashStep DEF ProcessDies, PowerFails, ManifestNext
  <2>2. ServerInv'
    BY <1>7 DEF ProcessDies, PowerFails, ServerInv
  <2>3. QED  BY <2>1, <2>2
<1>8. CASE UNCHANGED vars
  BY <1>1, <1>2, <1>8, StepBlob DEF vars
<1>9. QED  BY <1>3, <1>4, <1>5, <1>6, <1>7, <1>8 DEF StorageNext

------------------------------------------------------------------------------
(* The theorems *)

\* In every reachable state of the storage its invariant holds.
THEOREM AlwaysStorage == StorageSpec => []StorageInv
BY InitStorage, StepStorage, PTL DEF StorageSpec

\* A blob answered with 200 survives a crash of the program or of the machine
\* until a DELETE, as soon as its shard directory is on the disk: write_stream
\* has synced the file before os.replace and the directory after it.
THEOREM BlobsSurvive == StorageSpec => []StoredBlobSurvives
<1>1. StorageInv => StoredBlobSurvives
  BY DEF StorageInv, BlobInv, BlobTypes, StreamShape, Named, Stored,
     StoredBlobSurvives, HashIsWanted
<1>2. QED  BY <1>1, AlwaysStorage, PTL

\* _process_slot starts the llama-server on the content its manifest named,
\* whatever is put, pulled and deleted while it is staged.
THEOREM NameIsContent == StorageSpec => []RunsWhatItNames
<1>1. StorageInv => RunsWhatItNames
  BY DEF StorageInv, ServerInv, RunsWhatItNames
<1>2. QED  BY <1>1, AlwaysStorage, PTL
==============================================================================
