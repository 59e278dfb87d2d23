---------------------------- MODULE ManifestStore -----------------------------
(***************************************************************************)
(* One model's manifest: GET, PUT with If-Match and DELETE of              *)
(* /api/manifests/{tag}, the atomic write of manifest.py, and what a power *)
(* failure may leave on the disk.  Tags have files of their own and do not *)
(* touch each other.  The routes never await, so nothing of the same       *)
(* manager runs between the steps of a write; a crash may come.            *)
(*                                                                         *)
(* A version is named by the write that made it, which no client sees;     *)
(* clients see its revision, the ETag.                                     *)
(***************************************************************************)
EXTENDS Integers, FiniteSets, DiskContents

CONSTANTS
  Client,
  MaxRevision,  \* bound on revisions
  MaxWrites     \* bound on writes

\* born: the write that created the file this version descends from.
Version == [rev : 1..MaxRevision, write : 1..MaxWrites, born : 1..MaxWrites,
            gguf : Hash]

ASSUME ManifestAssumption ==
  /\ MaxRevision \in Nat \ {0}
  /\ MaxWrites \in Nat \ {0}
  /\ None \notin Version \cup Client \cup Hash
  /\ Torn \notin Version \cup Hash \cup {None}

VARIABLES
  file,        \* the manifest file as programs see it
  stable,      \* what may be found in its place after a power failure
  put,         \* the write under way, or Idle
  etag,        \* [Client -> the version it last saw]
  writes,      \* how many writes were begun
  acked,       \* the last write answered with 200 since the last DELETE
  undone       \* writes a power failure has undone

manifestVars == <<file, stable, put, etag, writes, acked, undone>>

Idle == [at |-> "idle", client |-> None, new |-> None, read |-> None,
         synced |-> FALSE]

ManifestInit ==
  /\ file = None /\ stable = {None}
  /\ put = Idle
  /\ etag = [c \in Client |-> None]
  /\ writes = 0 /\ acked = 0 /\ undone = {}

Free == put.at = "idle"

------------------------------------------------------------------------------
\* GET answers with the manifest and its ETag; 404 teaches nothing.
Get(c) ==
  /\ Free /\ file # None
  /\ etag' = [etag EXCEPT ![c] = file]
  /\ UNCHANGED <<file, stable, put, writes, acked, undone>>

Begin(c, rev, born, read) ==
  /\ writes < MaxWrites /\ rev <= MaxRevision
  /\ \E h \in Hash :
       put' = [at |-> "temp", client |-> c, read |-> read, synced |-> FALSE,
               new |-> [rev |-> rev, write |-> writes + 1, born |-> born,
                        gguf |-> h]]
  /\ writes' = writes + 1
  /\ UNCHANGED <<file, stable, etag, acked, undone>>

\* No manifest yet: If-Match is not looked at, and the revision is the
\* payload's.
PutCreates(c) ==
  /\ Free /\ file = None
  /\ \E rev \in 1..MaxRevision : Begin(c, rev, writes + 1, None)

\* A mutant of IfMatch: any If-Match header will do.
IfMatchPresent(c) == etag[c] # None

\* If-Match names the current revision; without the header it is 412.
IfMatch(c) == etag[c] # None /\ etag[c].rev = file.rev

PutUpdates(c) ==
  /\ Free /\ file # None
  /\ IfMatch(c)
  /\ Begin(c, file.rev + 1, file.born, etag[c])

\* A mutant of SyncTemp: flush without fsync.
FlushTemp ==
  /\ put.at = "temp"
  /\ put' = [put EXCEPT !.at = "ready"]
  /\ UNCHANGED <<file, stable, etag, writes, acked, undone>>

\* flush and fsync of the temporary file.
SyncTemp ==
  /\ put.at = "temp"
  /\ put' = [put EXCEPT !.at = "ready", !.synced = TRUE]
  /\ UNCHANGED <<file, stable, etag, writes, acked, undone>>

\* os.replace: programs see the new version, the disk may not.
Replace ==
  /\ put.at = "ready"
  /\ file' = put.new
  /\ stable' = stable \cup {put.new} \cup (IF put.synced THEN {} ELSE {Torn})
  /\ put' = [put EXCEPT !.at = "replaced"]
  /\ UNCHANGED <<etag, writes, acked, undone>>

\* fsync of the directory, and 200 with the new ETag.
SyncDir ==
  /\ put.at = "replaced"
  /\ stable' = {file}
  /\ acked' = file.write
  /\ etag' = [etag EXCEPT ![put.client] = file]
  /\ put' = Idle
  /\ UNCHANGED <<file, writes, undone>>

\* The disk is full or broken: the temporary file is removed and the error
\* raised.  After os.replace that answers 500 for a PUT that took effect.
PutFails ==
  /\ ~Free
  /\ put' = Idle
  /\ UNCHANGED <<file, stable, etag, writes, acked, undone>>

\* DELETE takes no If-Match and syncs nothing.
Delete ==
  /\ Free /\ file # None
  /\ file' = None
  /\ stable' = stable \cup {None}
  /\ acked' = 0
  /\ UNCHANGED <<put, etag, writes, undone>>

\* The process dies: the file stays as programs see it.
ManifestProcessDies ==
  /\ put' = Idle
  /\ UNCHANGED <<file, stable, etag, writes, acked, undone>>

\* The machine loses power: one of the stable states is found, and the others
\* are gone.
ManifestPowerFails ==
  /\ put' = Idle
  /\ \E found \in stable :
       /\ file' = found
       /\ stable' = {found}
       /\ undone' = undone \cup {v.write : v \in stable \ {found, None, Torn}}
  /\ UNCHANGED <<etag, writes, acked>>

ManifestStep ==
  \/ \E c \in Client : Get(c) \/ PutCreates(c) \/ PutUpdates(c)
  \/ SyncTemp \/ Replace \/ SyncDir \/ PutFails \/ Delete

ManifestNext == ManifestStep \/ ManifestProcessDies \/ ManifestPowerFails

\* No fairness: nobody has to write.
ManifestSpec == ManifestInit /\ [][ManifestNext]_manifestVars

------------------------------------------------------------------------------
\* The shape of the state: the file is among what may be found after a power
\* failure, and a write under way has the newest number.
ManifestTypeOK ==
  /\ file \in Version \cup {None, Torn}
  /\ stable \subseteq Version \cup {None, Torn}
  /\ file \in stable
  /\ etag \in [Client -> Version \cup {None}]
  /\ put \in [at : {"idle", "temp", "ready", "replaced"},
              client : Client \cup {None}, new : Version \cup {None},
              read : Version \cup {None}, synced : BOOLEAN]
  /\ writes \in 0..MaxWrites /\ acked \in 0..MaxWrites
  /\ undone \subseteq 1..MaxWrites

\* A PUT answered with 200 survives a power failure, until a DELETE: what is
\* found is that version or a later one, never a torn file and never none
\* (manifest.py: fsync, os.replace, fsync of the directory, then the answer).
AckedManifestSurvives ==
  /\ Torn \notin stable
  /\ acked # 0 => \A v \in stable : v # None /\ v.write >= acked

\* An update replaces the version its client had read ("lost-update class"),
\* unless the manifest was deleted and created again since, or the version it
\* had read was undone by a power failure.
NoLostUpdate ==
  [][put.at = "ready" /\ put'.at = "replaced" /\ file # None =>
       \/ file.write = put.read.write
       \/ file.born # put.read.born
       \/ put.read.write \in undone]_manifestVars
==============================================================================
