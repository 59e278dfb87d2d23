------------------------- MODULE ManifestStoreProofs -------------------------
(***************************************************************************)
(* Theorems about ManifestStore, for any set of clients and contents and   *)
(* any bounds.  They rest on ManifestAssumption only.                      *)
(***************************************************************************)
EXTENDS ManifestStore, TLAPS

------------------------------------------------------------------------------
(* The inductive invariant *)

Writing == put.at \in {"temp", "ready"}

\* The versions somebody may still come across.
Known == (stable \cup {etag[c] : c \in Client}) \ {None}

\* The bound on their numbers: a write under way has a number of its own.
Newest == IF Writing THEN writes - 1 ELSE writes

\* What is known of the write under way.
PutShape ==
  /\ put.at # "idle" => /\ put.new \in Version /\ put.client \in Client
                        /\ put.new.write = writes
  /\ put.at \in {"ready", "replaced"} => put.synced
  /\ put.at = "replaced" => file = put.new

\* The version an update replaces, and the one its client had read.
Justified ==
  \/ file.write = put.read.write
  \/ file.born # put.read.born
  \/ put.read.write \in undone

\* The file does not change under a write: a creation starts a new descent, an
\* update is the next revision of the descent.
PutFollows ==
  Writing =>
    /\ file = None => put.new.born = writes
    /\ file # None => /\ put.new.born = file.born
                      /\ put.new.rev = file.rev + 1
                      /\ Justified

Numbered == \A v \in Known : v.write <= Newest /\ v.born <= Newest

AckedBound == acked <= writes

\* Of one descent, the file is the last revision the disk may hold.
FileIsLast ==
  \A v \in stable \ {None} :
    file # None /\ v.born = file.born =>
      v.rev <= file.rev /\ (v.rev = file.rev => v = file)

\* A version a client has read, and no power failure has undone, may still be
\* found on the disk or is older than all that may.
ReadIsPast ==
  \A c \in Client : \A v \in stable \ {None} :
    etag[c] # None /\ etag[c].write \notin undone /\ v.born = etag[c].born =>
      etag[c] \in stable \/ etag[c].rev < v.rev

SafeInv == ManifestTypeOK /\ PutShape /\ AckedBound /\ AckedManifestSurvives

IInv == SafeInv /\ PutFollows /\ Numbered /\ FileIsLast /\ ReadIsPast

------------------------------------------------------------------------------
(* Facts about versions *)

\* The numbers of a version are positive integers, and no version is None or
\* Torn.
LEMMA VersionFacts ==
  /\ \A v \in Version : /\ v.rev \in 1..MaxRevision /\ v.write \in 1..MaxWrites
                       /\ v.born \in 1..MaxWrites
                       /\ v # None /\ v # Torn
  /\ None # Torn
  /\ MaxRevision \in Nat /\ MaxWrites \in Nat
BY ManifestAssumption DEF Version

\* The state before a write was ever begun.
LEMMA InitSafe == ManifestInit => SafeInv
BY VersionFacts DEF ManifestInit, SafeInv, ManifestTypeOK, PutShape, AckedBound,
   AckedManifestSurvives, Idle

\* Init => IInv.
LEMMA InitIInv == ManifestInit => IInv
<1>1. ManifestInit => PutFollows /\ Numbered /\ FileIsLast /\ ReadIsPast
  BY DEF ManifestInit, PutFollows, Numbered, FileIsLast, ReadIsPast, Writing,
     Known, Idle
<1>2. QED  BY <1>1, InitSafe DEF IInv

------------------------------------------------------------------------------
(* The steps *)

\* Every step preserves the types, the shape of the write under way and what
\* was promised with 200.
LEMMA StepSafe == SafeInv /\ [ManifestNext]_manifestVars => SafeInv'
<1> SUFFICES ASSUME SafeInv, [ManifestNext]_manifestVars PROVE SafeInv'
  OBVIOUS
<1> USE VersionFacts
<1>1. ASSUME NEW c \in Client, Get(c) PROVE SafeInv'
  <2>1. file \in Version
    BY <1>1 DEF Get, SafeInv, ManifestTypeOK, AckedManifestSurvives
  <2>2. ManifestTypeOK'
    BY <1>1, <2>1 DEF Get, SafeInv, ManifestTypeOK
  <2>3. QED
    BY <1>1, <2>2 DEF Get, SafeInv, PutShape, AckedBound, AckedManifestSurvives
<1>2. ASSUME NEW c \in Client, NEW rev, NEW born, NEW read,
             rev \in Nat \ {0}, born \in 1..MaxWrites,
             read \in Version \cup {None}, Begin(c, rev, born, read)
      PROVE  SafeInv'
  <2>1. writes \in Nat /\ writes + 1 \in 1..MaxWrites /\ rev \in 1..MaxRevision
    BY <1>2 DEF Begin, SafeInv, ManifestTypeOK
  <2>2. PICK h \in Hash :
          put' = [at |-> "temp", client |-> c, read |-> read, synced |-> FALSE,
                  new |-> [rev |-> rev, write |-> writes + 1, born |-> born,
                           gguf |-> h]]
    BY <1>2 DEF Begin
  <2>3. put'.new \in Version
    BY <1>2, <2>1, <2>2 DEF Version
  <2>4. ManifestTypeOK'
    BY <1>2, <2>1, <2>2, <2>3 DEF Begin, SafeInv, ManifestTypeOK
  <2>5. PutShape'
    BY <1>2, <2>1, <2>2, <2>3 DEF Begin, PutShape
  <2>6. AckedBound' /\ AckedManifestSurvives'
    BY <1>2, <2>1 DEF Begin, SafeInv, ManifestTypeOK, AckedBound,
       AckedManifestSurvives
  <2>7. QED  BY <2>4, <2>5, <2>6 DEF SafeInv
<1>3. ASSUME NEW c \in Client, PutCreates(c) PROVE SafeInv'
  <2>1. PICK rev \in 1..MaxRevision : Begin(c, rev, writes + 1, None)
    BY <1>3 DEF PutCreates
  <2>2. writes + 1 \in 1..MaxWrites
    BY <2>1 DEF Begin, SafeInv, ManifestTypeOK
  <2>3. QED  BY <1>2, <2>1, <2>2
<1>4. ASSUME NEW c \in Client, PutUpdates(c) PROVE SafeInv'
  <2>1. file \in Version /\ etag[c] \in Version \cup {None}
    BY <1>4 DEF PutUpdates, SafeInv, ManifestTypeOK, AckedManifestSurvives
  <2>2. file.rev + 1 \in Nat \ {0} /\ file.born \in 1..MaxWrites
    BY <2>1
  <2>3. Begin(c, file.rev + 1, file.born, etag[c])
    BY <1>4 DEF PutUpdates
  <2>4. QED  BY <1>2, <2>1, <2>2, <2>3
<1>5. CASE SyncTemp
  <2>1. ManifestTypeOK' BY <1>5 DEF SyncTemp, SafeInv, ManifestTypeOK
  <2>2. QED
    BY <1>5, <2>1 DEF SyncTemp, SafeInv, ManifestTypeOK, PutShape, AckedBound,
       AckedManifestSurvives
<1>6. CASE Replace
  <2>1. put.new \in Version /\ put.synced /\ put.new.write = writes
    BY <1>6 DEF Replace, SafeInv, PutShape
  <2>2. ManifestTypeOK'
    BY <1>6, <2>1 DEF Replace, SafeInv, ManifestTypeOK
  <2>3. PutShape'
    BY <1>6, <2>1 DEF Replace, SafeInv, ManifestTypeOK, PutShape
  <2>4. AckedBound' /\ AckedManifestSurvives'
    BY <1>6, <2>1 DEF Replace, SafeInv, AckedBound, AckedManifestSurvives
  <2>5. QED  BY <2>2, <2>3, <2>4 DEF SafeInv
<1>7. CASE SyncDir
  <2>1. file \in Version /\ file.write = writes /\ put.client \in Client
    BY <1>7 DEF SyncDir, SafeInv, PutShape
  <2>2. ManifestTypeOK'
    BY <1>7, <2>1 DEF SyncDir, SafeInv, ManifestTypeOK, Idle
  <2>3. QED
    BY <1>7, <2>1, <2>2 DEF SyncDir, SafeInv, ManifestTypeOK, PutShape, AckedBound,
       AckedManifestSurvives, Idle
<1>8. CASE PutFails \/ ManifestProcessDies
  <2>1. /\ put' = Idle
        /\ UNCHANGED <<file, stable, etag, writes, acked, undone>>
    BY <1>8 DEF PutFails, ManifestProcessDies
  <2>2. ManifestTypeOK'
    BY <2>1 DEF SafeInv, ManifestTypeOK, Idle
  <2>3. QED
    BY <2>1, <2>2 DEF SafeInv, PutShape, AckedBound, AckedManifestSurvives, Idle
<1>9. CASE Delete
  <2>1. ManifestTypeOK' /\ AckedBound'
    BY <1>9 DEF Delete, SafeInv, ManifestTypeOK, AckedBound
  <2>2. QED
    BY <1>9, <2>1 DEF Delete, Free, SafeInv, PutShape, AckedManifestSurvives
<1>10. CASE ManifestPowerFails
  <2>1. PICK found \in stable :
          /\ file' = found /\ stable' = {found}
          /\ undone' = undone \cup {v.write : v \in stable \ {found, None, Torn}}
    BY <1>10 DEF ManifestPowerFails
  <2>2. {v.write : v \in stable \ {found, None, Torn}} \subseteq 1..MaxWrites
    BY DEF SafeInv, ManifestTypeOK
  <2>3. ManifestTypeOK'
    BY <1>10, <2>1, <2>2 DEF ManifestPowerFails, SafeInv, ManifestTypeOK, Idle
  <2>4. QED
    BY <1>10, <2>1, <2>3 DEF ManifestPowerFails, SafeInv, PutShape, AckedBound,
       AckedManifestSurvives, Idle
<1>11. CASE UNCHANGED manifestVars
  BY <1>11 DEF manifestVars, SafeInv, ManifestTypeOK, PutShape, AckedBound,
     AckedManifestSurvives
<1>12. QED
  BY <1>1, <1>3, <1>4, <1>5, <1>6, <1>7, <1>8, <1>9, <1>10, <1>11
     DEF ManifestNext, ManifestStep
\* What the versions of IInv are: all of them have numbers.
LEMMA Kinds ==
  ASSUME SafeInv
  PROVE  /\ stable \ {None} \subseteq Version
         /\ \A c \in Client : etag[c] # None => etag[c] \in Version
         /\ file # None => file \in stable \ {None}
         /\ writes \in Nat
BY VersionFacts DEF SafeInv, ManifestTypeOK, AckedManifestSurvives

\* A client reads the file, or has a version of its own written: then it knows
\* nothing that is not on the disk.
LEMMA GetStep ==
  ASSUME IInv, SafeInv', NEW c \in Client, Get(c)
  PROVE  IInv'
<1>1. /\ UNCHANGED <<file, stable, put, writes, acked, undone>>
      /\ file \in stable \ {None} /\ etag' = [etag EXCEPT ![c] = file]
      /\ etag \in [Client -> Version \cup {None}]
  BY Kinds DEF Get, IInv, SafeInv, ManifestTypeOK
<1>2. PutFollows' /\ FileIsLast'
  BY <1>1 DEF IInv, PutFollows, FileIsLast, Writing, Justified
<1>3. Known' \subseteq Known
  BY <1>1 DEF Known
<1>4. Numbered'
  BY <1>1, <1>3 DEF IInv, Numbered, Newest, Writing
<1>5. ReadIsPast'
  BY <1>1 DEF IInv, ReadIsPast
<1>6. QED  BY <1>2, <1>4, <1>5 DEF IInv

\* A write begins: its number is larger than all that are known.
LEMMA BeginStep ==
  ASSUME IInv, SafeInv', NEW c \in Client, NEW rev, NEW born, NEW read,
         Begin(c, rev, born, read),
         ~Writing,
         file = None => born = writes + 1,
         file # None => /\ born = file.born /\ rev = file.rev + 1
                        /\ \/ file.write = read.write
                           \/ file.born # read.born
                           \/ read.write \in undone
  PROVE  IInv'
<1>1. /\ UNCHANGED <<file, stable, etag, acked, undone>> /\ writes' = writes + 1
      /\ put'.at = "temp" /\ put'.read = read
      /\ put'.new.born = born /\ put'.new.rev = rev
  BY DEF Begin
<1>2. PutFollows'
  BY <1>1 DEF PutFollows, Justified, Writing
<1>3. FileIsLast' /\ ReadIsPast'
  BY <1>1 DEF IInv, FileIsLast, ReadIsPast
<1>4. Newest' = writes /\ Newest = writes /\ Known' = Known
  BY <1>1, Kinds DEF IInv, Newest, Writing, Known
<1>5. Numbered'
  BY <1>4 DEF IInv, Numbered
<1>6. QED  BY <1>2, <1>3, <1>5 DEF IInv

\* If-Match let the update through: the client had read the file, or what it
\* had read has been deleted or undone since.
LEMMA UpdateIsJustified ==
  ASSUME IInv, NEW c \in Client, file # None, IfMatch(c)
  PROVE  \/ file.write = etag[c].write
         \/ file.born # etag[c].born
         \/ etag[c].write \in undone
<1> SUFFICES ASSUME file.born = etag[c].born, etag[c].write \notin undone
             PROVE  file = etag[c]
  OBVIOUS
<1>1. /\ file \in stable \ {None} /\ file \in Version
      /\ etag[c] # None /\ etag[c] \in Version /\ etag[c].rev = file.rev
  BY Kinds DEF IInv, IfMatch
<1>2. etag[c] \in stable \/ etag[c].rev < file.rev
  BY <1>1 DEF IInv, ReadIsPast
<1>3. etag[c] \in stable \ {None}
  BY <1>1, <1>2, VersionFacts
<1>4. QED  BY <1>1, <1>3 DEF IInv, FileIsLast

\* os.replace: the new version is the last of its descent.
LEMMA ReplaceStep ==
  ASSUME IInv, SafeInv', Replace
  PROVE  IInv'
<1> DEFINE n == put.new
<1>1. /\ n \in Version /\ n.write = writes
      /\ file' = n /\ stable' = stable \cup {n} /\ put'.at = "replaced"
      /\ UNCHANGED <<etag, writes, acked, undone>>
      /\ Writing /\ ~Writing'
  <2>1. put.at = "ready" /\ put.synced /\ n \in Version /\ n.write = writes
    BY DEF Replace, IInv, SafeInv, PutShape
  <2>2. put' = [put EXCEPT !.at = "replaced"]
    BY DEF Replace
  <2>3. put'.at = "replaced"
    BY <2>2 DEF IInv, SafeInv, ManifestTypeOK
  <2>4. QED  BY <2>1, <2>3 DEF Replace, Writing
<1>2. /\ file = None => n.born = writes
      /\ file # None => n.born = file.born /\ n.rev = file.rev + 1
  BY <1>1 DEF IInv, PutFollows
<1>3. Newest = writes - 1 /\ Newest' = writes
  BY <1>1 DEF Newest
<1>4. file # None => /\ file \in Known /\ file \in Version
                     /\ file.born <= writes - 1
  BY <1>3, Kinds DEF IInv, Numbered, Known
<1>5. n.born <= writes
  BY <1>1, <1>2, <1>4, VersionFacts, Kinds DEF IInv
<1>6. \A v \in stable \ {None} :
        v.born = n.born => /\ file # None /\ v.born = file.born
                           /\ v.rev <= file.rev /\ v.rev < n.rev
  <2> SUFFICES ASSUME NEW v \in stable \ {None}, v.born = n.born
               PROVE  /\ file # None /\ v.born = file.born
                      /\ v.rev <= file.rev /\ v.rev < n.rev
    OBVIOUS
  <2>1. v \in Version /\ v.born <= writes - 1
    BY <1>3, Kinds DEF IInv, Numbered, Known
  <2>2. file # None
    BY <1>2, <2>1, VersionFacts, Kinds DEF IInv
  <2>3. v.rev <= file.rev
    BY <1>2, <2>2 DEF IInv, FileIsLast
  <2>4. QED  BY <1>2, <1>4, <2>1, <2>2, <2>3, VersionFacts
<1>7. PutFollows'
  BY <1>1 DEF PutFollows
<1>8. Numbered'
  <2>1. Known' \subseteq Known \cup {n}
    BY <1>1 DEF Known
  <2>2. \A v \in Known : v \in Version
    BY Kinds DEF IInv, Known
  <2>3. \A v \in Known : v.write <= writes /\ v.born <= writes
    BY <1>3, <2>2, VersionFacts, Kinds DEF IInv, Numbered
  <2>4. QED  BY <1>1, <1>3, <1>5, <2>1, <2>3, Kinds DEF Numbered, IInv
<1>9. FileIsLast'
  BY <1>1, <1>6, Kinds, VersionFacts DEF FileIsLast, IInv
<1>10. ReadIsPast'
  <2> SUFFICES ASSUME NEW c \in Client, NEW v \in stable' \ {None},
                      etag[c] # None, etag[c].write \notin undone,
                      v.born = etag[c].born
               PROVE  etag[c] \in stable' \/ etag[c].rev < v.rev
    BY <1>1 DEF ReadIsPast
  <2>1. CASE v \in stable
    BY <1>1, <2>1 DEF IInv, ReadIsPast
  <2>2. CASE v = n
    <3>1. etag[c] \in Version /\ etag[c] \in Known
      BY Kinds DEF IInv, Known
    <3>2. etag[c].born <= writes - 1
      BY <1>3, <3>1 DEF IInv, Numbered
    <3>3. file # None /\ file \in stable \ {None} /\ n.born = file.born
      BY <1>2, <2>2, <3>1, <3>2, VersionFacts, Kinds DEF IInv
    <3>4. etag[c] \in stable \/ etag[c].rev < file.rev
      BY <2>2, <3>3 DEF IInv, ReadIsPast
    <3>5. CASE etag[c] \in stable
      BY <1>1, <3>5
    <3>6. CASE etag[c].rev < file.rev
      BY <1>2, <1>4, <2>2, <3>1, <3>3, <3>6, VersionFacts
    <3>7. QED  BY <3>4, <3>5, <3>6
  <2>3. QED  BY <1>1, <2>1, <2>2
<1>11. QED  BY <1>7, <1>8, <1>9, <1>10 DEF IInv
\* fsync of the directory leaves the last of all descents only.
LEMMA SyncDirStep ==
  ASSUME IInv, SafeInv', SyncDir
  PROVE  IInv'
<1>1. /\ file \in stable \ {None} /\ stable' = {file}
      /\ put.client \in Client /\ etag' = [etag EXCEPT ![put.client] = file]
      /\ etag \in [Client -> Version \cup {None}]
      /\ UNCHANGED <<file, writes, undone>>
      /\ ~Writing /\ ~Writing'
  BY Kinds, VersionFacts
     DEF SyncDir, IInv, SafeInv, ManifestTypeOK, PutShape, Writing, Idle
<1>2. PutFollows' /\ FileIsLast'
  <2>1. file \in Version
    BY <1>1, Kinds DEF IInv
  <2>2. QED  BY <1>1, <2>1, VersionFacts DEF PutFollows, FileIsLast
<1>3. Numbered'
  <2>1. Known' \subseteq Known
    BY <1>1 DEF Known
  <2>2. Newest' = Newest
    BY <1>1 DEF Newest
  <2>3. QED  BY <2>1, <2>2 DEF IInv, Numbered
<1>4. ReadIsPast'
  <2> SUFFICES ASSUME NEW c \in Client, c # put.client,
                      etag[c] # None, etag[c].write \notin undone,
                      file.born = etag[c].born
               PROVE  etag[c] = file \/ etag[c].rev < file.rev
    BY <1>1 DEF ReadIsPast
  <2>1. etag[c] \in Version /\ file \in Version
    BY <1>1, Kinds DEF IInv
  <2>2. CASE etag[c] \in stable
    <3>1. etag[c].rev <= file.rev /\ (etag[c].rev = file.rev => etag[c] = file)
      BY <1>1, <2>2 DEF IInv, FileIsLast
    <3>2. QED  BY <2>1, <3>1, VersionFacts
  <2>3. CASE etag[c] \notin stable
    BY <1>1, <2>3 DEF IInv, ReadIsPast
  <2>4. QED  BY <2>2, <2>3
<1>5. QED  BY <1>2, <1>3, <1>4 DEF IInv

\* A write that fails, or dies with the process, leaves file and disk alone.
LEMMA PutEndsStep ==
  ASSUME IInv, SafeInv', PutFails \/ ManifestProcessDies
  PROVE  IInv'
<1>1. /\ put' = Idle /\ ~Writing'
      /\ UNCHANGED <<file, stable, etag, writes, acked, undone>>
  BY DEF PutFails, ManifestProcessDies, Writing, Idle
<1>2. PutFollows' /\ FileIsLast' /\ ReadIsPast'
  BY <1>1 DEF IInv, PutFollows, FileIsLast, ReadIsPast
<1>3. Numbered'
  <2>1. Known' = Known /\ Newest' = writes
    BY <1>1 DEF Known, Newest
  <2>2. \A v \in Known : v \in Version
    BY Kinds DEF IInv, Known
  <2>3. QED  BY <2>1, <2>2, VersionFacts, Kinds DEF IInv, Numbered, Newest
<1>4. QED  BY <1>2, <1>3 DEF IInv

\* Without a file there is nothing to be the last of.
LEMMA DeleteStep ==
  ASSUME IInv, SafeInv', Delete
  PROVE  IInv'
<1>1. /\ file' = None /\ stable' = stable \cup {None}
      /\ UNCHANGED <<put, etag, writes, undone>>
      /\ ~Writing /\ ~Writing'
  BY DEF Delete, Free, Writing
<1>2. PutFollows' /\ FileIsLast' /\ ReadIsPast'
  BY <1>1, Kinds DEF IInv, PutFollows, FileIsLast, ReadIsPast
<1>3. Numbered'
  BY <1>1 DEF IInv, Numbered, Newest, Known
<1>4. QED  BY <1>2, <1>3 DEF IInv

\* Power fails: what a client has read is what was found, or is undone, or is
\* older than what was found.
LEMMA PowerStep ==
  ASSUME IInv, SafeInv', ManifestPowerFails
  PROVE  IInv'
<1>1. /\ put' = Idle /\ ~Writing' /\ UNCHANGED <<etag, writes, acked>>
  BY DEF ManifestPowerFails, Writing, Idle
<1>2. PICK found \in stable :
        /\ file' = found /\ stable' = {found}
        /\ undone' = undone \cup {v.write : v \in stable \ {found, None, Torn}}
  BY DEF ManifestPowerFails
<1>3. PutFollows' /\ FileIsLast'
  <2>1. found # None => found \in Version
    BY <1>2, Kinds DEF IInv
  <2>2. QED  BY <1>1, <1>2, <2>1, VersionFacts DEF PutFollows, FileIsLast
<1>4. Numbered'
  <2>1. Known' \subseteq Known /\ Newest' = writes
    BY <1>1, <1>2 DEF Known, Newest
  <2>2. \A v \in Known : v \in Version
    BY Kinds DEF IInv, Known
  <2>3. QED  BY <2>1, <2>2, VersionFacts, Kinds DEF IInv, Numbered, Newest
<1>5. ReadIsPast'
  <2> SUFFICES ASSUME NEW c \in Client, found # None,
                      etag[c] # None, etag[c].write \notin undone',
                      found.born = etag[c].born
               PROVE  etag[c] = found \/ etag[c].rev < found.rev
    BY <1>1, <1>2 DEF ReadIsPast
  <2>1. etag[c] \in Version
    BY Kinds DEF IInv
  <2>2. etag[c] \notin stable \ {found, None, Torn}
    BY <1>2
  <2>3. etag[c] \notin stable \/ etag[c] = found
    BY <2>1, <2>2, VersionFacts
  <2>4. QED  BY <1>2, <2>3 DEF IInv, ReadIsPast
<1>6. QED  BY <1>3, <1>4, <1>5 DEF IInv

\* Every step preserves the inductive invariant.
LEMMA StepIInv == IInv /\ [ManifestNext]_manifestVars => IInv'
<1> SUFFICES ASSUME IInv, [ManifestNext]_manifestVars PROVE IInv'
  OBVIOUS
<1>1. SafeInv'
  BY StepSafe DEF IInv
<1>2. ASSUME NEW c \in Client, PutCreates(c) PROVE IInv'
  <2>1. PICK rev \in 1..MaxRevision : Begin(c, rev, writes + 1, None)
    BY <1>2 DEF PutCreates
  <2>2. ~Writing /\ file = None
    BY <1>2 DEF PutCreates, Free, Writing
  <2>3. QED  BY <1>1, <2>1, <2>2, BeginStep
<1>3. ASSUME NEW c \in Client, PutUpdates(c) PROVE IInv'
  <2>1. /\ ~Writing /\ file # None /\ IfMatch(c)
        /\ Begin(c, file.rev + 1, file.born, etag[c])
    BY <1>3 DEF PutUpdates, Free, Writing
  <2>2. QED  BY <1>1, <2>1, BeginStep, UpdateIsJustified
<1>4. CASE SyncTemp
  <2>1. /\ UNCHANGED <<file, stable, etag, writes, acked, undone>>
        /\ put'.new = put.new /\ put'.read = put.read /\ Writing /\ Writing'
    BY <1>4 DEF SyncTemp, IInv, SafeInv, ManifestTypeOK, Writing
  <2>2. QED
    BY <1>1, <2>1 DEF IInv, PutFollows, Justified, Numbered, Newest, Known,
       FileIsLast, ReadIsPast
<1>5. CASE UNCHANGED manifestVars
  BY <1>1, <1>5 DEF manifestVars, IInv, PutFollows, Justified, Numbered, Newest,
     Known, FileIsLast, ReadIsPast, Writing
<1>6. QED
  BY <1>1, <1>2, <1>3, <1>4, <1>5, GetStep, ReplaceStep, SyncDirStep, PutEndsStep,
     DeleteStep, PowerStep
     DEF ManifestNext, ManifestStep

------------------------------------------------------------------------------
(* The theorems *)

\* In every reachable state IInv holds.
THEOREM AlwaysIInv == ManifestSpec => []IInv
BY InitIInv, StepIInv, PTL DEF ManifestSpec

\* write_manifest_atomic, DELETE and a power failure keep the state's shape.
THEOREM ManifestTypes == ManifestSpec => []ManifestTypeOK
<1>1. IInv => ManifestTypeOK
  BY DEF IInv, SafeInv
<1>2. QED  BY <1>1, AlwaysIInv, PTL

\* A PUT answered with 200 is not lost to a crash of the program or of the
\* machine: write_manifest_atomic has synced the file before os.replace and the
\* directory after it.
THEOREM AcknowledgedSurvives == ManifestSpec => []AckedManifestSurvives
<1>1. IInv => AckedManifestSurvives
  BY DEF IInv, SafeInv
<1>2. QED  BY <1>1, AlwaysIInv, PTL

\* If-Match keeps every update of write_manifest_atomic from replacing a version
\* its client has not read.
THEOREM UpdatesAreNotLost == ManifestSpec => NoLostUpdate
<1>1. IInv /\ [ManifestNext]_manifestVars =>
        [put.at = "ready" /\ put'.at = "replaced" /\ file # None =>
           \/ file.write = put.read.write
           \/ file.born # put.read.born
           \/ put.read.write \in undone]_manifestVars
  BY DEF IInv, PutFollows, Justified, Writing
<1>2. QED  BY <1>1, AlwaysIInv, PTL DEF ManifestSpec, NoLostUpdate
==============================================================================
