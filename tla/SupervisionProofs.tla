---------------------------- MODULE SupervisionProofs ---------------------------
(***************************************************************************)
(* Theorems about Supervision, for any number of processes and of deaths   *)
(* of the manager.  They rest on SupervisionAssumption only.               *)
(***************************************************************************)
EXTENDS Supervision, TLAPS

------------------------------------------------------------------------------
(* The inductive invariant *)

BootPcs  == {"down", "bootscan", "bootreap"}
OwnPcs   == {"loading", "serving", "finally", "teardown", "swap"}
WaitPcs  == {"finally", "teardown", "swap"}

Types ==
  /\ state \in [Proc -> {"none", "running", "zombie", "gone"}]
  /\ parent \in [Proc -> Proc \cup Outside \cup {None}]
  /\ family \in [Proc -> Proc \cup {None}]
  /\ detached \subseteq Proc /\ signalled \subseteq Proc /\ unseen \subseteq Proc
  /\ unscanned \subseteq Proc
  /\ pc \in BootPcs \cup OwnPcs \cup {"idle"}
  /\ draining \in [Proc -> {"no", "term", "kill", "verify", "scan"}]
  /\ todo \subseteq Proc /\ target \in todo \cup {None}

\* Which handle the worker has, what it waits for, and who scans.
Shape ==
  /\ leader \in IF pc \in OwnPcs THEN Proc ELSE {None}
  /\ holder \in Proc \cup {None} /\ (holder # None => pc = "idle")
  /\ holder # None => draining[holder] = "no"
  /\ pc \in {"loading", "serving"} => draining[leader] = "no"
  /\ pc \in WaitPcs => draining[leader] # "no"
  /\ pc = "finally" => draining[leader] \in {"term", "kill"}
  /\ pc \in BootPcs => draining = NoDrains /\ unscanned = {}
  /\ \A g, h \in Proc : draining[g] = "scan" /\ draining[h] = "scan" => g = h
  /\ Free /\ pc # "bootreap" => todo = {}
  /\ target = None => ~killed /\ ~mistaken

\* Who is on the reaper's list was an orphan when it was listed.
Listed ==
  \A p \in todo :
    /\ state[p] # "none"
    /\ parent[p] = "reaper" \/ (parent[p] = "manager" /\ reaper = "self")
    /\ state[p] = "zombie" => reaper \in {"idles", "self"}

\* A sidecar of the manager's is in a process group of its own.
Own ==
  \A h \in Attended \cup unscanned :
    family[h] = h /\ h \notin detached /\ state[h] # "none"

\* A running process has a family, and its parent is the head of it or is
\* outside.
Kin ==
  /\ \A p \in detached : state[p] # "none"
  /\ \A p \in Running :
       /\ family[p] \in Proc
       /\ \/ parent[p] \in Outside
          \/ parent[p] = family[p] /\ family[p] # p /\ family[p] \in Running
       /\ parent[p] = "manager" => p = family[p]

\* What a scan has still to deal with, and what is beyond it.
Older ==
  \A p \in Running :
    /\ pc \notin BootPcs => family[p] \in Attended \cup unscanned \/ Beyond(p)
    /\ pc = "bootreap" => p \in todo \/ Beyond(p)
    /\ \A h \in Proc : draining[h] = "scan" =>
         p \in todo \/ family[p] \in Attended \ {h} \/ Beyond(p)
    /\ pc \notin {"down", "bootscan"} /\ family[p] = p /\ parent[p] = "reaper"
         /\ reaper = "apart" => p \in unseen

\* SIGKILL was sent, or nothing was left to send it to: who is still there is
\* stuck.
Stuck ==
  /\ \A h \in Running :
       draining[h] \in {"kill", "verify", "scan"} \/ h \in unscanned => h \in defied
  /\ killed /\ target \in Running => target \in defied

\* Who was told to stop.
Noticed ==
  /\ \A h \in Running : draining[h] # "no" => h \in signalled
  /\ target # None => target \in signalled
  /\ \A p \in Running :
       /\ pc \notin BootPcs => \/ family[p] \in Attended \cup unscanned
                               \/ p \in signalled \/ pinned
                               \/ p \in unseen \/ family[p] \in unseen
       /\ pc = "bootreap" => \/ p \in todo \/ p \in signalled
                             \/ p \in unseen \/ family[p] \in unseen

SupInv ==
  /\ Types /\ Shape /\ Listed /\ Own /\ Kin /\ Older /\ Stuck /\ Noticed

------------------------------------------------------------------------------
(* Processes *)

\* Nothing has been started.
LEMMA InitSup == SupervisionInit => SupInv
<1> SUFFICES ASSUME SupervisionInit PROVE SupInv
  OBVIOUS
<1> USE SupervisionAssumption DEF SupervisionInit
<1>1. Running = {} /\ Attended = {} /\ NoDrains = [h \in Proc |-> "no"]
  BY DEF Running, Attended, InTeardown, NoDrains
<1>2. Types
  BY <1>1 DEF Types, BootPcs, OwnPcs
<1>3. Shape
  BY <1>1 DEF Shape, BootPcs, OwnPcs, WaitPcs
<1>4. Listed /\ Own /\ Kin /\ Older /\ Stuck /\ Noticed
  BY <1>1 DEF Listed, Own, Kin, Older, Stuck, Noticed
<1>5. QED  BY <1>2, <1>3, <1>4 DEF SupInv

\* Some running processes end: the others stay what they were, and children
\* of those that ended are adopted.
LEMMA EndFacts ==
  ASSUME SupInv, NEW ended \in SUBSET Running, state' = EndOf(ended), Adopt(ended),
         UNCHANGED <<family, detached, unseen, host, todo>>,
         defied \subseteq defied'
  PROVE  /\ Running' = Running \ ended /\ Running \subseteq Proc
         /\ state' \in [Proc -> {"none", "running", "zombie", "gone"}]
         /\ parent' \in [Proc -> Proc \cup Outside \cup {None}]
         /\ \A p \in Proc : state'[p] = "none" <=> state[p] = "none"
         /\ \A p \in Proc : parent[p] \in Outside => parent'[p] = parent[p]
         /\ \A p \in Proc : Beyond(p) => Beyond(p)'
         /\ \A p \in Proc : family[p] = p /\ p \in Running => parent'[p] = parent[p]
         /\ Listed'
         /\ Kin'
<1> USE SupervisionAssumption DEF SupInv, Types
<1>1. \A p \in Proc : /\ p \in ended => state'[p] = IF NotWaitedFor(p) THEN "zombie" ELSE "gone"
                      /\ p \notin ended => state'[p] = state[p]
  BY DEF EndOf
<1>2. \A p \in Proc : state[p] = "running" <=> p \in Running
  BY DEF Running
<1>3. /\ Running' = Running \ ended /\ Running \subseteq Proc
      /\ \A p \in Proc : state'[p] = "none" <=> state[p] = "none"
  BY <1>1, <1>2 DEF Running
<1>4. state' \in [Proc -> {"none", "running", "zombie", "gone"}]
  BY DEF EndOf
<1>5. parent' = [p \in Proc |-> IF parent[p] \in ended THEN "reaper" ELSE parent[p]]
  BY DEF Adopt
<1>6. parent' \in [Proc -> Proc \cup Outside \cup {None}]
  BY <1>5 DEF Outside
<1>7. \A p \in Proc : /\ parent[p] \in Outside => parent'[p] = parent[p]
                      /\ parent[p] \in ended => parent'[p] = "reaper"
                      /\ parent[p] \notin ended => parent'[p] = parent[p]
  BY <1>3, <1>5
<1>8. \A p \in Proc : Beyond(p) => Beyond(p)'
  BY <1>7 DEF Beyond, Outside, host
<1>9. Listed'
  <2>1. ASSUME NEW p \in todo
        PROVE  /\ state'[p] # "none"
               /\ parent'[p] = "reaper" \/ (parent'[p] = "manager" /\ reaper = "self")
               /\ state'[p] = "zombie" => reaper \in {"idles", "self"}
    <3>1. /\ p \in Proc /\ state[p] # "none"
          /\ parent[p] = "reaper" \/ (parent[p] = "manager" /\ reaper = "self")
          /\ state[p] = "zombie" => reaper \in {"idles", "self"}
      BY DEF Listed
    <3>2. parent'[p] = parent[p]
      BY <3>1, <1>7 DEF Outside
    <3>3. state'[p] = "zombie" => reaper \in {"idles", "self"}
      BY <3>1, <1>1 DEF NotWaitedFor
    <3>4. QED  BY <3>1, <3>2, <3>3, <1>3
  <2>2. QED  BY <2>1 DEF Listed, host
<1>10. ASSUME NEW p \in Running
       PROVE  /\ p \in Proc /\ family[p] \in Proc
              /\ \/ parent[p] \in Outside
                 \/ parent[p] = family[p] /\ family[p] # p /\ family[p] \in Running
              /\ parent[p] = "manager" => p = family[p]
  BY <1>3 DEF Kin
<1>11. \A p \in Proc : family[p] = p /\ p \in Running => parent'[p] = parent[p]
  BY <1>7, <1>10
<1>12. Kin'
  <2>1. ASSUME NEW p \in Running, p \notin ended
        PROVE  /\ family[p] \in Proc
               /\ \/ parent'[p] \in Outside
                  \/ parent'[p] = family[p] /\ family[p] # p /\ family[p] \in Running \ ended
               /\ parent'[p] = "manager" => p = family[p]
    <3>1. CASE parent[p] \in ended
      BY <3>1, <1>10, <1>7 DEF Outside
    <3>2. CASE parent[p] \notin ended
      BY <3>2, <1>10, <1>7
    <3>3. QED  BY <3>1, <3>2
  <2>2. \A p \in detached' : state'[p] # "none"
    BY <1>3 DEF Kin
  <2>3. QED  BY <2>1, <2>2, <1>3 DEF Kin
<1>13. QED  BY <1>3, <1>4, <1>6, <1>7, <1>8, <1>9, <1>11, <1>12

\* Processes end, of themselves or by SIGKILL, and nothing else changes but
\* who has defied it.
LEMMA SomeEnd ==
  ASSUME SupInv, NEW ended \in SUBSET Running, state' = EndOf(ended), Adopt(ended),
         UNCHANGED <<family, detached, signalled, unseen, host, worker, draining,
                     unscanned, todo, target>>,
         defied \subseteq defied'
  PROVE  Types' /\ Listed' /\ Own' /\ Kin' /\ Older' /\ Noticed'
<1> USE SupervisionAssumption DEF SupInv, worker, host
<1>1. /\ Running' = Running \ ended /\ Running \subseteq Proc
      /\ state' \in [Proc -> {"none", "running", "zombie", "gone"}]
      /\ parent' \in [Proc -> Proc \cup Outside \cup {None}]
      /\ \A p \in Proc : state'[p] = "none" <=> state[p] = "none"
      /\ \A p \in Proc : parent[p] \in Outside => parent'[p] = parent[p]
      /\ \A p \in Proc : Beyond(p) => Beyond(p)'
      /\ \A p \in Proc : family[p] = p /\ p \in Running => parent'[p] = parent[p]
      /\ Listed' /\ Kin'
  BY EndFacts
<1>2. Attended' = Attended /\ Attended \cup unscanned \subseteq Proc
  BY DEF Attended, InTeardown, Types, Shape
<1>3. Types'
  BY <1>1 DEF Types
<1>4. Own'
  BY <1>1, <1>2 DEF Own
<1>5. Older'
  <2>1. \A p \in Running' : p \in Proc /\ p \in Running
    BY <1>1
  <2>2. QED  BY <1>1, <1>2, <2>1 DEF Older
<1>6. Noticed'
  BY <1>1, <1>2 DEF Noticed
<1>7. QED  BY <1>1, <1>3, <1>4, <1>5, <1>6

\* A process ends by itself.
LEMMA ExitsStep ==
  ASSUME SupInv, NEW p \in Proc, Exits(p)
  PROVE  SupInv'
<1> USE DEF Exits, signals, scan, worker, host
<1>1. Types' /\ Listed' /\ Own' /\ Kin' /\ Older' /\ Noticed'
  BY SomeEnd
<1>2. Running' \subseteq Running
  BY EndFacts
<1>3. Shape' /\ Stuck'
  BY <1>2 DEF SupInv, Shape, Stuck, Free
<1>4. QED  BY <1>1, <1>3 DEF SupInv

\* A pid changes hands.
LEMMA PidSteps ==
  ASSUME SupInv, NEW p \in Proc, PidIsRecycled(p) \/ StrangerExits(p)
  PROVE  SupInv'
<1>1. UNCHANGED <<state, parent, family, detached, signalled, defied, unseen, pinned,
                  reaper, leader, holder, pc, draining, unscanned, todo, target,
                  mistaken, killed>>
  BY DEF PidIsRecycled, StrangerExits, processes, signals, host, worker
<1>2. QED
  BY <1>1 DEF SupInv, Types, Shape, Listed, Own, Kin, Older, Stuck, Noticed, Running,
     Attended, InTeardown, Beyond, Free

\* Steps that leave the processes alone keep what is said of them alone.
LEMMA SameProcesses ==
  ASSUME SupInv, UNCHANGED <<processes, defied, unseen, host>>
  PROVE  /\ Running' = Running /\ Running \subseteq Proc
         /\ \A p : Beyond(p)' <=> Beyond(p)
         /\ Kin'
         /\ /\ state' \in [Proc -> {"none", "running", "zombie", "gone"}]
            /\ parent' \in [Proc -> Proc \cup Outside \cup {None}]
            /\ family' \in [Proc -> Proc \cup {None}]
            /\ detached' \subseteq Proc /\ unseen' \subseteq Proc
  BY DEF SupInv, Types, processes, host, Running, Beyond, Kin

\* A llama-server starts a helper: it is attended to as that one is, or as
\* little to be seen.
LEMMA ForksStep ==
  ASSUME SupInv, NEW p \in Proc, NEW q \in Proc, Forks(q, p)
  PROVE  SupInv'
<1> USE SupervisionAssumption DEF SupInv
<1>1. /\ q \in Running /\ q \notin defied /\ family[q] = q /\ state[p] = "none"
      /\ state' = [state EXCEPT ![p] = "running"]
      /\ parent' = [parent EXCEPT ![p] = q]
      /\ family' = [family EXCEPT ![p] = q]
      /\ detached' \in {detached, detached \cup {p}}
      /\ unseen' = IF pc = "bootreap" THEN unseen \cup {p} ELSE unseen
      /\ UNCHANGED <<signalled, defied, pinned, reaper, leader, holder, pc, draining,
                     unscanned, todo, target, mistaken, killed>>
  BY DEF Forks, signals, scan, worker, host
<1>2. /\ Running' = Running \cup {p} /\ p \notin Running /\ Running \subseteq Proc
      /\ \A r \in Proc : r # p => /\ state'[r] = state[r] /\ parent'[r] = parent[r]
                                  /\ family'[r] = family[r]
      /\ state'[p] = "running" /\ parent'[p] = q /\ family'[p] = q
      /\ p # q /\ unseen \subseteq unseen'
  BY <1>1 DEF Running, Types
<1>3. \A r \in Proc : r # p /\ Beyond(r) => Beyond(r)'
  BY <1>1, <1>2 DEF Beyond
<1>4. Attended' = Attended
  BY <1>1 DEF Attended, InTeardown
<1>5. p \notin Attended \cup unscanned \cup todo \cup detached
  BY <1>1 DEF Own, Listed, Kin
<1>6. q \notin Outside /\ parent[q] \in Outside
  BY <1>1, <1>2 DEF Kin
<1>7. Types'
  BY <1>1 DEF Types
<1>8. Shape'
  BY <1>1 DEF Shape, Free
<1>9. Listed' /\ Own'
  <2>1. todo \subseteq Proc /\ Attended \cup unscanned \subseteq Proc
    BY DEF Types, Attended, InTeardown, Shape
  <2>2. QED  BY <1>1, <1>2, <1>4, <1>5, <2>1 DEF Listed, Own
<1>10. Kin'
  <2>1. ASSUME NEW r \in Running
        PROVE  /\ r \in Proc /\ family'[r] \in Proc
               /\ \/ parent'[r] \in Outside
                  \/ parent'[r] = family'[r] /\ family'[r] # r /\ family'[r] \in Running
               /\ parent'[r] = "manager" => r = family'[r]
    BY <1>2, <2>1 DEF Kin
  <2>2. \A r \in detached' : state'[r] # "none"
    BY <1>1, <1>2 DEF Kin, Types
  <2>3. QED  BY <1>1, <1>2, <1>6, <2>1, <2>2 DEF Kin, Outside
<1>11. pc \notin BootPcs => q \in Attended \cup unscanned \/ pinned \/ q \in unseen
  BY <1>1, <1>6 DEF Older, Beyond, BootPcs
<1>12. Older'
  <2>1. pc = "bootreap" => p \in unseen'
    BY <1>1
  <2>2. ASSUME NEW h \in Proc, draining[h] = "scan"
        PROVE  q \in Attended \ {h} \/ pinned \/ q \in unseen
    <3>1. pc \notin BootPcs
      BY <2>2 DEF Shape, NoDrains
    <3>2. q # h /\ q \notin unscanned
      BY <1>1, <2>2 DEF Stuck
    <3>3. QED  BY <3>1, <3>2, <1>11
  <2>3. ASSUME NEW r \in Running
        PROVE  /\ pc \notin BootPcs => family[r] \in Attended \cup unscanned \/ Beyond(r)'
               /\ pc = "bootreap" => r \in todo \/ Beyond(r)'
               /\ \A h \in Proc : draining[h] = "scan" =>
                    r \in todo \/ family[r] \in Attended \ {h} \/ Beyond(r)'
               /\ pc \notin {"down", "bootscan"} /\ family[r] = r /\ parent[r] = "reaper"
                    /\ reaper = "apart" => r \in unseen'
    <3>1. r # p /\ r \in Proc
      BY <1>2
    <3>2. Beyond(r) => Beyond(r)'
      BY <3>1, <1>3
    <3>3. QED  BY <3>2, <1>2 DEF Older
  <2>4. \A r \in Running : r # p /\ r \in Proc /\ family'[r] = family[r] /\ parent'[r] = parent[r]
    BY <1>2
  <2>5. /\ pc \notin BootPcs => q \in Attended \cup unscanned \/ Beyond(p)'
        /\ pc = "bootreap" => Beyond(p)'
        /\ \A h \in Proc : draining[h] = "scan" => q \in Attended \ {h} \/ Beyond(p)'
    BY <1>1, <1>2, <1>11, <2>1, <2>2 DEF Beyond
  <2>6. QED  BY <1>1, <1>2, <1>4, <2>3, <2>4, <2>5 DEF Older
<1>13. Stuck'
  BY <1>1, <1>2, <1>5 DEF Stuck, Attended, InTeardown, Shape, Types
<1>14. Noticed'
  <2>1. draining[p] = "no"
    BY <1>5 DEF Attended, InTeardown, Types
  <2>2. QED  BY <1>1, <1>2, <1>4, <1>11, <2>1 DEF Noticed, BootPcs
<1>15. QED  BY <1>7, <1>8, <1>9, <1>10, <1>12, <1>13, <1>14

------------------------------------------------------------------------------
(* The life of a sidecar *)

\* A llama-server is started.
LEMMA SpawnStep ==
  ASSUME SupInv, NEW p \in Proc, Spawn(p)
  PROVE  SupInv'
<1> USE SupervisionAssumption DEF SupInv
<1>1. /\ Free /\ pc = "idle" /\ pc' = "loading" /\ leader = None /\ leader' = p
      /\ holder = None /\ state[p] = "none" /\ todo = {} /\ target = None
      /\ state' = [state EXCEPT ![p] = "running"]
      /\ parent' = [parent EXCEPT ![p] = "manager"]
      /\ family' = [family EXCEPT ![p] = p]
      /\ UNCHANGED <<detached, signalled, defied, unseen, pinned, reaper, holder, draining,
                     unscanned, todo, target, mistaken, killed>>
  BY DEF Spawn, signals, scan, host, Shape, Types, OwnPcs
<1>2. /\ Running' = Running \cup {p} /\ p \notin Running /\ Running \subseteq Proc
      /\ \A r \in Proc : r # p => /\ state'[r] = state[r] /\ parent'[r] = parent[r]
                                  /\ family'[r] = family[r]
      /\ state'[p] = "running" /\ parent'[p] = "manager" /\ family'[p] = p
  BY <1>1 DEF Running, Types
<1>3. \A r \in Proc : r # p => (Beyond(r) <=> Beyond(r)')
  BY <1>1, <1>2 DEF Beyond
<1>4. /\ Attended' = Attended \cup {p} /\ Attended \cup unscanned \subseteq Proc
      /\ p \notin Attended \cup unscanned \cup detached
  <2>1. p \notin Attended \cup unscanned \cup detached
    BY <1>1 DEF Own, Kin
  <2>2. Attended' = Attended \cup {p} /\ Attended \cup unscanned \subseteq Proc
    BY <1>1 DEF Attended, InTeardown, Types
  <2>3. QED  BY <2>1, <2>2
<1>5. Types'
  BY <1>1 DEF Types, OwnPcs, Outside
<1>6. Shape'
  <2>1. draining[p] = "no"
    BY <1>4 DEF Attended, InTeardown, Types
  <2>2. QED  BY <1>1, <2>1 DEF Shape, OwnPcs, WaitPcs, BootPcs, Free
<1>7. Listed' /\ Own'
  BY <1>1, <1>2, <1>4 DEF Listed, Own
<1>8. Kin'
  <2>1. ASSUME NEW r \in Running
        PROVE  /\ r \in Proc /\ family'[r] \in Proc
               /\ \/ parent'[r] \in Outside
                  \/ parent'[r] = family'[r] /\ family'[r] # r /\ family'[r] \in Running
               /\ parent'[r] = "manager" => r = family'[r]
    BY <1>2, <2>1 DEF Kin
  <2>2. QED  BY <1>1, <1>2, <2>1 DEF Kin, Outside, Types
<1>9. Older'
  BY <1>1, <1>2, <1>3, <1>4 DEF Older, BootPcs, Free
<1>10. Stuck'
  BY <1>1, <1>2, <1>4 DEF Stuck, Attended, InTeardown, Shape, Types
<1>11. Noticed'
  BY <1>1, <1>2, <1>4 DEF Noticed, BootPcs, Attended, InTeardown, Types
<1>12. QED  BY <1>5, <1>6, <1>7, <1>8, <1>9, <1>10, <1>11

\* A handle passes between the worker and the holder, the health wait is over,
\* or the boot begins.
LEMMA HandSteps ==
  ASSUME SupInv, IsHealthy \/ Inherits \/ Holds \/ Boots
  PROVE  SupInv'
<1> USE SupervisionAssumption DEF SupInv
<1>1. /\ UNCHANGED <<processes, signalled, defied, unseen, host, draining, unscanned,
                     todo, target, mistaken, killed>>
      /\ Attended' = Attended
      /\ Shape'
      /\ pc' \in {"serving", "idle", "bootscan"}
      /\ pc' = "bootscan" <=> pc \in BootPcs
      /\ pc' = "bootscan" => pc = "down"
  <2>1. CASE IsHealthy
    BY <2>1 DEF IsHealthy, signals, scan, Attended, InTeardown, Shape, OwnPcs,
       WaitPcs, BootPcs, Free, Types
  <2>2. CASE Inherits
    BY <2>2 DEF Inherits, signals, scan, Attended, InTeardown, Shape, OwnPcs,
       WaitPcs, BootPcs, Free, Types
  <2>3. CASE Holds
    BY <2>3 DEF Holds, signals, scan, Attended, InTeardown, Shape, OwnPcs,
       WaitPcs, BootPcs, Free, Types
  <2>4. CASE Boots
    BY <2>4 DEF Boots, signals, scan, Attended, InTeardown, Shape, OwnPcs,
       WaitPcs, BootPcs, Free, Types
  <2>5. QED  BY <2>1, <2>2, <2>3, <2>4
<1>2. /\ Running' = Running /\ Running \subseteq Proc
      /\ \A p : Beyond(p)' <=> Beyond(p)
      /\ Kin'
  BY <1>1, SameProcesses
<1>3. Types'
  BY <1>1, SameProcesses DEF Types, OwnPcs, BootPcs
<1>4. Listed' /\ Own'
  BY <1>1 DEF Listed, Own, processes, host
<1>5. Older'
  BY <1>1, <1>2 DEF Older, processes, host, BootPcs
<1>6. Stuck' /\ Noticed'
  BY <1>1, <1>2 DEF Stuck, Noticed, processes, host, BootPcs
<1>7. QED  BY <1>1, <1>2, <1>3, <1>4, <1>5, <1>6

\* drained_sigterm begins: the sidecar is in its process group, and hears of it
\* if it runs.
LEMMA SigtermSteps ==
  ASSUME SupInv, Expires \/ Swaps \/ BeginsTeardown \/ Raises
  PROVE  SupInv'
<1> USE SupervisionAssumption DEF SupInv
<1>1. PICK h \in {leader, holder} :
        /\ h # None /\ Sigterm(h)
        /\ UNCHANGED <<processes, defied, unseen, host, unscanned, todo, target, mistaken,
                       killed>>
        /\ Free /\ draining[h] = "no" /\ pc \notin BootPcs
        /\ \/ /\ h = holder /\ pc = "idle" /\ holder' = None
              /\ \/ pc' = "idle" /\ leader' = leader
                 \/ pc' = "swap" /\ leader' = h
           \/ /\ h = leader /\ pc \in {"loading", "serving"} /\ leader' = h
              /\ holder' = holder
              /\ \/ pc' = "teardown"
                 \/ pc' = "finally" /\ h \in Running
  <2>1. CASE Expires
    BY <2>1 DEF Expires, scan, Shape, BootPcs, OwnPcs
  <2>2. CASE Swaps
    BY <2>2 DEF Swaps, scan, Shape, BootPcs, OwnPcs
  <2>3. CASE BeginsTeardown
    BY <2>3 DEF BeginsTeardown, scan, Shape, BootPcs, OwnPcs
  <2>4. CASE Raises
    BY <2>4 DEF Raises, scan, Shape, BootPcs, OwnPcs
  <2>5. QED  BY <2>1, <2>2, <2>3, <2>4
<1>2. /\ h \in Proc /\ leader \in Proc \cup {None} /\ holder \in Proc \cup {None}
      /\ \/ /\ state[h] = "gone" /\ draining' = [draining EXCEPT ![h] = "verify"]
            /\ signalled' = signalled
         \/ /\ state[h] # "gone" /\ draining' = [draining EXCEPT ![h] = "term"]
            /\ signalled' = signalled \cup Group(h)
      /\ Group(h) \subseteq Proc
  BY <1>1 DEF Sigterm, Group, Shape
<1>3. h \in Attended /\ h \in Group(h)
  BY <1>1, <1>2 DEF Attended, InTeardown, Own, Group
<1>4. /\ Running' = Running /\ Running \subseteq Proc
      /\ \A p : Beyond(p)' <=> Beyond(p)
      /\ Kin'
  BY <1>1, SameProcesses
<1>5. h \in Running => draining' = [draining EXCEPT ![h] = "term"] /\ h \in signalled'
  BY <1>2, <1>3 DEF Running
<1>6. /\ \A g \in Proc : g # h => draining'[g] = draining[g]
      /\ draining'[h] \in {"term", "verify"} /\ signalled \subseteq signalled'
      /\ draining' \in [Proc -> {"no", "term", "kill", "verify", "scan"}]
  BY <1>2 DEF Types
<1>7. Attended' = Attended
  <2>1. Attended' = ({leader', holder'} \ {None}) \cup {g \in Proc : draining'[g] # "no"}
    BY DEF Attended, InTeardown
  <2>2. {g \in Proc : draining'[g] # "no"} = {g \in Proc : draining[g] # "no"} \cup {h}
    BY <1>2, <1>6
  <2>3. leader = None \/ h = leader
    BY <1>1 DEF Shape, OwnPcs
  <2>4. holder = None \/ h = holder
    BY <1>1 DEF Shape, OwnPcs
  <2>5. {leader', holder'} \cup {h} \cup {None} = {leader, holder} \cup {None}
    BY <1>1, <2>3, <2>4
  <2>6. QED  BY <1>1, <2>1, <2>2, <2>5 DEF Attended, InTeardown
<1>8. pc' \in OwnPcs \cup {"idle"} /\ pc' \notin BootPcs /\ pc \notin {"down", "bootscan"}
  BY <1>1 DEF OwnPcs, BootPcs
<1>9. Types'
  BY <1>1, <1>2, <1>4, <1>6, <1>8, SameProcesses DEF Types
<1>10. Shape'
  <2>1. Free'
    BY <1>1, <1>6 DEF Free
  <2>2. /\ leader' \in IF pc' \in OwnPcs THEN Proc ELSE {None}
        /\ holder' \in Proc \cup {None} /\ holder' = None
        /\ pc' \in WaitPcs => draining'[leader'] # "no"
        /\ pc' = "finally" => draining'[leader'] \in {"term", "kill"}
        /\ pc' \notin {"loading", "serving"}
    BY <1>1, <1>2, <1>5, <1>6 DEF Shape, OwnPcs, WaitPcs
  <2>3. todo = {}
    BY <1>1 DEF Shape, BootPcs
  <2>4. QED  BY <1>1, <1>8, <2>1, <2>2, <2>3 DEF Shape, Free
<1>11. Listed' /\ Own'
  BY <1>1, <1>7 DEF Listed, Own, processes, host
<1>12. Older'
  BY <1>1, <1>4, <1>6, <1>7, <1>8 DEF Older, processes, host, Free
<1>13. Stuck'
  BY <1>1, <1>4, <1>5, <1>6 DEF Stuck
<1>14. Noticed'
  BY <1>1, <1>4, <1>5, <1>6, <1>7, <1>8 DEF Noticed, processes, host
<1>15. QED  BY <1>4, <1>9, <1>10, <1>11, <1>12, <1>13, <1>14

------------------------------------------------------------------------------
(* A teardown *)

\* In the finally the handle is dropped when drained_sigterm is over, or when
\* the sidecar is dead: what is left of it has not been scanned for.
LEMMA DroppedFacts ==
  ASSUME SupInv, pc \in OwnPcs, leader \notin Running \/ leader \in defied,
         UNCHANGED <<parent, family, detached, signalled, defied, unseen, host, todo,
                     target, mistaken, killed, holder>>,
         Free, leader' = None, pc' = "idle", unscanned' = unscanned \cup {leader},
         draining' = [draining EXCEPT ![leader] = "no"],
         state' = [state EXCEPT ![leader] = IF @ = "running" THEN "running" ELSE "gone"]
  PROVE  SupInv'
<1> USE SupervisionAssumption DEF SupInv
<1>1. /\ leader \in Proc /\ holder = None /\ pc \notin BootPcs /\ todo = {}
      /\ leader \in Attended
  BY DEF Shape, OwnPcs, BootPcs, Free, Attended, InTeardown
<1>2. /\ Running' = Running /\ Running \subseteq Proc
      /\ state' \in [Proc -> {"none", "running", "zombie", "gone"}]
      /\ \A p \in Proc : state[p] # "none" => state'[p] # "none"
      /\ \A p : Beyond(p)' <=> Beyond(p)
      /\ Kin'
  <2>1. /\ state' \in [Proc -> {"none", "running", "zombie", "gone"}]
        /\ \A p \in Proc : /\ state[p] # "none" => state'[p] # "none"
                           /\ state'[p] = "running" <=> state[p] = "running"
    BY <1>1 DEF Types
  <2>2. Running' = Running /\ Running \subseteq Proc
    BY <2>1 DEF Running
  <2>3. \A p : Beyond(p)' <=> Beyond(p)
    BY DEF Beyond, host
  <2>4. detached \subseteq Proc
    BY DEF Types
  <2>5. Kin'
    BY <2>1, <2>2, <2>4 DEF Kin
  <2>6. QED  BY <2>1, <2>2, <2>3, <2>5
<1>3. /\ draining' \in [Proc -> {"no", "term", "kill", "verify", "scan"}]
      /\ \A h \in Proc : draining'[h] # "no" => draining'[h] = draining[h]
  BY <1>1 DEF Types
<1>4. /\ Attended' \cup unscanned' = Attended \cup unscanned
      /\ Attended \cup unscanned \subseteq Proc
  BY <1>1, <1>3 DEF Attended, InTeardown, Types
<1>5. Types'
  BY <1>1, <1>2, <1>3 DEF Types
<1>6. Shape'
  BY <1>1, <1>3 DEF Shape, OwnPcs, WaitPcs, BootPcs, Free
<1>7. Listed' /\ Own'
  BY <1>1, <1>2, <1>4 DEF Listed, Own
<1>8. Older'
  BY <1>1, <1>2, <1>3, <1>4 DEF Older, host, BootPcs, Free
<1>9. Stuck'
  BY <1>2, <1>3 DEF Stuck
<1>10. Noticed'
  BY <1>1, <1>2, <1>3, <1>4 DEF Noticed, host, BootPcs
<1>11. QED  BY <1>2, <1>5, <1>6, <1>7, <1>8, <1>9, <1>10

\* The request raises and the sidecar is dead.
LEMMA RaisesDeadStep ==
  ASSUME SupInv, RaisesDead
  PROVE  SupInv'
<1> USE DEF SupInv
<1>1. leader \in Proc /\ pc \in OwnPcs /\ draining[leader] = "no" /\ state[leader] # "running"
  BY DEF RaisesDead, Shape, OwnPcs, Running
<1>2. /\ draining' = [draining EXCEPT ![leader] = "no"]
      /\ state' = [state EXCEPT ![leader] = IF @ = "running" THEN "running" ELSE "gone"]
  BY <1>1 DEF RaisesDead, Types
<1>3. QED
  BY <1>1, <1>2, DroppedFacts DEF RaisesDead, signals, scan

\* The sidecar is found dead, or the half second after SIGKILL is over.
LEMMA DrainedSteps ==
  ASSUME SupInv, NEW h \in Proc, SigtermClean(h) \/ Settles(h)
  PROVE  SupInv'
<1> USE SupervisionAssumption DEF SupInv
<1>1. /\ Free /\ Drained(h)
      /\ draining[h] \in {"term", "kill"} /\ (h \notin Running \/ h \in defied)
  BY DEF SigtermClean, Settles, Stuck, Running
<1>2. /\ UNCHANGED <<parent, family, detached, signalled, defied, unseen, host, todo,
                     target, mistaken, killed>>
      /\ state' = [state EXCEPT ![h] = IF @ = "zombie" THEN "gone" ELSE @]
  BY <1>1 DEF Drained, signals, scan
<1>3. state[h] \in {"running", "zombie", "gone"}
  BY <1>1 DEF Own, Attended, InTeardown, Types
<1>4. CASE pc = "finally" /\ h = leader
  <2>1. /\ leader' = None /\ pc' = "idle" /\ unscanned' = unscanned \cup {leader}
        /\ draining' = [draining EXCEPT ![leader] = "no"] /\ holder' = holder
        /\ state' = [state EXCEPT ![leader] = IF @ = "running" THEN "running" ELSE "gone"]
    BY <1>1, <1>3, <1>4 DEF Drained, Types
  <2>2. QED  BY <1>1, <1>2, <1>4, <2>1, DroppedFacts DEF OwnPcs
<1>5. CASE ~(pc = "finally" /\ h = leader)
  <2>1. /\ draining' = [draining EXCEPT ![h] = "verify"]
        /\ UNCHANGED <<leader, holder, pc, unscanned>>
    BY <1>1, <1>5 DEF Drained, worker
  <2>2. /\ draining' \in [Proc -> {"no", "term", "kill", "verify", "scan"}]
        /\ \A g \in Proc : g # h => draining'[g] = draining[g]
        /\ draining'[h] = "verify" /\ h \in Attended
        /\ Attended' = Attended /\ Attended \subseteq Proc
    BY <1>1, <2>1 DEF Types, Attended, InTeardown, Shape
  <2>3. /\ state' \in [Proc -> {"none", "running", "zombie", "gone"}]
        /\ \A p \in Proc : /\ state'[p] = "none" <=> state[p] = "none"
                           /\ state'[p] = "running" <=> state[p] = "running"
    BY <1>2 DEF Types
  <2>4. /\ Running' = Running /\ Running \subseteq Proc
        /\ \A p : Beyond(p)' <=> Beyond(p)
    BY <1>2, <2>3 DEF Running, Beyond, host
  <2>5. pc \notin BootPcs /\ todo = {}
    BY <1>1 DEF Shape, BootPcs, NoDrains, Free
  <2>6. Types'
    BY <1>2, <2>1, <2>2, <2>3 DEF Types
  <2>7. Shape'
    BY <1>1, <1>2, <1>5, <2>1, <2>2, <2>5 DEF Shape, OwnPcs, WaitPcs, Free
  <2>8. Listed' /\ Own' /\ Kin'
    BY <1>2, <2>1, <2>2, <2>3, <2>4, <2>5 DEF Listed, Own, Kin, Types
  <2>9. Older'
    BY <1>1, <1>2, <2>1, <2>2, <2>4 DEF Older, host, Free
  <2>10. Stuck'
    BY <1>1, <1>2, <2>1, <2>2, <2>4 DEF Stuck
  <2>11. Noticed'
    BY <1>1, <1>2, <2>1, <2>2, <2>4 DEF Noticed, host
  <2>12. QED  BY <2>6, <2>7, <2>8, <2>9, <2>10, <2>11
<1>6. QED  BY <1>4, <1>5

\* SIGKILL: who is sent it has ended or is stuck.
LEMMA KillFacts ==
  ASSUME SupInv, NEW S \in SUBSET Proc, SigKill(S)
  PROVE  \E ended \in SUBSET Running :
           /\ state' = EndOf(ended) /\ Adopt(ended) /\ defied \subseteq defied'
           /\ \A p \in S : p \in Running \ ended => p \in defied'
<1>1. PICK stuck \in SUBSET (S \cap Running) :
        /\ defied' = defied \cup stuck
        /\ state' = EndOf((S \cap Running) \ stuck)
        /\ Adopt((S \cap Running) \ stuck)
  BY DEF SigKill
<1>2. WITNESS (S \cap Running) \ stuck \in SUBSET Running
<1>3. QED  BY <1>1

\* The window is over and the group gets SIGKILL.
LEMMA EscalatesStep ==
  ASSUME SupInv, NEW h \in Proc, Escalates(h)
  PROVE  SupInv'
<1> USE SupervisionAssumption DEF SupInv
<1>1. /\ UNCHANGED <<family, detached, signalled, unseen, host, worker, unscanned, todo,
                     target, mistaken, killed>>
      /\ Free /\ draining[h] = "term" /\ draining' = [draining EXCEPT ![h] = "kill"]
      /\ SigKill(Group(h)) /\ Group(h) \in SUBSET Proc
  BY DEF Escalates, scan, Group
<1>2. PICK ended \in SUBSET Running :
        /\ state' = EndOf(ended) /\ Adopt(ended) /\ defied \subseteq defied'
        /\ \A p \in Group(h) : p \in Running \ ended => p \in defied'
  BY <1>1, KillFacts
<1>3. /\ Running' = Running \ ended /\ Running \subseteq Proc
      /\ state' \in [Proc -> {"none", "running", "zombie", "gone"}]
      /\ parent' \in [Proc -> Proc \cup Outside \cup {None}]
      /\ \A p \in Proc : state'[p] = "none" <=> state[p] = "none"
      /\ \A p \in Proc : Beyond(p) => Beyond(p)'
      /\ \A p \in Proc : family[p] = p /\ p \in Running => parent'[p] = parent[p]
      /\ Listed' /\ Kin'
  BY <1>1, <1>2, EndFacts
<1>4. /\ draining' \in [Proc -> {"no", "term", "kill", "verify", "scan"}]
      /\ \A g \in Proc : g # h => draining'[g] = draining[g]
      /\ draining'[h] = "kill" /\ h \in Attended /\ h \in Group(h)
      /\ Attended' = Attended /\ Attended \cup unscanned \subseteq Proc
  BY <1>1 DEF Types, Attended, InTeardown, Shape, worker, Own, Group
<1>5. pc \notin BootPcs
  BY <1>1 DEF Shape, BootPcs, NoDrains
<1>6. Types'
  BY <1>1, <1>3, <1>4 DEF Types, worker
<1>7. Shape'
  BY <1>1, <1>4, <1>5 DEF Shape, OwnPcs, WaitPcs, Free, worker
<1>8. Own'
  BY <1>1, <1>3, <1>4 DEF Own
<1>9. Older'
  BY <1>1, <1>3, <1>4 DEF Older, host, worker, Free
<1>10. Stuck'
  <2>1. todo = {}
    BY <1>1, <1>5 DEF Shape, BootPcs
  <2>2. target = None
    BY <2>1 DEF Types
  <2>3. ~killed'
    BY <1>1, <2>2 DEF Shape
  <2>4. QED  BY <1>1, <1>2, <1>3, <1>4, <2>3 DEF Stuck
<1>11. Noticed'
  BY <1>1, <1>3, <1>4 DEF Noticed, host, worker
<1>12. QED  BY <1>3, <1>6, <1>7, <1>8, <1>9, <1>10, <1>11

------------------------------------------------------------------------------
(* The reapers *)

\* A running process that is not attended to and not beyond reach is an orphan:
\* its head has ended, for otherwise that one would be stuck.
LEMMA LeftBehind ==
  ASSUME SupInv, NEW h \in Proc, draining[h] = "verify", NEW p \in Running,
         ~Beyond(p), family[p] \notin Attended \ {h}
  PROVE  p \in Orphans
<1> USE DEF SupInv
<1>1. pc \notin BootPcs
  BY DEF Shape, BootPcs, NoDrains
<1>2. family[p] = h \/ family[p] \in unscanned
  BY <1>1 DEF Older
<1>3. family[p] \notin Running
  BY <1>2 DEF Stuck, Beyond
<1>4. parent[p] \in Outside /\ parent[p] # "manager"
  BY <1>3 DEF Kin
<1>5. QED  BY <1>4 DEF Outside, Beyond, Orphans, LlamaServers

\* The walk over /proc.
LEMMA ListSteps ==
  ASSUME SupInv, BootScan \/ \E h \in Proc : BeginsScan(h)
  PROVE  SupInv'
<1> USE SupervisionAssumption DEF SupInv
<1>1. Orphans \subseteq Running /\ Running \subseteq Proc
  BY DEF Orphans, LlamaServers, Running
<1>2. \A p \in Orphans : /\ state[p] = "running"
                         /\ parent[p] = "reaper" \/ (parent[p] = "manager" /\ reaper = "self")
  BY DEF Orphans, LlamaServers, Running
<1>3. CASE BootScan
  <2>1. /\ UNCHANGED <<processes, signalled, defied, host, leader, holder, draining,
                       unscanned, target, mistaken, killed>>
        /\ pc = "bootscan" /\ pc' = "bootreap"
        /\ todo' = Orphans /\ unseen' = Running \ Orphans
    BY <1>3 DEF BootScan, signals
  <2>2. Free /\ todo = {} /\ target = None
    BY <2>1 DEF Shape, BootPcs, NoDrains, Free, Types
  <2>3. Running' = Running /\ Attended' = Attended
    BY <2>1 DEF processes, Running, Attended, InTeardown
  <2>4. Types'
    BY <2>1, <2>2, <1>1 DEF Types, processes, BootPcs
  <2>5. Shape'
    BY <2>1, <2>2 DEF Shape, OwnPcs, WaitPcs, BootPcs, Free
  <2>6. Listed' /\ Own' /\ Kin'
    BY <2>1, <2>3, <1>2 DEF Listed, Own, Kin, processes, host
  <2>7. Older'
    BY <2>1, <2>2, <2>3, <1>1 DEF Older, Beyond, BootPcs, Free, Orphans, host, processes
  <2>8. Stuck' /\ Noticed'
    BY <2>1, <2>2, <2>3 DEF Stuck, Noticed, BootPcs
  <2>9. QED  BY <2>4, <2>5, <2>6, <2>7, <2>8
<1>4. ASSUME NEW h \in Proc, BeginsScan(h) PROVE SupInv'
  <2>1. /\ UNCHANGED <<processes, signalled, defied, unseen, host, leader, holder, pc,
                       unscanned, target, mistaken, killed>>
        /\ Free /\ draining[h] = "verify" /\ draining' = [draining EXCEPT ![h] = "scan"]
        /\ todo' = Orphans
    BY <1>4 DEF BeginsScan, signals, worker
  <2>2. pc \notin BootPcs
    BY <2>1 DEF Shape, BootPcs, NoDrains
  <2>3. todo = {} /\ target = None
    BY <2>1, <2>2 DEF Shape, BootPcs, Types
  <2>4. /\ draining' \in [Proc -> {"no", "term", "kill", "verify", "scan"}]
        /\ \A g \in Proc : g # h => draining'[g] = draining[g]
        /\ draining'[h] = "scan" /\ h \in Attended
        /\ Attended' = Attended
    BY <2>1 DEF Types, Attended, InTeardown, Shape
  <2>5. /\ Running' = Running
        /\ \A p : Beyond(p)' <=> Beyond(p)
        /\ Kin'
    BY <2>1, SameProcesses
  <2>6. Types'
    BY <2>1, <2>3, <2>4, <1>1 DEF Types, processes
  <2>7. Shape'
    BY <2>1, <2>2, <2>3, <2>4 DEF Shape, OwnPcs, WaitPcs, Free
  <2>8. Listed' /\ Own'
    BY <2>1, <2>4, <1>2 DEF Listed, Own, processes, host
  <2>9. Older'
    <3>1. \A p \in Running : p \in Orphans \/ family[p] \in Attended \ {h} \/ Beyond(p)
      BY <2>1, LeftBehind
    <3>2. \A g \in Proc : draining'[g] = "scan" => g = h
      BY <2>1, <2>4 DEF Free
    <3>3. QED
      BY <2>1, <2>2, <2>4, <2>5, <3>1, <3>2 DEF Older, processes, host, BootPcs
  <2>10. Stuck' /\ Noticed'
    BY <2>1, <2>2, <2>3, <2>4, <2>5 DEF Stuck, Noticed, processes, host, BootPcs
  <2>11. QED  BY <2>5, <2>6, <2>7, <2>8, <2>9, <2>10
<1>5. QED  BY <1>3, <1>4

\* An orphan is told to stop, or it is gone or stuck and struck off the list.
LEMMA OneOrphan ==
  ASSUME SupInv, (\E p \in Proc : ReapSigterm(p)) \/ ReapClean \/ ReapChecks
  PROVE  SupInv'
<1> USE SupervisionAssumption DEF SupInv
<1>1. /\ UNCHANGED <<processes, defied, unseen, host, worker, draining, unscanned>>
      /\ todo # {} /\ todo' \subseteq todo /\ target' \in todo' \cup {None}
      /\ signalled \subseteq signalled' /\ signalled' \subseteq Proc
      /\ target' # None => target' \in signalled' /\ ~killed'
      /\ target' = None => ~killed' /\ ~mistaken'
      /\ \A p \in todo \ todo' : /\ p \in Running => p \in defied
                                 /\ p \in signalled
  <2>1. ASSUME NEW p \in Proc, ReapSigterm(p) PROVE <1>1!:
    BY <2>1 DEF ReapSigterm, Shape, Types
  <2>2. CASE ReapClean
    BY <2>2 DEF ReapClean, Done, PidIsThere, Running, Types, signals, Noticed
  <2>3. CASE ReapChecks
    BY <2>3 DEF ReapChecks, Done, Stuck, Types, signals, Noticed
  <2>4. QED  BY <2>1, <2>2, <2>3
<1>2. /\ Running' = Running /\ Running \subseteq Proc
      /\ \A p : Beyond(p)' <=> Beyond(p)
      /\ Kin'
  BY <1>1, SameProcesses
<1>3. Attended' = Attended
  BY <1>1 DEF Attended, InTeardown, worker
<1>4. \A p \in Running : p \in todo \ todo' => Beyond(p)
  BY <1>1 DEF Beyond
<1>5. Types'
  BY <1>1 DEF Types, processes, worker
<1>6. Shape'
  BY <1>1 DEF Shape, Free, worker
<1>7. Listed' /\ Own'
  BY <1>1, <1>3 DEF Listed, Own, processes, host
<1>8. Older'
  BY <1>1, <1>2, <1>3, <1>4 DEF Older, processes, host, worker
<1>9. Stuck'
  BY <1>1, <1>2 DEF Stuck
<1>10. Noticed'
  BY <1>1, <1>2, <1>3 DEF Noticed, processes, host, worker
<1>11. QED  BY <1>2, <1>5, <1>6, <1>7, <1>8, <1>9, <1>10

\* SIGKILL to the orphan.
LEMMA ReapSigkillStep ==
  ASSUME SupInv, ReapSigkill
  PROVE  SupInv'
<1> USE SupervisionAssumption DEF SupInv
<1>1. /\ UNCHANGED <<family, detached, signalled, unseen, host, worker, draining, unscanned,
                     todo, target, mistaken>>
      /\ target \in Proc /\ target # None /\ killed'
      /\ SigKill({target}) /\ {target} \in SUBSET Proc
  BY DEF ReapSigkill, Types
<1>2. PICK ended \in SUBSET Running :
        /\ state' = EndOf(ended) /\ Adopt(ended) /\ defied \subseteq defied'
        /\ \A p \in {target} : p \in Running \ ended => p \in defied'
  BY <1>1, KillFacts
<1>3. Types' /\ Listed' /\ Own' /\ Kin' /\ Older' /\ Noticed'
  BY <1>1, <1>2, SomeEnd
<1>4. Running' = Running \ ended
  BY <1>1, <1>2, EndFacts
<1>5. Shape'
  BY <1>1 DEF Shape, Free, worker
<1>6. Stuck'
  BY <1>1, <1>2, <1>4 DEF Stuck
<1>7. QED  BY <1>3, <1>5, <1>6

\* The last scan of a teardown: what runs and can be seen has been told to stop,
\* unless it is a live handle of the manager's.
LEMMA IntraScanStep ==
  ASSUME SupInv, NEW h \in Proc, IntraScan(h)
  PROVE  SupInv'
<1> USE SupervisionAssumption DEF SupInv
<1>1. /\ UNCHANGED <<parent, family, detached, defied, unseen, host, todo, target, mistaken,
                     killed, holder>>
      /\ draining[h] = "scan" /\ todo = {} /\ unscanned' = {}
      /\ state' = Polled
      /\ signalled' = signalled \cup (LlamaServers \ Handles)
      /\ draining' = [draining EXCEPT ![h] = "no"]
      /\ leader' = (IF h = leader THEN None ELSE leader)
      /\ pc' = (IF h = leader THEN "idle" ELSE pc)
  BY DEF IntraScan, TeardownOver, scan
<1>2. /\ state' \in [Proc -> {"none", "running", "zombie", "gone"}]
      /\ \A p \in Proc : /\ state'[p] = "none" <=> state[p] = "none"
                         /\ state'[p] = "running" <=> state[p] = "running"
  BY <1>1 DEF Polled, Types
<1>3. /\ Running' = Running /\ Running \subseteq Proc
      /\ \A p : Beyond(p)' <=> Beyond(p)
  BY <1>1, <1>2 DEF Running, Beyond, host
<1>4. /\ draining' \in [Proc -> {"no", "term", "kill", "verify", "scan"}]
      /\ \A g \in Proc : g # h => draining'[g] = draining[g]
      /\ draining'[h] = "no" /\ Free'
  <2>1. /\ draining' \in [Proc -> {"no", "term", "kill", "verify", "scan"}]
        /\ \A g \in Proc : g # h => draining'[g] = draining[g]
        /\ draining'[h] = "no"
    BY <1>1 DEF Types
  <2>2. QED  BY <1>1, <2>1 DEF Shape, Free
<1>5. pc \notin BootPcs /\ pc' \notin BootPcs
  BY <1>1 DEF Shape, BootPcs, NoDrains
<1>6. h \in Attended /\ holder # h /\ Attended \cup unscanned \subseteq Proc
  BY <1>1 DEF Attended, InTeardown, Shape, Types
<1>7. Attended' = Attended \ {h}
  <2>1. Attended' = ({leader', holder} \ {None}) \cup {g \in Proc : draining'[g] # "no"}
    BY <1>1 DEF Attended, InTeardown
  <2>2. {g \in Proc : draining'[g] # "no"} = {g \in Proc : draining[g] # "no"} \ {h}
    BY <1>4
  <2>3. {leader', holder} \ {None} = ({leader, holder} \ {None}) \ {h}
    BY <1>1, <1>6
  <2>4. QED  BY <2>1, <2>2, <2>3 DEF Attended, InTeardown
<1>8. Types'
  BY <1>1, <1>2, <1>3, <1>4 DEF Types, LlamaServers
<1>9. Shape'
  BY <1>1, <1>4, <1>5 DEF Shape, OwnPcs, WaitPcs, Types
<1>10. Listed' /\ Own' /\ Kin'
  BY <1>1, <1>2, <1>3, <1>6, <1>7 DEF Listed, Own, Kin, Types
<1>11. Older'
  BY <1>1, <1>3, <1>4, <1>5, <1>7 DEF Older, host, Free, BootPcs
<1>12. Stuck'
  BY <1>1, <1>3, <1>4 DEF Stuck
<1>13. Noticed'
  <2>1. \A p \in Running : p \in signalled' \/ pinned \/ p \in Handles
    BY <1>1 DEF LlamaServers
  <2>2. \A p \in Handles : p \in Running =>
          family[p] = p /\ p \in Attended /\ (p = h => p \in signalled)
    BY <1>1 DEF Handles, Attended, InTeardown, Own, Noticed, Types, Shape
  <2>3. \A p \in Running : family[p] \in Attended' \/ p \in signalled' \/ pinned
    BY <2>1, <2>2, <1>1, <1>7
  <2>4. \A p \in Running : draining'[p] # "no" => p \in signalled'
    BY <1>1, <1>3, <1>4 DEF Noticed
  <2>5. target = None
    BY <1>1 DEF Types
  <2>6. QED  BY <1>1, <1>3, <1>5, <2>3, <2>4, <2>5 DEF Noticed, host, BootPcs
<1>14. QED  BY <1>8, <1>9, <1>10, <1>11, <1>12, <1>13

\* The boot reaper is through.
LEMMA BootEndsStep ==
  ASSUME SupInv, BootEnds
  PROVE  SupInv'
<1> USE SupervisionAssumption DEF SupInv
<1>1. /\ UNCHANGED <<processes, signalled, defied, unseen, host, leader, holder, draining,
                     unscanned, todo, target, mistaken, killed>>
      /\ pc = "bootreap" /\ pc' = "idle" /\ todo = {}
  BY DEF BootEnds, signals, scan
<1>2. /\ Running' = Running /\ Running \subseteq Proc
      /\ \A p : Beyond(p)' <=> Beyond(p)
      /\ Kin'
  BY <1>1, SameProcesses
<1>3. Attended' = Attended
  BY <1>1 DEF Attended, InTeardown
<1>4. Types'
  BY <1>1 DEF Types, processes
<1>5. Shape'
  BY <1>1 DEF Shape, OwnPcs, WaitPcs, BootPcs, Free
<1>6. Listed' /\ Own'
  BY <1>1, <1>3 DEF Listed, Own, processes, host
<1>7. Older'
  BY <1>1, <1>2, <1>3 DEF Older, processes, host, BootPcs
<1>8. Stuck' /\ Noticed'
  BY <1>1, <1>2, <1>3 DEF Stuck, Noticed, processes, host, BootPcs
<1>9. QED  BY <1>2, <1>4, <1>5, <1>6, <1>7, <1>8

\* The manager dies and nobody is left whom it looks after.
LEMMA ManagerDiesStep ==
  ASSUME SupInv, ManagerDies
  PROVE  SupInv'
<1> USE SupervisionAssumption DEF SupInv
<1>1. /\ UNCHANGED <<family, detached, signalled, defied, unseen, host>>
      /\ state' = [p \in Proc |-> IF \/ state[p] = "zombie"
                                     \/ reaper = "self" /\ state[p] = "running"
                                  THEN "gone" ELSE state[p]]
      /\ parent' = [p \in Proc |-> IF parent[p] \in {"manager"} THEN "reaper" ELSE parent[p]]
      /\ pc' = "down" /\ leader' = None /\ holder' = None /\ draining' = NoDrains
      /\ unscanned' = {} /\ todo' = {} /\ target' = None /\ ~killed' /\ ~mistaken'
  BY DEF ManagerDies, signals, Adopt
<1>2. /\ state' \in [Proc -> {"none", "running", "zombie", "gone"}]
      /\ parent' \in [Proc -> Proc \cup Outside \cup {None}]
      /\ Running' = (IF reaper = "self" THEN {} ELSE Running) /\ Running \subseteq Proc
      /\ \A p \in Proc : state[p] # "none" => state'[p] # "none"
  BY <1>1 DEF Types, Outside, Running
<1>3. draining' = [h \in Proc |-> "no"] /\ Attended' = {}
  BY <1>1 DEF NoDrains, Attended, InTeardown
<1>4. Types'
  BY <1>1, <1>2, <1>3 DEF Types, BootPcs
<1>5. Shape'
  BY <1>1, <1>3 DEF Shape, OwnPcs, WaitPcs, BootPcs, NoDrains
<1>6. Listed' /\ Own'
  BY <1>1, <1>3 DEF Listed, Own
<1>7. Kin'
  <2>1. ASSUME NEW p \in Running
        PROVE  /\ p \in Proc /\ family[p] \in Proc
               /\ \/ parent'[p] \in Outside
                  \/ parent'[p] = family[p] /\ family[p] # p /\ family[p] \in Running
               /\ parent'[p] = "manager" => p = family[p]
    BY <1>1, <1>2, <2>1 DEF Kin, Outside
  <2>2. \A p \in detached : state'[p] # "none"
    BY <1>2 DEF Kin, Types
  <2>3. QED  BY <1>1, <1>2, <2>1, <2>2 DEF Kin
<1>8. Older' /\ Stuck' /\ Noticed'
  BY <1>1, <1>2, <1>3 DEF Older, Stuck, Noticed, BootPcs
<1>9. QED  BY <1>4, <1>5, <1>6, <1>7, <1>8

LEMMA StepSup == SupInv /\ [SupervisionNext]_vars => SupInv'
<1> SUFFICES ASSUME SupInv, [SupervisionNext]_vars PROVE SupInv'
  OBVIOUS
<1>1. ASSUME NEW p \in Proc, NEW q \in Proc, Forks(q, p) PROVE SupInv'
  BY <1>1, ForksStep
<1>2. ASSUME NEW p \in Proc, \/ Exits(p) \/ PidIsRecycled(p) \/ StrangerExits(p)
                             \/ Spawn(p) \/ DrainStep(p)
      PROVE  SupInv'
  BY <1>2, ExitsStep, PidSteps, SpawnStep, DrainedSteps, EscalatesStep, ListSteps
     DEF DrainStep
<1>3. CASE IsHealthy \/ Inherits \/ Holds \/ Boots
  BY <1>3, HandSteps
<1>4. CASE Expires \/ Swaps \/ BeginsTeardown \/ Raises
  BY <1>4, SigtermSteps
<1>5. CASE RaisesDead
  BY <1>5, RaisesDeadStep
<1>6. CASE ScanStep
  BY <1>6, ListSteps, OneOrphan, ReapSigkillStep, IntraScanStep, BootEndsStep DEF ScanStep
<1>7. CASE ManagerDies
  BY <1>7, ManagerDiesStep
<1>8. CASE UNCHANGED vars
  BY <1>8 DEF vars, processes, signals, host, worker, scan, SupInv, Types, Shape, Listed,
     Own, Kin, Older, Stuck, Noticed, Running, Attended, InTeardown, Beyond, Free
<1>9. QED
  BY <1>1, <1>2, <1>3, <1>4, <1>5, <1>6, <1>7, <1>8 DEF SupervisionNext

------------------------------------------------------------------------------
(* The theorems *)

\* The invariant of the supervision: whatever runs is attended to, or waits for
\* the scan that the end of a request left out, or is on the list of the scan
\* under way, or is out of every scan's reach.
THEOREM AlwaysSup == SupervisionSpec => []SupInv
  BY InitSup, StepSup, PTL DEF SupervisionSpec

\* While wait_until_healthy asks on the port of the sidecar just spawned, whoever
\* runs is that one or its helper, or is let through by one of the two named
\* holes, or could not have been reached.
THEOREM HealthIsAlwaysOwn == SupervisionSpec => []HealthIsOwn
<1>1. SupInv => HealthIsOwn
  BY DEF SupInv, Types, Shape, Older, BootPcs, HealthIsOwn, Running, Attended, InTeardown
<1>2. QED  BY <1>1, AlwaysSup, PTL

\* When the manager is about to spawn, every older llama-server that boot and the
\* scans can see has been sent a signal, or is attended to, or comes from a
\* request that raised with no scan since.
THEOREM NoneIsOverlooked == SupervisionSpec => []NoneOverlooked
<1>1. SupInv => NoneOverlooked
  BY DEF SupInv, Noticed, BootPcs, NoneOverlooked
<1>2. QED  BY <1>1, AlwaysSup, PTL

\* What reap_orphan returns is true of the process when it returns it, recycled
\* pids, stuck processes and zombies nobody waits for included.
THEOREM VerdictsAreAlwaysTrue == SupervisionSpec => VerdictsAreTrue
<1>1. ASSUME SupInv, target # None
      PROVE  IF ReapVerdict THEN state[target] = "gone"
             ELSE \/ state[target] = "running"
                  \/ state[target] = "zombie" /\ reaper \in {"idles", "self"}
                  \/ mistaken
  <2>1. target \in todo /\ target \in Proc
    BY <1>1 DEF SupInv, Types
  <2>2. /\ state[target] \in {"running", "zombie", "gone"}
        /\ state[target] = "zombie" => reaper \in {"idles", "self"}
    BY <1>1, <2>1 DEF SupInv, Types, Listed
  <2>3. CASE ReapVerdict
    BY <1>1, <2>2, <2>3 DEF ReapVerdict, PidIsThere, SameProcess
  <2>4. CASE ~ReapVerdict
    BY <2>2, <2>4 DEF ReapVerdict, PidIsThere, SameProcess
  <2>5. QED  BY <2>3, <2>4
<1>2. QED  BY <1>1, AlwaysSup, PTL DEF VerdictsAreTrue
==============================================================================
