---------------------------- MODULE StoreProofs ----------------------------
(***************************************************************************)
(* Proofs about Store.tla: types, the order in which a pair gets to the    *)
(* live directory, what was reported as stored survives, and a worker      *)
(* serves matching pairs, for every set of key types and all bounds.       *)
(***************************************************************************)
EXTENDS Store, TLAPS

Disk == [live : Dir, tmp : Dir]

(* The directories a step can make are directories. *)
LEMMA DirTypes ==
  /\ NoDir \in Dir /\ EmptyDir \in Dir
  /\ \A d \in Dir : rm_staging_at(d) \in Dir
<1>1. 0 \in Content
  BY StoreAssumption DEF Content, Version
<1>2. EmptyDir \in Dir
  BY <1>1 DEF EmptyDir, Dir
<1>3. NoDir \in Dir
  BY <1>2 DEF NoDir, Dir
<1>4. [EmptyDir EXCEPT !.marker = TRUE] \in Dir
  BY <1>2 DEF Dir
<1> QED
  BY <1>2, <1>3, <1>4 DEF rm_staging_at

(* So is what removing the staging directory leaves; the live one stays.     *)
LEMMA RmTypes ==
  ASSUME TypeOK
  PROVE  RmStaging(disk) \in Disk /\ RmStaging(disk).live = disk.live
<1>1. disk \in Disk
  BY DEF TypeOK, Disk
<1>2. rm_staging_at(disk.tmp) \in Dir
  BY <1>1, DirTypes DEF Disk
<1> QED
  BY <1>1, <1>2 DEF RmStaging, Disk

(* A directory whose unflushed bytes were lost is one. *)
LEMMA TearTypes ==
  ASSUME NEW d \in Dir, NEW lost
  PROVE  TearDir(d, lost) \in Dir
BY DEF TearDir, Tear, Dir, Content, Torn

(* A change of names keeps the past states well typed. *)
LEMMA ChangeTypes ==
  ASSUME TypeOK, NEW d \in Disk, Change(d)
  PROVE  disk' \in Disk /\ views' \subseteq Disk
BY DEF TypeOK, Change, Disk

(* The types of what is not on disk. *)
OrType ==
  /\ kind \in KINDS
  /\ unsynced \subseteq {"key", "chain"} \X Version
  /\ ver \in Version
  /\ stored \in [KeyType -> Version] /\ aged \in [KeyType -> Content]
  /\ pc \in {"idle", "clear", "mkdir", "seed", "key", "fsync_key", "chain",
             "fsync_chain", "fsync_staging", "commit", "publish_chain",
             "rm_old", "fsync_store", "marker"}
  /\ kt \in KeyType
  /\ faults \in 0..MAX_FAULTS

RdType ==
  /\ rd \in [at : {"idle", "chain", "key", "check"}, kt : KeyType,
             stamp : Content, chain : Content, key : Content]
  /\ slot \in [KeyType -> [stamp : Content, chain : Content, key : Content]]

(* The type invariant, split by what a step touches. *)
LEMMA TypeParts ==
  TypeOK <=> OrType /\ RdType /\ disk \in Disk /\ views \subseteq Disk
BY DEF TypeOK, OrType, RdType, Disk

(* An absent file and the initial states of a reload are well typed. *)
LEMMA ContentTypes ==
  /\ 0 \in Content /\ 0 \in Version
  /\ IdleReload \in [at : {"idle", "chain", "key", "check"}, kt : KeyType,
                    stamp : Content, chain : Content, key : Content]
  /\ EmptySlot \in [stamp : Content, chain : Content, key : Content]
BY StoreAssumption DEF Content, Version, IdleReload, EmptySlot

(* Every step keeps what is not on disk within its types. *)
LEMMA OrStep ==
  ASSUME TypeOK, Next
  PROVE  OrType'
<1>0. OrType /\ disk \in Disk
  BY TypeParts
<1> USE <1>0, StoreAssumption DEF OrType, Fault, Goto, rdvars, Change, Version
<1>1. ASSUME NEW k \in KeyType, StartOrder(k) PROVE OrType'
  BY <1>1 DEF StartOrder, fsvars, Version
<1>2. ASSUME NEW k \in KeyType, Age(k) PROVE OrType'
  <2>1. disk.live.chain[k] \in Content
    BY DEF Dir, Disk
  <2> QED
    BY <1>2, <2>1 DEF Age, fsvars
<1>3. CASE ClearStaging BY <1>3 DEF ClearStaging
<1>4. CASE Mkdir \/ MkdirFails BY <1>4 DEF Mkdir, MkdirFails, fsvars
<1>5. CASE SeedStaging BY <1>5 DEF SeedStaging
<1>6. CASE WriteKey \/ FsyncKey BY <1>6 DEF WriteKey, FsyncKey
<1>7. CASE WriteChain \/ FsyncChain BY <1>7 DEF WriteChain, FsyncChain
<1>8. CASE FsyncStaging BY <1>8 DEF FsyncStaging
<1>9. CASE CommitFirst \/ CommitExchange
  BY <1>9 DEF CommitFirst, CommitExchange
<1>10. CASE PublishKey \/ PublishChain \/ PublishChainFails
  BY <1>10 DEF PublishKey, PublishChain, PublishChainFails, fsvars
<1>11. CASE RemoveOld BY <1>11 DEF RemoveOld
<1>12. CASE FsyncStore \/ FsyncStoreFails
  BY <1>12 DEF FsyncStore, FsyncStoreFails, fsvars
<1>13. CASE WriteMarker BY <1>13 DEF WriteMarker
<1>14. CASE StoreFails BY <1>14 DEF StoreFails
<1>15. CASE cache_reload \/ ReloadFails
  <2>1. UNCHANGED <<kind, unsynced, ver, stored, aged, pc, kt>>
    BY <1>15 DEF cache_reload, ReloadFails, ReloadStat, ReloadReadChain,
                 ReloadReadKey, ReloadInstall, fsvars, orvars
  <2>2. faults' = faults \/ Fault
    BY <1>15 DEF cache_reload, ReloadFails, ReloadStat, ReloadReadChain,
                 ReloadReadKey, ReloadInstall
  <2> QED
    BY <2>1, <2>2
<1>16. CASE Crash BY <1>16 DEF Crash, fsvars
<1>17. CASE WorkerRestart BY <1>17 DEF WorkerRestart, fsvars, orvars
<1>18. CASE PowerLoss BY <1>18 DEF PowerLoss
<1> QED
  BY <1>1, <1>2, <1>3, <1>4, <1>5, <1>6, <1>7, <1>8, <1>9, <1>10, <1>11,
     <1>12, <1>13, <1>14, <1>15, <1>16, <1>17, <1>18 DEF Next, order_store

(* A worker's reload keeps to its types; nothing else but a restart touches  *)
(* its variables.                                                            *)
LEMMA RdStep ==
  ASSUME TypeOK, Next
  PROVE  RdType'
<1>0. RdType /\ disk \in Disk
  BY TypeParts
<1>1. CASE UNCHANGED rdvars
  BY <1>0, <1>1 DEF RdType, rdvars
<1>2. CASE PowerLoss \/ WorkerRestart
  BY <1>2, ContentTypes DEF RdType, PowerLoss, WorkerRestart
<1>3. ASSUME NEW k \in KeyType, ReloadStat(k) PROVE RdType'
  <2>1. disk.live.chain[k] \in Content
    BY <1>0 DEF Disk, Dir
  <2> QED
    BY <1>0, <1>3, <2>1, ContentTypes DEF RdType, ReloadStat
<1>4. CASE ReloadReadChain
  <2>1. disk.live.chain[rd.kt] \in Content
    BY <1>0 DEF Disk, Dir, RdType
  <2> QED
    BY <1>0, <1>4, <2>1, ContentTypes DEF RdType, ReloadReadChain
<1>5. CASE ReloadReadKey
  <2>1. disk.live.key[rd.kt] \in Content
    BY <1>0 DEF Disk, Dir, RdType
  <2> QED
    BY <1>0, <1>5, <2>1, ContentTypes DEF RdType, ReloadReadKey
<1>6. CASE ReloadInstall
  BY <1>0, <1>6, ContentTypes DEF RdType, ReloadInstall
<1>7. CASE ReloadFails
  BY <1>0, <1>7, ContentTypes DEF RdType, ReloadFails
<1>8. UNCHANGED rdvars \/ PowerLoss \/ WorkerRestart
        \/ cache_reload \/ ReloadFails
  BY DEF Next, order_store, StartOrder, Age, ClearStaging, Mkdir, MkdirFails,
         SeedStaging, WriteKey, FsyncKey, WriteChain, FsyncChain,
         FsyncStaging, CommitFirst, CommitExchange, PublishKey, PublishChain,
         PublishChainFails, RemoveOld, FsyncStore, FsyncStoreFails,
         WriteMarker, StoreFails, Crash
<1> QED
  BY <1>1, <1>2, <1>3, <1>4, <1>5, <1>6, <1>7, <1>8 DEF cache_reload

(* Every state of the two directories is one. *)
LEMMA DiskStep ==
  ASSUME TypeOK, Next
  PROVE  disk' \in Disk /\ views' \subseteq Disk
<1>0. OrType /\ disk \in Disk /\ views \subseteq Disk
  BY TypeParts
<1>a. disk.live \in Dir /\ disk.tmp \in Dir
  BY <1>0 DEF Disk
<1>b. ver \in Content /\ kt \in KeyType
  BY <1>0 DEF OrType, Content
<1>1. CASE UNCHANGED <<disk, views>>
  BY <1>0, <1>1
<1>2. CASE disk' = disk /\ FsyncDir
  BY <1>0, <1>2 DEF FsyncDir
<1>3. CASE Change(RmStaging(disk))
  BY <1>3, RmTypes, ChangeTypes
<1>4. CASE Mkdir
  <2>1. [disk EXCEPT !.tmp = EmptyDir] \in Disk
    BY <1>0, DirTypes DEF Disk
  <2> QED
    BY <1>4, <2>1, ChangeTypes DEF Mkdir
<1>5. CASE SeedStaging
  <2> DEFINE Seed(f) == [k \in KeyType |-> IF k = kt THEN 0 ELSE f[k]]
             d == [disk EXCEPT !.tmp.key = Seed(disk.live.key),
                               !.tmp.chain = Seed(disk.live.chain)]
  <2>1. Seed(disk.live.key) \in [KeyType -> Content]
    BY <1>a, ContentTypes DEF Dir
  <2>2. Seed(disk.live.chain) \in [KeyType -> Content]
    BY <1>a, ContentTypes DEF Dir
  <2>3. d \in Disk
    <3> HIDE DEF Seed
    <3> QED BY <1>0, <1>a, <2>1, <2>2 DEF Disk, Dir
  <2>4. Change(d)
    BY <1>5 DEF SeedStaging
  <2> QED
    BY <2>3, <2>4, ChangeTypes
<1>6. CASE WriteKey
  <2>1. [disk EXCEPT !.tmp.key[kt] = ver] \in Disk
    BY <1>0, <1>a, <1>b DEF Disk, Dir
  <2> QED
    BY <1>6, <2>1, ChangeTypes DEF WriteKey
<1>7. CASE WriteChain
  <2>1. [disk EXCEPT !.tmp.chain[kt] = ver] \in Disk
    BY <1>0, <1>a, <1>b DEF Disk, Dir
  <2> QED
    BY <1>7, <2>1, ChangeTypes DEF WriteChain
<1>8. CASE CommitFirst
  <2>1. [live |-> disk.tmp, tmp |-> NoDir] \in Disk
    BY <1>a, DirTypes DEF Disk
  <2> QED
    BY <1>8, <2>1, ChangeTypes DEF CommitFirst
<1>9. CASE CommitExchange
  <2>1. [live |-> disk.tmp, tmp |-> disk.live] \in Disk
    BY <1>a DEF Disk
  <2> QED
    BY <1>9, <2>1, ChangeTypes DEF CommitExchange
<1>10. CASE PublishKey
  <2>1. disk.tmp.key[kt] \in Content
    BY <1>a, <1>b DEF Dir
  <2>2. [disk EXCEPT !.live.key[kt] = disk.tmp.key[kt],
                     !.tmp.key[kt] = 0] \in Disk
    BY <1>0, <1>a, <1>b, <2>1, ContentTypes DEF Disk, Dir
  <2> QED
    BY <1>10, <2>2, ChangeTypes DEF PublishKey
<1>11. CASE PublishChain
  <2>1. disk.tmp.chain[kt] \in Content
    BY <1>a, <1>b DEF Dir
  <2>2. [disk EXCEPT !.live.chain[kt] = disk.tmp.chain[kt],
                     !.tmp.chain[kt] = 0] \in Disk
    BY <1>0, <1>a, <1>b, <2>1, ContentTypes DEF Disk, Dir
  <2> QED
    BY <1>11, <2>2, ChangeTypes DEF PublishChain
<1>12. CASE Change([disk EXCEPT !.live.marker = TRUE])
  <2>1. [disk EXCEPT !.live.marker = TRUE] \in Disk
    BY <1>0, <1>a DEF Disk, Dir
  <2> QED
    BY <1>12, <2>1, ChangeTypes
<1>13. CASE PowerLoss
  <2>1. PICK d \in views \cup {disk}, lost \in SUBSET unsynced :
          disk' = [live |-> TearDir(d.live, lost),
                   tmp |-> TearDir(d.tmp, lost)]
    BY <1>13 DEF PowerLoss
  <2>2. d.live \in Dir /\ d.tmp \in Dir
    BY <1>0 DEF Disk
  <2>3. TearDir(d.live, lost) \in Dir /\ TearDir(d.tmp, lost) \in Dir
    BY <2>2, TearTypes
  <2> QED
    BY <1>13, <2>1, <2>3 DEF PowerLoss, Disk
<1> QED
  BY <1>1, <1>2, <1>3, <1>4, <1>5, <1>6, <1>7, <1>8, <1>9, <1>10, <1>11,
     <1>12, <1>13
  DEF Next, order_store, StartOrder, Age, ClearStaging, MkdirFails, FsyncKey,
      FsyncChain, FsyncStaging, PublishChainFails, RemoveOld, FsyncStore,
      FsyncStoreFails, WriteMarker, StoreFails, Crash, WorkerRestart,
      cache_reload, ReloadStat, ReloadReadChain, ReloadReadKey,
      ReloadInstall, ReloadFails, fsvars

(* Every step keeps all types. *)
LEMMA StoreTypedStep ==
  ASSUME TypeOK, [Next]_vars
  PROVE  TypeOK'
<1>1. CASE Next
  <2>1. OrType' /\ RdType' /\ disk' \in Disk /\ views' \subseteq Disk
    BY <1>1, OrStep, RdStep, DiskStep
  <2> QED
    BY <2>1 DEF TypeOK, OrType, RdType, Disk
<1>2. CASE UNCHANGED vars
  BY <1>2 DEF vars, TypeOK
<1> QED
  BY <1>1, <1>2

(* Every variable keeps its type: the versions stay within the bound, and a  *)
(* file holds a version, the remains of one, or does not exist.              *)
THEOREM StoreTyped == Spec => []TypeOK
<1>1. Init => TypeOK
  BY ContentTypes, DirTypes, StoreAssumption DEF Init, TypeOK
<1>2. TypeOK /\ [Next]_vars => TypeOK'
  BY StoreTypedStep
<1> QED
  BY <1>1, <1>2, PTL DEF Spec

-----------------------------------------------------------------------------
(* What the live directory holds, on POSIX and win32.  In every state that a *)
(* power loss can bring back, a file of it is flushed, no newer than the     *)
(* last order's, and a chain is never newer than the key beside it:          *)
Sound(d, k) ==
  /\ 0 <= d.live.chain[k] /\ d.live.chain[k] <= d.live.key[k]
  /\ d.live.key[k] <= ver
  /\ <<"key", d.live.key[k]>> \notin unsynced
  /\ <<"chain", d.live.chain[k]>> \notin unsynced

LiveSound == \A d \in Reachable, k \in KeyType : Sound(d, k)

(* only versions of orders so far await their flush, *)
WritesKnown ==
  \A part \in {"key", "chain"}, v \in Version :
    <<part, v>> \in unsynced => v <= ver

(* until its files are complete, the order's version is nowhere live; *)
Early ==
  pc \in {"clear", "mkdir", "seed", "key", "fsync_key", "chain"} =>
    \A d \in Reachable, k \in KeyType :
      d.live.key[k] < ver /\ d.live.chain[k] < ver

(* staging holds the other key types' live files and the new pair; *)
Staged ==
  /\ pc \in {"key", "fsync_key", "chain", "fsync_chain", "fsync_staging",
             "commit"} =>
       \A k \in KeyType \ {kt} :
         /\ disk.tmp.key[k] = disk.live.key[k]
         /\ disk.tmp.chain[k] = disk.live.chain[k]
  /\ pc \in {"fsync_key", "chain", "fsync_chain", "fsync_staging", "commit"}
       => disk.tmp.key[kt] = ver
  /\ pc \in {"fsync_chain", "fsync_staging", "commit"}
       => disk.tmp.chain[kt] = ver

(* what is committed is on the medium, *)
Flushed ==
  /\ pc # "idle" => ver > 0
  /\ pc \notin {"idle", "fsync_key", "marker"} => <<"key", ver>> \notin unsynced
  /\ pc \notin {"idle", "fsync_chain", "marker"} =>
       <<"chain", ver>> \notin unsynced

(* and between the two renames of win32 the key is in place and the chain is *)
(* still to come.                                                            *)
Landed ==
  pc = "publish_chain" => disk.live.key[kt] = ver /\ disk.tmp.chain[kt] = ver

Phases == Early /\ Staged /\ Flushed /\ Landed

LiveInv == TypeOK /\ LiveSound /\ WritesKnown /\ Phases

(* A step that brings no new live pair. *)
KeepsLive ==
  \A d \in Reachable' : \E e \in Reachable :
    d.live.key = e.live.key /\ d.live.chain = e.live.chain

(* A step after which no live file has bytes that may be lost. *)
KeepsSynced ==
  \A e \in Reachable, k \in KeyType :
    /\ <<"key", e.live.key[k]>> \in unsynced'
         => <<"key", e.live.key[k]>> \in unsynced
    /\ <<"chain", e.live.chain[k]>> \in unsynced'
         => <<"chain", e.live.chain[k]>> \in unsynced

(* A step that replaces live files by those of the order's version, the      *)
(* chain only if the key is in place.                                        *)
Replaces ==
  /\ pc \in {"commit", "publish_chain"}
  /\ UNCHANGED <<kind, unsynced, ver, stored, kt>>
  /\ Reachable' \subseteq Reachable \cup {disk'}
  /\ \A k \in KeyType :
       disk'.live.key[k] = disk.live.key[k] \/ disk'.live.key[k] = ver
  /\ \A k \in KeyType :
       \/ disk'.live.chain[k] = disk.live.chain[k]
       \/ disk'.live.chain[k] = ver /\ disk'.live.key[k] = ver

(* Contents are numbers. *)
LEMMA LiveNumbers ==
  ASSUME TypeOK
  PROVE  /\ ver \in Nat /\ kt \in KeyType /\ disk \in Reachable
         /\ stored \in [KeyType -> Nat]
         /\ disk \in Disk /\ disk.live \in Dir /\ disk.tmp \in Dir
         /\ \A d \in Reachable : d \in Disk /\ d.live \in Dir
         /\ \A d \in Reachable, k \in KeyType :
              d.live.key[k] \in Int /\ d.live.chain[k] \in Int
<1>1. /\ ver \in Nat /\ kt \in KeyType /\ disk \in Reachable
      /\ stored \in [KeyType -> Nat]
  BY StoreAssumption DEF TypeOK, Version, Reachable
<1>2. \A d \in Reachable : d \in Disk /\ d.live \in Dir /\ d.tmp \in Dir
  BY DEF TypeOK, Reachable, Disk
<1>3. \A d \in Reachable, k \in KeyType :
        d.live.key[k] \in Int /\ d.live.chain[k] \in Int
  BY <1>2 DEF Dir, Content, Version, Torn
<1> QED
  BY <1>1, <1>2, <1>3

(* A change of names that leaves the live files alone brings no new pair. *)
LEMMA ChangeKeepsLive ==
  ASSUME NEW d, Change(d), d.live.key = disk.live.key,
         d.live.chain = disk.live.chain
  PROVE  KeepsLive
BY DEF Change, KeepsLive, Reachable

(* Sound files stay sound when they stay, and bytes with them; *)
LEMMA KeptSound ==
  ASSUME LiveInv, KeepsLive, KeepsSynced, ver' \in Nat, ver <= ver'
  PROVE  LiveSound'
<1> SUFFICES ASSUME NEW d \in Reachable', NEW k \in KeyType
             PROVE  Sound(d, k)'
  BY DEF LiveSound
<1>1. PICK e \in Reachable :
        d.live.key = e.live.key /\ d.live.chain = e.live.chain
  BY DEF KeepsLive
<1>2. Sound(e, k) /\ e.live.key[k] \in Int /\ e.live.chain[k] \in Int
        /\ ver \in Nat
  BY LiveNumbers DEF LiveInv, LiveSound
<1> QED
  BY <1>1, <1>2 DEF Sound, KeepsSynced

(* and those that replace them are sound, because they are flushed. *)
LEMMA ReplacedSound ==
  ASSUME LiveInv, Replaces
  PROVE  LiveSound'
<1> SUFFICES ASSUME NEW d \in Reachable', NEW k \in KeyType
             PROVE  Sound(d, k)'
  BY DEF LiveSound
<1>1. CASE d \in Reachable
  BY <1>1 DEF LiveInv, LiveSound, Sound, Replaces
<1>2. CASE d = disk'
  <2>1. /\ ver \in Nat /\ ver > 0
        /\ <<"key", ver>> \notin unsynced /\ <<"chain", ver>> \notin unsynced
    BY LiveNumbers DEF LiveInv, Phases, Flushed, Replaces
  <2>2. Sound(disk, k) /\ disk.live.key[k] \in Int /\ disk.live.chain[k] \in Int
    BY LiveNumbers DEF LiveInv, LiveSound
  <2> QED
    BY <1>2, <2>1, <2>2 DEF Sound, Replaces
<1> QED
  BY <1>1, <1>2 DEF Replaces

(* A version that is nowhere live stays so while no new pair comes. *)
LEMMA KeptEarly ==
  ASSUME Early, KeepsLive, ver' = ver,
         pc \in {"clear", "mkdir", "seed", "key", "fsync_key", "chain"}
  PROVE  Early'
BY DEF Early, KeepsLive

(* The steps of an order, phase by phase.  A new version is beyond all that  *)
(* exist.                                                                    *)
LEMMA LiveStart ==
  ASSUME LiveInv, NEW k \in KeyType, StartOrder(k)
  PROVE  KeepsLive /\ KeepsSynced /\ WritesKnown' /\ Phases'
<1>0. /\ ver \in Nat /\ ver' = ver + 1 /\ ver' \in Version
      /\ Reachable' = Reachable /\ unsynced' = unsynced
      /\ pc' = "clear"
  BY LiveNumbers, StoreAssumption
  DEF LiveInv, StartOrder, Reachable, fsvars, Version
<1>a. \A d \in Reachable, i \in KeyType :
        d.live.key[i] \in Int /\ d.live.chain[i] \in Int
  BY LiveNumbers DEF LiveInv
<1>1. KeepsLive /\ KeepsSynced
  BY <1>0 DEF KeepsLive, KeepsSynced
<1>2. WritesKnown'
  BY <1>0 DEF LiveInv, WritesKnown, Version
<1>3. Early'
  <2> SUFFICES ASSUME NEW d \in Reachable, NEW i \in KeyType
               PROVE  d.live.key[i] < ver + 1 /\ d.live.chain[i] < ver + 1
    BY <1>0 DEF Early
  <2>1. Sound(d, i)
    BY DEF LiveInv, LiveSound
  <2> QED
    BY <1>0, <1>a, <2>1 DEF Sound
<1>4. Staged' /\ Landed'
  BY <1>0 DEF Staged, Landed
<1>5. Flushed'
  <2>1. \A part \in {"key", "chain"} : <<part, ver + 1>> \notin unsynced
    BY <1>0 DEF LiveInv, WritesKnown
  <2> QED
    BY <1>0, <2>1 DEF Flushed
<1> QED
  BY <1>1, <1>2, <1>3, <1>4, <1>5 DEF Phases

(* Removing a staging directory and writing the marker touch no live file. *)
LEMMA LiveClear ==
  ASSUME LiveInv, ClearStaging \/ RemoveOld \/ WriteMarker
  PROVE  KeepsLive /\ KeepsSynced /\ WritesKnown' /\ Phases'
<1>1. KeepsLive
  <2>1. CASE UNCHANGED <<disk, views>>
    BY <2>1 DEF KeepsLive, Reachable
  <2>2. CASE Change(RmStaging(disk))
    BY <2>2, RmTypes, ChangeKeepsLive DEF LiveInv
  <2>3. CASE Change([disk EXCEPT !.live.marker = TRUE])
    BY <2>3, LiveNumbers, ChangeKeepsLive DEF LiveInv, Disk, Dir
  <2> QED
    BY <2>1, <2>2, <2>3 DEF ClearStaging, RemoveOld, WriteMarker
<1>2. UNCHANGED <<kind, ver, stored, kt, unsynced>>
  BY DEF ClearStaging, RemoveOld, WriteMarker, Goto
<1>3. KeepsSynced /\ WritesKnown'
  BY <1>2 DEF KeepsSynced, LiveInv, WritesKnown
<1>4. Early'
  <2>1. CASE ClearStaging
    BY <1>1, <1>2, <2>1, KeptEarly DEF LiveInv, Phases, ClearStaging
  <2>2. CASE RemoveOld \/ WriteMarker
    BY <2>2 DEF Early, RemoveOld, WriteMarker, Goto
  <2> QED
    BY <2>1, <2>2
<1>5. Staged' /\ Flushed' /\ Landed'
  BY <1>2 DEF LiveInv, Phases, Staged, Flushed, Landed, ClearStaging,
              RemoveOld, WriteMarker, Goto
<1> QED
  BY <1>1, <1>3, <1>4, <1>5 DEF Phases

(* The steps that fill staging.  The bytes they write are of no live file.   *)
LEMMA LiveFill ==
  ASSUME LiveInv,
         Mkdir \/ SeedStaging \/ WriteKey \/ FsyncKey \/ WriteChain \/ FsyncChain
  PROVE  KeepsLive /\ KeepsSynced /\ WritesKnown' /\ Phases'
<1>a. disk \in Disk /\ disk.live \in Dir /\ disk.tmp \in Dir /\ kt \in KeyType
        /\ ver \in Nat
  BY LiveNumbers DEF LiveInv
<1>b. \A d \in Reachable, k \in KeyType :
        d.live.key[k] \in Int /\ d.live.chain[k] \in Int
  BY LiveNumbers DEF LiveInv
<1>1. disk'.live = disk.live /\ KeepsLive
  <2>1. CASE Mkdir
    BY <1>a, <2>1 DEF Mkdir, Change, KeepsLive, Reachable, Disk
  <2>2. CASE SeedStaging
    BY <1>a, <2>2 DEF SeedStaging, Change, KeepsLive, Reachable, Disk
  <2>3. CASE WriteKey
    BY <1>a, <2>3 DEF WriteKey, Change, KeepsLive, Reachable, Disk
  <2>4. CASE WriteChain
    BY <1>a, <2>4 DEF WriteChain, Change, KeepsLive, Reachable, Disk
  <2>5. CASE FsyncKey \/ FsyncChain
    BY <2>5 DEF FsyncKey, FsyncChain, KeepsLive, Reachable
  <2> QED
    BY <2>1, <2>2, <2>3, <2>4, <2>5
<1>2. UNCHANGED <<kind, ver, stored, kt>>
  BY DEF Mkdir, SeedStaging, WriteKey, FsyncKey, WriteChain, FsyncChain, Goto
<1>3. KeepsSynced /\ WritesKnown'
  <2>1. CASE WriteKey
    BY <1>2, <1>a, <1>b, <2>1
    DEF WriteKey, KeepsSynced, LiveInv, Phases, Early, WritesKnown
  <2>2. CASE WriteChain
    BY <1>2, <1>a, <1>b, <2>2
    DEF WriteChain, KeepsSynced, LiveInv, Phases, Early, WritesKnown
  <2>3. CASE ~WriteKey /\ ~WriteChain
    <3>1. unsynced' \subseteq unsynced
      BY <2>3 DEF Mkdir, SeedStaging, FsyncKey, FsyncChain
    <3> QED
      BY <1>2, <3>1 DEF KeepsSynced, LiveInv, WritesKnown
  <2> QED
    BY <2>1, <2>2, <2>3
<1>4. Early' /\ Landed'
  <2>1. CASE FsyncChain
    BY <2>1 DEF Early, Landed, FsyncChain, Goto
  <2>2. CASE ~FsyncChain
    <3>1. pc \in {"mkdir", "seed", "key", "fsync_key", "chain"}
            /\ pc' # "publish_chain"
      BY <2>2 DEF Mkdir, SeedStaging, WriteKey, FsyncKey, WriteChain, Goto
    <3> QED
      BY <1>1, <1>2, <3>1, KeptEarly DEF LiveInv, Phases, Landed
  <2> QED
    BY <2>1, <2>2
<1>5. Staged'
  <2>1. CASE Mkdir
    BY <2>1 DEF Staged, Mkdir, Goto
  <2>2. CASE SeedStaging
    <3>1. \A k \in KeyType \ {kt} :
            /\ disk'.tmp.key[k] = disk.live.key[k]
            /\ disk'.tmp.chain[k] = disk.live.chain[k]
      BY <1>a, <2>2 DEF SeedStaging, Change, Disk, Dir
    <3> QED
      BY <1>1, <1>2, <2>2, <3>1 DEF Staged, SeedStaging, Goto
  <2>3. CASE WriteKey
    <3>1. /\ disk'.tmp.key = [disk.tmp.key EXCEPT ![kt] = ver]
          /\ disk'.tmp.chain = disk.tmp.chain
      BY <1>a, <2>3 DEF WriteKey, Change, Disk, Dir
    <3>2. /\ disk'.tmp.key[kt] = ver
          /\ \A k \in KeyType \ {kt} : disk'.tmp.key[k] = disk.tmp.key[k]
      BY <1>a, <3>1 DEF Dir
    <3> QED
      BY <1>1, <1>2, <2>3, <3>1, <3>2
      DEF LiveInv, Phases, Staged, WriteKey, Goto
  <2>4. CASE WriteChain
    <3>1. /\ disk'.tmp.chain = [disk.tmp.chain EXCEPT ![kt] = ver]
          /\ disk'.tmp.key = disk.tmp.key
      BY <1>a, <2>4 DEF WriteChain, Change, Disk, Dir
    <3>2. /\ disk'.tmp.chain[kt] = ver
          /\ \A k \in KeyType \ {kt} : disk'.tmp.chain[k] = disk.tmp.chain[k]
      BY <1>a, <3>1 DEF Dir
    <3> QED
      BY <1>1, <1>2, <2>4, <3>1, <3>2
      DEF LiveInv, Phases, Staged, WriteChain, Goto
  <2>5. CASE FsyncKey \/ FsyncChain
    BY <1>2, <2>5 DEF LiveInv, Phases, Staged, FsyncKey, FsyncChain, Goto
  <2> QED
    BY <2>1, <2>2, <2>3, <2>4, <2>5
<1>6. Flushed'
  <2>1. CASE Mkdir \/ SeedStaging
    BY <1>2, <2>1 DEF LiveInv, Phases, Flushed, Mkdir, SeedStaging, Goto
  <2>2. CASE WriteKey \/ FsyncKey
    BY <1>2, <2>2 DEF LiveInv, Phases, Flushed, WriteKey, FsyncKey, Goto
  <2>3. CASE WriteChain \/ FsyncChain
    BY <1>2, <2>3 DEF LiveInv, Phases, Flushed, WriteChain, FsyncChain, Goto
  <2> QED
    BY <2>1, <2>2, <2>3
<1> QED
  BY <1>1, <1>3, <1>4, <1>5, <1>6 DEF Phases

(* The commit by one rename makes staging the live directory; *)
LEMMA LiveCommit ==
  ASSUME LiveInv, CommitFirst \/ CommitExchange
  PROVE  /\ Replaces /\ WritesKnown' /\ Phases'
         /\ disk'.live.key[kt] = ver /\ disk'.live.chain[kt] = ver
         /\ \A k \in KeyType \ {kt} :
              /\ disk'.live.key[k] = disk.live.key[k]
              /\ disk'.live.chain[k] = disk.live.chain[k]
<1>1. /\ pc = "commit" /\ pc' \in {"fsync_store", "rm_old"}
      /\ UNCHANGED <<kind, ver, stored, kt, unsynced>>
  BY DEF CommitFirst, CommitExchange, Goto
<1>2. disk'.live = disk.tmp /\ Reachable' \subseteq Reachable \cup {disk'}
  BY DEF CommitFirst, CommitExchange, Change, Reachable
<1>3. /\ disk'.live.key[kt] = ver /\ disk'.live.chain[kt] = ver
      /\ \A k \in KeyType \ {kt} : /\ disk'.live.key[k] = disk.live.key[k]
                                  /\ disk'.live.chain[k] = disk.live.chain[k]
  BY <1>1, <1>2 DEF LiveInv, Phases, Staged
<1>4. Replaces
  BY <1>1, <1>2, <1>3 DEF Replaces
<1>5. WritesKnown' /\ Phases'
  BY <1>1 DEF LiveInv, WritesKnown, Phases, Early, Staged, Flushed, Landed
<1> QED
  BY <1>3, <1>4, <1>5

(* that of win32 replaces the key and then the chain. *)
LEMMA LivePublish ==
  ASSUME LiveInv, PublishKey \/ PublishChain
  PROVE  Replaces /\ WritesKnown' /\ Phases'
<1>a. disk \in Disk /\ disk.live \in Dir /\ disk.tmp \in Dir /\ kt \in KeyType
        /\ ver \in Nat
  BY LiveNumbers DEF LiveInv
<1>1. /\ pc \in {"commit", "publish_chain"} /\ pc' \in {"publish_chain", "rm_old"}
      /\ UNCHANGED <<kind, ver, stored, kt, unsynced>>
      /\ Reachable' \subseteq Reachable \cup {disk'}
  BY DEF PublishKey, PublishChain, Goto, Change, Reachable
<1>2. WritesKnown' /\ Early' /\ Staged' /\ Flushed'
  BY <1>1 DEF LiveInv, WritesKnown, Phases, Early, Staged, Flushed
<1>3. CASE PublishKey
  <2>1. pc = "commit" /\ disk.tmp.key[kt] = ver /\ disk.tmp.chain[kt] = ver
    BY <1>3 DEF PublishKey, LiveInv, Phases, Staged
  <2>2. /\ disk'.live.key = [disk.live.key EXCEPT ![kt] = ver]
        /\ disk'.live.chain = disk.live.chain
        /\ disk'.tmp.chain = disk.tmp.chain
    BY <1>3, <1>a, <2>1 DEF PublishKey, Change, Disk, Dir
  <2>3. /\ disk'.live.key[kt] = ver
        /\ \A k \in KeyType \ {kt} : disk'.live.key[k] = disk.live.key[k]
    BY <1>a, <2>2 DEF Dir
  <2> QED
    BY <1>1, <1>2, <2>1, <2>2, <2>3 DEF Replaces, Phases, Landed
<1>4. CASE PublishChain
  <2>1. /\ pc = "publish_chain" /\ pc' = "rm_old"
        /\ disk.live.key[kt] = ver /\ disk.tmp.chain[kt] = ver
    BY <1>4 DEF PublishChain, LiveInv, Phases, Landed, Goto
  <2>2. /\ disk'.live.chain = [disk.live.chain EXCEPT ![kt] = ver]
        /\ disk'.live.key = disk.live.key
    BY <1>4, <1>a, <2>1 DEF PublishChain, Change, Disk, Dir
  <2>3. /\ disk'.live.chain[kt] = ver
        /\ \A k \in KeyType \ {kt} : disk'.live.chain[k] = disk.live.chain[k]
    BY <1>a, <2>2 DEF Dir
  <2> QED
    BY <1>1, <1>2, <2>1, <2>2, <2>3 DEF Replaces, Phases, Landed
<1> QED
  BY <1>3, <1>4

(* The fsync of a directory only forgets earlier states of it. *)
LEMMA LiveFsync ==
  ASSUME LiveInv, FsyncStaging \/ FsyncStore
  PROVE  KeepsLive /\ KeepsSynced /\ WritesKnown' /\ Phases'
<1>1. /\ Reachable' \subseteq Reachable /\ disk' = disk
      /\ UNCHANGED <<kind, ver, kt, unsynced>>
  BY DEF FsyncStaging, FsyncStore, FsyncDir, Reachable, Goto
<1>2. KeepsLive /\ KeepsSynced /\ WritesKnown'
  BY <1>1 DEF KeepsLive, KeepsSynced, LiveInv, WritesKnown
<1>3. Phases'
  BY <1>1 DEF LiveInv, Phases, Early, Staged, Flushed, Landed, FsyncStaging,
              FsyncStore, Goto
<1> QED
  BY <1>2, <1>3

(* Nothing of a live file can be torn by a power loss. *)
LEMMA LivePowerLoss ==
  ASSUME LiveInv, PowerLoss
  PROVE  KeepsLive /\ KeepsSynced /\ WritesKnown' /\ Phases'
<1>1. PICK d \in Reachable, lost \in SUBSET unsynced :
        disk' = [live |-> TearDir(d.live, lost), tmp |-> TearDir(d.tmp, lost)]
  BY DEF PowerLoss, Reachable
<1>2. /\ Reachable' = {disk'} /\ unsynced' = {} /\ pc' = "idle"
      /\ UNCHANGED <<kind, ver, stored, kt>>
  BY DEF PowerLoss, Reachable, Goto
<1>3. d.live \in Dir
  BY LiveNumbers DEF LiveInv
<1>4. \A k \in KeyType : /\ <<"key", d.live.key[k]>> \notin lost
                         /\ <<"chain", d.live.chain[k]>> \notin lost
  BY DEF LiveInv, LiveSound, Sound
<1>5. /\ Tear(d.live.key, "key", lost) = d.live.key
      /\ Tear(d.live.chain, "chain", lost) = d.live.chain
  BY <1>3, <1>4 DEF Tear, Dir
<1>6. disk'.live.key = d.live.key /\ disk'.live.chain = d.live.chain
  BY <1>1, <1>3, <1>5 DEF TearDir, Dir
<1>7. KeepsLive /\ KeepsSynced
  BY <1>2, <1>6 DEF KeepsLive, KeepsSynced
<1>8. WritesKnown' /\ Phases'
  BY <1>2 DEF WritesKnown, Phases, Early, Staged, Flushed, Landed
<1> QED
  BY <1>7, <1>8

(* The order that failed or died. *)
LEMMA LiveFails ==
  ASSUME LiveInv,
         MkdirFails \/ StoreFails \/ PublishChainFails \/ FsyncStoreFails \/ Crash
  PROVE  KeepsLive /\ KeepsSynced /\ WritesKnown' /\ Phases'
<1>1. KeepsLive
  <2>1. CASE UNCHANGED <<disk, views>>
    BY <2>1 DEF KeepsLive, Reachable
  <2>2. CASE Change(RmStaging(disk))
    BY <2>2, RmTypes, ChangeKeepsLive DEF LiveInv
  <2> QED
    BY <2>1, <2>2 DEF MkdirFails, StoreFails, PublishChainFails,
                      FsyncStoreFails, Crash, fsvars
<1>2. pc' = "idle" /\ UNCHANGED <<kind, unsynced, ver, stored, kt>>
  BY DEF MkdirFails, StoreFails, PublishChainFails, FsyncStoreFails, Crash,
         fsvars, Goto
<1> QED
  BY <1>1, <1>2 DEF KeepsSynced, LiveInv, WritesKnown, Phases, Early, Staged,
                    Flushed, Landed

(* What is no part of order_store leaves its state alone. *)
Beside == UNCHANGED <<kind, disk, views, unsynced, ver, stored, pc, kt>>

(* So do the ageing of a pair and the reloads of a worker. *)
LEMMA BesideSteps ==
  ASSUME \/ \E k \in KeyType : Age(k)
         \/ cache_reload \/ ReloadFails \/ WorkerRestart
         \/ UNCHANGED vars
  PROVE  Beside
BY DEF Beside, Age, cache_reload, ReloadStat, ReloadReadChain, ReloadReadKey,
       ReloadInstall, ReloadFails, WorkerRestart, fsvars, orvars, vars

(* Then nothing changes for the live directory. *)
LEMMA LiveBeside ==
  ASSUME LiveInv, Beside
  PROVE  KeepsLive /\ KeepsSynced /\ WritesKnown' /\ Phases'
<1>1. Reachable' = Reachable
  BY DEF Beside, Reachable
<1> QED
  BY <1>1 DEF Beside, KeepsLive, KeepsSynced, LiveInv, WritesKnown, Phases,
              Early, Staged, Flushed, Landed

(* Every step either leaves the live pairs and their bytes alone or replaces *)
(* files by flushed ones.                                                    *)
LEMMA LiveMoves ==
  ASSUME LiveInv, [Next]_vars
  PROVE  /\ WritesKnown' /\ Phases'
         /\ (KeepsLive /\ KeepsSynced) \/ Replaces
<1>1. ASSUME NEW k \in KeyType, StartOrder(k)
      PROVE  KeepsLive /\ KeepsSynced /\ WritesKnown' /\ Phases'
  BY <1>1, LiveStart
<1>2. CASE ClearStaging \/ RemoveOld \/ WriteMarker
  BY <1>2, LiveClear
<1>3. CASE Mkdir \/ SeedStaging \/ WriteKey \/ FsyncKey
             \/ WriteChain \/ FsyncChain
  BY <1>3, LiveFill
<1>4. CASE CommitFirst \/ CommitExchange
  BY <1>4, LiveCommit
<1>5. CASE PublishKey \/ PublishChain
  BY <1>5, LivePublish
<1>6. CASE FsyncStaging \/ FsyncStore
  BY <1>6, LiveFsync
<1>7. CASE MkdirFails \/ StoreFails \/ PublishChainFails \/ FsyncStoreFails
             \/ Crash
  BY <1>7, LiveFails
<1>8. CASE PowerLoss
  BY <1>8, LivePowerLoss
<1>9. CASE \/ \E k \in KeyType : Age(k)
           \/ cache_reload \/ ReloadFails \/ WorkerRestart
           \/ UNCHANGED vars
  BY <1>9, BesideSteps, LiveBeside
<1> QED
  BY <1>1, <1>2, <1>3, <1>4, <1>5, <1>6, <1>7, <1>8, <1>9
  DEF Next, order_store

(* Versions only grow. *)
LEMMA VersionGrows ==
  ASSUME TypeOK, [Next]_vars
  PROVE  ver \in Nat /\ ver' \in Nat /\ ver <= ver'
<1>1. ver \in Nat /\ ver' \in Nat
  BY StoreTypedStep, StoreAssumption DEF TypeOK, Version
<1>2. ver' = ver \/ ver' = ver + 1
  BY DEF vars, Next, order_store, cache_reload, StartOrder, Age, Goto,
         ClearStaging, Mkdir, MkdirFails, SeedStaging, WriteKey, FsyncKey,
         WriteChain, FsyncChain, FsyncStaging, CommitFirst, CommitExchange,
         PublishKey, PublishChain, PublishChainFails, RemoveOld, FsyncStore,
         FsyncStoreFails, WriteMarker, StoreFails, ReloadStat,
         ReloadReadChain, ReloadReadKey, ReloadInstall, ReloadFails, Crash,
         WorkerRestart, PowerLoss, orvars
<1> QED
  BY <1>1, <1>2

(* The invariant of the live directory is inductive. *)
LEMMA LiveInductive ==
  ASSUME LiveInv, [Next]_vars
  PROVE  LiveInv'
<1>1. TypeOK'
  BY StoreTypedStep DEF LiveInv
<1>2. LiveSound'
  BY LiveMoves, VersionGrows, KeptSound, ReplacedSound DEF LiveInv
<1> QED
  BY <1>1, <1>2, LiveMoves DEF LiveInv

(* It holds of the empty store. *)
LEMMA LiveStarts == Init => LiveInv
<1> SUFFICES ASSUME Init PROVE LiveInv
  OBVIOUS
<1>1. TypeOK
  BY ContentTypes, DirTypes, StoreAssumption DEF Init, TypeOK
<1>2. LiveSound
  <2>1. /\ Reachable = {disk} /\ unsynced = {} /\ ver = 0
        /\ disk.live = NoDir
    BY DEF Init, Reachable
  <2>2. \A k \in KeyType : NoDir.key[k] = 0 /\ NoDir.chain[k] = 0
    BY DEF NoDir, EmptyDir
  <2> SUFFICES ASSUME NEW k \in KeyType PROVE Sound(disk, k)
    BY <2>1 DEF LiveSound
  <2> QED
    BY <2>1, <2>2 DEF Sound
<1>3. WritesKnown /\ Phases
  BY DEF Init, WritesKnown, Phases, Early, Staged, Flushed, Landed
<1> QED
  BY <1>1, <1>2, <1>3 DEF LiveInv

(* On POSIX and on win32, in every state that a power loss can bring back,   *)
(* no chain is newer than the key beside it: a reload, which a new chain     *)
(* triggers, never finds an older key.                                       *)
THEOREM KeyBeforeChain == Spec => []ChainNeverAhead
<1>1. LiveInv => ChainNeverAhead
  BY DEF LiveInv, LiveSound, Sound, ChainNeverAhead
<1> QED
  BY <1>1, LiveStarts, LiveInductive, PTL DEF Spec

(* A step takes no safely stored key or chain out of the live directory: not *)
(* a commit, a half-done publish, a failed order, a crash or a power loss.   *)
THEOREM NothingGoesMissing == Spec => NeverMissing
<1> DEFINE Kept == \A k \in KeyType, part \in {"key", "chain"} :
                     (\A d \in Reachable : Safe(d, part, k))
                       => (\A d \in Reachable : Safe(d, part, k))'
<1>1. ASSUME LiveInv, [Next]_vars PROVE Kept
  <2> SUFFICES ASSUME NEW k \in KeyType, NEW part \in {"key", "chain"},
                      \A d \in Reachable : Safe(d, part, k),
                      NEW d \in Reachable'
               PROVE  Safe(d, part, k)'
    OBVIOUS
  <2>1. Sound(d, k)'
    BY <1>1, LiveInductive DEF LiveInv, LiveSound
  <2>2. CASE KeepsLive
    BY <2>1, <2>2 DEF KeepsLive, Safe, Sound
  <2>3. CASE Replaces
    <3>1. ver > 0 /\ disk \in Reachable
      BY <1>1, <2>3 DEF LiveInv, Phases, Flushed, Replaces, Reachable
    <3> QED
      BY <2>1, <2>3, <3>1 DEF Replaces, Safe, Sound
  <2> QED
    BY <1>1, <2>2, <2>3, LiveMoves
<1>2. LiveInv /\ [Next]_vars => [Kept]_vars
  BY <1>1
<1> QED
  BY <1>2, LiveStarts, LiveInductive, PTL DEF Spec, NeverMissing

-----------------------------------------------------------------------------
(* What CommittedSurvives needs besides.  On POSIX the new pair is in place, *)
(* as one directory, before success is reported,                             *)
Placed ==
  /\ pc # "publish_chain"
  /\ pc \in {"rm_old", "fsync_store"} =>
       disk.live.key[kt] = ver /\ disk.live.chain[kt] = ver

(* and what was reported is there, a pair, in every state that may come back. *)
Reported ==
  \A k \in KeyType :
    /\ stored[k] <= ver
    /\ stored[k] > 0 =>
         \A d \in Reachable :
           d.live.key[k] = d.live.chain[k] /\ d.live.chain[k] >= stored[k]

SafeInv == LiveInv /\ (~kind.win32 => Placed /\ Reported)

(* A step that neither brings new pairs nor reports one. *)
LEMMA KeptReported ==
  ASSUME SafeInv, ~kind.win32, KeepsLive, [Next]_vars, stored' = stored
  PROVE  Reported'
<1> SUFFICES ASSUME NEW k \in KeyType
             PROVE  /\ stored[k] <= ver'
                    /\ stored[k] > 0 =>
                         \A d \in Reachable' :
                           /\ d.live.key[k] = d.live.chain[k]
                           /\ d.live.chain[k] >= stored[k]
  BY DEF Reported
<1>1. stored[k] \in Nat /\ stored[k] <= ver /\ ver \in Nat /\ ver' \in Nat
        /\ ver <= ver'
  BY LiveNumbers, VersionGrows DEF SafeInv, LiveInv, Reported
<1>2. stored[k] > 0 => \A e \in Reachable : /\ e.live.key[k] = e.live.chain[k]
                                            /\ e.live.chain[k] >= stored[k]
  BY DEF SafeInv, Reported
<1> QED
  BY <1>1, <1>2 DEF KeepsLive

(* The commit puts the order's pair in place of the old one. *)
LEMMA CommitReported ==
  ASSUME SafeInv, ~kind.win32, CommitFirst \/ CommitExchange
  PROVE  Placed' /\ Reported'
<1>a. ver \in Nat /\ stored \in [KeyType -> Nat] /\ disk \in Reachable
  BY LiveNumbers DEF SafeInv, LiveInv
<1>1. /\ Replaces
      /\ disk'.live.key[kt] = ver /\ disk'.live.chain[kt] = ver
      /\ \A k \in KeyType \ {kt} : /\ disk'.live.key[k] = disk.live.key[k]
                                  /\ disk'.live.chain[k] = disk.live.chain[k]
  BY LiveCommit DEF SafeInv
<1>2. Placed'
  BY <1>1 DEF Placed, Replaces, CommitFirst, CommitExchange, Goto
<1>3. Reported'
  <2> SUFFICES ASSUME NEW k \in KeyType
               PROVE  /\ stored[k] <= ver
                      /\ stored[k] > 0 =>
                           \A d \in Reachable' :
                             /\ d.live.key[k] = d.live.chain[k]
                             /\ d.live.chain[k] >= stored[k]
    BY <1>1 DEF Reported, Replaces
  <2>1. /\ stored[k] <= ver
        /\ stored[k] > 0 => \A e \in Reachable :
                              /\ e.live.key[k] = e.live.chain[k]
                              /\ e.live.chain[k] >= stored[k]
    BY DEF SafeInv, Reported
  <2>2. ASSUME stored[k] > 0, NEW d \in Reachable'
        PROVE  d.live.key[k] = d.live.chain[k] /\ d.live.chain[k] >= stored[k]
    <3>1. CASE d \in Reachable
      BY <2>1, <2>2, <3>1
    <3>2. CASE d = disk' /\ k # kt
      BY <1>1, <1>a, <2>1, <2>2, <3>2
    <3>3. CASE d = disk' /\ k = kt
      BY <1>1, <1>a, <2>1, <3>3
    <3> QED
      BY <1>1, <2>2, <3>1, <3>2, <3>3 DEF Replaces
  <2> QED
    BY <2>1, <2>2
<1> QED
  BY <1>2, <1>3

(* The fsync of the container leaves only the state with the new pair, and   *)
(* success is reported.                                                      *)
LEMMA FsyncReported ==
  ASSUME SafeInv, ~kind.win32, FsyncStore
  PROVE  Placed' /\ Reported'
<1>a. ver \in Nat /\ stored \in [KeyType -> Nat] /\ kt \in KeyType
        /\ disk \in Reachable
  BY LiveNumbers DEF SafeInv, LiveInv
<1>1. /\ Reachable' = {disk} /\ ver' = ver
      /\ stored' = [stored EXCEPT ![kt] = ver]
  BY DEF FsyncStore, FsyncDir, Reachable
<1>2. disk.live.key[kt] = ver /\ disk.live.chain[kt] = ver
  BY DEF SafeInv, Placed, FsyncStore
<1>3. Placed'
  BY DEF Placed, FsyncStore
<1>4. Reported'
  <2> SUFFICES ASSUME NEW k \in KeyType
               PROVE  /\ stored'[k] <= ver
                      /\ stored'[k] > 0 =>
                           /\ disk.live.key[k] = disk.live.chain[k]
                           /\ disk.live.chain[k] >= stored'[k]
    BY <1>1 DEF Reported
  <2>1. CASE k = kt
    BY <1>1, <1>2, <1>a, <2>1
  <2>2. CASE k # kt
    BY <1>1, <1>a, <2>2 DEF SafeInv, Reported
  <2> QED
    BY <2>1, <2>2
<1> QED
  BY <1>3, <1>4

(* The place of an order is lost only by going back to the driver's loop. *)
LEMMA KeptPlaced ==
  ASSUME SafeInv, ~kind.win32, [Next]_vars, ~FsyncStore,
         ~CommitFirst, ~CommitExchange
  PROVE  Placed' /\ stored' = stored /\ KeepsLive
<1>1. ~PublishKey /\ ~PublishChain
  BY DEF PublishKey, PublishChain, SafeInv, Placed
<1>k. KeepsLive
  <2>1. ASSUME NEW k \in KeyType, StartOrder(k) PROVE KeepsLive
    BY <2>1, LiveStart DEF SafeInv
  <2> QED
    BY <1>1, <2>1, LiveClear, LiveFill, LiveFsync, LiveFails, LivePowerLoss,
       BesideSteps, LiveBeside
    DEF SafeInv, Next, order_store
<1>2. CASE pc' \notin {"publish_chain", "rm_old", "fsync_store"}
             /\ stored' = stored
  BY <1>2, <1>k DEF Placed
<1>3. CASE RemoveOld
  <2>1. disk'.live = disk.live /\ UNCHANGED <<ver, kt, stored>>
          /\ pc = "rm_old" /\ pc' = "fsync_store"
    BY <1>3, RmTypes DEF RemoveOld, Change, SafeInv, LiveInv, Goto
  <2> QED
    BY <1>k, <2>1 DEF SafeInv, Placed
<1>4. CASE Beside
  BY <1>4, <1>k DEF Beside, SafeInv, Placed
<1>5. \/ pc' \notin {"publish_chain", "rm_old", "fsync_store"}
           /\ stored' = stored
      \/ RemoveOld \/ Beside
  BY <1>1, BesideSteps
  DEF Next, order_store, StartOrder, Goto, ClearStaging, Mkdir, MkdirFails,
      SeedStaging, WriteKey, FsyncKey, WriteChain, FsyncChain, FsyncStaging,
      PublishChainFails, FsyncStoreFails, WriteMarker, StoreFails, Crash,
      PowerLoss
<1> QED
  BY <1>2, <1>3, <1>4, <1>5

(* On POSIX a pair that order_store reported as stored is never lost,        *)
(* whatever fails, crashes or loses power at whatever step, and whichever    *)
(* key type is renewed.                                                      *)
THEOREM StoredSurvives == Spec => []CommittedSurvives
<1>1. Init => SafeInv
  <2> SUFFICES ASSUME Init PROVE SafeInv
    OBVIOUS
  <2>1. Placed /\ Reported
    BY DEF Init, Placed, Reported
  <2> QED
    BY <2>1, LiveStarts DEF SafeInv
<1>2. SafeInv /\ [Next]_vars => SafeInv'
  <2> SUFFICES ASSUME SafeInv, [Next]_vars PROVE SafeInv'
    OBVIOUS
  <2>1. LiveInv'
    BY LiveInductive DEF SafeInv
  <2>2. kind' = kind
    BY DEF vars, Next, order_store, cache_reload, StartOrder, Age,
           ClearStaging, Mkdir, MkdirFails, SeedStaging, WriteKey, FsyncKey,
           WriteChain, FsyncChain, FsyncStaging, CommitFirst, CommitExchange,
           PublishKey, PublishChain, PublishChainFails, RemoveOld, FsyncStore,
           FsyncStoreFails, WriteMarker, StoreFails, ReloadStat,
           ReloadReadChain, ReloadReadKey, ReloadInstall, ReloadFails, Crash,
           WorkerRestart, PowerLoss
  <2>3. ASSUME ~kind.win32 PROVE Placed' /\ Reported'
    <3>1. CASE CommitFirst \/ CommitExchange
      BY <2>3, <3>1, CommitReported
    <3>2. CASE FsyncStore
      BY <2>3, <3>2, FsyncReported
    <3>3. CASE ~CommitFirst /\ ~CommitExchange /\ ~FsyncStore
      BY <2>3, <3>3, KeptPlaced, KeptReported
    <3> QED
      BY <3>1, <3>2, <3>3
  <2> QED
    BY <2>1, <2>2, <2>3 DEF SafeInv
<1>3. SafeInv => CommittedSurvives
  <2> SUFFICES ASSUME SafeInv, ~kind.win32, NEW k \in KeyType, stored[k] > 0,
                      NEW d \in Reachable
               PROVE  Whole(d, k) /\ d.live.chain[k] >= stored[k]
    BY DEF CommittedSurvives
  <2>1. /\ d.live.key[k] = d.live.chain[k] /\ d.live.chain[k] >= stored[k]
        /\ Sound(d, k)
    BY DEF SafeInv, LiveInv, LiveSound, Reported
  <2>2. stored[k] \in Nat /\ d.live.chain[k] \in Int
    BY LiveNumbers DEF SafeInv, LiveInv
  <2> QED
    BY <2>1, <2>2 DEF Whole, Safe, Sound
<1> QED
  BY <1>1, <1>2, <1>3, PTL DEF Spec

(* A worker never serves a chain with a key that is not its own, however the *)
(* files changed between the reads, torn and half-published ones included.   *)
THEOREM ServesPairs == Spec => []ServedPair
<1>1. Init => ServedPair
  <2> SUFFICES ASSUME Init PROVE ServedPair
    OBVIOUS
  <2>1. slot = [k \in KeyType |-> EmptySlot]
    BY DEF Init
  <2>2. EmptySlot.key = 0 /\ EmptySlot.chain = 0
    BY DEF EmptySlot
  <2>3. EmptySlot.key = EmptySlot.chain /\ EmptySlot.chain >= 0
    BY <2>2
  <2>4. \A k \in KeyType : slot[k] = EmptySlot
    BY <2>1
  <2> QED
    BY <2>3, <2>4, Zenon DEF ServedPair
<1>2. TypeOK /\ ServedPair /\ [Next]_vars => ServedPair'
  <2> SUFFICES ASSUME TypeOK, ServedPair, [Next]_vars PROVE ServedPair'
    OBVIOUS
  <2>1. CASE UNCHANGED slot
    BY <2>1 DEF ServedPair
  <2>2. CASE PowerLoss \/ WorkerRestart
    BY <2>2 DEF ServedPair, PowerLoss, WorkerRestart, EmptySlot
  <2>3. CASE ReloadInstall
    <3>1. rd.kt \in KeyType /\ rd.chain \in Int
      BY DEF TypeOK, Content, Version, Torn
    <3>2. slot \in [KeyType -> [stamp : Content, chain : Content,
                               key : Content]]
      BY DEF TypeOK
    <3> QED
      BY <2>3, <3>1, <3>2 DEF ServedPair, ReloadInstall
  <2>4. UNCHANGED slot \/ PowerLoss \/ WorkerRestart \/ ReloadInstall
    BY DEF vars, Next, order_store, cache_reload, StartOrder, Age,
           ClearStaging, Mkdir, MkdirFails, SeedStaging, WriteKey, FsyncKey,
           WriteChain, FsyncChain, FsyncStaging, CommitFirst, CommitExchange,
           PublishKey, PublishChain, PublishChainFails, RemoveOld, FsyncStore,
           FsyncStoreFails, WriteMarker, StoreFails, ReloadStat,
           ReloadReadChain, ReloadReadKey, ReloadFails, Crash, rdvars
  <2> QED
    BY <2>1, <2>2, <2>3, <2>4
<1> QED
  BY <1>1, <1>2, StoreTyped, PTL DEF Spec
=============================================================================
