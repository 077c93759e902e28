------------------------------- MODULE Store -------------------------------
(***************************************************************************)
(* How an issued pair gets to disk and from there into a handshake: the    *)
(* commit of ngx_autocert_order.c (order_store and its helpers), the       *)
(* freshness test of the driver that decides on the next order, the marker *)
(* of a runtime name, and the reload of a worker's cache in                *)
(* ngx_autocert_serve.c, which reads the same files while they change.     *)
(*                                                                         *)
(* One name.  An order brings a new version: the number stands for the     *)
(* bytes of its key and of its chain, and for the identity (inode, mtime,  *)
(* size) of the files that hold them.  cert.pem and chain.pem of the       *)
(* certbot layout are left out: they travel with the pair, nobody reads    *)
(* them.                                                                   *)
(*                                                                         *)
(* The file system keeps names in an ordered journal (ext4, xfs, NTFS): a  *)
(* power loss goes back to some earlier state of the names, never to a mix *)
(* of two, and an fsync of a directory leaves nothing to go back to.  The  *)
(* bytes of a file that was not fsync'd may be lost with the power.        *)
(***************************************************************************)
EXTENDS Integers

CONSTANTS
  KeyType,       \* the configured key types, ec and rsa
  First,         \* cert_key_types[0], the only one of a runtime name
  KINDS,         \* build and kind of name an instance looks at
  MAX_VER,       \* bound: orders there may be
  AGE_BELOW,     \* bound: certificates age only while ver is below
  MAX_FAULTS     \* bound: failed calls, crashes, restarts, power losses

ASSUME StoreAssumption ==
  /\ First \in KeyType
  /\ KINDS \subseteq [win32 : BOOLEAN, runtime : BOOLEAN]
  /\ MAX_VER \in Nat /\ AGE_BELOW \in Nat /\ MAX_FAULTS \in Nat

VARIABLES
  kind,      \* NGX_WIN32, and whether the name is a runtime name
  disk,      \* the directories <seg> and <seg>.tmp as the kernel shows them
  views,     \* earlier states of them a power loss can still bring back
  unsynced,  \* files whose bytes are not on the medium
  ver,       \* versions issued so far
  stored,    \* per key type, the last version order_store reported NGX_OK for
  aged,      \* per key type, the versions up to this one are to be renewed
  pc, kt,    \* where order_store is, order->key_type
  rd,        \* cache_reload of a worker: its local variables
  slot,      \* the worker's cache: what it serves and the stamp it came with
  faults     \* faults so far

vars == <<kind, disk, views, unsynced, ver, stored, aged, pc, kt, rd, slot,
          faults>>

fsvars == <<disk, views, unsynced>>
orvars == <<ver, stored, aged, pc, kt>>
rdvars == <<rd, slot>>

Torn == -1          \* the contents of a file whose bytes were lost
Version == 0..MAX_VER
Content == Version \cup {Torn}      \* 0: no such file

Dir == [there : BOOLEAN, key : [KeyType -> Content],
        chain : [KeyType -> Content], marker : BOOLEAN]

EmptyDir == [there |-> TRUE, key |-> [k \in KeyType |-> 0],
             chain |-> [k \in KeyType |-> 0], marker |-> FALSE]
NoDir == [EmptyDir EXCEPT !.there = FALSE]

IdleReload == [at |-> "idle", kt |-> First, stamp |-> 0, chain |-> 0,
               key |-> 0]
EmptySlot == [stamp |-> 0, chain |-> 0, key |-> 0]

-----------------------------------------------------------------------------
Init ==
  /\ kind \in KINDS
  /\ disk = [live |-> NoDir, tmp |-> NoDir]
  /\ views = {}
  /\ unsynced = {}
  /\ ver = 0
  /\ stored = [k \in KeyType |-> 0]
  /\ aged = [k \in KeyType |-> 0]
  /\ pc = "idle" /\ kt = First
  /\ rd = IdleReload
  /\ slot = [k \in KeyType |-> EmptySlot]
  /\ faults = 0

(* A system call that changes names: the state before it may come back. *)
Change(d) ==
  /\ disk' = d
  /\ views' = IF d = disk THEN views ELSE views \cup {disk}

(* order_fsync_dirfd.  The win32 one does nothing. *)
FsyncDir == views' = IF kind.win32 THEN views ELSE {}

Fault == faults < MAX_FAULTS /\ faults' = faults + 1

Goto(l) == pc' = l /\ UNCHANGED <<ver, stored, aged, kt>>

(* What rm_staging_at leaves: it knows the files of both key types and no    *)
(* other, and the rmdir fails on a directory that is not empty.              *)
rm_staging_at(d) ==
  IF d.marker THEN [EmptyDir EXCEPT !.marker = TRUE] ELSE NoDir

RmStaging(d) == [d EXCEPT !.tmp = rm_staging_at(@)]

-----------------------------------------------------------------------------
(* name_due: no chain, a key that is missing or does not pair with it, a     *)
(* pair that cannot be read as PEM, or one inside its renew window.          *)
name_due(k) ==
  LET d == disk.live
  IN  d.chain[k] < 1 \/ d.key[k] # d.chain[k] \/ d.chain[k] <= aged[k]

(* The driver finds the name due and its order reaches order_store with a    *)
(* new pair.  One order at a time; a runtime name has one key type only.     *)
StartOrder(k) ==
  /\ pc = "idle"
  /\ name_due(k)
  /\ kind.runtime => k = First
  /\ ver < MAX_VER
  /\ ver' = ver + 1 /\ kt' = k
  /\ pc' = "clear"
  /\ UNCHANGED <<kind, stored, aged, fsvars, rdvars, faults>>

(* The pair on disk enters its renew window. *)
Age(k) ==
  /\ ver < AGE_BELOW
  /\ disk.live.chain[k] > aged[k]
  /\ aged' = [aged EXCEPT ![k] = disk.live.chain[k]]
  /\ UNCHANGED <<kind, ver, stored, pc, kt, fsvars, rdvars, faults>>

(* order_store: what an earlier attempt left behind is removed, *)
ClearStaging ==
  /\ pc = "clear"
  /\ \/ Change(RmStaging(disk)) /\ UNCHANGED faults
     \/ Fault /\ UNCHANGED <<disk, views>>      \* best effort: (void)
  /\ Goto("mkdir")
  /\ UNCHANGED <<kind, unsynced, rdvars>>

(* and a fresh one made.  One that is still there is an error. *)
Mkdir ==
  /\ pc = "mkdir" /\ ~disk.tmp.there
  /\ Change([disk EXCEPT !.tmp = EmptyDir])
  /\ Goto("seed")
  /\ UNCHANGED <<kind, unsynced, rdvars, faults>>

MkdirFails ==
  /\ pc = "mkdir"
  /\ \/ disk.tmp.there /\ UNCHANGED faults      \* EEXIST
     \/ Fault
  /\ Goto("idle")
  /\ UNCHANGED <<kind, fsvars, rdvars>>

(* MUTANT: nothing is carried over from the live directory. *)
SeedStaging_Nothing ==
  /\ pc = "seed"
  /\ Goto("key")
  /\ UNCHANGED <<kind, fsvars, rdvars, faults>>

(* seed_staging_at: hard links to the other key type's live files. *)
SeedStaging ==
  LET Seed(f) == [k \in KeyType |-> IF k = kt THEN 0 ELSE f[k]]
  IN  /\ pc = "seed"
      /\ Change([disk EXCEPT !.tmp.key = Seed(disk.live.key),
                             !.tmp.chain = Seed(disk.live.chain)])
      /\ Goto("key")
      /\ UNCHANGED <<kind, unsynced, rdvars, faults>>

(* write_tmp_at: the bytes, *)
WriteKey ==
  /\ pc = "key"
  /\ Change([disk EXCEPT !.tmp.key[kt] = ver])
  /\ unsynced' = unsynced \cup {<<"key", ver>>}
  /\ Goto("fsync_key")
  /\ UNCHANGED <<kind, rdvars, faults>>

(* and the fsync. *)
FsyncKey ==
  /\ pc = "fsync_key"
  /\ unsynced' = unsynced \ {<<"key", ver>>}
  /\ Goto("chain")
  /\ UNCHANGED <<kind, disk, views, rdvars, faults>>

WriteChain ==
  /\ pc = "chain"
  /\ Change([disk EXCEPT !.tmp.chain[kt] = ver])
  /\ unsynced' = unsynced \cup {<<"chain", ver>>}
  /\ Goto("fsync_chain")
  /\ UNCHANGED <<kind, rdvars, faults>>

FsyncChain ==
  /\ pc = "fsync_chain"
  /\ unsynced' = unsynced \ {<<"chain", ver>>}
  /\ Goto("fsync_staging")
  /\ UNCHANGED <<kind, disk, views, rdvars, faults>>

FsyncStaging ==
  /\ pc = "fsync_staging"
  /\ FsyncDir
  /\ Goto("commit")
  /\ UNCHANGED <<kind, disk, unsynced, rdvars, faults>>

(* No live directory yet: RENAME_NOREPLACE. *)
CommitFirst ==
  /\ pc = "commit" /\ ~disk.live.there
  /\ Change([live |-> disk.tmp, tmp |-> NoDir])
  /\ Goto("fsync_store")
  /\ UNCHANGED <<kind, unsynced, rdvars, faults>>

(* swap_dirs_at: RENAME_EXCHANGE. *)
CommitExchange ==
  /\ pc = "commit" /\ disk.live.there /\ ~kind.win32
  /\ Change([live |-> disk.tmp, tmp |-> disk.live])
  /\ Goto("rm_old")
  /\ UNCHANGED <<kind, unsynced, rdvars, faults>>

(* MUTANT: the chain is published before the key. *)
PublishKey_ChainFirst ==
  /\ pc = "commit" /\ disk.live.there /\ kind.win32
  /\ Change([disk EXCEPT !.live.chain[kt] = disk.tmp.chain[kt],
                         !.tmp.chain[kt] = 0])
  /\ Goto("publish_chain")
  /\ UNCHANGED <<kind, unsynced, rdvars, faults>>

(* publish_files_at (win32): the key replaces the live one, *)
PublishKey ==
  /\ pc = "commit" /\ disk.live.there /\ kind.win32
  /\ Change([disk EXCEPT !.live.key[kt] = disk.tmp.key[kt],
                         !.tmp.key[kt] = 0])
  /\ Goto("publish_chain")
  /\ UNCHANGED <<kind, unsynced, rdvars, faults>>

(* then the chain. *)
PublishChain ==
  /\ pc = "publish_chain"
  /\ Change([disk EXCEPT !.live.chain[kt] = disk.tmp.chain[kt],
                         !.tmp.chain[kt] = 0])
  /\ Goto("rm_old")
  /\ UNCHANGED <<kind, unsynced, rdvars, faults>>

(* NGX_ABORT: the key has landed, the chain has not; staging is kept. *)
PublishChainFails ==
  /\ pc = "publish_chain"
  /\ Fault
  /\ Goto("idle")
  /\ UNCHANGED <<kind, fsvars, rdvars>>

(* The old directory, or what is left of staging on win32. *)
RemoveOld ==
  /\ pc = "rm_old"
  /\ \/ Change(RmStaging(disk)) /\ UNCHANGED faults
     \/ Fault /\ UNCHANGED <<disk, views>>
  /\ Goto("fsync_store")
  /\ UNCHANGED <<kind, unsynced, rdvars>>

(* MUTANT: success is reported without it. *)
FsyncStore_Not ==
  /\ pc = "fsync_store"
  /\ stored' = [stored EXCEPT ![kt] = ver]
  /\ pc' = IF kind.runtime THEN "marker" ELSE "idle"
  /\ UNCHANGED <<kind, fsvars, ver, aged, kt, rdvars, faults>>

(* The container is fsync'd, order_store returns NGX_OK, and the driver      *)
(* hears of it (order_complete).                                             *)
FsyncStore ==
  /\ pc = "fsync_store"
  /\ FsyncDir
  /\ stored' = [stored EXCEPT ![kt] = ver]
  /\ pc' = IF kind.runtime THEN "marker" ELSE "idle"
  /\ UNCHANGED <<kind, disk, unsynced, ver, aged, kt, rdvars, faults>>

(* It fails: NGX_ERROR, although the pair is in place. *)
FsyncStoreFails ==
  /\ pc = "fsync_store" /\ ~kind.win32
  /\ Fault
  /\ Goto("idle")
  /\ UNCHANGED <<kind, fsvars, rdvars>>

(* runtime_marker_write: best effort, no fsync. *)
WriteMarker ==
  /\ pc = "marker"
  /\ \/ Change([disk EXCEPT !.live.marker = TRUE]) /\ UNCHANGED faults
     \/ Fault /\ UNCHANGED <<disk, views>>
  /\ Goto("idle")
  /\ UNCHANGED <<kind, unsynced, rdvars>>

(* NGX_AUTOCERT_STORE_FAIL, and a commit that failed before any name of the  *)
(* live directory changed.                                                   *)
StoreFails ==
  /\ pc \in {"seed", "key", "fsync_key", "chain", "fsync_chain",
             "fsync_staging", "commit"}
  /\ Fault
  /\ Change(RmStaging(disk))
  /\ Goto("idle")
  /\ UNCHANGED <<kind, unsynced, rdvars>>

order_store ==
  \/ ClearStaging \/ Mkdir \/ MkdirFails \/ SeedStaging
  \/ WriteKey \/ FsyncKey \/ WriteChain \/ FsyncChain \/ FsyncStaging
  \/ CommitFirst \/ CommitExchange \/ PublishKey \/ PublishChain
  \/ RemoveOld \/ FsyncStore \/ WriteMarker

-----------------------------------------------------------------------------
(* cache_reload: the stamp is taken first.  No chain, or the stamp of the    *)
(* slot (slot_fresh): nothing to do.                                         *)
ReloadStat(k) ==
  /\ rd.at = "idle"
  /\ disk.live.chain[k] \notin {0, slot[k].stamp}
  /\ rd' = [IdleReload EXCEPT !.at = "chain", !.kt = k,
                              !.stamp = disk.live.chain[k]]
  /\ UNCHANGED <<kind, fsvars, orvars, slot, faults>>

ReloadReadChain ==
  /\ rd.at = "chain"
  /\ rd' = IF disk.live.chain[rd.kt] = 0 THEN IdleReload
           ELSE [rd EXCEPT !.at = "key", !.chain = disk.live.chain[rd.kt]]
  /\ UNCHANGED <<kind, fsvars, orvars, slot, faults>>

ReloadReadKey ==
  /\ rd.at = "key"
  /\ rd' = IF disk.live.key[rd.kt] = 0 THEN IdleReload
           ELSE [rd EXCEPT !.at = "check", !.key = disk.live.key[rd.kt]]
  /\ UNCHANGED <<kind, fsvars, orvars, slot, faults>>

(* MUTANT: the pair is not checked. *)
ReloadInstall_Unchecked ==
  /\ rd.at = "check"
  /\ rd' = IdleReload
  /\ slot' = [slot EXCEPT ![rd.kt] =
               [stamp |-> rd.stamp, chain |-> rd.chain, key |-> rd.key]]
  /\ UNCHANGED <<kind, fsvars, orvars, faults>>

(* MUTANT: the stamp is taken when the pair is installed. *)
ReloadInstall_LateStamp ==
  /\ rd.at = "check"
  /\ rd' = IdleReload
  /\ slot' = IF rd.chain > 0 /\ rd.key = rd.chain
             THEN [slot EXCEPT ![rd.kt] =
                    [stamp |-> disk.live.chain[rd.kt], chain |-> rd.chain,
                     key |-> rd.key]]
             ELSE slot
  /\ UNCHANGED <<kind, fsvars, orvars, faults>>

(* A chain and a key that are PEM and belong together take the slot; any     *)
(* others leave the last good pair and its stamp.                            *)
ReloadInstall ==
  /\ rd.at = "check"
  /\ rd' = IdleReload
  /\ slot' = IF rd.chain > 0 /\ rd.key = rd.chain
             THEN [slot EXCEPT ![rd.kt] =
                    [stamp |-> rd.stamp, chain |-> rd.chain, key |-> rd.key]]
             ELSE slot
  /\ UNCHANGED <<kind, fsvars, orvars, faults>>

(* A file that cannot be opened or read, or whose directory was renamed and  *)
(* emptied between the walk to it and the open.                              *)
ReloadFails ==
  /\ rd.at \in {"chain", "key"}
  /\ Fault
  /\ rd' = IdleReload
  /\ UNCHANGED <<kind, fsvars, orvars, slot>>

cache_reload ==
  \/ \E k \in KeyType : ReloadStat(k)
  \/ ReloadReadChain \/ ReloadReadKey \/ ReloadInstall

-----------------------------------------------------------------------------
(* The driver's worker dies: what the kernel has stays. *)
Crash ==
  /\ pc # "idle"
  /\ Fault
  /\ Goto("idle")
  /\ UNCHANGED <<kind, fsvars, rdvars>>

(* The serving worker is replaced by one with an empty cache. *)
WorkerRestart ==
  /\ Fault
  /\ rd' = IdleReload
  /\ slot' = [k \in KeyType |-> EmptySlot]
  /\ UNCHANGED <<kind, fsvars, orvars>>

Tear(f, part, lost) ==
  [k \in KeyType |-> IF <<part, f[k]>> \in lost THEN Torn ELSE f[k]]

TearDir(d, lost) ==
  [d EXCEPT !.key = Tear(@, "key", lost), !.chain = Tear(@, "chain", lost)]

PowerLoss ==
  /\ Fault
  /\ \E d \in views \cup {disk}, lost \in SUBSET unsynced :
       disk' = [live |-> TearDir(d.live, lost), tmp |-> TearDir(d.tmp, lost)]
  /\ views' = {} /\ unsynced' = {}
  /\ Goto("idle")
  /\ rd' = IdleReload
  /\ slot' = [k \in KeyType |-> EmptySlot]
  /\ UNCHANGED kind

Next ==
  \/ \E k \in KeyType : StartOrder(k) \/ Age(k)
  \/ order_store \/ StoreFails \/ PublishChainFails \/ FsyncStoreFails
  \/ cache_reload \/ ReloadFails
  \/ Crash \/ WorkerRestart \/ PowerLoss

(* order_store runs to its end without yielding, the driver sweeps on its    *)
(* timer and the name is asked for in handshakes.  No fault need happen and  *)
(* no certificate need age.                                                  *)
Fairness ==
  /\ \A k \in KeyType : WF_vars(StartOrder(k)) /\ WF_vars(ReloadStat(k))
  /\ WF_vars(order_store)
  /\ WF_vars(ReloadReadChain) /\ WF_vars(ReloadReadKey)
  /\ WF_vars(ReloadInstall)

Spec == Init /\ [][Next]_vars

FairSpec == Spec /\ Fairness

-----------------------------------------------------------------------------
(* TYPE INVARIANT. *)
TypeOK ==
  /\ kind \in KINDS
  /\ disk \in [live : Dir, tmp : Dir]
  /\ views \subseteq [live : Dir, tmp : Dir]
  /\ unsynced \subseteq {"key", "chain"} \X Version
  /\ ver \in Version
  /\ stored \in [KeyType -> Version] /\ aged \in [KeyType -> Content]
  /\ pc \in {"idle", "clear", "mkdir", "seed", "key", "fsync_key", "chain",
             "fsync_chain", "fsync_staging", "commit", "publish_chain",
             "rm_old", "fsync_store", "marker"}
  /\ kt \in KeyType
  /\ rd \in [at : {"idle", "chain", "key", "check"}, kt : KeyType,
             stamp : Content, chain : Content, key : Content]
  /\ slot \in [KeyType -> [stamp : Content, chain : Content, key : Content]]
  /\ faults \in 0..MAX_FAULTS

(* Everything the two directories may turn out to be after a power loss. *)
Reachable == views \cup {disk}

(* A live file that is there, and on the medium. *)
Safe(d, part, k) ==
  LET v == IF part = "key" THEN d.live.key[k] ELSE d.live.chain[k]
  IN  v > 0 /\ <<part, v>> \notin unsynced

Whole(d, k) ==
  Safe(d, "key", k) /\ Safe(d, "chain", k) /\ d.live.key[k] = d.live.chain[k]

(* What order_store reported as stored stays stored: on POSIX, at every      *)
(* instant, whatever the power loss, the live directory holds a matching     *)
(* pair of each key type it reported, of that version or a later one.  No    *)
(* order of the other key type, no failed or crashed order and no renewal    *)
(* takes it away.                                                            *)
CommittedSurvives ==
  ~kind.win32 =>
    \A k \in KeyType :
      stored[k] > 0 =>
        \A d \in Reachable : Whole(d, k) /\ d.live.chain[k] >= stored[k]

(* Nothing that is safely in the live directory ever goes missing from it,   *)
(* on win32 either, where the pair is replaced file by file: a key or a      *)
(* chain is only ever replaced by another whole one.                         *)
NeverMissing ==
  [][\A k \in KeyType, part \in {"key", "chain"} :
       (\A d \in Reachable : Safe(d, part, k))
         => (\A d \in Reachable : Safe(d, part, k))']_vars

(* The key is published before the chain: a reload is triggered by the chain *)
(* and must not find the key of an older one beside it.                      *)
ChainNeverAhead ==
  \A d \in Reachable, k \in KeyType : d.live.chain[k] <= d.live.key[k]

(* A worker serves a chain only with the key that belongs to it, although it *)
(* reads the two files while the driver replaces them.                       *)
ServedPair ==
  \A k \in KeyType : slot[k].key = slot[k].chain /\ slot[k].chain >= 0

(* Once faults stop and no more certificates age, every key type of the name *)
(* ends with a matching pair on disk that is not due, and every worker ends  *)
(* up serving that pair: no torn publish, no leftover directory and no stale *)
(* stamp stands in the way for ever.  A runtime name on POSIX is excepted:   *)
(* its marker does stand in the way, see StagingCleared.                     *)
Converges ==
  \A k \in KeyType :
    (~kind.runtime \/ (kind.win32 /\ k = First)) =>
      <>[](~name_due(k) /\ slot[k].chain = disk.live.chain[k])

(* order.c:3508-3512 says of rm_staging_at that it removes every file that   *)
(* can be left in the staging directory, so that no leftover blocks the next *)
(* renewal's mkdirat.                                                        *)
StagingCleared == pc = "mkdir" => ~disk.tmp.there
=============================================================================
