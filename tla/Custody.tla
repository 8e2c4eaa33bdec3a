------------------------------ MODULE Custody ------------------------------
(***************************************************************************)
(* Upload, acknowledgement and local removal of one finalized segment      *)
(* (sync.rs: local_finish, run_sweep, delete_confirmed_segment).           *)
(*                                                                         *)
(* The sync task resolves the files of the segment directory, takes their  *)
(* identities and digests, looks for an acknowledgement of exactly those   *)
(* bytes by the paired journal, uploads when there is none and it is due,  *)
(* writes ack.json when the receipt covers every file, and only then       *)
(* unlinks the files one by one, each after a fresh check of its inode and *)
(* digest.  Files may be edited from outside, writes may fail, the process *)
(* may be killed between any two steps and paired with another journal     *)
(* while it is down, and the name may be used again by a later segment.    *)
(*                                                                         *)
(* The journal is external: it stores any part of what it receives, its    *)
(* answer may be lost, and a descriptor it marks written is one it holds.  *)
(***************************************************************************)
EXTENDS Integers, FiniteSets

CONSTANTS
    None,          \* absence: no file, no record, no cache entry
    Names,         \* file names, as numbers: their order is the sort order
    Bytes,         \* contents a file can have
    LongBytes,     \* the contents that differ in size from the others
    Captured,      \* the contents a finalized segment can start with
    MaxPublishes,  \* how often a segment is finalized under this name
    MaxPairings,   \* how many journals are paired, one after the other
    MaxEdits,      \* edits of a file from outside
    MaxFaults,     \* failing writes, unlinks, renames and removals
    MaxKills       \* how often the process is killed

(* The records of files, of file identities, of ack.json and of the cached   *)
(* inventory.                                                                *)
Digests == [Names -> Bytes \union {None}]
Files == [ino : Nat, ver : Nat, bytes : Bytes]
FileIdentities == [ino : Nat, ver : Nat, size : {1, 2}]
Acks == [journal : Nat, files : Digests]
Caches == [idents : [Names -> FileIdentities \union {None}], inv : Digests]

ASSUME ConstantsAssumption ==
    /\ Names \subseteq Nat \ {0} /\ Names # {} /\ IsFiniteSet(Names)
    /\ LongBytes \subseteq Bytes /\ Captured \subseteq Bytes /\ None \notin Bytes
    /\ None \notin Files \union FileIdentities \union Acks \union Caches
    /\ MaxPairings \in Nat \ {0}
    /\ {MaxPublishes, MaxEdits, MaxFaults, MaxKills} \subseteq Nat

VARIABLES
    dir,         \* the finalized directory exists
    files,       \* name -> [ino, ver, bytes], or None
    conflict,    \* name -> bytes kept as .retention-conflict-<index>, or None
    temp,        \* a temporary file of an atomic write is in the directory
    zone,        \* the capture-time sibling exists
    publishing,  \* finalize has renamed the directory, the zone is to come
    ack,         \* ack.json: [journal, files], or None
    sched,       \* state.json: [journal, waiting], or None
    identity,    \* the paired journal
    pc,          \* where the sync task stands
    sweeping,    \* local_finish was called by run_sweep
    finishing,   \* in the candidate loop of local_finish
    seen,        \* the scan listed the candidate
    found,       \* the paths resolve_segment_files returned
    idents,      \* the identities file_identities returned
    cache,       \* the cached inventory: [idents, inv], or None
    digests,     \* the digests deletion must find, by name
    floor,       \* SyncMemoryFloors asks to wait
    handles,     \* the open files deletion can restore from
    left,        \* the names deletion or restoration has still to visit
    held,        \* <<journal, name, bytes>> a journal stores (external)
    removed,     \* the journals that answered segment_removed (external)
    stamp,       \* the last inode or version number given out
    edits, faults, kills, publishes,
    raced        \* history: names edited between a check of this removal and
                 \* the system call that acts on it

disk == <<dir, files, conflict, temp>>
sibling == <<zone, publishing>>
ledger == <<ack, sched>>
sweep == <<sweeping, finishing, seen>>
inventory == <<found, idents, cache>>
removal == <<digests, handles, left>>
journals == <<held, removed>>
outside == <<edits, raced>>
vars == <<disk, sibling, ledger, identity, pc, sweep, inventory, floor,
          removal, journals, stamp, outside, faults, kills, publishes>>

----------------------------------------------------------------------------
(* The data. *)

Size(b) == IF b \in LongBytes THEN 2 ELSE 1

Nothing == [n \in Names |-> None]
Here == {n \in Names : files[n] # None}
First(S) == CHOOSE n \in S : \A m \in S : n <= m

(* What file_identities compares: device and inode, size, and the times.   *)
Identity(f) == [ino |-> f.ino, ver |-> f.ver, size |-> Size(f.bytes)]
Identities == [n \in Names |-> IF n \in found THEN Identity(files[n]) ELSE None]
Inventory == [n \in Names |-> IF n \in found THEN files[n].bytes ELSE None]

resolve_segment_files ==
    CASE ~dir -> "missing"
      [] dir /\ (temp \/ conflict # Nothing) -> "invalid"
      [] dir /\ ~temp /\ conflict = Nothing /\ Here = {} -> "empty"
      [] OTHER -> "found"

(* Inode and size only: the digest check that follows sees the contents.   *)
metadata_matches(n) ==
    /\ files[n] # None
    /\ files[n].ino = cache.idents[n].ino
    /\ Size(files[n].bytes) = cache.idents[n].size

(***************************************************************************)
(* A receipt counts only if it names every local file once, with the size  *)
(* and digest of the local inventory, and nothing else.                    *)
(***************************************************************************)
assess_receipt_partial(descriptors) ==
    /\ \A d \in descriptors : d.written
    /\ \A d \in descriptors : d.submitted \in found /\ d.bytes = cache.inv[d.submitted]

assess_receipt(descriptors) ==
    /\ \A d, e \in descriptors : d.submitted = e.submitted => d = e
    /\ \A d \in descriptors : d.written
    /\ {d.submitted : d \in descriptors} = found
    /\ \A d \in descriptors : d.bytes = cache.inv[d.submitted]

----------------------------------------------------------------------------
(* The finalizer's side (segment.rs finalize) and the outside world. *)

Publish(contents) ==
    /\ pc # "off" /\ ~dir /\ publishing = "no" /\ publishes < MaxPublishes
    /\ dir' = TRUE
    /\ files' = [n \in Names |-> IF contents[n] = None THEN None
                     ELSE [ino |-> stamp + 1, ver |-> stamp + 1, bytes |-> contents[n]]]
    /\ publishing' = "renamed"
    /\ stamp' = stamp + 1 /\ publishes' = publishes + 1
    /\ UNCHANGED <<conflict, temp, zone, ledger, identity, pc, sweep, inventory,
                   floor, removal, journals, outside, faults, kills>>

write_capture_time ==
    /\ pc # "off" /\ publishing = "renamed"
    /\ zone' = TRUE /\ publishing' = "no"
    /\ UNCHANGED <<disk, ledger, identity, pc, sweep, inventory, floor,
                   removal, journals, stamp, outside, faults, kills, publishes>>

(* A handle follows its inode while the name still links it.               *)
SetFile(n, f) ==
    /\ files' = [files EXCEPT ![n] = f]
    /\ handles' = IF handles[n] # None /\ f # None /\ files[n] # None
                     /\ handles[n].ino = f.ino /\ files[n].ino = f.ino
                  THEN [handles EXCEPT ![n] = f] ELSE handles

(* Between a check and the system call that acts on it.                    *)
Unguarded == {"unlink", "rewrite", "replace"}
Races(n) == raced' = IF pc \in Unguarded THEN raced \union {n} ELSE raced

Edit(n, b, inPlace) ==
    /\ dir /\ edits < MaxEdits
    /\ inPlace => files[n] # None
    /\ SetFile(n, [ino |-> IF inPlace THEN files[n].ino ELSE stamp + 1,
                   ver |-> stamp + 1, bytes |-> b])
    /\ stamp' = stamp + 1 /\ edits' = edits + 1 /\ Races(n)
    /\ UNCHANGED <<dir, conflict, temp, sibling, ledger, identity, pc, sweep, inventory,
                   floor, digests, left, journals, faults, kills, publishes>>

(* A file of the segment is deleted by hand, at any instant.               *)
Erase(n) ==
    /\ dir /\ edits < MaxEdits /\ files[n] # None
    /\ SetFile(n, None) /\ edits' = edits + 1 /\ Races(n)
    /\ UNCHANGED <<dir, conflict, temp, sibling, ledger, identity, pc, sweep, inventory,
                   floor, digests, left, journals, stamp, faults, kills,
                   publishes>>

Elapse ==
    /\ floor \/ (sched # None /\ sched.waiting)
    /\ sched' = IF sched = None THEN None ELSE [sched EXCEPT !.waiting = FALSE]
    /\ floor' = FALSE
    /\ UNCHANGED <<disk, sibling, ack, identity, pc, sweep, inventory,
                   removal, journals, stamp, outside, faults, kills, publishes>>

----------------------------------------------------------------------------
(* The sync task. *)

Fault == faults < MaxFaults /\ faults' = faults + 1

local_finish(bySweep) ==
    /\ pc = "idle"
    /\ pc' = "prune" /\ seen' = dir
    /\ sweeping' = bySweep /\ finishing' = TRUE
    /\ cache' = IF dir THEN cache ELSE None
    /\ UNCHANGED <<disk, sibling, ledger, identity, found, idents, floor, removal,
                   journals, stamp, outside, faults, kills, publishes>>

prune_ledger_dirs ==
    /\ pc = "prune"
    /\ ack' = IF seen THEN ack ELSE None
    /\ sched' = IF seen THEN sched ELSE None
    /\ pc' = IF seen THEN "resolve" ELSE "end"
    /\ UNCHANGED <<disk, sibling, identity, sweep, inventory, floor, removal,
                   journals, stamp, outside, faults, kills, publishes>>

Rescan ==
    /\ pc = "rescan"
    /\ cache' = IF dir THEN cache ELSE None
    /\ pc' = IF dir THEN "resolve" ELSE "end"
    /\ UNCHANGED <<disk, sibling, ledger, identity, sweep, found, idents,
                   floor, removal, journals, stamp, outside, faults, kills, publishes>>

Resolve ==
    /\ pc = "resolve"
    /\ found' = Here
    /\ pc' = CASE resolve_segment_files = "found" -> "identify"
               [] resolve_segment_files = "empty" /\ finishing -> "rmempty"
               [] OTHER -> "end"
    /\ cache' = IF \/ resolve_segment_files = "empty"
                   \/ resolve_segment_files = "missing" /\ ~finishing
                THEN None ELSE cache
    /\ UNCHANGED <<disk, sibling, ledger, identity, sweep, idents, floor, removal,
                   journals, stamp, outside, faults, kills, publishes>>

(* inventory_for: the identities first, the digests only on a cache miss.  *)
file_identities ==
    /\ pc = "identify"
    /\ IF found \subseteq Here
       THEN /\ idents' = Identities
            /\ pc' = IF cache # None /\ cache.idents = Identities THEN "ackread" ELSE "hash"
       ELSE pc' = "end" /\ UNCHANGED idents
    /\ UNCHANGED <<disk, sibling, ledger, identity, sweep, found, cache, floor,
                   removal, journals, stamp, outside, faults, kills, publishes>>

inventory_files ==
    /\ pc = "hash"
    /\ IF found \subseteq Here
       THEN cache' = [idents |-> idents, inv |-> Inventory] /\ pc' = "ackread"
       ELSE pc' = "end" /\ UNCHANGED cache
    /\ UNCHANGED <<disk, sibling, ledger, identity, sweep, found, idents, floor,
                   removal, journals, stamp, outside, faults, kills, publishes>>

(***************************************************************************)
(* An acknowledgement of another pairing is ignored and stays; one of this *)
(* pairing that does not cover the local bytes is unlinked.                *)
(***************************************************************************)
AckIsOurs_anyone == ack # None
AckIsOurs == ack # None /\ ack.journal = identity
AckCovers == \A n \in found : ack.files[n] = cache.inv[n]

read_ack_record ==
    /\ pc = "ackread"
    /\ IF AckIsOurs /\ AckCovers
       THEN /\ digests' = ack.files
            /\ pc' = IF finishing THEN "confirm" ELSE "end"
            /\ UNCHANGED ack
       ELSE /\ ack' = IF AckIsOurs THEN None ELSE ack
            /\ pc' = IF finishing THEN "end" ELSE "due"
            /\ UNCHANGED digests
    /\ UNCHANGED <<disk, sibling, sched, identity, sweep, inventory, floor, handles,
                   left, journals, stamp, outside, faults, kills, publishes>>

(* A schedule another journal set counts for nothing. *)
read_state_record ==
    /\ pc = "due"
    /\ pc' = IF floor \/ (sched # None /\ sched.journal = identity /\ sched.waiting)
             THEN "end" ELSE "upload"
    /\ UNCHANGED <<disk, sibling, ledger, identity, sweep, inventory, floor, removal,
                   journals, stamp, outside, faults, kills, publishes>>

(* The retry record is written; if that fails the wait stays in memory.    *)
Delay ==
    /\ pc' = "end"
    /\ \/ sched' = [journal |-> identity, waiting |-> TRUE] /\ UNCHANGED <<floor, faults>>
       \/ Fault /\ floor' = TRUE /\ UNCHANGED sched
    /\ UNCHANGED <<ack, digests>>

Sent == {<<identity, n, files[n].bytes>> : n \in found}

UploadUnchanged ==
    UNCHANGED <<disk, sibling, identity, sweep, inventory, handles, left,
                stamp, outside, kills, publishes>>

(* ingest_upload opens the files again; one that is gone is a local answer. *)
UploadMissing ==
    /\ pc = "upload" /\ ~ (found \subseteq Here)
    /\ Delay
    /\ UNCHANGED journals /\ UploadUnchanged

(* The journal answers with descriptors: the written ones it holds, from   *)
(* this upload or an earlier one; others it received without writing.      *)
Receipt(claimed, skipped) ==
    {[submitted |-> x[2], bytes |-> x[3], written |-> TRUE] : x \in claimed}
        \union {[submitted |-> n, bytes |-> None, written |-> FALSE] : n \in skipped}

UploadReceipt ==
    /\ pc = "upload" /\ found \subseteq Here
    /\ \E claimed \in SUBSET (Sent \union {x \in held : x[1] = identity}),
          skipped \in SUBSET found :
        /\ held' = held \union claimed
        /\ IF assess_receipt(Receipt(claimed, skipped))
           THEN /\ pc' = "ackwrite" /\ digests' = cache.inv
                /\ UNCHANGED <<ledger, floor, faults>>
           ELSE Delay
    /\ UNCHANGED removed /\ UploadUnchanged

(* An answer without descriptors, a refusal of this segment.               *)
UploadRefused ==
    /\ pc = "upload" /\ found \subseteq Here
    /\ Delay
    /\ UNCHANGED journals /\ UploadUnchanged

(* The owner removed the segment from the journal: every file is released. *)
UploadRemoved ==
    /\ pc = "upload" /\ found \subseteq Here
    /\ removed' = removed \union {identity}
    /\ pc' = "ackwrite" /\ digests' = cache.inv
    /\ UNCHANGED <<held, ledger, floor, faults>> /\ UploadUnchanged

(* A timeout, a lost answer or a device-wide refusal ends the sweep.       *)
UploadEnds ==
    /\ pc = "upload" /\ found \subseteq Here
    /\ \E stored \in {{}, Sent} : held' = held \union stored
    /\ pc' = "end"
    /\ UNCHANGED <<removed, ledger, digests, floor, faults>> /\ UploadUnchanged

write_ack_record_unchecked ==
    /\ pc = "ackwrite" /\ pc' = "staterest"
    /\ \/ ack' = [journal |-> identity, files |-> digests] /\ UNCHANGED faults
       \/ Fault /\ UNCHANGED ack
    /\ UNCHANGED <<disk, sibling, sched, identity, sweep, inventory, floor, removal,
                   journals, stamp, outside, kills, publishes>>

write_ack_record ==
    /\ pc = "ackwrite"
    /\ \/ /\ ack' = [journal |-> identity, files |-> digests]
          /\ pc' = "staterest" /\ UNCHANGED faults
       \/ Fault /\ pc' = "end" /\ UNCHANGED ack
    /\ UNCHANGED <<disk, sibling, sched, identity, sweep, inventory, floor, removal,
                   journals, stamp, outside, kills, publishes>>

(* The default record replaces the schedule; a failure is not looked at.   *)
write_state_record ==
    /\ pc = "staterest"
    /\ \/ sched' = None /\ UNCHANGED faults
       \/ Fault /\ UNCHANGED sched
    /\ floor' = FALSE /\ pc' = "confirm"
    /\ UNCHANGED <<disk, sibling, ack, identity, sweep, inventory, removal,
                   journals, stamp, outside, kills, publishes>>

----------------------------------------------------------------------------
(* Removal. *)

RemovalUnchanged ==
    UNCHANGED <<ledger, identity, sweep, idents, floor, journals,
                outside, kills, publishes>>

delete_confirmed_segment ==
    /\ pc = "confirm"
    /\ IF resolve_segment_files = "found"
       THEN found' = Here /\ pc' = "revalidate"
       ELSE pc' = "end" /\ UNCHANGED found
    /\ UNCHANGED <<disk, sibling, cache, removal, stamp, faults>> /\ RemovalUnchanged

(* The directory is listed again, and every file opened and kept open.     *)
Revalidate ==
    /\ pc = "revalidate"
    /\ \/ /\ resolve_segment_files = "missing"
          /\ pc' = "ledger" /\ UNCHANGED <<handles, left>>
       \/ /\ resolve_segment_files = "found" /\ found = Here
          /\ Identities = cache.idents
          /\ handles' = files /\ left' = found /\ pc' = "check"
       \/ /\ resolve_segment_files # "missing"
          /\ ~ (resolve_segment_files = "found" /\ found = Here /\ Identities = cache.idents)
          /\ pc' = "end" /\ UNCHANGED <<handles, left>>
    /\ UNCHANGED <<disk, sibling, found, cache, digests, stamp, faults>> /\ RemovalUnchanged

BeginRestore == pc' = "restore" /\ left' = found

ProvesCustody_undigested(n) == metadata_matches(n)
ProvesCustody(n) == metadata_matches(n) /\ files[n].bytes = digests[n]

CheckFile ==
    /\ pc = "check" /\ left # {}
    /\ IF ProvesCustody(First(left))
       THEN pc' = "unlink" /\ UNCHANGED left
       ELSE BeginRestore
    /\ UNCHANGED <<disk, sibling, found, cache, digests, handles, stamp, faults>>
    /\ RemovalUnchanged

UnlinkFile ==
    /\ pc = "unlink"
    /\ \/ /\ files[First(left)] # None
          /\ files' = [files EXCEPT ![First(left)] = None]
          /\ left' = left \ {First(left)} /\ pc' = "check" /\ UNCHANGED faults
       \/ files[First(left)] = None /\ BeginRestore /\ UNCHANGED <<files, faults>>
       \/ Fault /\ BeginRestore /\ UNCHANGED files
    /\ UNCHANGED <<dir, conflict, temp, sibling, found, cache, digests, handles, stamp>>
    /\ RemovalUnchanged

RemoveDirectory ==
    /\ pc = "check" /\ left = {}
    /\ \/ /\ Here = {} /\ conflict = Nothing /\ ~temp
          /\ dir' = FALSE /\ pc' = "ledger" /\ UNCHANGED <<left, faults>>
       \/ Here # {} /\ BeginRestore /\ UNCHANGED <<dir, faults>>
       \/ Fault /\ BeginRestore /\ UNCHANGED dir
    /\ UNCHANGED <<files, conflict, temp, sibling, found, cache, digests, handles, stamp>>
    /\ RemovalUnchanged

(***************************************************************************)
(* restore_expected_files: a file still in place stays; another file under *)
(* its name is moved aside, unless one was moved aside before; then the    *)
(* bytes of the open handle are written back.                              *)
(***************************************************************************)
RestoreMove ==
    /\ pc = "restore" /\ left # {}
    /\ LET n == First(left)
           other == files[n] # None /\ ~metadata_matches(n)
       IN  \/ /\ \/ metadata_matches(n) /\ UNCHANGED faults
                 \/ other /\ conflict[n] # None /\ UNCHANGED faults
                 \/ other /\ conflict[n] = None /\ Fault
              /\ left' = left \ {n}
              /\ UNCHANGED <<files, conflict, pc>>
           \/ /\ other /\ conflict[n] = None
              /\ conflict' = [conflict EXCEPT ![n] = files[n].bytes]
              /\ files' = [files EXCEPT ![n] = None]
              /\ pc' = "rewrite" /\ UNCHANGED <<left, faults>>
           \/ /\ files[n] = None
              /\ pc' = "rewrite" /\ UNCHANGED <<files, conflict, left, faults>>
    /\ UNCHANGED <<dir, temp, sibling, found, cache, digests, handles, stamp>>
    /\ RemovalUnchanged

RestoreTemp ==
    /\ pc = "rewrite"
    /\ \/ temp' = TRUE /\ pc' = "replace" /\ UNCHANGED <<left, faults>>
       \/ Fault /\ left' = left \ {First(left)} /\ pc' = "restore" /\ UNCHANGED temp
    /\ UNCHANGED <<dir, files, conflict, sibling, found, cache, digests, handles, stamp>>
    /\ RemovalUnchanged

RestoreReplace ==
    /\ pc = "replace"
    /\ \/ /\ files' = [files EXCEPT ![First(left)] =
                 [ino |-> stamp + 1, ver |-> stamp + 1, bytes |-> handles[First(left)].bytes]]
          /\ stamp' = stamp + 1 /\ UNCHANGED faults
       \/ Fault /\ UNCHANGED <<files, stamp>>
    /\ temp' = FALSE /\ left' = left \ {First(left)} /\ pc' = "restore"
    /\ UNCHANGED <<dir, conflict, sibling, found, cache, digests, handles>>
    /\ RemovalUnchanged

RestoreDone ==
    /\ pc = "restore" /\ left = {}
    /\ pc' = "end"
    /\ UNCHANGED <<disk, sibling, found, cache, removal, stamp, faults>> /\ RemovalUnchanged

delete_empty_segment ==
    /\ pc = "rmempty"
    /\ \/ ~dir /\ pc' = "ledger" /\ UNCHANGED <<dir, faults>>
       \/ /\ resolve_segment_files = "empty"
          /\ dir' = FALSE /\ pc' = "ledger" /\ UNCHANGED faults
       \/ dir /\ Here # {} /\ pc' = "end" /\ UNCHANGED <<dir, faults>>
       \/ dir /\ Fault /\ pc' = "end" /\ UNCHANGED dir
    /\ UNCHANGED <<files, conflict, temp, sibling, found, cache, removal, stamp>>
    /\ RemovalUnchanged

(* The ledger goes after the directory, the zone sibling last.             *)
RemoveAck ==
    /\ pc = "ledger"
    /\ ack' = None /\ pc' = "ledgerstate"
    /\ UNCHANGED <<disk, sibling, sched, identity, sweep, inventory, floor, removal,
                   journals, stamp, outside, faults, kills, publishes>>

RemoveState ==
    /\ pc = "ledgerstate"
    /\ sched' = None /\ pc' = "zone"
    /\ UNCHANGED <<disk, sibling, ack, identity, sweep, inventory, floor, removal,
                   journals, stamp, outside, faults, kills, publishes>>

remove_segment_zone_sibling ==
    /\ pc = "zone"
    /\ zone' = FALSE /\ cache' = None /\ pc' = "end"
    /\ UNCHANGED <<disk, publishing, ledger, identity, sweep, found, idents, floor,
                   removal, journals, stamp, outside, faults, kills, publishes>>

(* What the loop held for this candidate is dropped; after local_finish a  *)
(* sweep scans again for what is left.                                     *)
DropLocals ==
    /\ found' = {} /\ idents' = Nothing
    /\ digests' = Nothing /\ handles' = Nothing /\ left' = {}
    /\ seen' = FALSE /\ raced' = {}

EndCandidate ==
    /\ pc = "end"
    /\ pc' = IF finishing /\ sweeping THEN "rescan" ELSE "idle"
    /\ DropLocals
    /\ sweeping' = (finishing /\ sweeping) /\ finishing' = FALSE
    /\ UNCHANGED <<disk, sibling, ledger, identity, cache, floor, journals, stamp,
                   edits, faults, kills, publishes>>

----------------------------------------------------------------------------
(* The process. *)

Forget ==
    /\ DropLocals
    /\ sweeping' = FALSE /\ finishing' = FALSE /\ cache' = None /\ floor' = FALSE

Kill ==
    /\ pc # "off" /\ kills < MaxKills
    /\ pc' = "off" /\ kills' = kills + 1
    /\ Forget
    /\ UNCHANGED <<disk, sibling, ledger, identity, journals, stamp, edits, faults, publishes>>

(* setup holds the instance lock: the observer is not running.             *)
Pair ==
    /\ pc = "off" /\ identity < MaxPairings
    /\ identity' = identity + 1
    /\ UNCHANGED <<disk, sibling, ledger, pc, sweep, inventory, floor, removal,
                   journals, stamp, outside, faults, kills, publishes>>

(* Recovery writes the zone of a directory whose files are as recorded.    *)
Start ==
    /\ pc = "off" /\ pc' = "idle"
    /\ zone' \in {zone, zone \/ (publishing = "renamed" /\ dir)}
    /\ publishing' = "no"
    /\ UNCHANGED <<disk, ledger, identity, sweep, inventory, floor, removal,
                   journals, stamp, outside, faults, kills, publishes>>

Contents == [Names -> Captured \union {None}] \ {Nothing}

Init ==
    /\ dir = FALSE /\ files = Nothing /\ conflict = Nothing /\ temp = FALSE
    /\ zone = FALSE /\ publishing = "no"
    /\ ack = None /\ sched = None /\ identity = 1
    /\ pc = "idle" /\ sweeping = FALSE /\ finishing = FALSE /\ seen = FALSE
    /\ found = {} /\ idents = Nothing /\ cache = None
    /\ digests = Nothing /\ handles = Nothing /\ left = {}
    /\ floor = FALSE
    /\ held = {} /\ removed = {}
    /\ stamp = 0 /\ edits = 0 /\ faults = 0 /\ kills = 0 /\ publishes = 0
    /\ raced = {}

Finalizer == (\E c \in Contents : Publish(c)) \/ write_capture_time
Outside ==
    \/ Elapse \/ \E n \in Names : Erase(n)
    \/ \E n \in Names, b \in Bytes, p \in BOOLEAN : Edit(n, b, p)
Upload ==
    \/ UploadMissing \/ UploadReceipt \/ UploadRemoved \/ UploadEnds
    \/ UploadRefused
Removal ==
    \/ delete_confirmed_segment \/ Revalidate \/ CheckFile \/ UnlinkFile \/ RemoveDirectory
    \/ RestoreMove \/ RestoreTemp \/ RestoreReplace \/ RestoreDone
    \/ delete_empty_segment \/ RemoveAck \/ RemoveState \/ remove_segment_zone_sibling
    \/ EndCandidate
Local ==
    \/ prune_ledger_dirs \/ Rescan \/ Resolve \/ file_identities \/ inventory_files
    \/ read_ack_record \/ read_state_record \/ write_ack_record \/ write_state_record
Sync == (\E bySweep \in BOOLEAN : local_finish(bySweep)) \/ Local \/ Upload \/ Removal
Process == Kill \/ Pair \/ Start

Next == Finalizer \/ Outside \/ Sync \/ Process
Spec == Init /\ [][Next]_vars

----------------------------------------------------------------------------
(* Properties. *)

FileRecord == [ino : 1..stamp, ver : 1..stamp, bytes : Bytes]
IdentityRecord == [ino : 1..stamp, ver : 1..stamp, size : {1, 2}]
Schedule == [journal : 1..MaxPairings, waiting : BOOLEAN]
Steps == {"off", "idle", "prune", "rescan", "resolve", "identify", "hash", "ackread", "due",
          "upload", "ackwrite", "staterest", "confirm", "revalidate", "check", "unlink",
          "restore", "rewrite", "replace", "rmempty", "end", "ledger", "ledgerstate", "zone"}

(* Every variable keeps its type.                                          *)
TypeOK ==
    /\ {dir, temp, zone, sweeping, finishing, seen, floor} \subseteq BOOLEAN
    /\ files \in [Names -> FileRecord \union {None}]
    /\ conflict \in Digests /\ publishing \in {"no", "renamed"}
    /\ ack = None \/ ack \in [journal : 1..MaxPairings, files : Digests]
    /\ sched = None \/ sched \in Schedule
    /\ identity \in 1..MaxPairings /\ pc \in Steps
    /\ found \subseteq Names /\ left \subseteq Names
    /\ idents \in [Names -> IdentityRecord \union {None}]
    /\ cache = None \/ cache \in [idents : [Names -> IdentityRecord \union {None}],
                                   inv : Digests]
    /\ digests \in Digests /\ handles \in [Names -> FileRecord \union {None}]
    /\ held \subseteq (1..MaxPairings) \X Names \X Bytes /\ removed \subseteq 1..MaxPairings
    /\ stamp \in Nat /\ edits \in 0..MaxEdits /\ raced \subseteq Names /\ faults \in 0..MaxFaults
    /\ kills \in 0..MaxKills /\ publishes \in 0..MaxPublishes

Released(j, n, b) == <<j, n, b>> \in held \/ j \in removed

(* ack.json never claims more than the journal it names holds, or said was *)
(* removed: write_ack_record takes the receipt that was assessed against   *)
(* the local inventory, and a reused segment name finds no stale claim     *)
(* that is false.                                                          *)
AckTruthful ==
    ack # None => \A n \in Names : ack.files[n] # None => Released(ack.journal, n, ack.files[n])

(* What is on disk under a name of the segment, set aside or not.          *)
Present == {x \in Names \X Bytes : \/ files[x[1]] # None /\ files[x[1]].bytes = x[2]
                                   \/ conflict[x[1]] = x[2]}

(* Local data is released only after the journal has proven custody: no    *)
(* step of the sync task makes bytes of a file disappear that the journal  *)
(* it is paired with does not hold, whatever was edited, failed or was     *)
(* interrupted before (delete_revalidated_segment,                         *)
(* restore_expected_files).  A file that is edited between the last check  *)
(* of it and the unlink or rename by name is beyond what the code can see. *)
ReleasedOnlyWithCustody ==
    [][edits' = edits => \A x \in Present \ Present' :
          x[1] \in raced \/ Released(identity, x[1], x[2])]_vars

(* A removal that was begun can be finished after a crash: while files are *)
(* already unlinked and the directory is not yet removed, ack.json is on   *)
(* disk, so the next local_finish removes the rest without uploading.      *)
RemovalResumable ==
    pc \in {"check", "unlink"} /\ left # found =>
        AckIsOurs /\ \A n \in found : ack.files[n] = digests[n]

(* Fairness: the runtime runs the sync task and its blocking calls, the    *)
(* periodic tick starts sweeps, time passes, the service is started again, *)
(* and the journal does not forever fail to store what it is sent.         *)
ReceiptInFull ==
    /\ UploadReceipt
    /\ pc' = "ackwrite"
FairSpec ==
    /\ Spec
    /\ SF_vars(local_finish(TRUE))
    /\ WF_vars(Local \/ Upload \/ Removal) /\ SF_vars(ReceiptInFull)
    /\ WF_vars(Elapse) /\ WF_vars(Start)

(* Uploading and removing a segment is a transfer of custody, module       *)
(* Transfer: each step of the sync task is a step of the transfer or none, *)
(* through kills, lost answers and pairings with another journal, and      *)
(* every segment leaves this computer in the end, however it was refused   *)
(* before (run_sweep, delete_confirmed_segment, delete_empty_segment).     *)
T == INSTANCE Transfer WITH local <- Present, Journals <- 1..MaxPairings
Transfers == T!Spec
=============================================================================
