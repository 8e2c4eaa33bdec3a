--------------------------- MODULE Custody_proofs ---------------------------
(***************************************************************************)
(* Theorems about Custody, for any file names, contents and numbers of     *)
(* publications, pairings, edits, faults and kills: an acknowledgement     *)
(* never claims more than its journal holds (AckTruthful), local bytes go  *)
(* only into the custody of the paired journal (ReleasedOnlyWithCustody),  *)
(* an interrupted removal can be resumed (RemovalResumable), and every     *)
(* step is one of Transfer, or the owner's, or puts a file back; of        *)
(* Transfer alone, when no file is edited and no call fails.               *)
(***************************************************************************)
EXTENDS Custody, WellFoundedInduction, TLAPS

\* The removal visits a file of the set it is given: file names, as numbers,
\* have a first one (sync.rs, the sorted paths).
LEMMA FirstIn ==
    ASSUME NEW S \in SUBSET Names, S # {}
    PROVE  First(S) \in S
  <1>. DEFINE Less == OpToRel(<, Nat)
  <1>1. S \subseteq Nat
    BY ConstantsAssumption
  <1>2. IsWellFoundedOn(Less, Nat)
    BY NatLessThanWellFounded
  <1>3. \E x \in S : \A y \in S : <<y, x>> \notin Less
    <2>. HIDE DEF Less
    <2>. QED BY <1>1, <1>2, WFMin
  <1>4. \E x \in S : \A y \in S : x <= y
    <2>1. PICK x \in S : \A y \in S : <<y, x>> \notin Less
      BY <1>3
    <2>2. \A y \in S : ~ (y < x)
      <3>. SUFFICES ASSUME NEW y \in S, y < x PROVE FALSE
        OBVIOUS
      <3>1. <<y, x>> \in Less
        BY <1>1 DEF OpToRel
      <3>. QED BY <2>1, <3>1
    <2>. QED BY <1>1, <2>2
  <1>. QED BY <1>4 DEF First

-----------------------------------------------------------------------------
(***************************************************************************)
(* The invariant.  The digests deletion works with are those of bytes the  *)
(* paired journal holds, whichever way the task came by them; ack.json     *)
(* stays the same, and ours, from the read that led to a removal to its    *)
(* end; and a file about to be unlinked or replaced is one those digests   *)
(* prove, or was edited after the check.                                   *)
(***************************************************************************)

Removing == {"staterest", "confirm", "revalidate", "check", "unlink", "restore", "rewrite",
             "replace"}
Deleting == {"check", "unlink", "restore", "rewrite", "replace"}

\* At any time: a directory that is gone has no files, the cached digests are those
\* of the files that still have the cached identity, and digests that deletion works
\* with, or that ack.json lists, are of bytes the journal has.
DirEmpty == dir = FALSE => files = Nothing /\ conflict = Nothing /\ temp = FALSE

CacheExact ==
    cache # None => \A n \in Names :
        /\ cache.inv[n] # None <=> cache.idents[n] # None
        /\ files[n] # None /\ cache.idents[n] = Identity(files[n]) =>
              cache.inv[n] = files[n].bytes

DigestsHeld == \A n \in Names : digests[n] # None => Released(identity, n, digests[n])

LastingInv == DirEmpty /\ CacheExact /\ DigestsHeld /\ AckTruthful

\* From the identities to the removal: the cache is of the files that were found, and
\* the digests of deletion are the cached ones and those of ack.json, which is ours.
CandidateInv ==
    /\ pc = "off" => digests = Nothing
    /\ pc = "hash" => \A n \in Names : n \in found <=> idents[n] # None
    /\ pc \in {"ackread", "due", "upload", "ackwrite"} \cup Removing => cache # None
    /\ pc \in {"ackread", "due", "upload"} =>
          \A n \in Names : n \in found <=> cache.idents[n] # None
    /\ pc \in {"ackwrite"} \cup Removing => \A n \in Names :
          cache.idents[n] # None => digests[n] = cache.inv[n]
    /\ pc \in Removing => ack # None /\ ack.journal = identity /\ ack.files = digests

\* During the removal, every file that is visited can be written back, and the one at
\* hand is as the check left it, or was edited since.
RemovalInv ==
    /\ pc \in Deleting => dir = TRUE /\ left \subseteq found
    /\ pc \in Deleting => \A n \in found : handles[n] # None
    /\ pc \in Unguarded => left # {}
    /\ pc = "unlink" =>
          \/ First(left) \in raced
          \/ files[First(left)] # None /\ files[First(left)].bytes = digests[First(left)]
    /\ pc \in {"rewrite", "replace"} => First(left) \in raced \/ files[First(left)] = None

CustodyInv == LastingInv /\ CandidateInv /\ RemovalInv

-----------------------------------------------------------------------------
(* Types. *)

FileMap == [Names -> FileRecord \union {None}]
IdentityMap == [Names -> IdentityRecord \union {None}]
AckRecord == [journal : 1..MaxPairings, files : Digests]
CacheRecord == [idents : IdentityMap, inv : Digests]

TypeInv ==
    /\ dir \in BOOLEAN /\ temp \in BOOLEAN /\ zone \in BOOLEAN /\ floor \in BOOLEAN
    /\ sweeping \in BOOLEAN /\ finishing \in BOOLEAN /\ seen \in BOOLEAN
    /\ files \in FileMap /\ handles \in FileMap /\ idents \in IdentityMap
    /\ conflict \in Digests /\ digests \in Digests /\ publishing \in {"no", "renamed"}
    /\ ack = None \/ ack \in AckRecord
    /\ sched = None \/ sched \in Schedule
    /\ cache = None \/ cache \in CacheRecord
    /\ identity \in 1..MaxPairings /\ pc \in Steps
    /\ found \subseteq Names /\ left \subseteq Names /\ raced \subseteq Names
    /\ held \subseteq (1..MaxPairings) \X Names \X Bytes /\ removed \subseteq 1..MaxPairings
    /\ stamp \in Nat /\ edits \in 0..MaxEdits /\ faults \in 0..MaxFaults
    /\ kills \in 0..MaxKills /\ publishes \in 0..MaxPublishes

\* The type invariant, one fact per variable.
LEMMA TypesMean == (TypeOK <=> TypeInv) /\ (TypeOK' <=> TypeInv')
  BY DEF TypeOK, TypeInv, FileMap, IdentityMap, AckRecord, CacheRecord

\* Inode and version numbers are only ever given out: a record of a file or
\* of an identity stays one.
LEMMA TypesGrow ==
    ASSUME stamp \in Nat, stamp' \in Nat, stamp <= stamp'
    PROVE  /\ FileRecord \subseteq FileRecord'
           /\ FileMap \subseteq FileMap' /\ IdentityMap \subseteq IdentityMap'
           /\ CacheRecord \subseteq CacheRecord'
  <1>1. 1..stamp \subseteq 1..stamp'
    OBVIOUS
  <1>2. FileRecord \subseteq FileRecord' /\ IdentityRecord \subseteq IdentityRecord'
    BY <1>1 DEF FileRecord, IdentityRecord
  <1>3. FileMap \subseteq FileMap' /\ IdentityMap \subseteq IdentityMap'
    BY <1>2 DEF FileMap, IdentityMap
  <1>. QED BY <1>2, <1>3 DEF CacheRecord

\* A step that gives out no inode or version number leaves the types alone.
LEMMA TypesKeep ==
    ASSUME stamp' = stamp
    PROVE  FileMap' = FileMap /\ IdentityMap' = IdentityMap /\ CacheRecord' = CacheRecord
  BY DEF FileMap, FileRecord, IdentityMap, IdentityRecord, CacheRecord

\* No file, no identity, no digest.
LEMMA NothingTypes ==
    /\ Nothing \in FileMap /\ Nothing \in IdentityMap /\ Nothing \in Digests
    /\ Nothing \in FileMap' /\ Nothing \in IdentityMap'
  BY DEF Nothing, FileMap, IdentityMap, Digests

\* A counter below its bound.
LEMMA Count == \A m \in Nat : \A k \in 0..m : k < m => k + 1 \in 0..m
  OBVIOUS

\* A failing call is counted.
LEMMA FaultCounts == TypeInv /\ Fault => faults' \in 0..MaxFaults
  <1>. SUFFICES ASSUME TypeInv, Fault PROVE faults' \in 0..MaxFaults
    OBVIOUS
  <1>1. faults < MaxFaults /\ faults' = faults + 1 /\ faults \in 0..MaxFaults
    BY DEF TypeInv, Fault
  <1>2. MaxFaults \in Nat
    BY ConstantsAssumption
  <1>. QED BY <1>1, <1>2, Count

\* The records a schedule can be.
LEMMA ScheduleTypes ==
    /\ \A s \in Schedule : [s EXCEPT !.waiting = FALSE] \in Schedule
    /\ TypeInv => [journal |-> identity, waiting |-> TRUE] \in Schedule
  BY DEF Schedule, TypeInv

\* The files that are there have names of the segment's.
LEMMA HereTypes == Here \subseteq Names
  BY DEF Here

\* A file that is unlinked leaves a directory of the same type.
LEMMA UnlinkTypes ==
    TypeInv => files \in FileMap /\ \A n : [files EXCEPT ![n] = None] \in FileMap
  BY DEF TypeInv, FileMap

\* The name of a file that was erased stays out of the open handles.
LEMMA EraseKeeps ==
    ASSUME TypeInv, NEW n \in Names, SetFile(n, None)
    PROVE  handles' = handles
  BY DEF SetFile

\* What an upload sends are files of the segment.
LEMMA SentTypes ==
    ASSUME TypeInv, found \subseteq Here
    PROVE  Sent \subseteq (1..MaxPairings) \X Names \X Bytes
  BY DEF TypeInv, Sent, Here, FileMap, FileRecord

\* The parts of a file record, of ack.json and of the cached inventory.
LEMMA PartTypes ==
    ASSUME TypeInv
    PROVE  /\ \A n \in Names : files[n] # None => files[n] \in FileRecord /\ files[n].bytes \in Bytes
           /\ \A n \in Names : handles[n] # None => handles[n] \in FileRecord /\ handles[n].bytes \in Bytes
           /\ ack # None => ack.files \in Digests
           /\ cache # None => cache.inv \in Digests /\ cache.idents \in IdentityMap
  BY DEF TypeInv, FileMap, FileRecord, AckRecord, CacheRecord

\* The identities and the digests of the files at hand.
LEMMA InventoryTypes ==
    ASSUME TypeInv, found \subseteq Here
    PROVE  Identities \in IdentityMap /\ Inventory \in Digests
  <1>1. \A n \in found : n \in Names /\ files[n] \in FileRecord /\ files[n].bytes \in Bytes
    BY PartTypes DEF TypeInv, Here
  <1>2. \A n \in found : Identity(files[n]) \in IdentityRecord
    BY <1>1 DEF Identity, Size, FileRecord, IdentityRecord
  <1>. QED BY <1>1, <1>2 DEF Identities, Inventory, IdentityMap, Digests

\* A file is moved aside, and a file written back.
LEMMA RestoreTypes ==
    ASSUME TypeInv, RemovalInv
    PROVE  /\ \A n \in Names : files[n] # None =>
                 [conflict EXCEPT ![n] = files[n].bytes] \in Digests
           /\ pc = "replace" => First(left) \in Names /\ handles[First(left)].bytes \in Bytes
  <1>1. \A n \in Names : files[n] # None => [conflict EXCEPT ![n] = files[n].bytes] \in Digests
    BY PartTypes DEF TypeInv, Digests
  <1>2. pc = "replace" => First(left) \in Names /\ handles[First(left)].bytes \in Bytes
    <2>. SUFFICES ASSUME pc = "replace"
                  PROVE  First(left) \in Names /\ handles[First(left)].bytes \in Bytes
      OBVIOUS
    <2>1. left # {} /\ left \subseteq found /\ left \subseteq Names
      BY DEF RemovalInv, Unguarded, Deleting, TypeInv
    <2>2. First(left) \in left
      BY <2>1, FirstIn
    <2>3. handles[First(left)] # None
      BY <2>1, <2>2 DEF RemovalInv, Deleting
    <2>. QED BY <2>1, <2>2, <2>3, PartTypes
  <1>. QED BY <1>1, <1>2

\* Where a file of the segment is moved aside, it has a first name.
LEMMA FirstName ==
    ASSUME TypeInv, left # {}
    PROVE  First(left) \in left /\ First(left) \in Names
  BY FirstIn DEF TypeInv

\* The cached inventory of the identities and digests taken.
LEMMA CachedTypes ==
    \A i \in IdentityMap, v \in Digests : [idents |-> i, inv |-> v] \in CacheRecord
  BY DEF CacheRecord

\* An upload sends what an inventory took.
LEMMA HasCache == CustodyInv => (pc = "upload" => cache # None)
  BY DEF CustodyInv, CandidateInv

\* What the invariant says of a removal under way.
LEMMA HasRemoval == CustodyInv => RemovalInv
  BY DEF CustodyInv

\* Every step keeps the types, one case per action.
LEMMA TypeStep == TypeInv /\ CustodyInv /\ [Next]_vars => TypeInv'
  <1>. SUFFICES ASSUME TypeInv, CustodyInv, [Next]_vars PROVE TypeInv'
    OBVIOUS
  <1>1. CASE write_capture_time
    <2>. stamp' = stamp
      BY <1>1 DEF write_capture_time, disk, sibling, ledger, sweep, inventory,
      removal, journals, outside
    <2>. QED BY <1>1, TypesKeep DEF TypeInv, Steps, write_capture_time, disk,
        sibling, ledger, sweep, inventory, removal, journals, outside
  <1>2. CASE prune_ledger_dirs
    <2>. stamp' = stamp
      BY <1>2 DEF prune_ledger_dirs, disk, sibling, ledger, sweep, inventory,
      removal, journals, outside
    <2>. QED BY <1>2, TypesKeep DEF TypeInv, Steps, prune_ledger_dirs, disk,
        sibling, ledger, sweep, inventory, removal, journals, outside
  <1>3. CASE Rescan
    <2>. stamp' = stamp
      BY <1>3 DEF Rescan, disk, sibling, ledger, sweep, inventory, removal,
      journals, outside
    <2>. QED BY <1>3, TypesKeep DEF TypeInv, Steps, Rescan, disk, sibling, ledger,
        sweep, inventory, removal, journals, outside
  <1>4. CASE read_state_record
    <2>. stamp' = stamp
      BY <1>4 DEF read_state_record, disk, sibling, ledger, sweep, inventory,
      removal, journals, outside
    <2>. QED BY <1>4, TypesKeep DEF TypeInv, Steps, read_state_record, disk,
        sibling, ledger, sweep, inventory, removal, journals, outside
  <1>5. CASE write_ack_record
    <2>. stamp' = stamp
      BY <1>5 DEF write_ack_record, AckRecord, disk, sibling, ledger, sweep,
      inventory, removal, journals, outside
    <2>. QED BY <1>5, TypesKeep, FaultCounts DEF TypeInv, Steps, write_ack_record,
        AckRecord, disk, sibling, ledger, sweep, inventory, removal, journals,
        outside
  <1>6. CASE RestoreDone
    <2>. stamp' = stamp
      BY <1>6 DEF RestoreDone, RemovalUnchanged, disk, sibling, ledger, sweep,
      inventory, removal, journals, outside
    <2>. QED BY <1>6, TypesKeep DEF TypeInv, Steps, RestoreDone, RemovalUnchanged,
        disk, sibling, ledger, sweep, inventory, removal, journals, outside
  <1>7. CASE RemoveAck
    <2>. stamp' = stamp
      BY <1>7 DEF RemoveAck, disk, sibling, ledger, sweep, inventory, removal,
      journals, outside
    <2>. QED BY <1>7, TypesKeep DEF TypeInv, Steps, RemoveAck, disk, sibling,
        ledger, sweep, inventory, removal, journals, outside
  <1>8. CASE RemoveState
    <2>. stamp' = stamp
      BY <1>8 DEF RemoveState, disk, sibling, ledger, sweep, inventory, removal,
      journals, outside
    <2>. QED BY <1>8, TypesKeep DEF TypeInv, Steps, RemoveState, disk, sibling,
        ledger, sweep, inventory, removal, journals, outside
  <1>9. CASE remove_segment_zone_sibling
    <2>. stamp' = stamp
      BY <1>9 DEF remove_segment_zone_sibling, disk, sibling, ledger, sweep,
      inventory, removal, journals, outside
    <2>1. zone' \in BOOLEAN
      BY <1>9, Zenon DEF remove_segment_zone_sibling
    <2>. QED BY <1>9, <2>1, TypesKeep DEF TypeInv, Steps, remove_segment_zone_sibling,
        disk, sibling, ledger, sweep, inventory, removal, journals, outside
  <1>10. CASE EndCandidate
    <2>. stamp' = stamp
      BY <1>10 DEF EndCandidate, DropLocals, disk, sibling, ledger, sweep,
      inventory, removal, journals, outside
    <2>. QED BY <1>10, TypesKeep, NothingTypes DEF TypeInv, Steps, EndCandidate,
        DropLocals, disk, sibling, ledger, sweep, inventory, removal, journals,
        outside
  <1>11. CASE Pair
    <2>. stamp' = stamp
      BY <1>11 DEF Pair, disk, sibling, ledger, sweep, inventory, removal,
      journals, outside
    <2>. QED BY <1>11, TypesKeep, ConstantsAssumption DEF TypeInv, Steps, Pair,
        disk, sibling, ledger, sweep, inventory, removal, journals, outside
  <1>12. CASE Start
    <2>. stamp' = stamp
      BY <1>12 DEF Start, disk, sibling, ledger, sweep, inventory, removal,
      journals, outside
    <2>. QED BY <1>12, TypesKeep DEF TypeInv, Steps, Start, disk, sibling, ledger,
        sweep, inventory, removal, journals, outside
  <1>13. CASE Elapse
    <2>1. UNCHANGED <<dir, files, conflict, temp, zone, publishing, ack,
             identity, pc, sweeping, finishing, seen, found, idents, cache, digests,
             handles, left, held, removed, stamp, edits, faults, kills, publishes,
             raced>>
      BY <1>13 DEF Elapse, disk, sibling, ledger, sweep, inventory, removal,
      journals, outside
    <2>2. (sched' = None \/ sched' \in Schedule)
      BY <1>13, ScheduleTypes DEF TypeInv, Elapse
    <2>3. floor' \in BOOLEAN
      BY <1>13 DEF TypeInv, Elapse
    <2>. QED BY TypesKeep, <2>1, <2>2, <2>3 DEF TypeInv
  <1>14. CASE Resolve
    <2>1. UNCHANGED <<dir, files, conflict, temp, zone, publishing, ack, sched,
             identity, sweeping, finishing, seen, idents, digests, floor, handles,
             left, held, removed, stamp, edits, faults, kills, publishes, raced>>
      BY <1>14 DEF Resolve, disk, sibling, ledger, sweep, inventory, removal,
      journals, outside
    <2>2. found' \subseteq Names
      BY <1>14, HereTypes DEF TypeInv, Resolve
    <2>3. pc' \in Steps
      BY <1>14 DEF TypeInv, Resolve, Steps
    <2>4. (cache' = None \/ cache' \in CacheRecord')
      BY <1>14, <2>1, TypesKeep DEF TypeInv, Resolve
    <2>. QED BY TypesKeep, <2>1, <2>2, <2>3, <2>4 DEF TypeInv
  <1>15. CASE UploadMissing
    <2>1. UNCHANGED <<dir, files, conflict, temp, zone, publishing, ack,
             identity, sweeping, finishing, seen, found, idents, cache, digests,
             handles, left, held, removed, stamp, edits, kills, publishes, raced>>
      BY <1>15 DEF UploadMissing, Delay, UploadUnchanged, disk, sibling, ledger,
      sweep, inventory, removal, journals, outside
    <2>2. pc' \in Steps
      BY <1>15 DEF TypeInv, UploadMissing, Delay, UploadUnchanged, Steps
    <2>3. (sched' = None \/ sched' \in Schedule)
      BY <1>15, ScheduleTypes DEF TypeInv, UploadMissing, Delay, UploadUnchanged
    <2>4. floor' \in BOOLEAN
      BY <1>15 DEF TypeInv, UploadMissing, Delay, UploadUnchanged
    <2>5. faults' \in 0..MaxFaults
      BY <1>15, FaultCounts DEF TypeInv, UploadMissing, Delay, UploadUnchanged
    <2>. QED BY TypesKeep, <2>1, <2>2, <2>3, <2>4, <2>5 DEF TypeInv
  <1>16. CASE UploadRefused
    <2>1. UNCHANGED <<dir, files, conflict, temp, zone, publishing, ack,
             identity, sweeping, finishing, seen, found, idents, cache, digests,
             handles, left, held, removed, stamp, edits, kills, publishes, raced>>
      BY <1>16 DEF UploadRefused, Delay, UploadUnchanged, disk, sibling, ledger,
      sweep, inventory, removal, journals, outside
    <2>2. pc' \in Steps
      BY <1>16 DEF TypeInv, UploadRefused, Delay, UploadUnchanged, Steps
    <2>3. (sched' = None \/ sched' \in Schedule)
      BY <1>16, ScheduleTypes DEF TypeInv, UploadRefused, Delay, UploadUnchanged
    <2>4. floor' \in BOOLEAN
      BY <1>16 DEF TypeInv, UploadRefused, Delay, UploadUnchanged
    <2>5. faults' \in 0..MaxFaults
      BY <1>16, FaultCounts DEF TypeInv, UploadRefused, Delay, UploadUnchanged
    <2>. QED BY TypesKeep, <2>1, <2>2, <2>3, <2>4, <2>5 DEF TypeInv
  <1>17. CASE write_state_record
    <2>1. UNCHANGED <<dir, files, conflict, temp, zone, publishing, ack,
             identity, sweeping, finishing, seen, found, idents, cache, digests,
             handles, left, held, removed, stamp, edits, kills, publishes, raced>>
      BY <1>17 DEF write_state_record, disk, sibling, ledger, sweep, inventory,
      removal, journals, outside
    <2>2. (sched' = None \/ sched' \in Schedule)
      BY <1>17 DEF TypeInv, write_state_record
    <2>3. floor' \in BOOLEAN
      BY <1>17 DEF TypeInv, write_state_record
    <2>4. faults' \in 0..MaxFaults
      BY <1>17, FaultCounts DEF TypeInv, write_state_record
    <2>5. pc' \in Steps
      BY <1>17 DEF TypeInv, write_state_record, Steps
    <2>. QED BY TypesKeep, <2>1, <2>2, <2>3, <2>4, <2>5 DEF TypeInv
  <1>18. CASE delete_confirmed_segment
    <2>1. UNCHANGED <<dir, files, conflict, temp, zone, publishing, ack, sched,
             identity, sweeping, finishing, seen, idents, cache, digests, floor,
             handles, left, held, removed, stamp, edits, faults, kills, publishes,
             raced>>
      BY <1>18 DEF delete_confirmed_segment, RemovalUnchanged, disk, sibling,
      ledger, sweep, inventory, removal, journals, outside
    <2>2. found' \subseteq Names
      BY <1>18, HereTypes DEF TypeInv, delete_confirmed_segment, RemovalUnchanged
    <2>3. pc' \in Steps
      BY <1>18 DEF TypeInv, delete_confirmed_segment, RemovalUnchanged, Steps
    <2>. QED BY TypesKeep, <2>1, <2>2, <2>3 DEF TypeInv
  <1>19. CASE Revalidate
    <2>1. UNCHANGED <<dir, files, conflict, temp, zone, publishing, ack, sched,
             identity, sweeping, finishing, seen, found, idents, cache, digests,
             floor, held, removed, stamp, edits, faults, kills, publishes, raced>>
      BY <1>19 DEF Revalidate, RemovalUnchanged, disk, sibling, ledger, sweep,
      inventory, removal, journals, outside
    <2>2. pc' \in Steps
      BY <1>19 DEF TypeInv, Revalidate, RemovalUnchanged, Steps
    <2>3. handles' \in FileMap'
      BY <1>19, <2>1, TypesKeep DEF TypeInv, Revalidate, RemovalUnchanged
    <2>4. left' \subseteq Names
      BY <1>19 DEF TypeInv, Revalidate, RemovalUnchanged
    <2>. QED BY TypesKeep, <2>1, <2>2, <2>3, <2>4 DEF TypeInv
  <1>20. CASE CheckFile
    <2>1. UNCHANGED <<dir, files, conflict, temp, zone, publishing, ack, sched,
             identity, sweeping, finishing, seen, found, idents, cache, digests,
             floor, handles, held, removed, stamp, edits, faults, kills, publishes,
             raced>>
      BY <1>20 DEF CheckFile, BeginRestore, RemovalUnchanged, disk, sibling, ledger,
      sweep, inventory, removal, journals, outside
    <2>2. pc' \in Steps
      BY <1>20 DEF TypeInv, CheckFile, BeginRestore, RemovalUnchanged, Steps
    <2>3. left' \subseteq Names
      BY <1>20 DEF TypeInv, CheckFile, BeginRestore, RemovalUnchanged
    <2>. QED BY TypesKeep, <2>1, <2>2, <2>3 DEF TypeInv
  <1>21. CASE UnlinkFile
    <2>1. UNCHANGED <<dir, conflict, temp, zone, publishing, ack, sched,
             identity, sweeping, finishing, seen, found, idents, cache, digests,
             floor, handles, held, removed, stamp, edits, kills, publishes, raced>>
      BY <1>21 DEF UnlinkFile, BeginRestore, RemovalUnchanged, disk, sibling,
      ledger, sweep, inventory, removal, journals, outside
    <2>2. files' \in FileMap'
      BY <1>21, <2>1, UnlinkTypes, TypesKeep DEF UnlinkFile, BeginRestore,
      RemovalUnchanged
    <2>3. left' \subseteq Names
      BY <1>21 DEF TypeInv, UnlinkFile, BeginRestore, RemovalUnchanged
    <2>4. pc' \in Steps
      BY <1>21 DEF TypeInv, UnlinkFile, BeginRestore, RemovalUnchanged, Steps
    <2>5. faults' \in 0..MaxFaults
      BY <1>21, FaultCounts DEF TypeInv, UnlinkFile, BeginRestore, RemovalUnchanged
    <2>. QED BY TypesKeep, <2>1, <2>2, <2>3, <2>4, <2>5 DEF TypeInv
  <1>22. CASE RemoveDirectory
    <2>1. UNCHANGED <<files, conflict, temp, zone, publishing, ack, sched,
             identity, sweeping, finishing, seen, found, idents, cache, digests,
             floor, handles, held, removed, stamp, edits, kills, publishes, raced>>
      BY <1>22 DEF RemoveDirectory, BeginRestore, RemovalUnchanged, disk, sibling,
      ledger, sweep, inventory, removal, journals, outside
    <2>2. dir' \in BOOLEAN
      BY <1>22 DEF TypeInv, RemoveDirectory, BeginRestore, RemovalUnchanged
    <2>3. left' \subseteq Names
      BY <1>22 DEF TypeInv, RemoveDirectory, BeginRestore, RemovalUnchanged
    <2>4. pc' \in Steps
      BY <1>22 DEF TypeInv, RemoveDirectory, BeginRestore, RemovalUnchanged, Steps
    <2>5. faults' \in 0..MaxFaults
      BY <1>22, FaultCounts DEF TypeInv, RemoveDirectory, BeginRestore,
      RemovalUnchanged
    <2>. QED BY TypesKeep, <2>1, <2>2, <2>3, <2>4, <2>5 DEF TypeInv
  <1>23. CASE RestoreTemp
    <2>1. UNCHANGED <<dir, files, conflict, zone, publishing, ack, sched,
             identity, sweeping, finishing, seen, found, idents, cache, digests,
             floor, handles, held, removed, stamp, edits, kills, publishes, raced>>
      BY <1>23 DEF RestoreTemp, RemovalUnchanged, disk, sibling, ledger, sweep,
      inventory, removal, journals, outside
    <2>2. temp' \in BOOLEAN
      BY <1>23 DEF TypeInv, RestoreTemp, RemovalUnchanged
    <2>3. left' \subseteq Names
      BY <1>23 DEF TypeInv, RestoreTemp, RemovalUnchanged
    <2>4. pc' \in Steps
      BY <1>23 DEF TypeInv, RestoreTemp, RemovalUnchanged, Steps
    <2>5. faults' \in 0..MaxFaults
      BY <1>23, FaultCounts DEF TypeInv, RestoreTemp, RemovalUnchanged
    <2>. QED BY TypesKeep, <2>1, <2>2, <2>3, <2>4, <2>5 DEF TypeInv
  <1>24. CASE delete_empty_segment
    <2>1. UNCHANGED <<files, conflict, temp, zone, publishing, ack, sched,
             identity, sweeping, finishing, seen, found, idents, cache, digests,
             floor, handles, left, held, removed, stamp, edits, kills, publishes,
             raced>>
      BY <1>24 DEF delete_empty_segment, RemovalUnchanged, disk, sibling, ledger,
      sweep, inventory, removal, journals, outside
    <2>2. dir' \in BOOLEAN
      BY <1>24 DEF TypeInv, delete_empty_segment, RemovalUnchanged
    <2>3. pc' \in Steps
      BY <1>24 DEF TypeInv, delete_empty_segment, RemovalUnchanged, Steps
    <2>4. faults' \in 0..MaxFaults
      BY <1>24, FaultCounts DEF TypeInv, delete_empty_segment, RemovalUnchanged
    <2>. QED BY TypesKeep, <2>1, <2>2, <2>3, <2>4 DEF TypeInv
  <1>25. CASE Kill
    <2>1. UNCHANGED <<dir, files, conflict, temp, zone, publishing, ack, sched,
             identity, held, removed, stamp, edits, faults, publishes>>
      BY <1>25 DEF Kill, Forget, DropLocals, disk, sibling, ledger, sweep,
      inventory, removal, journals, outside
    <2>2. pc' \in Steps
      BY <1>25 DEF TypeInv, Kill, Forget, DropLocals, Steps
    <2>3. kills' \in 0..MaxKills
      BY <1>25, Count, ConstantsAssumption DEF TypeInv, Kill, Forget, DropLocals
    <2>4. found' \subseteq Names
      BY <1>25 DEF TypeInv, Kill, Forget, DropLocals
    <2>5. idents' \in IdentityMap'
      BY <1>25, NothingTypes DEF TypeInv, Kill, Forget, DropLocals
    <2>6. digests' \in Digests
      BY <1>25, NothingTypes DEF TypeInv, Kill, Forget, DropLocals
    <2>7. handles' \in FileMap'
      BY <1>25, NothingTypes DEF TypeInv, Kill, Forget, DropLocals
    <2>8. left' \subseteq Names
      BY <1>25 DEF TypeInv, Kill, Forget, DropLocals
    <2>9. seen' \in BOOLEAN
      BY <1>25 DEF TypeInv, Kill, Forget, DropLocals
    <2>10. raced' \subseteq Names
      BY <1>25 DEF TypeInv, Kill, Forget, DropLocals
    <2>11. sweeping' \in BOOLEAN
      BY <1>25 DEF TypeInv, Kill, Forget, DropLocals
    <2>12. finishing' \in BOOLEAN
      BY <1>25 DEF TypeInv, Kill, Forget, DropLocals
    <2>13. (cache' = None \/ cache' \in CacheRecord')
      BY <1>25 DEF TypeInv, Kill, Forget, DropLocals
    <2>14. floor' \in BOOLEAN
      BY <1>25 DEF TypeInv, Kill, Forget, DropLocals
    <2>. QED BY TypesKeep, <2>1, <2>2, <2>3, <2>4, <2>5, <2>6, <2>7, <2>8, <2>9,
        <2>10, <2>11, <2>12, <2>13, <2>14 DEF TypeInv
  <1>26. ASSUME NEW n \in Names, Erase(n) PROVE TypeInv'
    <2>1. UNCHANGED <<dir, conflict, temp, zone, publishing, ack, sched,
             identity, pc, sweeping, finishing, seen, found, idents, cache, digests,
             floor, left, held, removed, stamp, faults, kills, publishes>>
      BY <1>26 DEF Erase, SetFile, Races, disk, sibling, ledger, sweep, inventory,
      removal, journals, outside
    <2>2. files' \in FileMap'
      BY <1>26, <2>1, UnlinkTypes, TypesKeep DEF Erase, SetFile, Races
    <2>3. handles' \in FileMap'
      BY <1>26, <2>1, EraseKeeps, TypesKeep DEF TypeInv, Erase, SetFile, Races
    <2>4. edits' \in 0..MaxEdits
      BY <1>26, Count, ConstantsAssumption DEF TypeInv, Erase, SetFile, Races
    <2>5. raced' \subseteq Names
      BY <1>26 DEF TypeInv, Erase, SetFile, Races
    <2>. QED BY TypesKeep, <2>1, <2>2, <2>3, <2>4, <2>5 DEF TypeInv
  <1>27. ASSUME NEW bySweep \in BOOLEAN, local_finish(bySweep) PROVE TypeInv'
    <2>1. UNCHANGED <<dir, files, conflict, temp, zone, publishing, ack, sched,
             identity, found, idents, digests, floor, handles, left, held, removed,
             stamp, edits, faults, kills, publishes, raced>>
      BY <1>27 DEF local_finish, disk, sibling, ledger, sweep, inventory, removal,
      journals, outside
    <2>2. pc' \in Steps
      BY <1>27 DEF TypeInv, local_finish, Steps
    <2>3. seen' \in BOOLEAN
      BY <1>27 DEF TypeInv, local_finish
    <2>4. sweeping' \in BOOLEAN
      BY <1>27 DEF TypeInv, local_finish
    <2>5. finishing' \in BOOLEAN
      BY <1>27 DEF TypeInv, local_finish
    <2>6. (cache' = None \/ cache' \in CacheRecord')
      BY <1>27, <2>1, TypesKeep DEF TypeInv, local_finish
    <2>. QED BY TypesKeep, <2>1, <2>2, <2>3, <2>4, <2>5, <2>6 DEF TypeInv
  <1>28. CASE read_ack_record
    <2>1. UNCHANGED <<dir, files, conflict, temp, zone, publishing, sched,
             identity, sweeping, finishing, seen, found, idents, cache, floor,
             handles, left, held, removed, stamp, edits, faults, kills, publishes,
             raced>>
      BY <1>28 DEF read_ack_record, AckIsOurs, disk, sibling, ledger, sweep,
      inventory, removal, journals, outside
    <2>2. digests' \in Digests
      BY <1>28, PartTypes DEF TypeInv, read_ack_record, AckIsOurs
    <2>3. pc' \in Steps
      BY <1>28 DEF TypeInv, read_ack_record, AckIsOurs, Steps
    <2>4. (ack' = None \/ ack' \in AckRecord)
      BY <1>28 DEF TypeInv, read_ack_record, AckIsOurs
    <2>. QED BY TypesKeep, <2>1, <2>2, <2>3, <2>4 DEF TypeInv
  <1>29. CASE UploadRemoved
    <2>1. UNCHANGED <<dir, files, conflict, temp, zone, publishing, ack, sched,
             identity, sweeping, finishing, seen, found, idents, cache, floor,
             handles, left, held, stamp, edits, faults, kills, publishes, raced>>
      BY <1>29 DEF UploadRemoved, UploadUnchanged, disk, sibling, ledger, sweep,
      inventory, removal, journals, outside
    <2>2. removed' \subseteq 1..MaxPairings
      BY <1>29 DEF TypeInv, UploadRemoved, UploadUnchanged
    <2>3. pc' \in Steps
      BY <1>29 DEF TypeInv, UploadRemoved, UploadUnchanged, Steps
    <2>4. digests' \in Digests
      BY <1>29, PartTypes, HasCache DEF TypeInv, UploadRemoved, UploadUnchanged
    <2>. QED BY TypesKeep, <2>1, <2>2, <2>3, <2>4 DEF TypeInv
  <1>30. CASE UploadEnds
    <2>1. UNCHANGED <<dir, files, conflict, temp, zone, publishing, ack, sched,
             identity, sweeping, finishing, seen, found, idents, cache, digests,
             floor, handles, left, removed, stamp, edits, faults, kills, publishes,
             raced>>
      BY <1>30 DEF UploadEnds, UploadUnchanged, disk, sibling, ledger, sweep,
      inventory, removal, journals, outside
    <2>2. held' \subseteq (1..MaxPairings) \X Names \X Bytes
      BY <1>30, SentTypes DEF TypeInv, UploadEnds, UploadUnchanged
    <2>3. pc' \in Steps
      BY <1>30 DEF TypeInv, UploadEnds, UploadUnchanged, Steps
    <2>. QED BY TypesKeep, <2>1, <2>2, <2>3 DEF TypeInv
  <1>31. CASE RestoreMove
    <2>1. UNCHANGED <<dir, temp, zone, publishing, ack, sched, identity,
             sweeping, finishing, seen, found, idents, cache, digests, floor,
             handles, held, removed, stamp, edits, kills, publishes, raced>>
      BY <1>31 DEF RestoreMove, RemovalUnchanged, disk, sibling, ledger, sweep,
      inventory, removal, journals, outside
    <2>2. files' \in FileMap'
      BY <1>31, <2>1, FirstName, UnlinkTypes, TypesKeep DEF RestoreMove,
      RemovalUnchanged
    <2>3. conflict' \in Digests
      BY <1>31, FirstName, RestoreTypes, HasRemoval DEF TypeInv, RestoreMove,
      RemovalUnchanged
    <2>4. left' \subseteq Names
      BY <1>31 DEF TypeInv, RestoreMove, RemovalUnchanged
    <2>5. pc' \in Steps
      BY <1>31 DEF TypeInv, RestoreMove, RemovalUnchanged, Steps
    <2>6. faults' \in 0..MaxFaults
      BY <1>31, FaultCounts DEF TypeInv, RestoreMove, RemovalUnchanged
    <2>. QED BY TypesKeep, <2>1, <2>2, <2>3, <2>4, <2>5, <2>6 DEF TypeInv
  <1>32. CASE file_identities
    <2>1. UNCHANGED <<dir, files, conflict, temp, zone, publishing, ack, sched,
             identity, sweeping, finishing, seen, found, cache, digests, floor,
             handles, left, held, removed, stamp, edits, faults, kills, publishes,
             raced>>
      BY <1>32 DEF file_identities, disk, sibling, ledger, sweep, inventory,
      removal, journals, outside
    <2>2. idents' \in IdentityMap'
      BY <1>32, <2>1, InventoryTypes, TypesKeep DEF TypeInv, file_identities
    <2>3. pc' \in Steps
      BY <1>32 DEF TypeInv, file_identities, Steps
    <2>. QED BY TypesKeep, <2>1, <2>2, <2>3 DEF TypeInv
  <1>33. CASE inventory_files
    <2>1. UNCHANGED <<dir, files, conflict, temp, zone, publishing, ack, sched,
             identity, sweeping, finishing, seen, found, idents, digests, floor,
             handles, left, held, removed, stamp, edits, faults, kills, publishes,
             raced>>
      BY <1>33 DEF inventory_files, disk, sibling, ledger, sweep, inventory,
      removal, journals, outside
    <2>2. (cache' = None \/ cache' \in CacheRecord')
      BY <1>33, <2>1, InventoryTypes, TypesKeep, CachedTypes DEF TypeInv,
      inventory_files
    <2>3. pc' \in Steps
      BY <1>33 DEF TypeInv, inventory_files, Steps
    <2>. QED BY TypesKeep, <2>1, <2>2, <2>3 DEF TypeInv
  <1>34. CASE UploadReceipt
    <2>1. UNCHANGED <<dir, files, conflict, temp, zone, publishing, ack,
             identity, sweeping, finishing, seen, found, idents, cache, handles,
             left, removed, stamp, edits, kills, publishes, raced>>
      BY <1>34 DEF UploadReceipt, Delay, UploadUnchanged, ledger, disk, sibling,
      ledger, sweep, inventory, removal, journals, outside
    <2>2. held' \subseteq (1..MaxPairings) \X Names \X Bytes
      BY <1>34, SentTypes DEF TypeInv, UploadReceipt, Delay, UploadUnchanged, ledger
    <2>3. pc' \in Steps
      BY <1>34 DEF TypeInv, UploadReceipt, Delay, UploadUnchanged, ledger, Steps
    <2>4. (sched' = None \/ sched' \in Schedule)
      BY <1>34, ScheduleTypes DEF TypeInv, UploadReceipt, Delay, UploadUnchanged,
      ledger
    <2>5. digests' \in Digests
      BY <1>34, PartTypes, HasCache DEF TypeInv, UploadReceipt, Delay,
      UploadUnchanged, ledger
    <2>6. floor' \in BOOLEAN
      BY <1>34 DEF TypeInv, UploadReceipt, Delay, UploadUnchanged, ledger
    <2>7. faults' \in 0..MaxFaults
      BY <1>34, FaultCounts DEF TypeInv, UploadReceipt, Delay, UploadUnchanged,
      ledger
    <2>. QED BY TypesKeep, <2>1, <2>2, <2>3, <2>4, <2>5, <2>6, <2>7 DEF TypeInv
  <1>35. ASSUME NEW c \in Contents, Publish(c) PROVE TypeInv'
    <2>1. stamp' = stamp + 1
      BY <1>35 DEF Publish
    <2>2. PICK t \in Nat : stamp' = t /\ t = stamp + 1
      BY <2>1 DEF TypeInv
    <2>3. stamp <= stamp' /\ stamp' \in Nat /\ stamp' \in 1..stamp'
      BY <2>2 DEF TypeInv
    <2>4. \A n \in Names : c[n] # None => c[n] \in Bytes
      BY ConstantsAssumption DEF Contents
    <2>5. files' \in FileMap'
      <3>1. files' = [n \in Names |-> IF c[n] = None THEN None
                        ELSE [ino |-> stamp', ver |-> stamp', bytes |-> c[n]]]
        BY <1>35, <2>1 DEF Publish
      <3>. QED BY <2>3, <2>4, <3>1 DEF FileMap, FileRecord
    <2>6. publishes' \in 0..MaxPublishes
      BY <1>35, Count, ConstantsAssumption DEF TypeInv, Publish
    <2>7. dir' = TRUE /\ publishing' = "renamed"
      BY <1>35 DEF Publish
    <2>8. UNCHANGED <<conflict, temp, zone, ack, sched, identity, pc, sweeping, finishing,
             seen, found, idents, cache, digests, floor, handles, left, held, removed,
             edits, faults, kills, raced>>
      BY <1>35 DEF Publish, ledger, sweep, inventory, removal, journals, outside
    <2>. QED BY TypesGrow, <2>3, <2>5, <2>6, <2>7, <2>8 DEF TypeInv
  <1>36. ASSUME NEW n \in Names, NEW b \in Bytes, NEW p \in BOOLEAN, Edit(n, b, p)
         PROVE  TypeInv'
    <2>. DEFINE f == [ino |-> IF p THEN files[n].ino ELSE stamp + 1, ver |-> stamp + 1,
                      bytes |-> b]
    <2>1. stamp' = stamp + 1 /\ SetFile(n, f) /\ (p => files[n] # None)
      BY <1>36 DEF Edit
    <2>2. PICK t \in Nat : stamp' = t /\ t = stamp + 1
      BY <2>1 DEF TypeInv
    <2>3. stamp <= stamp' /\ stamp' \in Nat /\ stamp' \in 1..stamp'
      BY <2>2 DEF TypeInv
    <2>4. files \in FileMap' /\ handles \in FileMap' /\ (p => files[n] \in FileRecord')
      BY <2>1, <2>3, TypesGrow, PartTypes DEF TypeInv
    <2>5. f \in FileRecord'
      BY <2>1, <2>3, <2>4 DEF FileRecord
    <2>6. files' \in FileMap' /\ handles' \in FileMap'
      <3>. HIDE DEF f
      <3>. QED BY <2>1, <2>4, <2>5 DEF SetFile, FileMap
    <2>7. edits' \in 0..MaxEdits /\ raced' \subseteq Names
      BY <1>36, Count, ConstantsAssumption DEF TypeInv, Edit, Races
    <2>8. UNCHANGED <<dir, conflict, temp, zone, publishing, ack, sched, identity, pc,
             sweeping, finishing, seen, found, idents, cache, digests, floor, left, held,
             removed, faults, kills, publishes>>
      BY <1>36 DEF Edit, sibling, ledger, sweep, inventory, journals
    <2>. QED BY TypesGrow, <2>3, <2>6, <2>7, <2>8 DEF TypeInv
  <1>37. CASE RestoreReplace
    <2>. DEFINE f == [ino |-> stamp + 1, ver |-> stamp + 1, bytes |-> handles[First(left)].bytes]
    <2>1. \/ stamp' = stamp + 1 /\ files' = [files EXCEPT ![First(left)] = f]
                  /\ faults' = faults
          \/ stamp' = stamp /\ files' = files /\ Fault
      BY <1>37 DEF RestoreReplace
    <2>2. PICK t \in Nat : stamp' = t /\ (t = stamp + 1 \/ t = stamp)
      BY <2>1 DEF TypeInv
    <2>3. stamp <= stamp' /\ stamp' \in Nat
      BY <2>2 DEF TypeInv
    <2>4. First(left) \in Names /\ handles[First(left)].bytes \in Bytes
      BY <1>37, RestoreTypes, HasRemoval DEF RestoreReplace
    <2>5. files' \in FileMap'
      <3>1. CASE files' = files
        BY <3>1, <2>3, TypesGrow DEF TypeInv
      <3>2. CASE stamp' = stamp + 1 /\ files' = [files EXCEPT ![First(left)] = f]
        <4>1. stamp + 1 \in 1..stamp'
          BY <3>2, <2>2 DEF TypeInv
        <4>2. f \in FileRecord'
          BY <4>1, <2>4 DEF FileRecord
        <4>3. files \in FileMap'
          BY <2>3, TypesGrow DEF TypeInv
        <4>. HIDE DEF f
        <4>. QED BY <3>2, <4>2, <4>3, <2>4 DEF FileMap
      <3>. QED BY <2>1, <3>1, <3>2
    <2>6. faults' \in 0..MaxFaults
      BY <2>1, FaultCounts DEF TypeInv
    <2>7. temp' \in BOOLEAN /\ left' \subseteq Names /\ pc' \in Steps
      BY <1>37 DEF TypeInv, RestoreReplace, Steps
    <2>8. UNCHANGED <<dir, conflict, zone, publishing, ack, sched, identity, sweeping,
             finishing, seen, found, idents, cache, digests, floor, handles, held,
             removed, edits, kills, publishes, raced>>
      BY <1>37 DEF RestoreReplace, RemovalUnchanged, sibling, ledger, sweep, journals, outside
    <2>. QED BY TypesGrow, <2>3, <2>5, <2>6, <2>7, <2>8 DEF TypeInv
  <1>38. CASE UNCHANGED vars
    BY <1>38, TypesKeep DEF TypeInv, vars, disk, sibling, ledger, sweep, inventory, removal,
       journals, outside
  <1>. QED BY <1>38, <1>1, <1>2, <1>3, <1>4, <1>5, <1>6, <1>7, <1>8, <1>9, <1>10,
       <1>11, <1>12, <1>13, <1>14, <1>15, <1>16, <1>17, <1>18, <1>19, <1>20,
       <1>21, <1>22, <1>23, <1>24, <1>25, <1>26, <1>27, <1>28, <1>29, <1>30,
       <1>31, <1>32, <1>33, <1>34, <1>35, <1>36, <1>37 DEF Next, Finalizer, Outside,
       Sync, Local, Upload, Removal, Process

-----------------------------------------------------------------------------
(* What a step leaves alone *)

\* The steps of the journal, the ledger and the process do not touch the directory, nor
\* do those that only look at it.
LEMMA DiskKept ==
    ASSUME Next
    PROVE  \/ UNCHANGED <<dir, files, conflict, temp>>
           \/ \E c \in Contents : Publish(c)
           \/ \E n \in Names : Erase(n)
           \/ \E n \in Names, b \in Bytes, p \in BOOLEAN : Edit(n, b, p)
           \/ UnlinkFile \/ RemoveDirectory \/ RestoreMove \/ RestoreTemp \/ RestoreReplace
           \/ delete_empty_segment
  <1>1. CASE Local \/ Upload \/ Process
    BY <1>1 DEF Local, Upload, Process, prune_ledger_dirs, Rescan, Resolve, file_identities,
       inventory_files, read_ack_record, read_state_record, write_ack_record,
       write_state_record, UploadMissing, UploadReceipt, UploadRemoved, UploadEnds,
       UploadRefused, UploadUnchanged, Kill, Pair, Start, disk
  <1>2. CASE Finalizer \/ Outside \/ \E bySweep \in BOOLEAN : local_finish(bySweep)
    BY <1>2 DEF Finalizer, Outside, write_capture_time, Elapse, local_finish, disk
  <1>3. CASE Removal
    BY <1>3 DEF Removal, delete_confirmed_segment, Revalidate, CheckFile, RestoreDone,
       RemoveAck, RemoveState, remove_segment_zone_sibling, EndCandidate, disk
  <1>. QED BY <1>1, <1>2, <1>3 DEF Next, Sync

\* What a journal stores or removed is never taken back, and only a pairing changes the
\* journal.
LEMMA JournalsGrow ==
    ASSUME Next
    PROVE  /\ held \subseteq held' /\ removed \subseteq removed'
           /\ identity' = identity \/ Pair
  <1>1. CASE Local \/ Upload
    BY <1>1 DEF Local, Upload, prune_ledger_dirs, Rescan, Resolve, file_identities,
       inventory_files, read_ack_record, read_state_record, write_ack_record,
       write_state_record, UploadMissing, UploadReceipt, UploadRemoved, UploadEnds,
       UploadRefused, UploadUnchanged, journals
  <1>2. CASE Finalizer \/ Outside \/ Process \/ \E bySweep \in BOOLEAN : local_finish(bySweep)
    BY <1>2 DEF Finalizer, Outside, Process, Publish, Erase, Edit, write_capture_time, Elapse,
       local_finish, Kill, Pair, Start, journals
  <1>3. CASE Removal
    BY <1>3 DEF Removal, RemovalUnchanged, delete_confirmed_segment, Revalidate, CheckFile,
       UnlinkFile, RemoveDirectory, RestoreMove, RestoreTemp, RestoreReplace, RestoreDone,
       delete_empty_segment, RemoveAck, RemoveState, remove_segment_zone_sibling,
       EndCandidate, journals
  <1>. QED BY <1>1, <1>2, <1>3 DEF Next, Sync

\* The steps that write ack.json, the digests of the deletion or the cached inventory.
LEMMA RecordsKept ==
    ASSUME Next
    PROVE  /\ ack' = ack \/ ack' = None \/ write_ack_record
           /\ \/ digests' = digests \/ digests' = Nothing
              \/ read_ack_record \/ UploadReceipt \/ UploadRemoved
           /\ cache' = cache \/ cache' = None \/ inventory_files
  <1>1. CASE Local \/ Upload
    BY <1>1 DEF Local, Upload, prune_ledger_dirs, Rescan, Resolve, file_identities,
       inventory_files, read_ack_record, read_state_record, write_ack_record,
       write_state_record, UploadMissing, UploadReceipt, UploadRemoved, UploadEnds,
       UploadRefused, UploadUnchanged, Delay, ledger, removal, inventory
  <1>2. CASE Finalizer \/ Outside \/ Process \/ \E bySweep \in BOOLEAN : local_finish(bySweep)
    BY <1>2 DEF Finalizer, Outside, Process, Publish, Erase, Edit, write_capture_time, Elapse,
       local_finish, Kill, Pair, Start, Forget, DropLocals, ledger, removal, inventory
  <1>3. CASE Removal
    BY <1>3 DEF Removal, RemovalUnchanged, delete_confirmed_segment, Revalidate, CheckFile,
       UnlinkFile, RemoveDirectory, RestoreMove, RestoreTemp, RestoreReplace, RestoreDone,
       delete_empty_segment, RemoveAck, RemoveState, remove_segment_zone_sibling,
       EndCandidate, DropLocals, BeginRestore, ledger, removal, inventory
  <1>. QED BY <1>1, <1>2, <1>3 DEF Next, Sync

-----------------------------------------------------------------------------
(* What holds at any time *)

\* A step replaces a file by none, or by one with a new version.
LEMMA FilesAreNew ==
    ASSUME TypeInv, Next
    PROVE  \A n \in Names : files'[n] = files[n] \/ files'[n] = None \/ files'[n].ver = stamp + 1
  <1>. USE DEF TypeInv, FileMap
  <1>1. ASSUME NEW c \in Contents, Publish(c)
        PROVE  \A n \in Names : files'[n] = None \/ files'[n].ver = stamp + 1
    BY <1>1 DEF Publish
  <1>2. ASSUME NEW m \in Names, Erase(m)
        PROVE  \A n \in Names : files'[n] = files[n] \/ files'[n] = None
    BY <1>2 DEF Erase, SetFile
  <1>3. ASSUME NEW m \in Names, NEW b \in Bytes, NEW p \in BOOLEAN, Edit(m, b, p)
        PROVE  \A n \in Names : files'[n] = files[n] \/ files'[n].ver = stamp + 1
    BY <1>3 DEF Edit, SetFile
  <1>4. CASE UnlinkFile \/ RemoveDirectory \/ RestoreMove \/ RestoreTemp \/ delete_empty_segment
    BY <1>4 DEF UnlinkFile, RemoveDirectory, RestoreMove, RestoreTemp, delete_empty_segment
  <1>5. CASE RestoreReplace
    BY <1>5 DEF RestoreReplace
  <1>. QED BY <1>1, <1>2, <1>3, <1>4, <1>5, DiskKept

\* The cached digests stay those of the files with the cached identities: a new version
\* was never cached.
LEMMA CacheExactStep == TypeInv /\ TypeInv' /\ CustodyInv /\ Next => CacheExact'
  <1>. SUFFICES ASSUME TypeInv, TypeInv', CustodyInv, Next PROVE CacheExact'
    OBVIOUS
  <1>1. CASE cache' = None
    BY <1>1 DEF CacheExact
  <1>2. CASE cache' = cache /\ cache # None
    <2>. SUFFICES ASSUME NEW n \in Names
                  PROVE  /\ cache.inv[n] # None <=> cache.idents[n] # None
                         /\ files'[n] # None /\ cache.idents[n] = Identity(files'[n]) =>
                               cache.inv[n] = files'[n].bytes
      BY <1>2 DEF CacheExact
    <2>1. /\ cache.inv[n] # None <=> cache.idents[n] # None
          /\ files[n] # None /\ cache.idents[n] = Identity(files[n]) =>
                cache.inv[n] = files[n].bytes
      BY <1>2 DEF CustodyInv, LastingInv, CacheExact
    <2>2. files'[n] # None /\ files'[n].ver = stamp + 1 => cache.idents[n] # Identity(files'[n])
      <3>. SUFFICES ASSUME files'[n] # None, files'[n].ver = stamp + 1
                    PROVE  cache.idents[n] # Identity(files'[n])
        OBVIOUS
      <3>1. cache.idents[n] = None \/ cache.idents[n] \in IdentityRecord
        BY <1>2, PartTypes DEF IdentityMap
      <3>2. Identity(files'[n]).ver = stamp + 1
        BY DEF Identity
      <3>3. Identity(files'[n]) \in FileIdentities
        BY DEF TypeInv, FileMap, FileRecord, Identity, Size, FileIdentities
      <3>4. Identity(files'[n]) # None
        BY <3>3, ConstantsAssumption
      <3>. QED BY <3>1, <3>2, <3>4 DEF IdentityRecord, TypeInv
    <2>. QED BY <2>1, <2>2, FilesAreNew
  <1>3. CASE inventory_files /\ found \subseteq Here
    <2>1. cache' = [idents |-> idents, inv |-> Inventory] /\ pc = "hash" /\ files' = files
      BY <1>3 DEF inventory_files, disk
    <2>2. \A n \in Names : n \in found <=> idents[n] # None
      BY <2>1 DEF CustodyInv, CandidateInv
    <2>3. \A n \in Names : n \in found => files[n] # None /\ files[n].bytes # None
      BY <1>3, PartTypes, ConstantsAssumption DEF Here
    <2>4. cache'.idents = idents /\ cache'.inv = Inventory
      BY <2>1
    <2>5. \A n \in Names : Inventory[n] = IF n \in found THEN files[n].bytes ELSE None
      BY DEF Inventory
    <2>6. \A n \in Names : idents[n] = Identity(files[n]) /\ files[n] # None => n \in found
      <3>1. \A n \in Names : files[n] # None => Identity(files[n]) \in FileIdentities
        BY DEF TypeInv, FileMap, FileRecord, Identity, Size, FileIdentities
      <3>. QED BY <2>2, <3>1, ConstantsAssumption
    <2>. QED BY <2>1, <2>2, <2>3, <2>4, <2>5, <2>6 DEF CacheExact
  <1>4. CASE inventory_files /\ ~(found \subseteq Here)
    BY <1>4, <1>1, <1>2 DEF inventory_files
  <1>. QED BY <1>1, <1>2, <1>3, <1>4, RecordsKept

\* The directory goes only when it is empty, and nothing is put into one that is gone.
LEMMA DirEmptyStep == TypeInv /\ CustodyInv /\ Next => DirEmpty'
  <1>. SUFFICES ASSUME TypeInv, CustodyInv, Next PROVE DirEmpty'
    OBVIOUS
  <1>. USE DEF DirEmpty
  <1>0. DirEmpty /\ (pc \in Deleting => dir = TRUE)
    BY DEF CustodyInv, LastingInv, RemovalInv
  <1>1. CASE UNCHANGED <<dir, files, conflict, temp>>
    BY <1>0, <1>1
  <1>2. CASE \E c \in Contents : Publish(c)
    BY <1>2 DEF Publish
  <1>3. CASE (\E n \in Names : Erase(n)) \/ \E n \in Names, b \in Bytes, p \in BOOLEAN : Edit(n, b, p)
    <2>1. dir /\ dir' = dir
      BY <1>3 DEF Erase, Edit
    <2>. QED BY <2>1
  <1>4. CASE UnlinkFile \/ RestoreMove \/ RestoreTemp \/ RestoreReplace
    <2>1. dir = TRUE /\ dir' = dir
      BY <1>0, <1>4 DEF UnlinkFile, RestoreMove, RestoreTemp, RestoreReplace, Deleting
    <2>. QED BY <2>1
  <1>5. Here = {} => files = Nothing
    BY DEF TypeInv, FileMap, Here, Nothing
  <1>6. CASE RemoveDirectory
    BY <1>0, <1>5, <1>6 DEF RemoveDirectory, TypeInv
  <1>7. CASE delete_empty_segment
    <2>1. resolve_segment_files = "empty" => Here = {} /\ conflict = Nothing /\ temp = FALSE
      BY DEF resolve_segment_files, TypeInv
    <2>. QED BY <1>0, <1>5, <1>7, <2>1 DEF delete_empty_segment
  <1>. QED BY DiskKept, <1>1, <1>2, <1>3, <1>4, <1>6, <1>7

\* Released, after the step.
StaysReleased(j, n, b) == <<j, n, b>> \in held' \/ j \in removed'

\* What the journal has, it keeps having.
LEMMA StillReleased ==
    ASSUME Next, NEW j, NEW n, NEW b, Released(j, n, b)
    PROVE  StaysReleased(j, n, b)
  BY JournalsGrow DEF Released, StaysReleased

\* A receipt that counts names every file of the cached inventory, with its digest, and
\* what it lists as written is held.
LEMMA ReceiptProves ==
    ASSUME TypeInv, CustodyInv, pc = "upload",
           NEW claimed \in SUBSET (Sent \union {x \in held : x[1] = identity}),
           NEW skipped \in SUBSET found,
           assess_receipt(Receipt(claimed, skipped)),
           NEW n \in Names, cache.inv[n] # None
    PROVE  <<identity, n, cache.inv[n]>> \in claimed
  <1>1. n \in found
    BY DEF CustodyInv, CandidateInv, LastingInv, CacheExact
  <1>2. PICK d \in Receipt(claimed, skipped) : d.submitted = n /\ d.written /\ d.bytes = cache.inv[n]
    BY <1>1 DEF assess_receipt
  <1>3. PICK x \in claimed : d = [submitted |-> x[2], bytes |-> x[3], written |-> TRUE]
    BY <1>2 DEF Receipt
  <1>4. x[2] = n /\ x[3] = cache.inv[n]
    BY <1>2, <1>3
  <1>5. x[1] = identity /\ x = <<x[1], x[2], x[3]>>
    BY DEF Sent, TypeInv
  <1>. QED BY <1>4, <1>5

\* The digests that deletion works with are of bytes the paired journal has: they come
\* from ack.json, from a receipt or from the answer that its owner removed them.
LEMMA DigestsStep == TypeInv /\ CustodyInv /\ Next => DigestsHeld'
  <1>. SUFFICES ASSUME TypeInv, CustodyInv, Next, NEW n \in Names, digests'[n] # None
                PROVE  StaysReleased(identity', n, digests'[n])
    BY DEF DigestsHeld, Released, StaysReleased
  <1>0. Nothing[n] = None
    BY DEF Nothing
  <1>1. CASE Pair
    <2>1. digests' = digests /\ pc = "off"
      BY <1>1 DEF Pair, removal
    <2>. QED BY <2>1, <1>0 DEF CustodyInv, CandidateInv
  <1>2. CASE digests' = digests /\ identity' = identity
    BY <1>2, StillReleased DEF CustodyInv, LastingInv, DigestsHeld
  <1>3. CASE read_ack_record
    <2>1. identity' = identity
      BY <1>3 DEF read_ack_record
    <2>2. digests' = digests \/ (AckIsOurs /\ digests' = ack.files)
      BY <1>3 DEF read_ack_record
    <2>3. AckIsOurs /\ ack.files[n] # None => Released(identity, n, ack.files[n])
      BY DEF AckIsOurs, CustodyInv, LastingInv, AckTruthful
    <2>. QED BY <1>2, <2>1, <2>2, <2>3, StillReleased
  <1>4. CASE UploadRemoved
    BY <1>4 DEF UploadRemoved, UploadUnchanged, StaysReleased
  <1>5. CASE UploadReceipt
    <2>1. PICK claimed \in SUBSET (Sent \union {x \in held : x[1] = identity}),
               skipped \in SUBSET found :
             /\ held' = held \union claimed
             /\ \/ assess_receipt(Receipt(claimed, skipped)) /\ digests' = cache.inv
                \/ digests' = digests
      BY <1>5 DEF UploadReceipt, Delay
    <2>2. identity' = identity /\ pc = "upload"
      BY <1>5 DEF UploadReceipt, UploadUnchanged
    <2>3. CASE assess_receipt(Receipt(claimed, skipped)) /\ digests' = cache.inv
      <3>1. <<identity, n, cache.inv[n]>> \in claimed
        BY <2>2, <2>3, ReceiptProves
      <3>. QED BY <2>1, <2>2, <2>3, <3>1 DEF StaysReleased
    <2>. QED BY <1>2, <2>1, <2>2, <2>3
  <1>. QED BY <1>0, <1>1, <1>2, <1>3, <1>4, <1>5, RecordsKept, JournalsGrow

\* ack.json is written with the digests of the deletion, for the paired journal.
LEMMA AckStep == TypeInv /\ CustodyInv /\ Next => AckTruthful'
  <1>. SUFFICES ASSUME TypeInv, CustodyInv, Next, ack' # None,
                       NEW n \in Names, ack'.files[n] # None
                PROVE  StaysReleased(ack'.journal, n, ack'.files[n])
    BY DEF AckTruthful, Released, StaysReleased
  <1>1. CASE ack' = ack
    BY <1>1, StillReleased DEF CustodyInv, LastingInv, AckTruthful
  <1>2. CASE write_ack_record /\ ack' # ack
    <2>1. ack' = [journal |-> identity, files |-> digests]
      BY <1>2 DEF write_ack_record
    <2>2. digests[n] # None => Released(identity, n, digests[n])
      BY DEF CustodyInv, LastingInv, DigestsHeld
    <2>. QED BY <2>1, <2>2, StillReleased
  <1>. QED BY <1>1, <1>2, RecordsKept

\* What holds at any time is kept by every step.
LEMMA LastingStep == TypeInv /\ TypeInv' /\ CustodyInv /\ Next => LastingInv'
  BY DirEmptyStep, CacheExactStep, DigestsStep, AckStep DEF LastingInv

-----------------------------------------------------------------------------
(* The candidate at hand *)

\* The steps that leave the candidate, or have not begun to look at its files.
Plain == {"idle", "prune", "rescan", "resolve", "identify", "rmempty", "end", "ledger",
          "ledgerstate", "zone"}

\* Outside the process, nothing of what the task holds for the candidate changes.
LEMMA OutsideKept ==
    ASSUME Finalizer \/ Outside
    PROVE  UNCHANGED <<ack, identity, pc, found, idents, cache, digests, left>>
  BY DEF Finalizer, Outside, Publish, write_capture_time, Erase, Edit, Elapse, ledger, inventory,
     removal

\* A candidate is left, or not begun.
LEMMA CandidatePlain == pc' \in Plain => CandidateInv'
  BY DEF CandidateInv, Plain, Removing

\* Steps of the task that say nothing of the files.
LEMMA PlainSteps ==
    ASSUME \/ prune_ledger_dirs \/ Rescan \/ UploadMissing \/ UploadEnds \/ UploadRefused
           \/ RestoreDone \/ delete_empty_segment \/ RemoveAck \/ RemoveState
           \/ remove_segment_zone_sibling \/ EndCandidate
           \/ \E bySweep \in BOOLEAN : local_finish(bySweep)
    PROVE  pc' \in Plain
  BY DEF prune_ledger_dirs, Rescan, UploadMissing, UploadEnds, UploadRefused, Delay,
     RestoreDone, delete_empty_segment, RemoveAck, RemoveState, remove_segment_zone_sibling,
     EndCandidate, local_finish, Plain

\* While files are removed or written back, the cache, the digests and ack.json stay.
LEMMA RemovalKept ==
    ASSUME \/ delete_confirmed_segment \/ Revalidate \/ CheckFile \/ UnlinkFile
           \/ RemoveDirectory \/ RestoreMove \/ RestoreTemp \/ RestoreReplace
    PROVE  /\ UNCHANGED <<ack, identity, idents, cache, digests>>
           /\ pc \in Removing \ {"staterest"}
           /\ pc' \in (Removing \ {"staterest"}) \union Plain
  <1>1. UNCHANGED <<ack, identity, idents, cache, digests>>
    BY DEF delete_confirmed_segment, Revalidate, CheckFile, UnlinkFile, RemoveDirectory,
       RestoreMove, RestoreTemp, RestoreReplace, RemovalUnchanged, BeginRestore, ledger, removal
  <1>2. pc \in Removing \ {"staterest"}
    BY DEF delete_confirmed_segment, Revalidate, CheckFile, UnlinkFile, RemoveDirectory,
       RestoreMove, RestoreTemp, RestoreReplace, Removing
  <1>3. pc' \in (Removing \ {"staterest"}) \union Plain
    BY DEF delete_confirmed_segment, Revalidate, CheckFile, UnlinkFile, RemoveDirectory,
       RestoreMove, RestoreTemp, RestoreReplace, BeginRestore, Removing, Plain
  <1>. QED BY <1>1, <1>2, <1>3

\* The identities are those of the files that were found.
LEMMA IdentitiesFound ==
    ASSUME TypeInv, found \subseteq Here
    PROVE  \A n \in Names : n \in found <=> Identities[n] # None
  <1>1. \A n \in Names : files[n] # None => Identity(files[n]) \in FileIdentities
    BY DEF TypeInv, FileMap, FileRecord, Identity, Size, FileIdentities
  <1>2. \A n \in found : files[n] # None
    BY DEF Here
  <1>. QED BY <1>1, <1>2, ConstantsAssumption DEF Identities, TypeInv

\* From the identities of the files to the end of the removal, the cache, the digests
\* and ack.json are about the files that were found, and the paired journal.
LEMMA CandidateStep == TypeInv /\ CustodyInv /\ Next => CandidateInv'
  <1>. SUFFICES ASSUME TypeInv, CustodyInv, Next PROVE CandidateInv'
    OBVIOUS
  <1>0. CandidateInv
    BY DEF CustodyInv
  <1>1. CASE Finalizer \/ Outside
    BY <1>0, <1>1, OutsideKept DEF CandidateInv
  <1>2. CASE Process
    BY <1>0, <1>2 DEF Process, Kill, Pair, Start, Forget, DropLocals, CandidateInv, Removing,
       inventory, removal
  <1>3. CASE pc' \in Plain
    BY <1>3, CandidatePlain
  <1>4. CASE Resolve
    BY <1>4, CandidatePlain DEF Resolve, Plain
  <1>5. CASE file_identities
    <2>1. CASE found \subseteq Here
      <3>1. UNCHANGED <<found, cache, digests>> /\ idents' = Identities
        BY <1>5, <2>1 DEF file_identities, removal
      <3>2. pc' = "hash" \/ (pc' = "ackread" /\ cache # None /\ cache.idents = Identities)
        BY <1>5, <2>1 DEF file_identities
      <3>. QED BY <2>1, <3>1, <3>2, IdentitiesFound DEF CandidateInv, Removing
    <2>2. CASE ~(found \subseteq Here)
      BY <1>5, <2>2, CandidatePlain DEF file_identities, Plain
    <2>. QED BY <2>1, <2>2
  <1>6. CASE inventory_files
    <2>1. CASE found \subseteq Here
      <3>1. UNCHANGED <<found, digests>> /\ pc = "hash" /\ pc' = "ackread"
        BY <1>6, <2>1 DEF inventory_files, removal
      <3>2. cache' = [idents |-> idents, inv |-> Inventory]
        BY <1>6, <2>1 DEF inventory_files
      <3>3. cache' # None
        BY PartTypes, InventoryTypes, <2>1, <3>2, ConstantsAssumption
           DEF TypeInv, IdentityMap, IdentityRecord, FileIdentities, Digests, Caches
      <3>4. cache'.idents = idents
        BY <3>2
      <3>. QED BY <1>0, <3>1, <3>3, <3>4 DEF CandidateInv, Removing
    <2>2. CASE ~(found \subseteq Here)
      BY <1>6, <2>2, CandidatePlain DEF inventory_files, Plain
    <2>. QED BY <2>1, <2>2
  <1>7. CASE read_ack_record
    <2>1. UNCHANGED <<found, cache, identity>> /\ pc = "ackread"
      BY <1>7 DEF read_ack_record, inventory
    <2>2. \/ AckIsOurs /\ AckCovers /\ digests' = ack.files /\ pc' = "confirm" /\ ack' = ack
          \/ pc' = "due" \/ pc' \in Plain
      BY <1>7 DEF read_ack_record, Plain
    <2>3. CASE AckIsOurs /\ AckCovers /\ digests' = ack.files /\ pc' = "confirm" /\ ack' = ack
      BY <1>0, <2>1, <2>3 DEF CandidateInv, AckIsOurs, AckCovers, Removing
    <2>4. CASE pc' = "due"
      BY <1>0, <2>1, <2>4 DEF CandidateInv, Removing
    <2>. QED BY <1>3, <2>2, <2>3, <2>4
  <1>8. CASE read_state_record
    BY <1>0, <1>8 DEF CandidateInv, read_state_record, inventory, removal, Removing
  <1>9. CASE UploadReceipt \/ UploadRemoved
    <2>1. UNCHANGED <<cache, identity, ack>> /\ pc = "upload"
      BY <1>9 DEF UploadReceipt, UploadRemoved, UploadUnchanged, Delay, ledger, inventory
    <2>2. pc' \in Plain \/ (pc' = "ackwrite" /\ digests' = cache.inv)
      BY <1>9 DEF UploadReceipt, UploadRemoved, Delay, Plain
    <2>. QED BY <1>0, <1>3, <2>1, <2>2 DEF CandidateInv, Removing
  <1>10. CASE write_ack_record
    <2>1. UNCHANGED <<cache, identity, digests>> /\ pc = "ackwrite"
      BY <1>10 DEF write_ack_record, inventory, removal
    <2>2. pc' \in Plain \/ (pc' = "staterest" /\ ack' = [journal |-> identity, files |-> digests])
      BY <1>10 DEF write_ack_record, Plain
    <2>3. [journal |-> identity, files |-> digests] # None
      BY ConstantsAssumption DEF TypeInv, Acks
    <2>. QED BY <1>0, <1>3, <2>1, <2>2, <2>3 DEF CandidateInv, Removing
  <1>11. CASE write_state_record
    BY <1>0, <1>11 DEF CandidateInv, write_state_record, inventory, removal, Removing
  <1>12. CASE \/ delete_confirmed_segment \/ Revalidate \/ CheckFile \/ UnlinkFile
              \/ RemoveDirectory \/ RestoreMove \/ RestoreTemp \/ RestoreReplace
    BY <1>0, <1>3, <1>12, RemovalKept DEF CandidateInv, Removing
  <1>. QED BY <1>1, <1>2, <1>3, <1>4, <1>5, <1>6, <1>7, <1>8, <1>9, <1>10, <1>11, <1>12,
              PlainSteps DEF Next, Sync, Local, Upload, Removal

-----------------------------------------------------------------------------
(* The removal *)

\* Before and after the removal there is nothing to say about it.
LEMMA NotDeleting == pc' \notin Deleting => RemovalInv'
  BY DEF RemovalInv, Deleting, Unguarded

\* The steps that lead to a step of the removal, or make one.
LEMMA DeletingSteps ==
    ASSUME Sync \/ Process
    PROVE  \/ pc' \notin Deleting
           \/ Revalidate \/ CheckFile \/ UnlinkFile \/ RemoveDirectory
           \/ RestoreMove \/ RestoreTemp \/ RestoreReplace
  <1>1. CASE Local \/ Upload
    BY <1>1 DEF Local, Upload, prune_ledger_dirs, Rescan, Resolve, file_identities,
       inventory_files, read_ack_record, read_state_record, write_ack_record,
       write_state_record, UploadMissing, UploadReceipt, UploadRemoved, UploadEnds,
       UploadRefused, Delay, Deleting
  <1>2. CASE Process
    BY <1>2 DEF Process, Kill, Pair, Start, Deleting
  <1>3. CASE delete_confirmed_segment
    BY <1>3 DEF delete_confirmed_segment, Deleting
  <1>. QED BY <1>1, <1>2, <1>3, PlainSteps DEF Sync, Removal, Plain, Deleting

\* A file of the directory is edited or erased while the removal goes on: it counts as
\* raced if the step at hand rests on a check, and the open handles stay.
LEMMA EditedRemoval ==
    ASSUME TypeInv, CustodyInv, NEW n \in Names, NEW f, SetFile(n, f), Races(n),
           UNCHANGED <<dir, pc, found, left, digests>>
    PROVE  RemovalInv'
  <1>0. RemovalInv
    BY DEF CustodyInv
  <1>1. \A m \in Names : handles[m] # None => handles'[m] # None
    BY DEF SetFile, TypeInv, FileMap
  <1>2. \A m \in Names : m # n => files'[m] = files[m]
    BY DEF SetFile, TypeInv, FileMap
  <1>3. raced \subseteq raced' /\ (pc \in Unguarded => n \in raced')
    BY DEF Races
  <1>4. pc \in Unguarded => First(left) \in Names
    BY <1>0, FirstName DEF RemovalInv
  <1>5. \A m \in found : m \in Names
    BY DEF TypeInv
  <1>6. /\ pc' \in Deleting => dir' = TRUE /\ left' \subseteq found'
        /\ pc' \in Deleting => \A m \in found' : handles'[m] # None
        /\ pc' \in Unguarded => left' # {}
    BY <1>0, <1>1, <1>5 DEF RemovalInv
  <1>7. ASSUME pc \in Unguarded
        PROVE  First(left) \in raced' \/ files'[First(left)] = files[First(left)]
    BY <1>2, <1>3, <1>4, <1>7
  <1>. QED BY <1>0, <1>3, <1>6, <1>7 DEF RemovalInv, Unguarded

\* A file that is about to be unlinked was proven by its digest, and one that is about
\* to be written back is not there, unless it was edited after that was found.
LEMMA RemovalStep == TypeInv /\ CustodyInv /\ Next => RemovalInv'
  <1>. SUFFICES ASSUME TypeInv, CustodyInv, Next PROVE RemovalInv'
    OBVIOUS
  <1>0. RemovalInv
    BY DEF CustodyInv
  <1>1. ASSUME NEW c \in Contents, Publish(c) PROVE RemovalInv'
    <2>1. pc \notin Deleting /\ pc' = pc
      BY <1>0, <1>1 DEF RemovalInv, Publish
    <2>. QED BY <2>1, NotDeleting
  <1>2. CASE write_capture_time \/ Elapse
    BY <1>0, <1>2 DEF RemovalInv, write_capture_time, Elapse, disk, inventory, removal, outside
  <1>3. ASSUME NEW n \in Names, Erase(n) PROVE RemovalInv'
    BY <1>3, EditedRemoval DEF Erase, inventory
  <1>4. ASSUME NEW n \in Names, NEW b \in Bytes, NEW p \in BOOLEAN, Edit(n, b, p)
        PROVE  RemovalInv'
    BY <1>4, EditedRemoval DEF Edit, inventory
  <1>5. CASE Revalidate /\ pc' = "check"
    <2>1. /\ resolve_segment_files = "found" /\ found = Here
          /\ handles' = files /\ left' = found /\ dir' = dir /\ found' = found
      BY <1>5 DEF Revalidate, disk
    <2>2. dir = TRUE
      BY <2>1 DEF resolve_segment_files, TypeInv
    <2>. QED BY <1>5, <2>1, <2>2 DEF RemovalInv, Here, Deleting, Unguarded
  <1>6. CASE CheckFile
    <2>1. /\ UNCHANGED <<dir, files, found, handles, digests, raced>>
          /\ pc = "check" /\ left # {}
      BY <1>6 DEF CheckFile, RemovalUnchanged, disk, outside
    <2>2. \/ ProvesCustody(First(left)) /\ pc' = "unlink" /\ left' = left
          \/ pc' = "restore" /\ left' = found
      BY <1>6 DEF CheckFile, BeginRestore
    <2>3. ProvesCustody(First(left)) =>
              files[First(left)] # None /\ files[First(left)].bytes = digests[First(left)]
      BY DEF ProvesCustody, metadata_matches
    <2>. QED BY <1>0, <2>1, <2>2, <2>3 DEF RemovalInv, Deleting, Unguarded
  <1>7. CASE UnlinkFile
    <2>1. UNCHANGED <<dir, found, handles, digests, raced>> /\ pc = "unlink"
      BY <1>7 DEF UnlinkFile, RemovalUnchanged, outside
    <2>2. \/ pc' = "check" /\ left' = left \ {First(left)}
          \/ pc' = "restore" /\ left' = found
      BY <1>7 DEF UnlinkFile, BeginRestore
    <2>. QED BY <1>0, <2>1, <2>2 DEF RemovalInv, Deleting, Unguarded
  <1>8. CASE RemoveDirectory
    <2>1. UNCHANGED <<found, handles, digests, raced>> /\ pc = "check"
      BY <1>8 DEF RemoveDirectory, RemovalUnchanged, outside
    <2>2. pc' = "ledger" \/ (pc' = "restore" /\ left' = found /\ dir' = dir)
      BY <1>8 DEF RemoveDirectory, BeginRestore
    <2>. QED BY <1>0, <2>1, <2>2 DEF RemovalInv, Deleting, Unguarded
  <1>9. CASE RestoreMove
    <2>1. UNCHANGED <<dir, found, handles, digests, raced>> /\ pc = "restore" /\ left # {}
      BY <1>9 DEF RestoreMove, RemovalUnchanged, outside
    <2>2. \/ pc' = "restore" /\ left' \subseteq left
          \/ pc' = "rewrite" /\ left' = left /\ files'[First(left)] = None
      <3>1. First(left) \in Names
        BY <2>1, FirstName
      <3>. QED BY <1>9, <3>1 DEF RestoreMove, TypeInv, FileMap
    <2>. QED BY <1>0, <2>1, <2>2 DEF RemovalInv, Deleting, Unguarded
  <1>10. CASE RestoreTemp
    <2>1. UNCHANGED <<dir, files, found, handles, digests, raced>> /\ pc = "rewrite"
      BY <1>10 DEF RestoreTemp, RemovalUnchanged, outside
    <2>2. \/ pc' = "restore" /\ left' \subseteq left
          \/ pc' = "replace" /\ left' = left
      BY <1>10 DEF RestoreTemp
    <2>. QED BY <1>0, <2>1, <2>2 DEF RemovalInv, Deleting, Unguarded
  <1>11. CASE RestoreReplace
    <2>1. UNCHANGED <<dir, found, handles, digests, raced>> /\ pc = "replace"
      BY <1>11 DEF RestoreReplace, RemovalUnchanged, outside
    <2>2. pc' = "restore" /\ left' \subseteq left
      BY <1>11 DEF RestoreReplace
    <2>. QED BY <1>0, <2>1, <2>2 DEF RemovalInv, Deleting, Unguarded
  <1>12. CASE Revalidate /\ pc' # "check"
    <2>1. pc' \notin Deleting
      BY <1>12 DEF Revalidate, Deleting
    <2>. QED BY <2>1, NotDeleting
  <1>. QED BY <1>1, <1>2, <1>3, <1>4, <1>5, <1>6, <1>7, <1>8, <1>9, <1>10, <1>11, <1>12,
              NotDeleting, DeletingSteps DEF Next, Finalizer, Outside

-----------------------------------------------------------------------------
(* The theorems *)

\* The invariant holds in the initial states.
LEMMA CustodyInit == Init => TypeInv /\ CustodyInv
  <1>. SUFFICES ASSUME Init PROVE TypeInv /\ CustodyInv
    OBVIOUS
  <1>. USE DEF Init
  <1>1. Nothing \in FileMap /\ Nothing \in IdentityMap /\ Nothing \in Digests
    BY NothingTypes
  <1>2. \A m \in Nat : 0 \in 0..m
    OBVIOUS
  <1>3. /\ edits \in 0..MaxEdits /\ faults \in 0..MaxFaults /\ kills \in 0..MaxKills
        /\ publishes \in 0..MaxPublishes /\ identity \in 1..MaxPairings
    BY <1>2, ConstantsAssumption
  <1>4. TypeInv
    BY <1>1, <1>3 DEF TypeInv, Steps
  <1>5. LastingInv
    BY DEF LastingInv, DirEmpty, CacheExact, DigestsHeld, AckTruthful, Nothing
  <1>6. CandidateInv /\ RemovalInv
    BY DEF CandidateInv, RemovalInv, Removing, Deleting, Unguarded
  <1>. QED BY <1>4, <1>5, <1>6 DEF CustodyInv

\* Every step keeps the invariant.
LEMMA CustodyStep == TypeInv /\ CustodyInv /\ [Next]_vars => (TypeInv /\ CustodyInv)'
  <1>. SUFFICES ASSUME TypeInv, CustodyInv, [Next]_vars PROVE TypeInv' /\ CustodyInv'
    OBVIOUS
  <1>1. TypeInv'
    BY TypeStep
  <1>2. CASE Next
    BY <1>1, <1>2, LastingStep, CandidateStep, RemovalStep DEF CustodyInv
  <1>3. CASE UNCHANGED vars
    <2>1. UNCHANGED <<dir, files, conflict, temp, ack, identity, pc, found, idents, cache,
                      digests, handles, left, held, removed, raced>>
      BY <1>3 DEF vars, disk, ledger, inventory, removal, journals, outside
    <2>2. LastingInv'
      BY <2>1 DEF CustodyInv, LastingInv, DirEmpty, CacheExact, DigestsHeld, AckTruthful, Released
    <2>3. CandidateInv'
      BY <2>1 DEF CustodyInv, CandidateInv
    <2>4. RemovalInv'
      BY <2>1 DEF CustodyInv, RemovalInv
    <2>. QED BY <1>1, <2>2, <2>3, <2>4 DEF CustodyInv
  <1>. QED BY <1>1, <1>2, <1>3

\* The digests, the cache and the open files of a removal are what the code takes them
\* to be, in every reachable state, for any names, contents and bounds.
THEOREM CustodyCorrect == Spec => [](TypeOK /\ CustodyInv)
  <1>1. Spec => [](TypeInv /\ CustodyInv)
    BY CustodyInit, CustodyStep, PTL DEF Spec
  <1>. QED BY <1>1, TypesMean, PTL

\* ack.json never claims more than the journal it names holds, or said was removed:
\* write_ack_record takes digests of which a receipt, or an earlier ack.json of the same
\* pairing, has proven that the journal has them.
THEOREM AcknowledgementsAreTrue == Spec => []AckTruthful
  <1>1. CustodyInv => AckTruthful
    BY DEF CustodyInv, LastingInv
  <1>. QED BY <1>1, CustodyCorrect, PTL

\* An interrupted removal can be finished without an upload: as long as files are gone
\* and the directory is not, ack.json is there, of this pairing and for these digests
\* (delete_revalidated_segment unlinks the files before the ledger).
THEOREM RemovalsResume == Spec => []RemovalResumable
  <1>1. CustodyInv => RemovalResumable
    BY DEF CustodyInv, CandidateInv, RemovalResumable, Removing, AckIsOurs
  <1>. QED BY <1>1, CustodyCorrect, PTL

-----------------------------------------------------------------------------
(* What a step makes disappear *)

\* Bytes b of the file n are on disk.
Kept(n, b) == (files[n] # None /\ files[n].bytes = b) \/ conflict[n] = b

\* Present lists what is kept.
LEMMA PresentKept ==
    /\ Present = {x \in Names \X Bytes : Kept(x[1], x[2])}
    /\ Present' = {x \in Names \X Bytes : Kept(x[1], x[2])'}
  BY DEF Present, Kept

\* Bytes disappear only by an edit, or at the unlink and the replacement of a file that
\* was proven by its digest or edited after the check.
LEMMA KeptStep ==
    ASSUME TypeInv, CustodyInv, Next, edits' = edits,
           NEW n \in Names, NEW b \in Bytes, Kept(n, b), ~ Kept(n, b)'
    PROVE  n \in raced \/ (Released(identity, n, b) /\ UnlinkFile)
  <1>0. b # None
    BY ConstantsAssumption
  <1>1. CASE UNCHANGED <<files, conflict>>
    BY <1>1 DEF Kept
  <1>2. CASE \E c \in Contents : Publish(c)
    <2>1. files[n] = None /\ conflict[n] = None
      BY <1>2 DEF Publish, CustodyInv, LastingInv, DirEmpty, Nothing, TypeInv
    <2>. QED BY <2>1, <1>0 DEF Kept
  <1>3. CASE (\E m \in Names : Erase(m)) \/ \E m \in Names, c \in Bytes, p \in BOOLEAN : Edit(m, c, p)
    <2>1. edits' = edits + 1
      BY <1>3 DEF Erase, Edit
    <2>2. edits \in Nat
      BY ConstantsAssumption DEF TypeInv
    <2>. QED BY <2>1, <2>2
  <1>4. CASE RemoveDirectory \/ RestoreTemp \/ delete_empty_segment
    BY <1>1, <1>4 DEF RemoveDirectory, RestoreTemp, delete_empty_segment
  <1>5. CASE UnlinkFile
    <2>1. pc = "unlink" /\ conflict' = conflict
      BY <1>5 DEF UnlinkFile
    <2>2. files' = [files EXCEPT ![First(left)] = None] \/ files' = files
      BY <1>5 DEF UnlinkFile
    <2>3. n = First(left) /\ files[n] # None /\ files[n].bytes = b
      BY <2>1, <2>2 DEF Kept, TypeInv, FileMap
    <2>4. n \in raced \/ digests[n] = b
      BY <2>1, <2>3 DEF CustodyInv, RemovalInv
    <2>. QED BY <1>0, <1>5, <2>4 DEF CustodyInv, LastingInv, DigestsHeld
  <1>6. CASE RestoreMove
    <2>. DEFINE m == First(left)
    <2>1. \/ files' = files /\ conflict' = conflict
          \/ /\ conflict[m] = None /\ conflict' = [conflict EXCEPT ![m] = files[m].bytes]
             /\ files' = [files EXCEPT ![m] = None]
      BY <1>6 DEF RestoreMove
    <2>. HIDE DEF m
    <2>. QED BY <1>0, <2>1 DEF Kept, TypeInv, FileMap, Digests
  <1>7. CASE RestoreReplace
    <2>. DEFINE m == First(left)
    <2>1. pc = "replace" /\ conflict' = conflict
      BY <1>7 DEF RestoreReplace
    <2>2. \A k \in Names \ {m} : files'[k] = files[k]
      BY <1>7 DEF RestoreReplace, TypeInv, FileMap
    <2>3. n = m /\ files[n] # None
      BY <1>1, <2>1, <2>2 DEF Kept
    <2>. QED BY <2>1, <2>3 DEF CustodyInv, RemovalInv
  <1>. QED BY <1>1, <1>2, <1>3, <1>4, <1>5, <1>6, <1>7, DiskKept

\* Local data is released only after the journal has proven custody: no step of the
\* sync task makes bytes of a file disappear that the paired journal does not have,
\* unless the file was edited between the last check of it and the call by its name
\* (delete_revalidated_segment, restore_expected_files).
THEOREM CustodyBeforeRelease == Spec => ReleasedOnlyWithCustody
  <1>1. TypeInv /\ CustodyInv /\ [Next]_vars =>
          [edits' = edits => \A x \in Present \ Present' :
              x[1] \in raced \/ Released(identity, x[1], x[2])]_vars
    <2>. SUFFICES ASSUME TypeInv, CustodyInv, Next, edits' = edits,
                         NEW x \in Present, x \notin Present'
                  PROVE  x[1] \in raced \/ Released(identity, x[1], x[2])
      OBVIOUS
    <2>1. x \in Names \X Bytes /\ Kept(x[1], x[2])
      BY PresentKept
    <2>2. ~ Kept(x[1], x[2])'
      BY <2>1, PresentKept
    <2>. QED BY <2>1, <2>2, KeptStep
  <1>2. Spec => [](TypeInv /\ CustodyInv)
    BY CustodyInit, CustodyStep, PTL DEF Spec
  <1>. QED BY <1>1, <1>2, PTL DEF Spec, ReleasedOnlyWithCustody

-----------------------------------------------------------------------------
(* Custody as a transfer, whatever the owner edits and whichever call fails *)

Unheard == UNCHANGED <<held, removed, identity>>

\* A restoration puts a file back.  The journal has what is put back, unless the owner
\* wrote into the open file after its identity was taken.
PutBack(n) ==
    /\ pc = "replace"
    /\ Present' = Present \union {<<n, handles[n].bytes>>}
    /\ T!InCustody(<<n, handles[n].bytes>>) \/ Identity(handles[n]) # cache.idents[n]
    /\ Unheard

\* The owner edits or erases a file; or did so between a check and the call it led to,
\* and the call takes the edit away.
OwnersHand(n) ==
    /\ \/ Erase(n) \/ \E b \in Bytes, p \in BOOLEAN : Edit(n, b, p)
       \/ pc \in {"unlink", "replace"} /\ n \in raced
    /\ \A x \in (Present \ Present') \union (Present' \ Present) : x[1] = n
    /\ Unheard

TransferOrOwner == T!Next \/ \E n \in Names : PutBack(n) \/ OwnersHand(n)

\* An open file that still has the identity that was taken has the bytes of the digest.
HandlesInv ==
    pc \in Deleting => \A n \in found :
        Identity(handles[n]) = cache.idents[n] => handles[n].bytes = digests[n]

\* A file whose identity is the cached one is proven by its digest.
LEMMA SameProves ==
    ASSUME TypeInv, CustodyInv, pc \in Removing, NEW n \in Names, files[n] # None,
           cache.idents[n] = Identity(files[n])
    PROVE  ProvesCustody(n)
  <1>1. cache # None /\ Identity(files[n]) # None
    <2>1. Identity(files[n]) \in FileIdentities
      BY DEF TypeInv, FileMap, FileRecord, Identity, Size, FileIdentities
    <2>. QED BY <2>1, ConstantsAssumption DEF CustodyInv, CandidateInv
  <1>2. cache.inv[n] = files[n].bytes
    BY <1>1 DEF CustodyInv, LastingInv, CacheExact
  <1>3. digests[n] = cache.inv[n]
    BY <1>1 DEF CustodyInv, CandidateInv
  <1>4. metadata_matches(n)
    BY DEF metadata_matches, Identity
  <1>. QED BY <1>2, <1>3, <1>4 DEF ProvesCustody

\* A version number is given out once: an edit takes the identity from an open file.
LEMMA EditedHandle ==
    ASSUME TypeInv, CustodyInv, pc \in Deleting, NEW n \in Names, NEW i, NEW b,
           SetFile(n, [ino |-> i, ver |-> stamp + 1, bytes |-> b]),
           NEW m \in Names, Identity(handles'[m]) = cache.idents[m]
    PROVE  handles'[m] = handles[m]
  <1>. DEFINE f == [ino |-> i, ver |-> stamp + 1, bytes |-> b]
  <1>. SUFFICES ASSUME handles'[m] # handles[m] PROVE FALSE
    OBVIOUS
  <1>1. handles'[m] = f /\ handles[n] # None /\ handles[n].ino = f.ino
    <2>1. SetFile(n, f)
      OBVIOUS
    <2>. HIDE DEF f
    <2>. QED BY <2>1 DEF SetFile, TypeInv, FileMap
  <1>2. i \in Nat /\ stamp + 1 \in Nat
    <2>1. handles[n] \in FileRecord
      BY <1>1, PartTypes
    <2>. QED BY <1>1, <2>1 DEF FileRecord, TypeInv
  <1>3. Identity(f) = [ino |-> i, ver |-> stamp + 1, size |-> Size(b)]
    BY DEF Identity
  <1>4. Identity(f) # None
    <2>1. Identity(f) \in FileIdentities
      BY <1>2, <1>3 DEF FileIdentities, Size
    <2>. QED BY <2>1, ConstantsAssumption
  <1>5. cache # None
    BY DEF CustodyInv, CandidateInv, Deleting, Removing
  <1>6. cache.idents[m] \in IdentityRecord
    BY <1>1, <1>4, <1>5, PartTypes DEF IdentityMap
  <1>7. Identity(f).ver = stamp + 1 /\ cache.idents[m].ver \in 1..stamp
    BY <1>3, <1>6 DEF IdentityRecord
  <1>. QED BY <1>1, <1>7 DEF TypeInv

\* The open files are those of the last look at the identities, or were edited since.
LEMMA HandlesStep == TypeInv /\ CustodyInv /\ HandlesInv /\ Next => HandlesInv'
  <1>. SUFFICES ASSUME TypeInv, CustodyInv, HandlesInv, Next, pc' \in Deleting,
                       NEW m \in found', Identity(handles'[m]) = cache'.idents[m]
                PROVE  handles'[m].bytes = digests'[m]
    BY DEF HandlesInv
  <1>1. CASE pc \in Deleting /\ UNCHANGED <<found, cache, digests>> /\ handles'[m] = handles[m]
    BY <1>1 DEF HandlesInv
  <1>2. ASSUME NEW c \in Contents, Publish(c) PROVE FALSE
    BY <1>2 DEF Publish, CustodyInv, RemovalInv
  <1>3. CASE write_capture_time \/ Elapse
    BY <1>1, <1>3 DEF write_capture_time, Elapse, inventory, removal
  <1>4. ASSUME NEW n \in Names, Erase(n) PROVE handles'[m].bytes = digests'[m]
    <2>1. handles' = handles
      BY <1>4, EraseKeeps DEF Erase
    <2>. QED BY <1>1, <1>4, <2>1 DEF Erase, inventory
  <1>5. ASSUME NEW n \in Names, NEW b \in Bytes, NEW p \in BOOLEAN, Edit(n, b, p)
        PROVE  handles'[m].bytes = digests'[m]
    <2>1. UNCHANGED <<pc, found, cache, digests>>
      BY <1>5 DEF Edit, inventory
    <2>2. m \in Names
      BY <2>1 DEF TypeInv
    <2>3. \E i : SetFile(n, [ino |-> i, ver |-> stamp + 1, bytes |-> b])
      BY <1>5 DEF Edit
    <2>4. handles'[m] = handles[m]
      BY <2>1, <2>2, <2>3, EditedHandle
    <2>. QED BY <1>1, <2>1, <2>4
  <1>6. CASE Revalidate
    <2>1. /\ pc = "revalidate" /\ UNCHANGED <<found, cache, digests>>
          /\ found = Here /\ Identities = cache.idents /\ handles' = files
      BY <1>6 DEF Revalidate, RemovalUnchanged, Deleting
    <2>2. m \in Names /\ files[m] # None
      BY <2>1 DEF Here
    <2>3. cache.idents[m] = Identity(files[m])
      BY <2>1
    <2>. QED BY <2>1, <2>2, <2>3, SameProves DEF ProvesCustody, Removing
  <1>7. CASE CheckFile \/ UnlinkFile \/ RemoveDirectory \/ RestoreMove \/ RestoreTemp
             \/ RestoreReplace
    <2>1. pc \in Deleting
      BY <1>7 DEF CheckFile, UnlinkFile, RemoveDirectory, RestoreMove, RestoreTemp,
                  RestoreReplace, Deleting
    <2>2. UNCHANGED <<found, cache, digests, handles>>
      BY <1>7 DEF CheckFile, UnlinkFile, RemoveDirectory, RestoreMove, RestoreTemp,
                  RestoreReplace
    <2>. QED BY <1>1, <2>1, <2>2
  <1>. QED BY <1>2, <1>3, <1>4, <1>5, <1>6, <1>7, DeletingSteps DEF Next, Finalizer, Outside

\* The journal stores the files that are listed, and had the others of the answer.
LEMMA StoreStep ==
    ASSUME TypeInv, Present' = Present, UNCHANGED <<removed, identity>>,
           found \subseteq Here,
           NEW claimed \in SUBSET (Sent \union {x \in held : x[1] = identity}),
           held' = held \union claimed
    PROVE  T!Next
  <1>. DEFINE S == {x \in Present : <<identity, x[1], x[2]>> \in claimed}
  <1>1. {<<identity, x[1], x[2]>> : x \in S} \subseteq claimed
    OBVIOUS
  <1>2. claimed \subseteq held \union {<<identity, x[1], x[2]>> : x \in S}
    <2>. SUFFICES ASSUME NEW y \in claimed, y \notin held
                  PROVE  y \in {<<identity, x[1], x[2]>> : x \in S}
      OBVIOUS
    <2>1. PICK n \in found : y = <<identity, n, files[n].bytes>>
      BY DEF Sent
    <2>2. n \in Names /\ files[n] # None /\ files[n].bytes \in Bytes
      BY PartTypes DEF TypeInv, Here
    <2>3. <<n, files[n].bytes>> \in S
      BY <2>1, <2>2 DEF Present
    <2>. HIDE DEF S
    <2>. QED BY <2>1, <2>3
  <1>3. held' = held \union {<<identity, x[1], x[2]>> : x \in S}
    <2>. HIDE DEF S
    <2>. QED BY <1>1, <1>2
  <1>4. S \in SUBSET Present
    OBVIOUS
  <1>. HIDE DEF S
  <1>5. T!Store(S)
    BY <1>3 DEF T!Store
  <1>. QED BY <1>4, <1>5 DEF T!Next

\* A step that releases nothing, and of which the journal learns nothing.
LEMMA NoTransfer ==
    ASSUME UNCHANGED <<Present, held, removed, identity>>
    PROVE  UNCHANGED T!vars
  BY DEF T!vars

\* The steps the journal and the pairing take no part in.
LEMMA JournalsKept ==
    ASSUME Next
    PROVE  UNCHANGED <<held, removed, identity>> \/ UploadReceipt \/ UploadRemoved \/ UploadEnds \/ Pair
  <1>1. CASE Local \/ Upload
    BY <1>1 DEF Local, Upload, prune_ledger_dirs, Rescan, Resolve, file_identities,
       inventory_files, read_ack_record, read_state_record, write_ack_record,
       write_state_record, UploadMissing, UploadRefused, UploadUnchanged, journals
  <1>2. CASE Finalizer \/ Outside \/ Process \/ \E bySweep \in BOOLEAN : local_finish(bySweep)
    BY <1>2 DEF Finalizer, Outside, Process, Publish, Erase, Edit, write_capture_time, Elapse,
       local_finish, Kill, Start, journals
  <1>3. CASE Removal
    BY <1>3 DEF Removal, RemovalUnchanged, delete_confirmed_segment, Revalidate, CheckFile,
       UnlinkFile, RemoveDirectory, RestoreMove, RestoreTemp, RestoreReplace, RestoreDone,
       delete_empty_segment, RemoveAck, RemoveState, remove_segment_zone_sibling,
       EndCandidate, journals
  <1>. QED BY <1>1, <1>2, <1>3 DEF Next, Sync

\* What is put back is what the open file has: what the digests prove, or an edit.
LEMMA ReplaceStep ==
    ASSUME TypeInv, CustodyInv, HandlesInv, RestoreReplace
    PROVE  PutBack(First(left)) \/ OwnersHand(First(left)) \/ UNCHANGED T!vars
  <1>. DEFINE n == First(left)
              b == handles[n].bytes
  <1>1. pc = "replace" /\ conflict' = conflict /\ Unheard
    BY DEF RestoreReplace, RemovalUnchanged, journals, Unheard
  <1>2. n \in Names /\ n \in found /\ b \in Bytes
    <2>1. left # {} /\ left \subseteq found
      BY <1>1 DEF CustodyInv, RemovalInv, Unguarded, Deleting
    <2>2. n \in left /\ n \in Names
      BY <2>1, FirstName
    <2>. QED BY <1>1, <2>1, <2>2, RestoreTypes, HasRemoval
  <1>3. files' = files \/ files' = [files EXCEPT ![n] =
                                      [ino |-> stamp + 1, ver |-> stamp + 1, bytes |-> b]]
    BY DEF RestoreReplace
  <1>4. CASE files' = files
    BY <1>1, <1>4, NoTransfer DEF Unheard, Present
  <1>5. CASE n \in raced
    <2>1. \A m \in Names : m # n => files'[m] = files[m]
      <3>. HIDE DEF n, b
      <3>. QED BY <1>3 DEF TypeInv, FileMap
    <2>2. \A x \in (Present \ Present') \union (Present' \ Present) : x[1] = n
      <3>. HIDE DEF n
      <3>. QED BY <1>1, <2>1 DEF Present
    <2>. QED BY <1>1, <1>5, <2>2 DEF OwnersHand
  <1>6. CASE files' # files /\ n \notin raced
    <2>1. files[n] = None
      BY <1>1, <1>6 DEF CustodyInv, RemovalInv
    <2>2. PICK f : f = [ino |-> stamp + 1, ver |-> stamp + 1, bytes |-> b]
      OBVIOUS
    <2>3. f # None /\ f.bytes = b
      <3>1. f \in Files
        BY <1>2, <2>2 DEF Files, TypeInv
      <3>. QED BY <2>2, <3>1, ConstantsAssumption
    <2>4. \A m \in Names : files'[m] = IF m = n THEN f ELSE files[m]
      <3>. HIDE DEF n, b
      <3>. QED BY <1>2, <1>3, <1>6, <2>2 DEF TypeInv, FileMap
    <2>5. \A m \in Names, c \in Bytes : Kept(m, c)' <=> Kept(m, c) \/ (m = n /\ c = b)
      <3>. HIDE DEF n, b
      <3>. QED BY <1>1, <1>2, <2>1, <2>3, <2>4 DEF Kept
    <2>6. Present' = Present \union {<<n, b>>}
      <3>. HIDE DEF n, b
      <3>. QED BY <1>2, <2>5, PresentKept
    <2>7. T!InCustody(<<n, b>>) \/ Identity(handles[n]) # cache.idents[n]
      <3>. SUFFICES ASSUME Identity(handles[n]) = cache.idents[n]
                    PROVE  T!InCustody(<<n, b>>)
        OBVIOUS
      <3>1. b = digests[n]
        BY <1>1, <1>2 DEF HandlesInv, Deleting
      <3>2. Released(identity, n, b)
        BY <1>2, <3>1, ConstantsAssumption DEF CustodyInv, LastingInv, DigestsHeld
      <3>. QED BY <3>2 DEF Released, T!InCustody
    <2>. QED BY <1>1, <2>6, <2>7 DEF PutBack
  <1>. QED BY <1>3, <1>4, <1>5, <1>6

\* Each step of Custody is a step of Transfer, the owner's, a file put back, or none.
LEMMA TransferStep ==
    TypeInv /\ CustodyInv /\ HandlesInv /\ Next => TransferOrOwner \/ UNCHANGED T!vars
  <1>. SUFFICES ASSUME TypeInv, CustodyInv, HandlesInv, Next
                PROVE  TransferOrOwner \/ UNCHANGED T!vars
    OBVIOUS
  <1>0. UNCHANGED <<files, conflict>> => Present' = Present
    BY DEF Present
  <1>1. ASSUME NEW c \in Contents, Publish(c) PROVE T!Next
    <2>1. Present = {}
      <3>1. files = Nothing /\ conflict = Nothing
        BY <1>1 DEF Publish, CustodyInv, LastingInv, DirEmpty, TypeInv
      <3>2. \A x \in Names \X Bytes : x[1] \in Names /\ x[2] # None
        BY ConstantsAssumption
      <3>. QED BY <3>1, <3>2 DEF Present, Nothing
    <2>2. Present' = {x \in Names \X Bytes : c[x[1]] = x[2]}
      <3>1. PICK t \in Nat : t = stamp + 1
        BY DEF TypeInv
      <3>2. conflict' = Nothing
        BY <1>1 DEF Publish, CustodyInv, LastingInv, DirEmpty, TypeInv
      <3>3. \A n \in Names : files'[n] =
              IF c[n] = None THEN None ELSE [ino |-> t, ver |-> t, bytes |-> c[n]]
        BY <1>1, <3>1 DEF Publish
      <3>4. \A n \in Names : c[n] # None => c[n] \in Bytes
        BY ConstantsAssumption DEF Contents
      <3>5. \A b \in Bytes : [ino |-> t, ver |-> t, bytes |-> b] # None
        BY ConstantsAssumption DEF Files
      <3>6. \A b \in Bytes : b # None
        BY ConstantsAssumption
      <3>7. \A n \in Names : Nothing[n] = None
        BY DEF Nothing
      <3>8. \A n \in Names, b \in Bytes : Kept(n, b)' <=> c[n] = b
        <4>. SUFFICES ASSUME NEW n \in Names, NEW b \in Bytes
                      PROVE  Kept(n, b)' <=> c[n] = b
          OBVIOUS
        <4>1. conflict'[n] # b
          BY <3>2, <3>6, <3>7
        <4>2. CASE c[n] = None
          BY <3>3, <3>6, <4>1, <4>2 DEF Kept
        <4>3. CASE c[n] # None
          <5>1. files'[n] = [ino |-> t, ver |-> t, bytes |-> c[n]] /\ files'[n] # None
            BY <3>3, <3>4, <3>5, <4>3
          <5>2. files'[n].bytes = c[n]
            BY <5>1
          <5>. QED BY <4>1, <5>1, <5>2 DEF Kept
        <4>. QED BY <4>2, <4>3
      <3>. QED BY <3>8, PresentKept
    <2>3. \E n \in Names : c[n] # None /\ c[n] \in Bytes
      <3>1. c \in [Names -> Captured \union {None}] /\ c # [n \in Names |-> None]
        BY DEF Contents, Nothing
      <3>2. c = [n \in Names |-> c[n]]
        BY <3>1
      <3>3. \E n \in Names : c[n] # None
        BY <3>1, <3>2
      <3>4. \A n \in Names : c[n] = None \/ c[n] \in Bytes
        BY ConstantsAssumption DEF Contents
      <3>. QED BY <3>3, <3>4
    <2>4. Present' # {} /\ \A x, y \in Present' : x[1] = y[1] => x = y
      <3>1. PICK n \in Names : c[n] \in Bytes
        BY <2>3
      <3>2. <<n, c[n]>> \in Present'
        BY <2>2, <3>1
      <3>3. \A x, y \in Names \X Bytes : x[1] = y[1] /\ x[2] = y[2] => x = y
        OBVIOUS
      <3>. QED BY <2>2, <3>2, <3>3
    <2>5. UNCHANGED <<held, removed, identity>>
      BY <1>1 DEF Publish, journals
    <2>6. T!Capture(Present')
      BY <2>1, <2>4, <2>5 DEF T!Capture
    <2>7. Present' \in SUBSET (Names \X Bytes)
      BY <2>2
    <2>. QED BY <2>6, <2>7 DEF T!Next
  <1>2. CASE UnlinkFile
    <2>. DEFINE n == First(left)
    <2>1. pc = "unlink" /\ conflict' = conflict /\ Unheard
      BY <1>2 DEF UnlinkFile, RemovalUnchanged, journals, Unheard
    <2>2. n \in Names
      BY <2>1, FirstName DEF CustodyInv, RemovalInv, Unguarded
    <2>3. files' = files \/ files' = [files EXCEPT ![n] = None]
      BY <1>2 DEF UnlinkFile
    <2>4. Present' \subseteq Present
      <3>. HIDE DEF n
      <3>. QED BY <2>1, <2>2, <2>3 DEF Present, TypeInv, FileMap
    <2>5. ASSUME NEW x \in Present \ Present' PROVE x[1] = n /\ x[2] = files[n].bytes
      <3>. HIDE DEF n
      <3>. QED BY <2>1, <2>2, <2>3 DEF Present, TypeInv, FileMap
    <2>6. CASE n \in raced
      <3>1. OwnersHand(n)
        BY <2>1, <2>4, <2>5, <2>6 DEF OwnersHand
      <3>. QED BY <2>2, <3>1 DEF TransferOrOwner
    <2>7. CASE n \notin raced
      <3>1. files[n].bytes = digests[n] /\ files[n].bytes \in Bytes
        BY <2>1, <2>2, <2>7, PartTypes DEF CustodyInv, RemovalInv
      <3>2. T!InCustody(<<n, files[n].bytes>>)
        BY <2>2, <3>1, ConstantsAssumption
           DEF CustodyInv, LastingInv, DigestsHeld, Released, T!InCustody
      <3>3. \A x \in Present \ Present' : T!InCustody(x)
        BY <2>5, <3>2 DEF T!InCustody
      <3>4. T!Release(Present \ Present')
        BY <2>1, <2>4, <3>3 DEF T!Release, Unheard
      <3>. QED BY <3>4 DEF T!Next, TransferOrOwner
    <2>. QED BY <2>6, <2>7
  <1>3. CASE UploadReceipt
    <2>1. PICK claimed \in SUBSET (Sent \union {x \in held : x[1] = identity}) :
             held' = held \union claimed
      BY <1>3 DEF UploadReceipt
    <2>2. found \subseteq Here /\ UNCHANGED <<files, conflict, removed, identity>>
      BY <1>3 DEF UploadReceipt, UploadUnchanged, disk
    <2>. QED BY <1>0, <2>1, <2>2, StoreStep DEF TransferOrOwner
  <1>4. CASE UploadEnds
    <2>1. PICK stored \in {{}, Sent} : held' = held \union stored
      BY <1>4 DEF UploadEnds
    <2>2. found \subseteq Here /\ UNCHANGED <<files, conflict, removed, identity>>
      BY <1>4 DEF UploadEnds, UploadUnchanged, disk
    <2>. QED BY <1>0, <2>1, <2>2, StoreStep DEF TransferOrOwner
  <1>5. CASE UploadRemoved
    <2>1. UNCHANGED <<files, conflict, held, identity>> /\ removed' = removed \union {identity}
      BY <1>5 DEF UploadRemoved, UploadUnchanged, disk
    <2>. QED BY <1>0, <2>1 DEF T!Next, T!JournalRemoves, TransferOrOwner
  <1>6. CASE Pair
    <2>1. /\ UNCHANGED <<files, conflict, held, removed>>
          /\ identity' = identity + 1 /\ identity < MaxPairings
      BY <1>6 DEF Pair, disk, journals
    <2>2. identity + 1 \in 1..MaxPairings
      BY <2>1, ConstantsAssumption DEF TypeInv
    <2>. QED BY <1>0, <2>1, <2>2 DEF T!Next, T!Pair, TransferOrOwner
  <1>7. CASE UNCHANGED <<held, removed, identity>> /\ UNCHANGED <<files, conflict>>
    BY <1>0, <1>7, NoTransfer
  <1>8. CASE RemoveDirectory \/ delete_empty_segment
    BY <1>7, <1>8, JournalsKept DEF RemoveDirectory, delete_empty_segment, RemovalUnchanged, journals
  <1>9. CASE RestoreMove
    <2>. DEFINE m == First(left)
    <2>1. pc = "restore" /\ left # {} /\ Unheard
      BY <1>9 DEF RestoreMove, RemovalUnchanged, journals, Unheard
    <2>2. m \in Names
      BY <2>1, FirstName
    <2>3. \/ files' = files /\ conflict' = conflict
          \/ /\ conflict[m] = None /\ conflict' = [conflict EXCEPT ![m] = files[m].bytes]
             /\ files' = [files EXCEPT ![m] = None] /\ files[m] # None
      BY <1>9 DEF RestoreMove
    <2>4. Present' = Present
      <3>. HIDE DEF m
      <3>1. \A b \in Bytes : b # None
        BY ConstantsAssumption
      <3>2. \A n \in Names, b \in Bytes : Kept(n, b)' <=> Kept(n, b)
        BY <2>2, <2>3, <3>1 DEF Kept, TypeInv, FileMap, Digests
      <3>. QED BY <3>2, PresentKept
    <2>. QED BY <2>1, <2>4, NoTransfer DEF Unheard
  <1>10. CASE RestoreTemp
    BY <1>7, <1>10 DEF RestoreTemp, RemovalUnchanged, journals
  <1>11. CASE RestoreReplace
    <2>1. PutBack(First(left)) \/ OwnersHand(First(left)) \/ UNCHANGED T!vars
      BY <1>11, ReplaceStep
    <2>2. pc = "replace"
      BY <1>11 DEF RestoreReplace
    <2>3. First(left) \in Names
      BY <2>2, FirstName DEF CustodyInv, RemovalInv, Unguarded
    <2>. QED BY <2>1, <2>3 DEF TransferOrOwner
  <1>12. ASSUME NEW n \in Names, Erase(n) \/ \E b \in Bytes, p \in BOOLEAN : Edit(n, b, p)
         PROVE  TransferOrOwner
    <2>1. conflict' = conflict /\ Unheard
      BY <1>12 DEF Erase, Edit, journals, Unheard
    <2>2. \A m \in Names : m # n => files'[m] = files[m]
      BY <1>12 DEF Erase, Edit, SetFile, TypeInv, FileMap
    <2>3. \A x \in (Present \ Present') \union (Present' \ Present) : x[1] = n
      BY <2>1, <2>2 DEF Present
    <2>. QED BY <1>12, <2>1, <2>3 DEF OwnersHand, TransferOrOwner
  <1>13. CASE UNCHANGED <<dir, files, conflict, temp>>
    BY <1>3, <1>4, <1>5, <1>6, <1>7, <1>13, JournalsKept
  <1>. QED BY <1>1, <1>2, <1>8, <1>9, <1>10, <1>11, <1>12, <1>13, DiskKept DEF TransferOrOwner

\* Nothing is there at first, and nothing is being removed.
LEMMA TransferInit == Init => T!Init /\ HandlesInv
  <1>1. Nothing = [n \in Names |-> None] /\ \A b \in Bytes : b # None
    BY ConstantsAssumption DEF Nothing
  <1>. QED BY <1>1 DEF Init, T!Init, HandlesInv, Deleting, Present

\* Whatever is edited, fails, is killed or paired anew, uploading and removing a segment
\* is a transfer of custody but for two things: what the owner does to the files, and a
\* removal that fails half way and puts back a file it let go.  The journal has what is
\* put back, or the owner wrote into it meanwhile (delete_revalidated_segment,
\* restore_expected_files).
THEOREM TransferButForTheOwner ==
    Spec => T!Init /\ [][TransferOrOwner]_(T!vars)
  <1>1. Init => T!Init /\ HandlesInv
    BY TransferInit
  <1>2. TypeInv /\ CustodyInv /\ HandlesInv /\ [Next]_vars => HandlesInv'
    <2>1. CASE UNCHANGED vars
      BY <2>1 DEF vars, inventory, removal, HandlesInv, Identity, Size
    <2>. QED BY <2>1, HandlesStep
  <1>3. TypeInv /\ CustodyInv /\ HandlesInv /\ [Next]_vars => [TransferOrOwner]_(T!vars)
    <2>1. CASE UNCHANGED vars
      BY <2>1, NoTransfer DEF vars, disk, journals, Present
    <2>. QED BY <2>1, TransferStep
  <1>. QED BY <1>1, <1>2, <1>3, CustodyInit, CustodyStep, PTL DEF Spec

-----------------------------------------------------------------------------
(* Without edits and failing calls, Custody implements Transfer *)

Quiet == MaxEdits = 0 /\ MaxFaults = 0

\* Without edits and failing writes, deletion finds every file as it was.
QuietInv ==
    /\ conflict = Nothing /\ temp = FALSE /\ raced = {}
    /\ pc \notin {"restore", "rewrite", "replace"}
    /\ pc \in {"check", "unlink"} =>
          Here = left /\ \A n \in left : cache.idents[n] = Identity(files[n])

\* Nobody edits a file and no call fails.
LEMMA QuietSteps ==
    ASSUME Quiet, TypeInv
    PROVE  /\ ~ Fault
           /\ \A n \in Names : ~ Erase(n)
           /\ \A n \in Names, b \in Bytes, p \in BOOLEAN : ~ Edit(n, b, p)
  BY DEF Quiet, TypeInv, Fault, Erase, Edit

\* Only an edit counts as a race.
LEMMA RacedKept ==
    ASSUME Next
    PROVE  \/ raced' = raced \/ raced' = {}
           \/ \E n \in Names : Erase(n)
           \/ \E n \in Names, b \in Bytes, p \in BOOLEAN : Edit(n, b, p)
  <1>1. CASE Local \/ Upload
    BY <1>1 DEF Local, Upload, prune_ledger_dirs, Rescan, Resolve, file_identities,
       inventory_files, read_ack_record, read_state_record, write_ack_record,
       write_state_record, UploadMissing, UploadReceipt, UploadRemoved, UploadEnds,
       UploadRefused, UploadUnchanged, outside
  <1>2. CASE Finalizer \/ Outside \/ Process \/ \E bySweep \in BOOLEAN : local_finish(bySweep)
    BY <1>2 DEF Finalizer, Outside, Process, Publish, write_capture_time, Elapse,
       local_finish, Kill, Forget, DropLocals, Pair, Start, outside
  <1>3. CASE Removal
    BY <1>3 DEF Removal, RemovalUnchanged, delete_confirmed_segment, Revalidate, CheckFile,
       UnlinkFile, RemoveDirectory, RestoreMove, RestoreTemp, RestoreReplace, RestoreDone,
       delete_empty_segment, RemoveAck, RemoveState, remove_segment_zone_sibling,
       EndCandidate, DropLocals, outside
  <1>. QED BY <1>1, <1>2, <1>3 DEF Next, Sync

\* A removal that nothing disturbs never has to write a file back.
LEMMA QuietStep == Quiet /\ TypeInv /\ CustodyInv /\ QuietInv /\ Next => QuietInv'
  <1>. SUFFICES ASSUME Quiet, TypeInv, CustodyInv, QuietInv, Next PROVE QuietInv'
    OBVIOUS
  <1>0. raced' = {}
    BY RacedKept, QuietSteps DEF QuietInv
  <1>1. CASE UNCHANGED <<dir, files, conflict, temp>> /\ pc' \notin Deleting
    BY <1>0, <1>1 DEF QuietInv, Deleting
  <1>2. ASSUME NEW c \in Contents, Publish(c) PROVE QuietInv'
    <2>1. pc \notin Deleting
      BY <1>2 DEF Publish, CustodyInv, RemovalInv
    <2>. QED BY <1>0, <1>2, <2>1 DEF Publish, QuietInv, Deleting
  <1>3. CASE write_capture_time \/ Elapse
    BY <1>0, <1>3 DEF write_capture_time, Elapse, disk, inventory, removal, QuietInv, Here
  <1>4. CASE delete_empty_segment
    BY <1>0, <1>4 DEF delete_empty_segment, QuietInv
  <1>5. CASE Revalidate
    <2>1. UNCHANGED <<dir, files, conflict, temp, cache>>
      BY <1>5 DEF Revalidate, disk
    <2>2. \/ pc' \notin Deleting
          \/ found = Here /\ Identities = cache.idents /\ left' = found /\ pc' = "check"
      BY <1>5 DEF Revalidate, Deleting
    <2>3. \A n \in found : Identities[n] = Identity(files[n])
      BY DEF Identities, TypeInv
    <2>. QED BY <1>0, <1>1, <2>1, <2>2, <2>3 DEF QuietInv, Here
  <1>6. CASE CheckFile
    <2>1. UNCHANGED <<dir, files, conflict, temp, cache>> /\ pc = "check" /\ left # {}
      BY <1>6 DEF CheckFile, disk
    <2>2. First(left) \in left /\ First(left) \in Names
      BY <2>1, FirstName
    <2>3. ProvesCustody(First(left))
      BY <2>1, <2>2, SameProves DEF QuietInv, Here, Removing
    <2>4. pc' = "unlink" /\ left' = left
      BY <1>6, <2>3 DEF CheckFile
    <2>. QED BY <1>0, <2>1, <2>4 DEF QuietInv, Here
  <1>7. CASE UnlinkFile
    <2>1. pc = "unlink" /\ UNCHANGED <<conflict, temp, cache>>
      BY <1>7 DEF UnlinkFile
    <2>2. left # {} /\ First(left) \in left /\ First(left) \in Names
      BY <2>1, FirstName DEF CustodyInv, RemovalInv, Unguarded
    <2>3. files[First(left)] # None
      BY <2>1, <2>2 DEF QuietInv, Here
    <2>4. /\ files' = [files EXCEPT ![First(left)] = None]
          /\ left' = left \ {First(left)} /\ pc' = "check"
      BY <1>7, <2>3, QuietSteps DEF UnlinkFile
    <2>5. Here' = Here \ {First(left)}
      BY <2>2, <2>4 DEF Here, TypeInv, FileMap
    <2>6. \A n \in left' : files'[n] = files[n]
      BY <2>2, <2>4 DEF TypeInv, FileMap
    <2>. QED BY <1>0, <2>1, <2>4, <2>5, <2>6 DEF QuietInv
  <1>8. CASE RemoveDirectory
    <2>1. pc = "check" /\ left = {} /\ UNCHANGED <<conflict, temp>>
      BY <1>8 DEF RemoveDirectory
    <2>2. Here = {}
      BY <2>1 DEF QuietInv
    <2>3. pc' = "ledger"
      BY <1>8, <2>2, QuietSteps DEF RemoveDirectory
    <2>. QED BY <1>0, <2>1, <2>3 DEF QuietInv
  <1>9. ~ (RestoreMove \/ RestoreTemp \/ RestoreReplace)
    BY DEF RestoreMove, RestoreTemp, RestoreReplace, QuietInv
  <1>10. CASE Sync \/ Process
    BY <1>1, <1>4, <1>5, <1>6, <1>7, <1>8, <1>9, <1>10, DeletingSteps, DiskKept, <1>2, QuietSteps
  <1>. QED BY <1>2, <1>3, <1>10, QuietSteps DEF Next, Finalizer, Outside

\* As long as nobody edits the files and no call fails, uploading and removing a segment
\* is a transfer of custody: through kills, lost answers and pairings with another
\* journal, every step captures a segment, stores files with the journal, lets go of a
\* file the paired journal has, pairs, or does nothing that Transfer sees (run_sweep,
\* delete_confirmed_segment).
THEOREM TransferIsImplemented ==
    ASSUME MaxEdits = 0, MaxFaults = 0
    PROVE  Spec => T!Init /\ [][T!Next]_(T!vars)
  <1>1. Quiet
    BY DEF Quiet
  <1>2. Init => QuietInv
    BY DEF Init, QuietInv
  <1>3. TypeInv /\ CustodyInv /\ QuietInv /\ [Next]_vars => QuietInv'
    <2>1. CASE UNCHANGED vars
      BY <2>1 DEF vars, disk, inventory, removal, outside, QuietInv, Here
    <2>. QED BY <1>1, <2>1, QuietStep
  <1>4. TypeInv /\ QuietInv /\ [TransferOrOwner]_(T!vars) => [T!Next]_(T!vars)
    BY <1>1, QuietSteps DEF TransferOrOwner, PutBack, OwnersHand, QuietInv
  <1>. QED BY <1>2, <1>3, <1>4, TransferButForTheOwner, CustodyInit, CustodyStep, PTL DEF Spec

=============================================================================
