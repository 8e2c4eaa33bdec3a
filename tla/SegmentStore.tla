---------------------------- MODULE SegmentStore ----------------------------
(***************************************************************************)
(* One capture segment on disk, from the creation of HHMMSS.incomplete to  *)
(* the finalized directory HHMMSS_LEN, with every way it can be            *)
(* interrupted: segment.rs and storage.rs (the writer) and recovery.rs     *)
(* (the start-up recovery of an interrupted segment).                      *)
(*                                                                         *)
(* The disk is modelled twice.  dir and files are what the running process *)
(* (and a process started after a kill) sees.  dirLost and fileLost hold   *)
(* the older states of the stream directory and of each JSONL file that a  *)
(* power loss may bring back, because no fsync has made the newer state    *)
(* durable yet.  Operations on one directory, and on one file, reach the   *)
(* disk in order; the stream directory and the files are independent.      *)
(*                                                                         *)
(* A JSONL file is the set of its complete lines and a flag for a torn     *)
(* last line.  A line is named by its number: the frame_id for a session   *)
(* file, the position for the activity file.  A durable offset is the set  *)
(* of lines before it, so "length = offset" is "lines = rec and no tail".  *)
(***************************************************************************)
EXTENDS Integers

CONSTANTS
    Session,     \* tmux sessions captured into the segment
    Activity,    \* the desktop-activity file of the segment
    MaxFrames,   \* bound: frame ids handed out
    MaxActs,     \* bound: activity records handed out
    Interval,    \* segment_interval in seconds
    MaxElapsed,  \* bound: seconds since the segment was opened
    MaxFaults    \* bound: kills, power losses and I/O errors in a behaviour

ASSUME ConstantsAssumption ==
    /\ Activity \notin Session
    /\ MaxFrames \in Nat /\ MaxActs \in Nat
    /\ Interval \in Nat /\ MaxElapsed \in Nat /\ MaxFaults \in Nat

VARIABLES
    dir,       \* the segment's entries in the stream directory
    dirLost,   \* older values of dir that a power loss may restore
    files,     \* the JSONL files inside the segment directory
    fileLost,  \* per file, older contents that a power loss may restore
    pc,        \* next step of the process that owns the segment
    mem,       \* SegmentState.metadata, or the metadata recovery decided on
    saved,     \* metadata bytes read before an append or a recovery
    cur,       \* file of the append or repair under way
    stage,     \* which half of append_frame failed: "json" or "meta"
    rolled,    \* the JSONL rollback of a failed metadata write succeeded
    poisoned,  \* SegmentState.poisoned
    stopping,  \* process_poll failed: only the shutdown finalize is left
    elapsed,   \* now_monotonic - start_monotonic, in seconds
    acked,     \* ghost: lines whose append returned Ok
    faults     \* ghost: faults so far

dirVars  == <<dir, dirLost>>
fileVars == <<files, fileLost>>
appendVars == <<saved, cur, stage, rolled>>
flagVars == <<poisoned, stopping, elapsed>>
vars == <<dir, dirLost, files, fileLost, pc, mem, saved, cur, stage, rolled,
          poisoned, stopping, elapsed, acked, faults>>

-----------------------------------------------------------------------------
(* Data *)

File == Session \cup {Activity}

NoFile    == [here |-> FALSE, lines |-> {}, torn |-> FALSE]
EmptyFile == [here |-> TRUE, lines |-> {}, torn |-> FALSE]
Content   == [here : BOOLEAN, lines : SUBSET Nat, torn : BOOLEAN]

\* File::set_len to a recorded offset: exactly the recorded lines remain.
Truncated(rec) == [here |-> TRUE, lines |-> rec, torn |-> FALSE]

Lifecycle == {"none", "creating", "open", "finalizing"}
Metadata  == [life : Lifecycle, rec : [File -> SUBSET Nat],
              count : Nat, acts : Nat, len : Nat]

\* "none": the HHMMSS.incomplete.meta file does not exist.
NoMeta == [life |-> "none", rec |-> [f \in File |-> {}],
           count |-> 0, acts |-> 0, len |-> 0]

\* loc: the name the one segment directory has now; len: LEN of its finalized
\* name; aside: HHMMSS.failed.meta exists; zone: LEN named by the zone.json
\* sibling, 0 when there is none.
Place == {"none", "src", "fin", "failed"}
Directory == [loc : Place, len : Nat, meta : Metadata, aside : BOOLEAN,
              zone : Nat]
NoDirectory == [loc |-> "none", len |-> 0, meta |-> NoMeta, aside |-> FALSE,
                zone |-> 0]

Min2(a, b) == IF a <= b THEN a ELSE b
Max2(a, b) == IF a >= b THEN a ELSE b

\* Mutants of segment_length: an off-by-one without the lower bound, and the
\* measured duration without the upper bound.
segment_length_underflow(e) == Min2(e, Max2(Interval, 1)) - 1

\* Whole-second LEN of the finalized name, bounded to [1, interval].
segment_length(e) == Max2(1, Min2(e, Max2(Interval, 1)))
record_length(m, e) == [m EXCEPT !.len = segment_length(e)]

\* No durable frame and no durable activity byte is recorded.
RecordsNothing(m) ==
    m.count = 0 /\ m.acts = 0 /\ \A f \in File : m.rec[f] = {}

RecordedIds(m) == UNION {m.rec[s] : s \in Session}

\* recovery.rs metadata_is_consistent, on the fields the model keeps.
metadata_is_consistent(m) ==
    /\ m.life = "creating" => RecordsNothing(m)
    /\ \A s \in Session : \A id \in m.rec[s] : id <= m.count

\* The files of a directory against its metadata (recovery.rs validate_files).
\* A session that never committed a frame has no entry in the sessions map.
UnknownFile(m, fs) == \E s \in Session : fs[s].here /\ m.rec[s] = {}
ShortFile(m, fs) ==
    \E f \in File : m.rec[f] # {} /\ ~(fs[f].here /\ m.rec[f] \subseteq fs[f].lines)
CompleteBeyond(m, fs) == \E s \in Session : fs[s].lines \ m.rec[s] # {}
NeedsRepair(m, fs, f) == fs[f].here /\ (fs[f].torn \/ fs[f].lines # m.rec[f])
IdsConsecutive(m) ==
    /\ \E n \in 0..MaxFrames : RecordedIds(m) = 1..n
    /\ \A s, t \in Session : s # t => m.rec[s] \cap m.rec[t] = {}
validate_files(m, fs) ==
    IF \/ UnknownFile(m, fs) \/ ShortFile(m, fs) \/ CompleteBeyond(m, fs)
       \/ ~IdsConsecutive(m)
    THEN "contradictory"
    ELSE CASE \E f \in File : NeedsRepair(m, fs, f) -> "repair"
           [] OTHER -> IF RecordedIds(m) = 1..m.count THEN "exact" ELSE "contradictory"

-----------------------------------------------------------------------------
(* Disk operations *)

\* A rename, mkdir, rmdir or unlink in the stream directory, not yet fsynced.
ChangeDir(d) == dir' = d /\ dirLost' = dirLost \cup {dir}

\* storage.rs sync_directory(stream_dir).
sync_directory == dirLost' = {} /\ UNCHANGED dir

\* sync_directory(stream_dir) of the previous change, then the next change.  A
\* crash between the two finds nothing that a crash before them does not.
SyncThenChangeDir(d) == dir' = d /\ dirLost' = {dir}

\* Any change of one file's content or existence, not yet fsynced.
ChangeFile(f, c) ==
    /\ files' = [files EXCEPT ![f] = c]
    /\ fileLost' = [fileLost EXCEPT ![f] = @ \cup {files[f]}]

\* File::sync_all: the content is durable, a new directory entry is not.
sync_all(f) ==
    /\ fileLost' = [fileLost EXCEPT ![f] = @ \cap {NoFile}]
    /\ UNCHANGED files

\* sync_all of the file followed by sync_directory(segment_dir).
SyncFileAndEntry(f) ==
    /\ fileLost' = [g \in File |-> IF g = f THEN {} ELSE fileLost[g] \ {NoFile}]
    /\ UNCHANGED files

\* The bounded supply of faults.
Fault == faults < MaxFaults /\ faults' = faults + 1

\* The process is gone: nothing of its memory remains.
Forget ==
    /\ pc' = "down"
    /\ mem' = NoMeta /\ saved' = NoMeta /\ cur' = Activity
    /\ stage' = "json" /\ rolled' = TRUE /\ poisoned' = FALSE
    /\ stopping' = FALSE /\ elapsed' = 0

-----------------------------------------------------------------------------
Init ==
    /\ dir = NoDirectory /\ dirLost = {}
    /\ files = [f \in File |-> NoFile]
    /\ fileLost = [f \in File |-> {}]
    /\ pc = "fresh"
    /\ mem = NoMeta /\ saved = NoMeta /\ cur = Activity
    /\ stage = "json" /\ rolled = TRUE /\ poisoned = FALSE
    /\ stopping = FALSE /\ elapsed = 0
    /\ acked = [f \in File |-> {}]
    /\ faults = 0

-----------------------------------------------------------------------------
(* SegmentState::create.  An error at any step ends start-up or the observer; *)
(* for this segment that is a Kill.                                           *)

Step(from, to) == pc = from /\ pc' = to

create_metadata ==
    /\ Step("fresh", "created_meta")
    /\ mem' = record_length([NoMeta EXCEPT !.life = "creating"], 0)
    /\ ChangeDir([dir EXCEPT !.meta = mem'])
    /\ UNCHANGED <<fileVars, appendVars, flagVars, acked, faults>>

create_directory ==
    /\ Step("created_meta", "created_dir")
    /\ SyncThenChangeDir([dir EXCEPT !.loc = "src"])
    /\ UNCHANGED <<fileVars, mem, appendVars, flagVars, acked, faults>>

create_open ==
    /\ Step("created_dir", "created_open")
    /\ mem' = [mem EXCEPT !.life = "open"]
    /\ SyncThenChangeDir([dir EXCEPT !.meta = mem'])
    /\ UNCHANGED <<fileVars, appendVars, flagVars, acked, faults>>

create_done ==
    /\ Step("created_open", "open")
    /\ sync_directory
    /\ UNCHANGED <<fileVars, mem, appendVars, flagVars, acked, faults>>

Tick ==
    /\ pc = "open" /\ elapsed < MaxElapsed
    /\ elapsed' = elapsed + 1
    /\ UNCHANGED <<dirVars, fileVars, pc, mem, appendVars, poisoned, stopping,
                   acked, faults>>

-----------------------------------------------------------------------------
(* append_capture and append_activity, through FileStorage::append_frame *)

NextId(f) == IF f = Activity THEN mem.acts + 1 ELSE mem.count + 1

\* Mutant: the frame count is left behind.
Proposed_uncounted(f) ==
    record_length([mem EXCEPT !.rec[f] = @ \cup {NextId(f)}], elapsed)

\* The metadata the append will record.
Proposed(f) ==
    LET m == [mem EXCEPT !.rec[f] = @ \cup {NextId(f)}]
    IN  record_length(IF f = Activity THEN [m EXCEPT !.acts = @ + 1]
                                      ELSE [m EXCEPT !.count = @ + 1], elapsed)

\* process_poll rotates before it appends, so an append finds the segment
\* younger than the interval.
CanAppend(f) ==
    /\ pc = "open" /\ ~poisoned /\ ~stopping
    /\ elapsed < Interval
    /\ NextId(f) <= IF f = Activity THEN MaxActs ELSE MaxFrames

BeginAppend(f) ==
    /\ CanAppend(f)
    /\ pc' = "append_open" /\ cur' = f /\ saved' = dir.meta
    /\ UNCHANGED <<dirVars, fileVars, mem, stage, rolled, flagVars, acked, faults>>

\* The previous metadata cannot be read: an error that is not recoverable.
AppendReadFails ==
    /\ \E f \in File : CanAppend(f)
    /\ Fault /\ stopping' = TRUE
    /\ UNCHANGED <<dirVars, fileVars, pc, mem, appendVars, poisoned, elapsed, acked>>

\* FileStorage::handle opens or creates the file.
OpenJsonl ==
    /\ Step("append_open", "append_write")
    /\ IF files[cur].here THEN UNCHANGED fileVars ELSE ChangeFile(cur, EmptyFile)
    /\ UNCHANGED <<dirVars, mem, appendVars, flagVars, acked, faults>>

\* write_all at the durable offset; the line may be there only in part.
WritePart ==
    /\ Step("append_write", "append_rest")
    /\ files[cur] = Truncated(mem.rec[cur])
    /\ ChangeFile(cur, [files[cur] EXCEPT !.torn = TRUE])
    /\ UNCHANGED <<dirVars, mem, appendVars, flagVars, acked, faults>>

WriteRest ==
    /\ Step("append_rest", "append_sync")
    /\ ChangeFile(cur, Truncated(mem.rec[cur] \cup {NextId(cur)}))
    /\ UNCHANGED <<dirVars, mem, appendVars, flagVars, acked, faults>>

\* Mutant: the JSONL file is not fsynced before its offset is recorded.
SyncJsonl_skipped ==
    /\ Step("append_sync", "meta_write")
    /\ UNCHANGED <<dirVars, fileVars, mem, appendVars, flagVars, acked, faults>>

SyncJsonl ==
    /\ Step("append_sync", "meta_write")
    /\ SyncFileAndEntry(cur)
    /\ UNCHANGED <<dirVars, mem, appendVars, flagVars, acked, faults>>

WriteMetadata ==
    /\ Step("meta_write", "meta_sync")
    /\ ChangeDir([dir EXCEPT !.meta = Proposed(cur)])
    /\ UNCHANGED <<fileVars, mem, appendVars, flagVars, acked, faults>>

\* The append's registers, once it has returned.
ResetAppend ==
    /\ saved' = NoMeta /\ cur' = Activity /\ stage' = "json" /\ rolled' = TRUE

CommitAppend ==
    /\ Step("meta_sync", "open")
    /\ sync_directory
    /\ mem' = Proposed(cur)
    /\ acked' = [acked EXCEPT ![cur] = @ \cup {NextId(cur)}]
    /\ ResetAppend
    /\ UNCHANGED <<fileVars, flagVars, faults>>

JsonStage == {"append_open", "append_write", "append_rest", "append_sync"}
MetaStage == {"meta_write", "meta_sync"}

AppendFails ==
    /\ pc \in JsonStage \cup MetaStage
    /\ Fault /\ pc' = "undo_file"
    /\ stage' = IF pc \in JsonStage THEN "json" ELSE "meta"
    /\ UNCHANGED <<dirVars, fileVars, mem, saved, cur, rolled, flagVars, acked>>

\* StorageError::Recoverable: the poll goes on and the append is retried.
Recoverable == pc' = "open" /\ ResetAppend /\ UNCHANGED <<poisoned, stopping>>

\* StorageError::Poisoned: the segment takes nothing more, the observer stops.
Poison == pc' = "open" /\ ResetAppend /\ poisoned' = TRUE /\ stopping' = TRUE

\* FileStorage::rollback.  Without an open handle there is nothing to undo.
RollbackNothing ==
    /\ pc = "undo_file" /\ ~files[cur].here
    /\ Recoverable
    /\ UNCHANGED <<dirVars, fileVars, mem, elapsed, acked, faults>>

RollbackTruncate ==
    /\ Step("undo_file", "undo_sync") /\ files[cur].here
    /\ ChangeFile(cur, Truncated(mem.rec[cur]))
    /\ UNCHANGED <<dirVars, mem, appendVars, flagVars, acked, faults>>

RollbackSync ==
    /\ pc = "undo_sync"
    /\ sync_all(cur)
    /\ IF stage = "json"
       THEN Recoverable
       ELSE pc' = "undo_meta" /\ UNCHANGED <<appendVars, poisoned, stopping>>
    /\ UNCHANGED <<dirVars, mem, elapsed, acked, faults>>

RollbackFails ==
    /\ pc \in {"undo_file", "undo_sync"}
    /\ Fault
    /\ IF stage = "json"
       THEN Poison
       ELSE /\ pc' = "undo_meta" /\ rolled' = FALSE
            /\ UNCHANGED <<saved, cur, stage, poisoned, stopping>>
    /\ UNCHANGED <<dirVars, fileVars, mem, elapsed, acked>>

\* The previous metadata bytes are written back whether or not the JSONL
\* rollback succeeded.
RestoreMetadata ==
    /\ Step("undo_meta", "undo_meta_sync")
    /\ ChangeDir([dir EXCEPT !.meta = saved])
    /\ UNCHANGED <<fileVars, mem, appendVars, flagVars, acked, faults>>

RestoreSync ==
    /\ pc = "undo_meta_sync"
    /\ sync_directory
    /\ IF rolled THEN Recoverable ELSE Poison
    /\ UNCHANGED <<fileVars, mem, elapsed, acked, faults>>

RestoreFails ==
    /\ pc \in {"undo_meta", "undo_meta_sync"}
    /\ Fault /\ Poison
    /\ UNCHANGED <<dirVars, fileVars, mem, elapsed, acked>>

-----------------------------------------------------------------------------
(* SegmentState::finalize: by process_poll once the rotation is due, or by   *)
(* shutdown.  An error in process_poll stops the observer, whose shutdown    *)
(* calls finalize once more; an error there ends the process.                *)

\* s: the call comes from shutdown.
FinalizeCalled(s) ==
    /\ pc = "open" /\ (stopping => s)
    /\ s \/ elapsed >= Interval
    /\ stopping' = s

FinalizeError ==
    IF stopping THEN Forget
    ELSE /\ pc' = "open" /\ stopping' = TRUE
         /\ UNCHANGED <<mem, appendVars, poisoned, elapsed>>

\* finalize returns Poisoned, and the process ends.
PoisonedExit ==
    /\ pc = "open" /\ poisoned
    /\ Forget
    /\ UNCHANGED <<dirVars, fileVars, acked, faults>>

\* The metadata becomes Finalizing under the name the segment will have.
BeginFinalize(s) ==
    /\ FinalizeCalled(s) /\ ~poisoned /\ ~RecordsNothing(mem)
    /\ pc' = "final_sync"
    /\ mem' = [record_length(mem, elapsed) EXCEPT !.life = "finalizing"]
    /\ ChangeDir([dir EXCEPT !.meta = mem'])
    /\ UNCHANGED <<fileVars, appendVars, poisoned, elapsed, acked, faults>>

\* sync_and_close, and the rename to HHMMSS_LEN.
RenameFinalized ==
    /\ Step("final_sync", "final_named")
    /\ dir.loc = "src"
    /\ SyncThenChangeDir([dir EXCEPT !.loc = "fin", !.len = mem.len])
    /\ fileLost' = [f \in File |-> fileLost[f] \cap {NoFile}]
    /\ UNCHANGED <<files, mem, appendVars, flagVars, acked, faults>>

\* The finalized name is taken, or the source is gone: the directory was
\* renamed by the call that failed before.
FinalizeCollides ==
    /\ pc = "final_sync" /\ dir.loc # "src"
    /\ sync_directory /\ FinalizeError
    /\ UNCHANGED <<fileVars, acked, faults>>

\* write_capture_time: HHMMSS_LEN.zone.json.
WriteZone ==
    /\ Step("final_named", "final_zoned")
    /\ SyncThenChangeDir([dir EXCEPT !.zone = mem.len])
    /\ UNCHANGED <<fileVars, mem, appendVars, flagVars, acked, faults>>

\* Mutant: the metadata goes before the zone sibling is written.
RemoveMetadata_early ==
    /\ Step("final_named", "final_last")
    /\ SyncThenChangeDir([dir EXCEPT !.meta = NoMeta])
    /\ UNCHANGED <<fileVars, mem, appendVars, flagVars, acked, faults>>

RemoveMetadata ==
    /\ Step("final_zoned", "final_last")
    /\ SyncThenChangeDir([dir EXCEPT !.meta = NoMeta])
    /\ UNCHANGED <<fileVars, mem, appendVars, flagVars, acked, faults>>

FinalizeDone ==
    /\ Step("final_last", "closed")
    /\ sync_directory
    /\ UNCHANGED <<fileVars, mem, appendVars, flagVars, acked, faults>>

\* remove_confirmed_empty: only zero-length files may be there.
BeginRemoveEmpty(s) ==
    /\ FinalizeCalled(s) /\ ~poisoned /\ RecordsNothing(mem)
    /\ pc' = "empty_scan"
    /\ fileLost' = [f \in File |-> fileLost[f] \cap {NoFile}]
    /\ UNCHANGED <<dirVars, files, mem, appendVars, poisoned, elapsed, acked, faults>>

HereFiles == {f \in File : files[f].here}

UnlinkEmpty ==
    /\ pc = "empty_scan" /\ dir.loc = "src"
    /\ \E f \in HereFiles : files[f] = EmptyFile /\ ChangeFile(f, NoFile)
    /\ UNCHANGED <<dirVars, pc, mem, appendVars, flagVars, acked, faults>>

RemoveEmptyDir ==
    /\ Step("empty_scan", "empty_gone")
    /\ dir.loc = "src" /\ HereFiles = {}
    /\ ChangeDir([dir EXCEPT !.loc = "none"])
    /\ UNCHANGED <<fileVars, mem, appendVars, flagVars, acked, faults>>

RemoveEmptyMeta ==
    /\ Step("empty_gone", "final_last")
    /\ SyncThenChangeDir([dir EXCEPT !.meta = NoMeta])
    /\ UNCHANGED <<fileVars, mem, appendVars, flagVars, acked, faults>>

\* The directory was removed by the call that failed before.
RemoveEmptyRefused ==
    /\ pc = "empty_scan" /\ dir.loc # "src"
    /\ FinalizeError
    /\ UNCHANGED <<dirVars, fileVars, acked, faults>>

FinalSteps == {"final_sync", "final_named", "final_zoned", "final_last",
               "empty_scan", "empty_gone"}

\* An I/O error of any step of finalize or remove_confirmed_empty.
FinalizeFails ==
    /\ pc \in FinalSteps
    /\ Fault /\ FinalizeError
    /\ UNCHANGED <<dirVars, fileVars, acked>>

-----------------------------------------------------------------------------
(* recovery.rs recover_candidate, at the next start.  An I/O error aborts the *)
(* start, which for the disk is a Kill at that step.                          *)

HasMeta == dir.meta.life # "none"
Candidate == dir.loc = "src" \/ HasMeta
RecoverUnchanged == UNCHANGED <<stage, rolled, flagVars, acked, faults>>

\* Orphan metadata of a segment that never held a durable byte.
OrphanEmpty ==
    /\ dir.loc # "src" /\ metadata_is_consistent(dir.meta)
    /\ dir.meta.life = "creating" \/ RecordsNothing(dir.meta)

\* Metadata left after the finalized rename, with a validated directory.
OrphanFinalized ==
    /\ dir.loc = "fin" /\ dir.len = dir.meta.len
    /\ metadata_is_consistent(dir.meta) /\ ~RecordsNothing(dir.meta)
    /\ validate_files(dir.meta, files) = "exact"

RecoverNothing ==
    /\ Step("down", "up") /\ ~Candidate
    /\ UNCHANGED <<dirVars, fileVars, mem, saved, cur>> /\ RecoverUnchanged

\* Metadata is missing, or names no validated directory: nothing is touched.
RecoverRetains ==
    /\ Step("down", "up")
    /\ IF HasMeta
       THEN dir.loc # "src" /\ ~OrphanEmpty /\ ~OrphanFinalized
       ELSE dir.loc = "src"
    /\ UNCHANGED <<dirVars, fileVars, mem, saved, cur>> /\ RecoverUnchanged

RecoverOrphanEmpty ==
    /\ Step("down", "recover_last") /\ HasMeta /\ OrphanEmpty
    /\ ChangeDir([dir EXCEPT !.meta = NoMeta])
    /\ UNCHANGED <<fileVars, mem, saved, cur>> /\ RecoverUnchanged

RecoverOrphanFinalized ==
    /\ Step("down", "recover_zoned") /\ HasMeta /\ OrphanFinalized
    /\ ChangeDir([dir EXCEPT !.zone = dir.meta.len])
    /\ UNCHANGED <<fileVars, mem, saved, cur>> /\ RecoverUnchanged

\* The source directory and consistent metadata are there.
CanRecover == pc = "down" /\ HasMeta /\ dir.loc = "src" /\ metadata_is_consistent(dir.meta)

\* truncate_uncommitted_activity_writer.
RecoverEmpty ==
    /\ CanRecover /\ RecordsNothing(dir.meta)
    /\ IF files[Activity].here /\ files[Activity] # EmptyFile
       THEN pc' = "recover_act" /\ ChangeFile(Activity, EmptyFile)
       ELSE pc' = "recover_empty" /\ UNCHANGED fileVars
    /\ UNCHANGED <<dirVars, mem, saved, cur>> /\ RecoverUnchanged

RecoverActivitySync ==
    /\ Step("recover_act", "recover_empty")
    /\ SyncFileAndEntry(Activity)
    /\ UNCHANGED <<dirVars, mem, saved, cur>> /\ RecoverUnchanged

AllEmpty == \A f \in HereFiles : files[f] = EmptyFile

\* remove_validated_empty_files.
RecoverUnlink ==
    /\ pc = "recover_empty" /\ AllEmpty
    /\ \E f \in HereFiles : ChangeFile(f, NoFile)
    /\ UNCHANGED <<dirVars, pc, mem, saved, cur>> /\ RecoverUnchanged

RecoverRemoveDir ==
    /\ Step("recover_empty", "recover_meta") /\ HereFiles = {}
    /\ ChangeDir([dir EXCEPT !.loc = "none"])
    /\ UNCHANGED <<fileVars, mem, saved, cur>> /\ RecoverUnchanged

RecoverRemoveMeta ==
    /\ Step("recover_meta", "recover_last")
    /\ ChangeDir([dir EXCEPT !.meta = NoMeta])
    /\ UNCHANGED <<fileVars, mem, saved, cur>> /\ RecoverUnchanged

\* quarantine: the segment is set aside as HHMMSS.failed.
MustQuarantine ==
    \/ pc = "recover_empty" /\ ~AllEmpty
    \/ /\ pc = "down" /\ HasMeta
       /\ \/ ~metadata_is_consistent(dir.meta)
          \/ /\ CanRecover /\ ~RecordsNothing(dir.meta)
             /\ validate_files(dir.meta, files) = "contradictory"

QuarantineSource ==
    /\ MustQuarantine /\ pc' = "quarantine_meta"
    /\ ChangeDir([dir EXCEPT !.loc = IF @ = "src" THEN "failed" ELSE @])
    /\ UNCHANGED <<fileVars, mem, saved, cur>> /\ RecoverUnchanged

QuarantineMeta ==
    /\ Step("quarantine_meta", "recover_last")
    /\ ChangeDir([dir EXCEPT !.meta = NoMeta, !.aside = TRUE])
    /\ UNCHANGED <<fileVars, mem, saved, cur>> /\ RecoverUnchanged

\* The metadata rename fails: the directory is renamed back, the start aborts.
QuarantineMetaFails ==
    /\ pc = "quarantine_meta" /\ dir.loc = "failed"
    /\ Fault /\ ChangeDir([dir EXCEPT !.loc = "src"])
    /\ Forget
    /\ UNCHANGED <<fileVars, acked>>

\* Validated, exactly or up to repairs: recovery finalizes the segment.  The
\* frame count becomes the number of recorded frames (it is already, if exact).
RecoverValidated ==
    /\ CanRecover /\ ~RecordsNothing(dir.meta)
    /\ validate_files(dir.meta, files) # "contradictory"
    /\ pc' = "recover_repair"
    /\ saved' = dir.meta
    /\ \E n \in 0..MaxFrames :
           /\ RecordedIds(dir.meta) = 1..n
           /\ mem' = [record_length(dir.meta, dir.meta.len) EXCEPT !.count = n]
    /\ UNCHANGED <<dirVars, fileVars, cur>> /\ RecoverUnchanged

\* apply_repairs: one file is cut back to its durable offset and fsynced.
RepairTruncate ==
    /\ Step("recover_repair", "recover_repair_sync")
    /\ \E f \in File : /\ NeedsRepair(mem, files, f)
                       /\ cur' = f
                       /\ ChangeFile(f, Truncated(mem.rec[f]))
    /\ UNCHANGED <<dirVars, mem, saved>> /\ RecoverUnchanged

RepairSync ==
    /\ Step("recover_repair_sync", "recover_repair")
    /\ sync_all(cur)
    /\ UNCHANGED <<dirVars, mem, saved, cur>> /\ RecoverUnchanged

\* Mutant: the rename does not wait for the repairs.
RecoverFinalizing_unrepaired ==
    /\ Step("recover_repair", "recover_rename")
    /\ mem' = [mem EXCEPT !.life = "finalizing"]
    /\ ChangeDir([dir EXCEPT !.meta = mem'])
    /\ UNCHANGED <<fileVars, saved, cur>> /\ RecoverUnchanged

RecoverFinalizing ==
    /\ Step("recover_repair", "recover_rename")
    /\ \A f \in File : ~NeedsRepair(mem, files, f)
    /\ mem' = [mem EXCEPT !.life = "finalizing"]
    /\ ChangeDir([dir EXCEPT !.meta = mem'])
    /\ UNCHANGED <<fileVars, saved, cur>> /\ RecoverUnchanged

\* Mutant: the result of the rename is ignored.
RecoverRename_ignored ==
    /\ Step("recover_rename", "recover_named")
    /\ sync_directory
    /\ UNCHANGED <<fileVars, mem, saved, cur>> /\ RecoverUnchanged

RecoverRename ==
    /\ Step("recover_rename", "recover_named")
    /\ SyncThenChangeDir([dir EXCEPT !.loc = "fin", !.len = mem.len])
    /\ UNCHANGED <<fileVars, mem, saved, cur>> /\ RecoverUnchanged

\* The rename fails: the original metadata is written back, the segment stays.
RecoverRenameFails ==
    /\ Step("recover_rename", "recover_last")
    /\ Fault /\ SyncThenChangeDir([dir EXCEPT !.meta = saved])
    /\ UNCHANGED <<fileVars, mem, appendVars, flagVars, acked>>

RecoverZone ==
    /\ Step("recover_named", "recover_zoned")
    /\ SyncThenChangeDir([dir EXCEPT !.zone = mem.len])
    /\ UNCHANGED <<fileVars, mem, saved, cur>> /\ RecoverUnchanged

RecoverDropMeta ==
    /\ Step("recover_zoned", "recover_last")
    /\ SyncThenChangeDir([dir EXCEPT !.meta = NoMeta])
    /\ UNCHANGED <<fileVars, mem, saved, cur>> /\ RecoverUnchanged

RecoverDone ==
    /\ Step("recover_last", "up")
    /\ sync_directory
    /\ mem' = NoMeta /\ saved' = NoMeta /\ cur' = Activity
    /\ UNCHANGED fileVars /\ RecoverUnchanged

-----------------------------------------------------------------------------
(* Faults of the environment *)

\* The process is killed, or ends on an error that nothing handles.
Kill ==
    /\ pc # "down" /\ Fault
    /\ Forget
    /\ UNCHANGED <<dirVars, fileVars, acked>>

\* Everything not yet fsynced is kept or lost.
PowerLoss ==
    /\ Fault /\ Forget
    /\ dir' \in dirLost \cup {dir}
    /\ files' \in IF dir'.loc = "none" THEN {[f \in File |-> NoFile]}
                 ELSE {fs \in [File -> UNION {fileLost[f] \cup {files[f]} : f \in File}] :
                          \A f \in File : fs[f] \in fileLost[f] \cup {files[f]}}
    /\ dirLost' = {} /\ fileLost' = [f \in File |-> {}]
    /\ UNCHANGED acked

\* The segment is settled until the next start.
Rest == pc \in {"closed", "up"} /\ UNCHANGED vars

-----------------------------------------------------------------------------
create_with_faults == create_metadata \/ create_directory \/ create_open \/ create_done

append_frame ==
    \/ \E f \in File : BeginAppend(f)
    \/ AppendReadFails \/ OpenJsonl \/ WritePart \/ WriteRest \/ SyncJsonl
    \/ WriteMetadata \/ CommitAppend \/ AppendFails
    \/ RollbackNothing \/ RollbackTruncate \/ RollbackSync \/ RollbackFails
    \/ RestoreMetadata \/ RestoreSync \/ RestoreFails

finalize ==
    \/ \E s \in BOOLEAN : BeginFinalize(s) \/ BeginRemoveEmpty(s)
    \/ PoisonedExit \/ RenameFinalized \/ FinalizeCollides \/ WriteZone
    \/ RemoveMetadata \/ FinalizeDone \/ FinalizeFails
    \/ UnlinkEmpty \/ RemoveEmptyDir \/ RemoveEmptyMeta \/ RemoveEmptyRefused

recover_candidate ==
    \/ RecoverNothing \/ RecoverRetains
    \/ RecoverOrphanEmpty \/ RecoverOrphanFinalized
    \/ RecoverEmpty \/ RecoverActivitySync \/ RecoverUnlink
    \/ RecoverRemoveDir \/ RecoverRemoveMeta
    \/ QuarantineSource \/ QuarantineMeta \/ QuarantineMetaFails
    \/ RecoverValidated \/ RepairTruncate \/ RepairSync \/ RecoverFinalizing
    \/ RecoverRename \/ RecoverRenameFails \/ RecoverZone \/ RecoverDropMeta
    \/ RecoverDone

Next ==
    \/ create_with_faults \/ Tick \/ append_frame \/ finalize
    \/ recover_candidate \/ Kill \/ PowerLoss \/ Rest

Spec == Init /\ [][Next]_vars

\* A finalize step that no early stop is needed for.
finalize_due == finalize /\ (pc = "open" /\ ~stopping => elapsed >= Interval)

\* The process takes its next step, the clock ticks, and a stopped service is
\* started again; an append, a fault or an early stop need never happen.
FairSpec ==
    /\ Spec
    /\ WF_vars(create_with_faults) /\ WF_vars(Tick)
    /\ WF_vars(append_frame /\ pc # "open")
    /\ WF_vars(finalize_due) /\ WF_vars(recover_candidate)

-----------------------------------------------------------------------------
(* Properties *)

CreateSteps  == {"fresh", "created_meta", "created_dir", "created_open"}
UndoSteps    == {"undo_file", "undo_sync", "undo_meta", "undo_meta_sync"}
RecoverSteps == {"recover_act", "recover_empty", "recover_meta", "recover_last",
                 "quarantine_meta", "recover_repair", "recover_repair_sync",
                 "recover_rename", "recover_named", "recover_zoned"}
Steps == CreateSteps \cup JsonStage \cup MetaStage \cup UndoSteps \cup FinalSteps
         \cup RecoverSteps \cup {"open", "closed", "down", "up"}

TypeOK ==
    /\ dir \in Directory /\ dirLost \in SUBSET Directory
    /\ files \in [File -> Content] /\ fileLost \in [File -> SUBSET Content]
    /\ pc \in Steps
    /\ mem \in Metadata /\ saved \in Metadata
    /\ cur \in File /\ stage \in {"json", "meta"} /\ rolled \in BOOLEAN
    /\ poisoned \in BOOLEAN /\ stopping \in BOOLEAN /\ elapsed \in Nat
    /\ acked \in [File -> SUBSET Nat] /\ faults \in Nat

\* What a power loss at this instant may leave.
Dirs == dirLost \cup {dir}
Contents(f) == fileLost[f] \cup {files[f]}

\* A frame or activity record whose append returned Ok is never lost: whatever
\* is killed, fails or loses power afterwards, its line is in the segment's
\* file and the segment directory is there under one of its names.
AckedSurvives ==
    \A f \in File : acked[f] # {} =>
        /\ \A c \in Contents(f) : c.here /\ acked[f] \subseteq c.lines
        /\ \A d \in Dirs : d.loc # "none"

\* Whole lines only, and frames numbered 1..n without gap or repetition.
ExactFiles ==
    /\ \A f \in File : ~files[f].torn
    /\ IdsConsecutive([NoMeta EXCEPT !.rec = [f \in File |-> files[f].lines]])

\* finalize and recovery give the finalized name, which makes a segment ready
\* for upload, only to a directory of whole lines with consecutive frames,
\* whatever appends were rolled back or cut short before.
RenamesExact == [][dir.loc = "src" /\ dir'.loc = "fin" => ExactFiles']_vars

\* A finalized directory without metadata has the zone.json sibling that
\* names it, on every disk a power loss can leave: finalize and recovery
\* remove the only other copy of the zone after writing it.
ZoneBeforeMetaRemoved ==
    \A d \in Dirs : d.loc = "fin" /\ d.meta.life = "none" => d.zone = d.len

\* Metadata on disk lets the next start decide at every crash point: it is
\* consistent, so recovery never quarantines a segment for its metadata; an
\* incomplete directory always has it, so none is retained as unreadable; and
\* metadata still there after the finalized rename names that directory, so that
\* finalize, called again after an error, derives the same LEN.
MetadataConsistent ==
    \A d \in Dirs :
        /\ d.meta.life # "none" => metadata_is_consistent(d.meta)
        /\ d.loc = "src" => d.meta.life # "none"
        /\ d.loc = "fin" /\ d.meta.life # "none" =>
              d.meta.life = "finalizing" /\ d.meta.len = d.len

\* Once faults stop, the next start takes the segment out of its incomplete
\* state, and a segment the writer still owns is closed.
Settles ==
    /\ []<>(pc \in {"closed", "up"})
    /\ (pc = "down" /\ faults = MaxFaults) ~> (pc = "up" /\ dir.loc # "src")

=============================================================================
