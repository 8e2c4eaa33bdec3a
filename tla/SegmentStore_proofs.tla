------------------------ MODULE SegmentStore_proofs ------------------------
(***************************************************************************)
(* Theorems about SegmentStore, for any sessions, bounds and interval:     *)
(* the type invariant; that an acknowledged line survives every kill, I/O  *)
(* error and power loss (AckedSurvives); that the metadata a crash leaves  *)
(* lets the next start decide (MetadataConsistent) and outlives the zone   *)
(* it holds (ZoneBeforeMetaRemoved); and that only exact files get the     *)
(* finalized name (RenamesExact).                                          *)
(***************************************************************************)
EXTENDS SegmentStore, TLAPS

-----------------------------------------------------------------------------
(* Types *)

\* record_length keeps a metadata record well typed: LEN is a natural number.
LEMMA RecordLengthType ==
    ASSUME NEW m \in Metadata, NEW e \in Nat
    PROVE  record_length(m, e) \in Metadata
  <1>1. segment_length(e) \in Nat
    BY ConstantsAssumption DEF segment_length, Min2, Max2
  <1>. QED BY <1>1 DEF record_length, Metadata

\* A missing metadata file is a metadata value.
LEMMA NoMetaType == NoMeta \in Metadata
  BY DEF NoMeta, Metadata, Lifecycle

\* The contents the writer and recovery give a file are well typed.
LEMMA ContentTypes ==
    /\ NoFile \in Content /\ EmptyFile \in Content
    /\ \A r \in SUBSET Nat : Truncated(r) \in Content
    /\ \A c \in Content : [c EXCEPT !.torn = TRUE] \in Content
    /\ \A c \in Content : [c EXCEPT !.torn = TRUE] \in Content
  BY DEF NoFile, EmptyFile, Truncated, Content

\* Every field of a directory value can be replaced by one of its type.
LEMMA DirectoryFields ==
    ASSUME NEW d \in Directory
    PROVE  /\ \A m \in Metadata : [d EXCEPT !.meta = m] \in Directory
           /\ \A p \in Place : [d EXCEPT !.loc = p] \in Directory
           /\ \A n \in Nat : [d EXCEPT !.zone = n] \in Directory
           /\ \A n \in Nat : [d EXCEPT !.loc = "fin", !.len = n] \in Directory
           /\ \A m \in Metadata : [d EXCEPT !.meta = m, !.aside = TRUE] \in Directory
           /\ d.meta \in Metadata /\ d.len \in Nat /\ d.loc \in Place
  BY DEF Directory, Place

\* So can the fields of a metadata record.
LEMMA MetadataFields ==
    ASSUME NEW m \in Metadata
    PROVE  /\ \A f \in File, n \in Nat :
                  [m EXCEPT !.rec[f] = @ \cup {n}] \in Metadata
           /\ [m EXCEPT !.acts = @ + 1] \in Metadata
           /\ [m EXCEPT !.count = @ + 1] \in Metadata
           /\ \A n \in Nat : [m EXCEPT !.count = n] \in Metadata
           /\ \A l \in Lifecycle : [m EXCEPT !.life = l] \in Metadata
           /\ m.len \in Nat /\ m.count \in Nat /\ m.acts \in Nat
           /\ \A f \in File : m.rec[f] \in SUBSET Nat
  BY DEF Metadata

\* The metadata an append proposes, and the frame id in it, are well typed.
LEMMA ProposedType ==
    ASSUME TypeOK, NEW f \in File
    PROVE  Proposed(f) \in Metadata /\ NextId(f) \in Nat
  <1>. DEFINE m == [mem EXCEPT !.rec[f] = @ \cup {NextId(f)}]
  <1>1. mem \in Metadata /\ elapsed \in Nat
    BY DEF TypeOK
  <1>2. NextId(f) \in Nat
    BY <1>1 DEF NextId, Metadata
  <1>3. m \in Metadata
    BY <1>1, <1>2, MetadataFields
  <1>4. [m EXCEPT !.acts = @ + 1] \in Metadata /\ [m EXCEPT !.count = @ + 1] \in Metadata
    <2>. HIDE DEF m
    <2>. QED BY <1>3, MetadataFields
  <1>. QED BY <1>1, <1>2, <1>4, RecordLengthType DEF Proposed

\* The disk operations keep the disk well typed.
LEMMA DiskTypes ==
    ASSUME TypeOK
    PROVE  /\ \A d \in Directory : ChangeDir(d) \/ SyncThenChangeDir(d) =>
                  dir' \in Directory /\ dirLost' \in SUBSET Directory
           /\ sync_directory \/ UNCHANGED dirVars =>
                  dir' \in Directory /\ dirLost' \in SUBSET Directory
           /\ \A f \in File, c \in Content : ChangeFile(f, c) =>
                  files' \in [File -> Content] /\ fileLost' \in [File -> SUBSET Content]
           /\ \A f \in File : sync_all(f) \/ SyncFileAndEntry(f) =>
                  files' \in [File -> Content] /\ fileLost' \in [File -> SUBSET Content]
           /\ UNCHANGED fileVars =>
                  files' \in [File -> Content] /\ fileLost' \in [File -> SUBSET Content]
  <1>. USE DEF TypeOK
  <1>1. \A d \in Directory : ChangeDir(d) \/ SyncThenChangeDir(d) =>
           dir' \in Directory /\ dirLost' \in SUBSET Directory
    BY DEF ChangeDir, SyncThenChangeDir
  <1>2. sync_directory \/ UNCHANGED dirVars =>
           dir' \in Directory /\ dirLost' \in SUBSET Directory
    BY DEF sync_directory, dirVars
  <1>3. \A f \in File, c \in Content : ChangeFile(f, c) =>
           files' \in [File -> Content] /\ fileLost' \in [File -> SUBSET Content]
    BY DEF ChangeFile
  <1>4. \A f \in File : sync_all(f) \/ SyncFileAndEntry(f) =>
           files' \in [File -> Content] /\ fileLost' \in [File -> SUBSET Content]
    BY DEF sync_all, SyncFileAndEntry
  <1>5. UNCHANGED fileVars =>
           files' \in [File -> Content] /\ fileLost' \in [File -> SUBSET Content]
    BY DEF fileVars
  <1>. QED BY <1>1, <1>2, <1>3, <1>4, <1>5

\* Forget, and the ends of an append and of a failed finalize.
LEMMA ControlTypes ==
    ASSUME TypeOK
    PROVE  /\ Forget => /\ pc' \in Steps /\ mem' \in Metadata /\ saved' \in Metadata
                        /\ cur' \in File /\ stage' \in {"json", "meta"}
                        /\ rolled' \in BOOLEAN /\ poisoned' \in BOOLEAN
                        /\ stopping' \in BOOLEAN /\ elapsed' \in Nat
           /\ Fault => faults' \in Nat
           /\ ResetAppend \/ UNCHANGED appendVars =>
                  /\ saved' \in Metadata /\ cur' \in File
                  /\ stage' \in {"json", "meta"} /\ rolled' \in BOOLEAN
           /\ UNCHANGED flagVars =>
                  poisoned' \in BOOLEAN /\ stopping' \in BOOLEAN /\ elapsed' \in Nat
  <1>1. Activity \in File /\ NoMeta \in Metadata
    BY NoMetaType DEF File
  <1>2. Forget => /\ pc' \in Steps /\ mem' \in Metadata /\ saved' \in Metadata
                  /\ cur' \in File /\ stage' \in {"json", "meta"}
                  /\ rolled' \in BOOLEAN /\ poisoned' \in BOOLEAN
                  /\ stopping' \in BOOLEAN /\ elapsed' \in Nat
    <2>1. Forget => /\ pc' \in Steps /\ mem' \in Metadata /\ saved' \in Metadata
                    /\ cur' \in File /\ stage' \in {"json", "meta"} /\ elapsed' \in Nat
      BY <1>1 DEF Forget, Steps
    <2>2. Forget => rolled' \in BOOLEAN /\ poisoned' \in BOOLEAN /\ stopping' \in BOOLEAN
      BY DEF Forget
    <2>. QED BY <2>1, <2>2
  <1>3. Fault => faults' \in Nat
    BY DEF TypeOK, Fault
  <1>4. ResetAppend \/ UNCHANGED appendVars =>
           /\ saved' \in Metadata /\ cur' \in File
           /\ stage' \in {"json", "meta"} /\ rolled' \in BOOLEAN
    BY <1>1 DEF TypeOK, ResetAppend, appendVars
  <1>5. UNCHANGED flagVars =>
           poisoned' \in BOOLEAN /\ stopping' \in BOOLEAN /\ elapsed' \in Nat
    BY DEF TypeOK, flagVars
  <1>. QED BY <1>2, <1>3, <1>4, <1>5

\* Every step keeps the types.  One case per operation of the segment, and in
\* each the six parts of TypeOK.
LEMMA TypeStep ==
    ASSUME TypeOK, [Next]_vars
    PROVE  TypeOK'
  <1>1. CASE create_with_faults
    <2>1. dir' \in Directory /\ dirLost' \in SUBSET Directory
      BY <1>1, DiskTypes, DirectoryFields, MetadataFields, RecordLengthType,
         NoMetaType, ProposedType
      DEF create_with_faults, create_metadata, create_directory, create_open,
          create_done, TypeOK, Place, Lifecycle
    <2>2. files' \in [File -> Content] /\ fileLost' \in [File -> SUBSET Content]
      BY <1>1, DiskTypes, ContentTypes, ProposedType, MetadataFields
      DEF create_with_faults, create_metadata, create_directory, create_open,
          create_done, TypeOK, RecoverUnchanged, File, HereFiles
    <2>3. pc' \in Steps
      BY <1>1, ControlTypes
      DEF create_with_faults, create_metadata, create_directory, create_open,
          create_done, Steps, Step, TypeOK, CreateSteps, JsonStage, MetaStage,
          UndoSteps, FinalSteps, RecoverSteps, FinalizeError, Recoverable, Poison
    <2>4. mem' \in Metadata /\ saved' \in Metadata /\ cur' \in File
      <3>1. CASE create_metadata
        <4>1. [NoMeta EXCEPT !.life = "creating"] \in Metadata
          BY NoMetaType, MetadataFields DEF Lifecycle
        <4>. QED BY <3>1, <4>1, RecordLengthType
             DEF create_metadata, TypeOK, appendVars
      <3>2. CASE create_directory \/ create_open \/ create_done
        BY <3>2, MetadataFields
        DEF create_directory, create_open, create_done, TypeOK, appendVars, Lifecycle
      <3>. QED BY <1>1, <3>1, <3>2 DEF create_with_faults
    <2>5. /\ stage' \in {"json", "meta"} /\ rolled' \in BOOLEAN /\ poisoned' \in BOOLEAN
        /\ stopping' \in BOOLEAN /\ elapsed' \in Nat
      BY <1>1, ControlTypes
      DEF create_with_faults, create_metadata, create_directory, create_open,
          create_done, TypeOK, FinalizeError, Recoverable, Poison,
          RecoverUnchanged, FinalizeCalled, appendVars
    <2>6. acked' \in [File -> SUBSET Nat] /\ faults' \in Nat
      BY <1>1, ControlTypes, ProposedType
      DEF create_with_faults, create_metadata, create_directory, create_open,
          create_done, TypeOK, RecoverUnchanged
    <2>. QED BY <2>1, <2>2, <2>3, <2>4, <2>5, <2>6 DEF TypeOK
  <1>2. CASE append_frame
    <2>1. dir' \in Directory /\ dirLost' \in SUBSET Directory
      BY <1>2, DiskTypes, DirectoryFields, MetadataFields, RecordLengthType,
         NoMetaType, ProposedType
      DEF append_frame, BeginAppend, CanAppend, AppendReadFails, OpenJsonl,
          WritePart, WriteRest, SyncJsonl, WriteMetadata, CommitAppend,
          AppendFails, RollbackNothing, RollbackTruncate, RollbackSync,
          RollbackFails, RestoreMetadata, RestoreSync, RestoreFails, TypeOK,
          Place, Lifecycle
    <2>2. files' \in [File -> Content] /\ fileLost' \in [File -> SUBSET Content]
      BY <1>2, DiskTypes, ContentTypes, ProposedType, MetadataFields
      DEF append_frame, BeginAppend, CanAppend, AppendReadFails, OpenJsonl,
          WritePart, WriteRest, SyncJsonl, WriteMetadata, CommitAppend,
          AppendFails, RollbackNothing, RollbackTruncate, RollbackSync,
          RollbackFails, RestoreMetadata, RestoreSync, RestoreFails, TypeOK,
          RecoverUnchanged, File, HereFiles
    <2>3. pc' \in Steps
      BY <1>2, ControlTypes
      DEF append_frame, BeginAppend, CanAppend, AppendReadFails, OpenJsonl,
          WritePart, WriteRest, SyncJsonl, WriteMetadata, CommitAppend,
          AppendFails, RollbackNothing, RollbackTruncate, RollbackSync,
          RollbackFails, RestoreMetadata, RestoreSync, RestoreFails, Steps, Step,
          TypeOK, CreateSteps, JsonStage, MetaStage, UndoSteps, FinalSteps,
          RecoverSteps, FinalizeError, Recoverable, Poison
    <2>4. mem' \in Metadata /\ saved' \in Metadata /\ cur' \in File
      BY <1>2, ControlTypes, DirectoryFields, MetadataFields, RecordLengthType,
         NoMetaType, ProposedType
      DEF append_frame, BeginAppend, CanAppend, AppendReadFails, OpenJsonl,
          WritePart, WriteRest, SyncJsonl, WriteMetadata, CommitAppend,
          AppendFails, RollbackNothing, RollbackTruncate, RollbackSync,
          RollbackFails, RestoreMetadata, RestoreSync, RestoreFails, TypeOK,
          FinalizeError, Recoverable, Poison, appendVars, RecoverUnchanged,
          Lifecycle, File
    <2>5. /\ stage' \in {"json", "meta"} /\ rolled' \in BOOLEAN /\ poisoned' \in BOOLEAN
        /\ stopping' \in BOOLEAN /\ elapsed' \in Nat
      BY <1>2, ControlTypes
      DEF append_frame, BeginAppend, CanAppend, AppendReadFails, OpenJsonl,
          WritePart, WriteRest, SyncJsonl, WriteMetadata, CommitAppend,
          AppendFails, RollbackNothing, RollbackTruncate, RollbackSync,
          RollbackFails, RestoreMetadata, RestoreSync, RestoreFails, TypeOK,
          FinalizeError, Recoverable, Poison, RecoverUnchanged, FinalizeCalled,
          appendVars
    <2>6. acked' \in [File -> SUBSET Nat] /\ faults' \in Nat
      BY <1>2, ControlTypes, ProposedType
      DEF append_frame, BeginAppend, CanAppend, AppendReadFails, OpenJsonl,
          WritePart, WriteRest, SyncJsonl, WriteMetadata, CommitAppend,
          AppendFails, RollbackNothing, RollbackTruncate, RollbackSync,
          RollbackFails, RestoreMetadata, RestoreSync, RestoreFails, TypeOK,
          RecoverUnchanged
    <2>. QED BY <2>1, <2>2, <2>3, <2>4, <2>5, <2>6 DEF TypeOK
  <1>3. CASE finalize
    <2>1. dir' \in Directory /\ dirLost' \in SUBSET Directory
      BY <1>3, DiskTypes, DirectoryFields, MetadataFields, RecordLengthType,
         NoMetaType, ProposedType
      DEF finalize, BeginFinalize, BeginRemoveEmpty, PoisonedExit,
          RenameFinalized, FinalizeCollides, WriteZone, RemoveMetadata,
          FinalizeDone, FinalizeFails, UnlinkEmpty, RemoveEmptyDir,
          RemoveEmptyMeta, RemoveEmptyRefused, TypeOK, Place, Lifecycle
    <2>2. files' \in [File -> Content] /\ fileLost' \in [File -> SUBSET Content]
      BY <1>3, DiskTypes, ContentTypes, ProposedType, MetadataFields
      DEF finalize, BeginFinalize, BeginRemoveEmpty, PoisonedExit,
          RenameFinalized, FinalizeCollides, WriteZone, RemoveMetadata,
          FinalizeDone, FinalizeFails, UnlinkEmpty, RemoveEmptyDir,
          RemoveEmptyMeta, RemoveEmptyRefused, TypeOK, RecoverUnchanged, File,
          HereFiles
    <2>3. pc' \in Steps
      BY <1>3, ControlTypes
      DEF finalize, BeginFinalize, BeginRemoveEmpty, PoisonedExit,
          RenameFinalized, FinalizeCollides, WriteZone, RemoveMetadata,
          FinalizeDone, FinalizeFails, UnlinkEmpty, RemoveEmptyDir,
          RemoveEmptyMeta, RemoveEmptyRefused, Steps, Step, TypeOK, CreateSteps,
          JsonStage, MetaStage, UndoSteps, FinalSteps, RecoverSteps,
          FinalizeError, Recoverable, Poison
    <2>4. mem' \in Metadata /\ saved' \in Metadata /\ cur' \in File
      <3>1. Forget \/ UNCHANGED <<mem, appendVars>> \/ \E s \in BOOLEAN : BeginFinalize(s)
        BY <1>3
        DEF finalize, BeginRemoveEmpty, PoisonedExit,
            RenameFinalized, FinalizeCollides, WriteZone, RemoveMetadata,
            FinalizeDone, FinalizeFails, UnlinkEmpty, RemoveEmptyDir,
            RemoveEmptyMeta, RemoveEmptyRefused, FinalizeError
      <3>2. CASE Forget
        BY <3>2, ControlTypes
      <3>3. CASE UNCHANGED <<mem, appendVars>>
        BY <3>3, ControlTypes DEF TypeOK
      <3>4. CASE \E s \in BOOLEAN : BeginFinalize(s)
        <4>. DEFINE r == record_length(mem, elapsed)
        <4>1. mem' = [r EXCEPT !.life = "finalizing"] /\ UNCHANGED appendVars
          BY <3>4 DEF BeginFinalize
        <4>2. r \in Metadata /\ "finalizing" \in Lifecycle
          BY RecordLengthType DEF TypeOK, Lifecycle
        <4>. HIDE DEF r
        <4>3. mem' \in Metadata
          BY <4>1, <4>2, MetadataFields
        <4>. QED BY <4>1, <4>3, ControlTypes
      <3>. QED BY <3>1, <3>2, <3>3, <3>4
    <2>5. /\ stage' \in {"json", "meta"} /\ rolled' \in BOOLEAN /\ poisoned' \in BOOLEAN
        /\ stopping' \in BOOLEAN /\ elapsed' \in Nat
      BY <1>3, ControlTypes
      DEF finalize, BeginFinalize, BeginRemoveEmpty, PoisonedExit,
          RenameFinalized, FinalizeCollides, WriteZone, RemoveMetadata,
          FinalizeDone, FinalizeFails, UnlinkEmpty, RemoveEmptyDir,
          RemoveEmptyMeta, RemoveEmptyRefused, TypeOK, FinalizeError,
          Recoverable, Poison, RecoverUnchanged, FinalizeCalled, appendVars
    <2>6. acked' \in [File -> SUBSET Nat] /\ faults' \in Nat
      BY <1>3, ControlTypes, ProposedType
      DEF finalize, BeginFinalize, BeginRemoveEmpty, PoisonedExit,
          RenameFinalized, FinalizeCollides, WriteZone, RemoveMetadata,
          FinalizeDone, FinalizeFails, UnlinkEmpty, RemoveEmptyDir,
          RemoveEmptyMeta, RemoveEmptyRefused, TypeOK, RecoverUnchanged
    <2>. QED BY <2>1, <2>2, <2>3, <2>4, <2>5, <2>6 DEF TypeOK
  <1>4. CASE recover_candidate
    <2>1. dir' \in Directory /\ dirLost' \in SUBSET Directory
      BY <1>4, DiskTypes, DirectoryFields, MetadataFields, RecordLengthType,
         NoMetaType, ProposedType
      DEF recover_candidate, RecoverNothing, RecoverRetains, RecoverOrphanEmpty,
          RecoverOrphanFinalized, RecoverEmpty, RecoverActivitySync,
          RecoverUnlink, RecoverRemoveDir, RecoverRemoveMeta, QuarantineSource,
          QuarantineMeta, QuarantineMetaFails, RecoverValidated, RepairTruncate,
          RepairSync, RecoverFinalizing, RecoverRename, RecoverRenameFails,
          RecoverZone, RecoverDropMeta, RecoverDone, TypeOK, Place, Lifecycle
    <2>2. files' \in [File -> Content] /\ fileLost' \in [File -> SUBSET Content]
      BY <1>4, DiskTypes, ContentTypes, ProposedType, MetadataFields
      DEF recover_candidate, RecoverNothing, RecoverRetains, RecoverOrphanEmpty,
          RecoverOrphanFinalized, RecoverEmpty, RecoverActivitySync,
          RecoverUnlink, RecoverRemoveDir, RecoverRemoveMeta, QuarantineSource,
          QuarantineMeta, QuarantineMetaFails, RecoverValidated, RepairTruncate,
          RepairSync, RecoverFinalizing, RecoverRename, RecoverRenameFails,
          RecoverZone, RecoverDropMeta, RecoverDone, TypeOK, RecoverUnchanged,
          File, HereFiles
    <2>3. pc' \in Steps
      BY <1>4, ControlTypes
      DEF recover_candidate, RecoverNothing, RecoverRetains, RecoverOrphanEmpty,
          RecoverOrphanFinalized, RecoverEmpty, RecoverActivitySync,
          RecoverUnlink, RecoverRemoveDir, RecoverRemoveMeta, QuarantineSource,
          QuarantineMeta, QuarantineMetaFails, RecoverValidated, RepairTruncate,
          RepairSync, RecoverFinalizing, RecoverRename, RecoverRenameFails,
          RecoverZone, RecoverDropMeta, RecoverDone, Steps, Step, TypeOK,
          CreateSteps, JsonStage, MetaStage, UndoSteps, FinalSteps, RecoverSteps,
          FinalizeError, Recoverable, Poison
    <2>4. mem' \in Metadata /\ saved' \in Metadata /\ cur' \in File
      <3>1. CASE RecoverValidated
        <4>1. mem' \in Metadata
          <5>1. PICK n \in 0..MaxFrames :
                   mem' = [record_length(dir.meta, dir.meta.len) EXCEPT !.count = n]
            BY <3>1 DEF RecoverValidated
          <5>2. n \in Nat
            BY ConstantsAssumption
          <5>3. record_length(dir.meta, dir.meta.len) \in Metadata
            BY DirectoryFields, MetadataFields, RecordLengthType DEF TypeOK
          <5>. QED BY <5>1, <5>2, <5>3, MetadataFields
        <4>. QED BY <3>1, <4>1, DirectoryFields DEF RecoverValidated, TypeOK
      <3>2. CASE recover_candidate /\ ~RecoverValidated
        BY <3>2, ControlTypes, DirectoryFields, MetadataFields, RecordLengthType,
           NoMetaType, ProposedType
        DEF recover_candidate, RecoverNothing, RecoverRetains,
            RecoverOrphanEmpty, RecoverOrphanFinalized, RecoverEmpty,
            RecoverActivitySync, RecoverUnlink, RecoverRemoveDir,
            RecoverRemoveMeta, QuarantineSource, QuarantineMeta,
            QuarantineMetaFails, RepairTruncate, RepairSync, RecoverFinalizing,
            RecoverRename, RecoverRenameFails, RecoverZone, RecoverDropMeta,
            RecoverDone, TypeOK, FinalizeError, Recoverable, Poison, appendVars,
            RecoverUnchanged, Lifecycle, File
      <3>. QED BY <1>4, <3>1, <3>2
    <2>5. /\ stage' \in {"json", "meta"} /\ rolled' \in BOOLEAN /\ poisoned' \in BOOLEAN
        /\ stopping' \in BOOLEAN /\ elapsed' \in Nat
      BY <1>4, ControlTypes
      DEF recover_candidate, RecoverNothing, RecoverRetains, RecoverOrphanEmpty,
          RecoverOrphanFinalized, RecoverEmpty, RecoverActivitySync,
          RecoverUnlink, RecoverRemoveDir, RecoverRemoveMeta, QuarantineSource,
          QuarantineMeta, QuarantineMetaFails, RecoverValidated, RepairTruncate,
          RepairSync, RecoverFinalizing, RecoverRename, RecoverRenameFails,
          RecoverZone, RecoverDropMeta, RecoverDone, TypeOK, FinalizeError,
          Recoverable, Poison, RecoverUnchanged, FinalizeCalled, appendVars
    <2>6. acked' \in [File -> SUBSET Nat] /\ faults' \in Nat
      BY <1>4, ControlTypes, ProposedType
      DEF recover_candidate, RecoverNothing, RecoverRetains, RecoverOrphanEmpty,
          RecoverOrphanFinalized, RecoverEmpty, RecoverActivitySync,
          RecoverUnlink, RecoverRemoveDir, RecoverRemoveMeta, QuarantineSource,
          QuarantineMeta, QuarantineMetaFails, RecoverValidated, RepairTruncate,
          RepairSync, RecoverFinalizing, RecoverRename, RecoverRenameFails,
          RecoverZone, RecoverDropMeta, RecoverDone, TypeOK, RecoverUnchanged
    <2>. QED BY <2>1, <2>2, <2>3, <2>4, <2>5, <2>6 DEF TypeOK
  <1>5. CASE Tick
    <2>1. dir' \in Directory /\ dirLost' \in SUBSET Directory
      BY <1>5, DiskTypes, DirectoryFields, MetadataFields, RecordLengthType,
         NoMetaType, ProposedType
      DEF Tick, TypeOK, Place, Lifecycle
    <2>2. files' \in [File -> Content] /\ fileLost' \in [File -> SUBSET Content]
      BY <1>5, DiskTypes, ContentTypes, ProposedType, MetadataFields
      DEF Tick, TypeOK, RecoverUnchanged, File, HereFiles
    <2>3. pc' \in Steps
      BY <1>5, ControlTypes
      DEF Tick, Steps, Step, TypeOK, CreateSteps, JsonStage, MetaStage,
          UndoSteps, FinalSteps, RecoverSteps, FinalizeError, Recoverable, Poison
    <2>4. mem' \in Metadata /\ saved' \in Metadata /\ cur' \in File
      BY <1>5, ControlTypes, DirectoryFields, MetadataFields, RecordLengthType,
         NoMetaType, ProposedType
      DEF Tick, TypeOK, FinalizeError, Recoverable, Poison, appendVars,
          RecoverUnchanged, Lifecycle, File
    <2>5. /\ stage' \in {"json", "meta"} /\ rolled' \in BOOLEAN /\ poisoned' \in BOOLEAN
        /\ stopping' \in BOOLEAN /\ elapsed' \in Nat
      BY <1>5, ControlTypes
      DEF Tick, TypeOK, FinalizeError, Recoverable, Poison, RecoverUnchanged,
          FinalizeCalled, appendVars
    <2>6. acked' \in [File -> SUBSET Nat] /\ faults' \in Nat
      BY <1>5, ControlTypes, ProposedType
      DEF Tick, TypeOK, RecoverUnchanged
    <2>. QED BY <2>1, <2>2, <2>3, <2>4, <2>5, <2>6 DEF TypeOK
  <1>6. CASE Kill
    <2>1. dir' \in Directory /\ dirLost' \in SUBSET Directory
      BY <1>6, DiskTypes, DirectoryFields, MetadataFields, RecordLengthType,
         NoMetaType, ProposedType
      DEF Kill, TypeOK, Place, Lifecycle
    <2>2. files' \in [File -> Content] /\ fileLost' \in [File -> SUBSET Content]
      BY <1>6, DiskTypes, ContentTypes, ProposedType, MetadataFields
      DEF Kill, TypeOK, RecoverUnchanged, File, HereFiles
    <2>3. pc' \in Steps
      BY <1>6, ControlTypes
      DEF Kill, Steps, Step, TypeOK, CreateSteps, JsonStage, MetaStage,
          UndoSteps, FinalSteps, RecoverSteps, FinalizeError, Recoverable, Poison
    <2>4. mem' \in Metadata /\ saved' \in Metadata /\ cur' \in File
      BY <1>6, ControlTypes, DirectoryFields, MetadataFields, RecordLengthType,
         NoMetaType, ProposedType
      DEF Kill, TypeOK, FinalizeError, Recoverable, Poison, appendVars,
          RecoverUnchanged, Lifecycle, File
    <2>5. /\ stage' \in {"json", "meta"} /\ rolled' \in BOOLEAN /\ poisoned' \in BOOLEAN
        /\ stopping' \in BOOLEAN /\ elapsed' \in Nat
      BY <1>6, ControlTypes
      DEF Kill, TypeOK, FinalizeError, Recoverable, Poison, RecoverUnchanged,
          FinalizeCalled, appendVars
    <2>6. acked' \in [File -> SUBSET Nat] /\ faults' \in Nat
      BY <1>6, ControlTypes, ProposedType
      DEF Kill, TypeOK, RecoverUnchanged
    <2>. QED BY <2>1, <2>2, <2>3, <2>4, <2>5, <2>6 DEF TypeOK
  <1>7. CASE PowerLoss
    <2>1. dir' \in Directory /\ dirLost' \in SUBSET Directory
      BY <1>7, DiskTypes, DirectoryFields, MetadataFields, RecordLengthType,
         NoMetaType, ProposedType
      DEF PowerLoss, TypeOK, Place, Lifecycle
    <2>2. files' \in [File -> Content] /\ fileLost' \in [File -> SUBSET Content]
      BY <1>7, DiskTypes, ContentTypes, ProposedType, MetadataFields
      DEF PowerLoss, TypeOK, RecoverUnchanged, File, HereFiles
    <2>3. pc' \in Steps
      BY <1>7, ControlTypes
      DEF PowerLoss, Steps, Step, TypeOK, CreateSteps, JsonStage, MetaStage,
          UndoSteps, FinalSteps, RecoverSteps, FinalizeError, Recoverable, Poison
    <2>4. mem' \in Metadata /\ saved' \in Metadata /\ cur' \in File
      BY <1>7, ControlTypes, DirectoryFields, MetadataFields, RecordLengthType,
         NoMetaType, ProposedType
      DEF PowerLoss, TypeOK, FinalizeError, Recoverable, Poison, appendVars,
          RecoverUnchanged, Lifecycle, File
    <2>5. /\ stage' \in {"json", "meta"} /\ rolled' \in BOOLEAN /\ poisoned' \in BOOLEAN
        /\ stopping' \in BOOLEAN /\ elapsed' \in Nat
      BY <1>7, ControlTypes
      DEF PowerLoss, TypeOK, FinalizeError, Recoverable, Poison,
          RecoverUnchanged, FinalizeCalled, appendVars
    <2>6. acked' \in [File -> SUBSET Nat] /\ faults' \in Nat
      BY <1>7, ControlTypes, ProposedType
      DEF PowerLoss, TypeOK, RecoverUnchanged
    <2>. QED BY <2>1, <2>2, <2>3, <2>4, <2>5, <2>6 DEF TypeOK
  <1>8. CASE Rest \/ UNCHANGED vars
    BY <1>8 DEF Rest, vars, TypeOK
  <1>. QED BY <1>1, <1>2, <1>3, <1>4, <1>5, <1>6, <1>7, <1>8 DEF Next

\* The state before create_with_faults is well typed.
LEMMA TypeInit == Init => TypeOK
  <1>. SUFFICES ASSUME Init PROVE TypeOK
    OBVIOUS
  <1>1. dir \in Directory /\ dirLost \in SUBSET Directory
    BY NoMetaType DEF Init, NoDirectory, Directory, Place
  <1>2. files \in [File -> Content] /\ fileLost \in [File -> SUBSET Content]
    BY ContentTypes DEF Init
  <1>3. pc \in Steps /\ mem \in Metadata /\ saved \in Metadata /\ cur \in File
    BY NoMetaType DEF Init, Steps, CreateSteps, File
  <1>4. /\ stage \in {"json", "meta"} /\ rolled \in BOOLEAN /\ poisoned \in BOOLEAN
        /\ stopping \in BOOLEAN /\ elapsed \in Nat
        /\ acked \in [File -> SUBSET Nat] /\ faults \in Nat
    BY DEF Init
  <1>. QED BY <1>1, <1>2, <1>3, <1>4 DEF TypeOK

\* The type invariant of the segment's disk and of its writer and recovery.
THEOREM TypeCorrect == Spec => []TypeOK
  BY TypeInit, TypeStep, PTL DEF Spec

-----------------------------------------------------------------------------
(***************************************************************************)
(* AckedSurvives.  The inductive invariant says of every version of the    *)
(* disk, durable or not, what AckedSurvives says of the outcomes, and adds *)
(* what keeps it so: no metadata that recovery or a rollback may cut a     *)
(* file back to records less than what was acknowledged.                   *)
(***************************************************************************)

NothingAcked == \A f \in File : acked[f] = {}

\* Cutting every file back to m keeps the acknowledged lines.
Records(m) == \A f \in File : acked[f] \subseteq m.rec[f]

Kept(f, c) == acked[f] # {} => c.here /\ acked[f] \subseteq c.lines

DirKept(d) ==
    /\ d.loc = "none" => NothingAcked
    /\ d.meta.life # "none" => Records(d.meta)

\* Steps at which mem is the metadata of the open or recovered segment.
MemSteps ==
    {"created_meta", "created_dir", "created_open", "open",
     "recover_repair", "recover_repair_sync", "recover_rename"}
    \cup JsonStage \cup MetaStage \cup UndoSteps \cup FinalSteps

\* Steps at which an append can still be acknowledged.
Writing ==
    \/ pc \in JsonStage \cup MetaStage \cup UndoSteps \cup {"created_open"}
    \/ pc = "open" /\ ~stopping

FilesInv == \A f \in File : \A c \in Contents(f) : Kept(f, c)
DirsInv == \A d \in Dirs : DirKept(d)
MemInv ==
    /\ pc = "fresh" => NothingAcked
    /\ pc \in MemSteps => Records(mem)
    /\ saved.life # "none" => Records(saved)
PlaceInv ==
    /\ Writing => \A d \in Dirs : d.loc = "src"
    /\ pc = "created_dir" => dir.loc = "src"
CommitInv ==
    /\ pc = "append_sync" => files[cur].here /\ NextId(cur) \in files[cur].lines
    /\ pc \in MetaStage => \A c \in Contents(cur) : c.here /\ NextId(cur) \in c.lines
    /\ pc = "meta_sync" => dir.meta = Proposed(cur)

AckedInv == FilesInv /\ DirsInv /\ MemInv /\ PlaceInv /\ CommitInv

\* Recording a length changes no durable offset.
LEMMA RecordLengthRec ==
    ASSUME NEW m \in Metadata, NEW e
    PROVE  record_length(m, e).rec = m.rec
  BY DEF record_length, Metadata

\* The metadata an append proposes records the new line and all before it.
LEMMA ProposedRecords ==
    ASSUME TypeOK, NEW f \in File
    PROVE  /\ NextId(f) \in Proposed(f).rec[f]
           /\ \A g \in File : mem.rec[g] \subseteq Proposed(f).rec[g]
  <1>. DEFINE m == [mem EXCEPT !.rec[f] = @ \cup {NextId(f)}]
  <1>. DEFINE a == [m EXCEPT !.acts = @ + 1]
  <1>. DEFINE c == [m EXCEPT !.count = @ + 1]
  <1>1. mem \in Metadata /\ NextId(f) \in Nat
    BY ProposedType DEF TypeOK
  <1>2. m \in Metadata
    BY <1>1, MetadataFields
  <1>3. NextId(f) \in m.rec[f] /\ \A g \in File : mem.rec[g] \subseteq m.rec[g]
    BY <1>1 DEF Metadata
  <1>4. a \in Metadata /\ c \in Metadata /\ a.rec = m.rec /\ c.rec = m.rec
    <2>. HIDE DEF m
    <2>1. a \in Metadata /\ c \in Metadata
      BY <1>2, MetadataFields
    <2>2. a.rec = m.rec /\ c.rec = m.rec
      BY <1>2 DEF Metadata
    <2>. QED BY <2>1, <2>2
  <1>5. Proposed(f).rec = m.rec
    <2>1. Proposed(f) = record_length(IF f = Activity THEN a ELSE c, elapsed)
      BY DEF Proposed
    <2>. HIDE DEF a, c, m
    <2>. QED BY <1>4, <2>1, RecordLengthRec
  <1>. QED BY <1>3, <1>5

\* While nothing new is acknowledged, the disk operations keep the invariant
\* if the new directory value or file content keeps the acknowledged lines.
LEMMA DirChanges ==
    ASSUME AckedInv, acked' = acked
    PROVE  /\ \A d : DirKept(d) /\ (ChangeDir(d) \/ SyncThenChangeDir(d)) => DirsInv'
           /\ sync_directory \/ UNCHANGED dirVars => DirsInv'
  BY DEF AckedInv, DirsInv, DirKept, Dirs, NothingAcked, Records, ChangeDir,
         SyncThenChangeDir, sync_directory, dirVars

\* The same for one JSONL file: the step keeps FilesInv if the new content
\* holds the acknowledged lines.
LEMMA FileChanges ==
    ASSUME TypeOK, AckedInv, acked' = acked
    PROVE  /\ \A f \in File : \A c : Kept(f, c) /\ ChangeFile(f, c) => FilesInv'
           /\ \A f \in File : sync_all(f) \/ SyncFileAndEntry(f) => FilesInv'
           /\ UNCHANGED fileVars => FilesInv'
  BY DEF TypeOK, AckedInv, FilesInv, Kept, Contents, ChangeFile, sync_all,
         SyncFileAndEntry, fileVars

\* Every version of every file keeps the acknowledged lines: a file is only
\* ever cut back to what some metadata records.
LEMMA FilesStep ==
    ASSUME TypeOK, AckedInv, Next, ~CommitAppend
    PROVE  FilesInv'
  <1>1. CASE create_with_faults
    BY <1>1, FileChanges
    DEF create_with_faults, create_metadata, create_directory, create_open,
        create_done, TypeOK, AckedInv, FilesInv, MemInv, DirsInv, DirKept, Dirs,
        Contents, Kept, Records, RecordsNothing, Truncated, NoFile, EmptyFile,
        MemSteps, HereFiles, AllEmpty, CanRecover, HasMeta, RecoverUnchanged,
        File, Step, Steps, CreateSteps, JsonStage, MetaStage, UndoSteps,
        FinalSteps, RecoverSteps
  <1>2. CASE append_frame
    BY <1>2, FileChanges
    DEF append_frame, BeginAppend, CanAppend, AppendReadFails, OpenJsonl,
        WritePart, WriteRest, SyncJsonl, WriteMetadata, CommitAppend,
        AppendFails, RollbackNothing, RollbackTruncate, RollbackSync,
        RollbackFails, RestoreMetadata, RestoreSync, RestoreFails, TypeOK,
        AckedInv, FilesInv, MemInv, DirsInv, DirKept, Dirs, Contents, Kept,
        Records, RecordsNothing, Truncated, NoFile, EmptyFile, MemSteps,
        HereFiles, AllEmpty, CanRecover, HasMeta, RecoverUnchanged, File, Step,
        Steps, CreateSteps, JsonStage, MetaStage, UndoSteps, FinalSteps,
        RecoverSteps
  <1>3. CASE finalize
    BY <1>3, FileChanges
    DEF finalize, BeginFinalize, BeginRemoveEmpty, PoisonedExit, RenameFinalized,
        FinalizeCollides, WriteZone, RemoveMetadata, FinalizeDone, FinalizeFails,
        UnlinkEmpty, RemoveEmptyDir, RemoveEmptyMeta, RemoveEmptyRefused, TypeOK,
        AckedInv, FilesInv, MemInv, DirsInv, DirKept, Dirs, Contents, Kept,
        Records, RecordsNothing, Truncated, NoFile, EmptyFile, MemSteps,
        HereFiles, AllEmpty, CanRecover, HasMeta, RecoverUnchanged, File, Step,
        Steps, CreateSteps, JsonStage, MetaStage, UndoSteps, FinalSteps,
        RecoverSteps
  <1>4. CASE recover_candidate
    <2>1. CASE RecoverEmpty
      BY <2>1, FileChanges
      DEF RecoverEmpty, TypeOK, AckedInv, FilesInv, MemInv, DirsInv, DirKept,
          Dirs, Contents, Kept, Records, RecordsNothing, Truncated, NoFile,
          EmptyFile, MemSteps, HereFiles, AllEmpty, CanRecover, HasMeta,
          RecoverUnchanged, File, Step, Steps, CreateSteps, JsonStage, MetaStage,
          UndoSteps, FinalSteps, RecoverSteps
    <2>2. CASE RecoverActivitySync
      BY <2>2, FileChanges
      DEF RecoverActivitySync, TypeOK, AckedInv, FilesInv, MemInv, DirsInv,
          DirKept, Dirs, Contents, Kept, Records, RecordsNothing, Truncated,
          NoFile, EmptyFile, MemSteps, HereFiles, AllEmpty, CanRecover, HasMeta,
          RecoverUnchanged, File, Step, Steps, CreateSteps, JsonStage, MetaStage,
          UndoSteps, FinalSteps, RecoverSteps
    <2>3. CASE RecoverUnlink
      BY <2>3, FileChanges
      DEF RecoverUnlink, TypeOK, AckedInv, FilesInv, MemInv, DirsInv, DirKept,
          Dirs, Contents, Kept, Records, RecordsNothing, Truncated, NoFile,
          EmptyFile, MemSteps, HereFiles, AllEmpty, CanRecover, HasMeta,
          RecoverUnchanged, File, Step, Steps, CreateSteps, JsonStage, MetaStage,
          UndoSteps, FinalSteps, RecoverSteps
    <2>4. CASE RepairTruncate
      BY <2>4, FileChanges
      DEF RepairTruncate, TypeOK, AckedInv, FilesInv, MemInv, DirsInv, DirKept,
          Dirs, Contents, Kept, Records, RecordsNothing, Truncated, NoFile,
          EmptyFile, MemSteps, HereFiles, AllEmpty, CanRecover, HasMeta,
          RecoverUnchanged, File, Step, Steps, CreateSteps, JsonStage, MetaStage,
          UndoSteps, FinalSteps, RecoverSteps
    <2>5. CASE RepairSync
      BY <2>5, FileChanges
      DEF RepairSync, TypeOK, AckedInv, FilesInv, MemInv, DirsInv, DirKept, Dirs,
          Contents, Kept, Records, RecordsNothing, Truncated, NoFile, EmptyFile,
          MemSteps, HereFiles, AllEmpty, CanRecover, HasMeta, RecoverUnchanged,
          File, Step, Steps, CreateSteps, JsonStage, MetaStage, UndoSteps,
          FinalSteps, RecoverSteps
    <2>6. CASE /\ recover_candidate
             /\ ~(RecoverEmpty \/ RecoverActivitySync \/ RecoverUnlink \/ RepairTruncate \/ RepairSync)
      BY <2>6, FileChanges
      DEF recover_candidate, RecoverNothing, RecoverRetains, RecoverOrphanEmpty,
          RecoverOrphanFinalized, RecoverRemoveDir, RecoverRemoveMeta,
          QuarantineSource, QuarantineMeta, QuarantineMetaFails,
          RecoverValidated, RecoverFinalizing, RecoverRename, RecoverRenameFails,
          RecoverZone, RecoverDropMeta, RecoverDone, TypeOK, AckedInv, FilesInv,
          MemInv, DirsInv, DirKept, Dirs, Contents, Kept, Records,
          RecordsNothing, Truncated, NoFile, EmptyFile, MemSteps, HereFiles,
          AllEmpty, CanRecover, HasMeta, RecoverUnchanged, File, Step, Steps,
          CreateSteps, JsonStage, MetaStage, UndoSteps, FinalSteps, RecoverSteps
    <2>. QED BY <1>4, <2>1, <2>2, <2>3, <2>4, <2>5, <2>6
  <1>5. CASE Tick
    BY <1>5, FileChanges
    DEF Tick, TypeOK, AckedInv, FilesInv, MemInv, DirsInv, DirKept, Dirs,
        Contents, Kept, Records, RecordsNothing, Truncated, NoFile, EmptyFile,
        MemSteps, HereFiles, AllEmpty, CanRecover, HasMeta, RecoverUnchanged,
        File, Step, Steps, CreateSteps, JsonStage, MetaStage, UndoSteps,
        FinalSteps, RecoverSteps
  <1>6. CASE Kill
    BY <1>6, FileChanges
    DEF Kill, TypeOK, AckedInv, FilesInv, MemInv, DirsInv, DirKept, Dirs,
        Contents, Kept, Records, RecordsNothing, Truncated, NoFile, EmptyFile,
        MemSteps, HereFiles, AllEmpty, CanRecover, HasMeta, RecoverUnchanged,
        File, Step, Steps, CreateSteps, JsonStage, MetaStage, UndoSteps,
        FinalSteps, RecoverSteps
  <1>7. CASE PowerLoss
    <2>1. CASE dir'.loc = "none"
      BY <1>7, <2>1 DEF PowerLoss, AckedInv, DirsInv, DirKept, Dirs, NothingAcked,
         FilesInv, Kept
    <2>2. CASE dir'.loc # "none"
      <3>1. \A f \in File : files'[f] \in Contents(f) /\ fileLost'[f] = {}
        BY <1>7, <2>2 DEF PowerLoss, Contents
      <3>. QED BY <1>7, <3>1 DEF PowerLoss, AckedInv, FilesInv, Kept, Contents
    <2>. QED BY <2>1, <2>2
  <1>8. CASE Rest
    BY <1>8, FileChanges
    DEF Rest, vars, dirVars, fileVars, appendVars, flagVars, TypeOK, AckedInv,
        FilesInv, MemInv, DirsInv, DirKept, Dirs, Contents, Kept, Records,
        RecordsNothing, Truncated, NoFile, EmptyFile, MemSteps, HereFiles,
        AllEmpty, CanRecover, HasMeta, RecoverUnchanged, File, Step, Steps,
        CreateSteps, JsonStage, MetaStage, UndoSteps, FinalSteps, RecoverSteps
  <1>. QED BY <1>1, <1>2, <1>3, <1>4, <1>5, <1>6, <1>7, <1>8 DEF Next

\* Every version of the stream directory keeps the segment and its metadata.
LEMMA DirsStep ==
    ASSUME TypeOK, AckedInv, Next, ~CommitAppend
    PROVE  DirsInv'
  <1>1. CASE create_with_faults
    BY <1>1, DirChanges
    DEF create_with_faults, create_metadata, create_directory, create_open,
        create_done, TypeOK, AckedInv, FilesInv, MemInv, DirsInv, DirKept, Dirs,
        Contents, Kept, Records, NothingAcked, MemSteps, HereFiles, NoMeta,
        Directory, Metadata, record_length, RecoverUnchanged, Step, Steps,
        CreateSteps, JsonStage, MetaStage, UndoSteps, FinalSteps, RecoverSteps
  <1>2. CASE append_frame
    <2>1. CASE WriteMetadata
      BY <2>1, ProposedRecords, DirChanges
      DEF WriteMetadata, TypeOK, AckedInv, FilesInv, MemInv, DirsInv, DirKept,
          Dirs, Contents, Kept, Records, NothingAcked, MemSteps, HereFiles,
          NoMeta, Directory, Metadata, record_length, RecoverUnchanged, Step,
          Steps, CreateSteps, JsonStage, MetaStage, UndoSteps, FinalSteps,
          RecoverSteps
    <2>2. CASE append_frame /\ ~WriteMetadata
      BY <2>2, DirChanges
      DEF append_frame, BeginAppend, CanAppend, AppendReadFails, OpenJsonl,
          WritePart, WriteRest, SyncJsonl, CommitAppend, AppendFails,
          RollbackNothing, RollbackTruncate, RollbackSync, RollbackFails,
          RestoreMetadata, RestoreSync, RestoreFails, TypeOK, AckedInv, FilesInv,
          MemInv, DirsInv, DirKept, Dirs, Contents, Kept, Records, NothingAcked,
          MemSteps, HereFiles, NoMeta, Directory, Metadata, record_length,
          RecoverUnchanged, Step, Steps, CreateSteps, JsonStage, MetaStage,
          UndoSteps, FinalSteps, RecoverSteps
    <2>. QED BY <1>2, <2>1, <2>2
  <1>3. CASE finalize
    <2>1. CASE \E s \in BOOLEAN : BeginFinalize(s)
      <3>1. PICK s \in BOOLEAN : BeginFinalize(s)
        BY <2>1
      <3>2. mem'.rec = mem.rec
        BY <3>1, RecordLengthType, RecordLengthRec DEF BeginFinalize, TypeOK, Metadata
      <3>3. Records(mem)
        BY <3>1 DEF BeginFinalize, FinalizeCalled, AckedInv, MemInv, MemSteps
      <3>4. DirKept([dir EXCEPT !.meta = mem'])
        BY <3>2, <3>3 DEF TypeOK, Directory, AckedInv, DirsInv, Dirs, DirKept, Records
      <3>. QED BY <3>1, <3>4, DirChanges DEF BeginFinalize
    <2>2. CASE finalize /\ ~(\E s \in BOOLEAN : BeginFinalize(s))
      BY <2>2, DirChanges
      DEF finalize, BeginRemoveEmpty, PoisonedExit, RenameFinalized,
          FinalizeCollides, WriteZone, RemoveMetadata, FinalizeDone,
          FinalizeFails, UnlinkEmpty, RemoveEmptyDir, RemoveEmptyMeta,
          RemoveEmptyRefused, TypeOK, AckedInv, FilesInv, MemInv, DirsInv,
          DirKept, Dirs, Contents, Kept, Records, NothingAcked, MemSteps,
          HereFiles, NoMeta, Directory, Metadata, record_length,
          RecoverUnchanged, Step, Steps, CreateSteps, JsonStage, MetaStage,
          UndoSteps, FinalSteps, RecoverSteps
    <2>. QED BY <1>3, <2>1, <2>2
  <1>4. CASE recover_candidate
    BY <1>4, DirChanges
    DEF recover_candidate, RecoverNothing, RecoverRetains, RecoverOrphanEmpty,
        RecoverOrphanFinalized, RecoverEmpty, RecoverActivitySync, RecoverUnlink,
        RecoverRemoveDir, RecoverRemoveMeta, QuarantineSource, QuarantineMeta,
        QuarantineMetaFails, RecoverValidated, RepairTruncate, RepairSync,
        RecoverFinalizing, RecoverRename, RecoverRenameFails, RecoverZone,
        RecoverDropMeta, RecoverDone, TypeOK, AckedInv, FilesInv, MemInv,
        DirsInv, DirKept, Dirs, Contents, Kept, Records, NothingAcked, MemSteps,
        HereFiles, NoMeta, Directory, Metadata, record_length, RecoverUnchanged,
        Step, Steps, CreateSteps, JsonStage, MetaStage, UndoSteps, FinalSteps,
        RecoverSteps
  <1>5. CASE Tick
    BY <1>5, DirChanges
    DEF Tick, TypeOK, AckedInv, FilesInv, MemInv, DirsInv, DirKept, Dirs,
        Contents, Kept, Records, NothingAcked, MemSteps, HereFiles, NoMeta,
        Directory, Metadata, record_length, RecoverUnchanged, Step, Steps,
        CreateSteps, JsonStage, MetaStage, UndoSteps, FinalSteps, RecoverSteps
  <1>6. CASE Kill
    BY <1>6, DirChanges
    DEF Kill, TypeOK, AckedInv, FilesInv, MemInv, DirsInv, DirKept, Dirs,
        Contents, Kept, Records, NothingAcked, MemSteps, HereFiles, NoMeta,
        Directory, Metadata, record_length, RecoverUnchanged, Step, Steps,
        CreateSteps, JsonStage, MetaStage, UndoSteps, FinalSteps, RecoverSteps
  <1>7. CASE PowerLoss
    BY <1>7, DirChanges
    DEF PowerLoss, TypeOK, AckedInv, FilesInv, MemInv, DirsInv, DirKept, Dirs,
        Contents, Kept, Records, NothingAcked, MemSteps, HereFiles, NoMeta,
        Directory, Metadata, record_length, RecoverUnchanged, Step, Steps,
        CreateSteps, JsonStage, MetaStage, UndoSteps, FinalSteps, RecoverSteps
  <1>8. CASE Rest
    BY <1>8, DirChanges
    DEF Rest, vars, dirVars, fileVars, appendVars, flagVars, TypeOK, AckedInv,
        FilesInv, MemInv, DirsInv, DirKept, Dirs, Contents, Kept, Records,
        NothingAcked, MemSteps, HereFiles, NoMeta, Directory, Metadata,
        record_length, RecoverUnchanged, Step, Steps, CreateSteps, JsonStage,
        MetaStage, UndoSteps, FinalSteps, RecoverSteps
  <1>. QED BY <1>1, <1>2, <1>3, <1>4, <1>5, <1>6, <1>7, <1>8 DEF Next

\* The metadata in memory records what was acknowledged.
LEMMA MemStep ==
    ASSUME TypeOK, AckedInv, Next, ~CommitAppend
    PROVE  MemInv'
  <1>1. CASE create_with_faults
    BY <1>1, DirChanges
    DEF create_with_faults, create_metadata, create_directory, create_open,
        create_done, FinalizeCalled, TypeOK, AckedInv, DirsInv, MemInv, DirKept,
        Dirs, Records, NothingAcked, MemSteps, NoMeta, Metadata, record_length,
        RecoverUnchanged, appendVars, FinalizeError, Forget, Recoverable, Poison,
        ResetAppend, Step, Steps, CreateSteps, JsonStage, MetaStage, UndoSteps,
        FinalSteps, RecoverSteps
  <1>2. CASE append_frame
    BY <1>2, DirChanges
    DEF append_frame, BeginAppend, CanAppend, AppendReadFails, OpenJsonl,
        WritePart, WriteRest, SyncJsonl, WriteMetadata, CommitAppend,
        AppendFails, RollbackNothing, RollbackTruncate, RollbackSync,
        RollbackFails, RestoreMetadata, RestoreSync, RestoreFails,
        FinalizeCalled, TypeOK, AckedInv, DirsInv, MemInv, DirKept, Dirs,
        Records, NothingAcked, MemSteps, NoMeta, Metadata, record_length,
        RecoverUnchanged, appendVars, FinalizeError, Forget, Recoverable, Poison,
        ResetAppend, Step, Steps, CreateSteps, JsonStage, MetaStage, UndoSteps,
        FinalSteps, RecoverSteps
  <1>3. CASE finalize
    <2>1. CASE \E s \in BOOLEAN : BeginFinalize(s)
      BY <2>1, RecordLengthRec, RecordLengthType, DirChanges
      DEF BeginFinalize, FinalizeCalled, FinalizeCalled, TypeOK, AckedInv,
          DirsInv, MemInv, DirKept, Dirs, Records, NothingAcked, MemSteps,
          NoMeta, Metadata, record_length, RecoverUnchanged, appendVars,
          FinalizeError, Forget, Recoverable, Poison, ResetAppend, Step, Steps,
          CreateSteps, JsonStage, MetaStage, UndoSteps, FinalSteps, RecoverSteps
    <2>2. CASE finalize /\ ~(\E s \in BOOLEAN : BeginFinalize(s))
      BY <2>2, DirChanges
      DEF finalize, BeginRemoveEmpty, PoisonedExit, RenameFinalized,
          FinalizeCollides, WriteZone, RemoveMetadata, FinalizeDone,
          FinalizeFails, UnlinkEmpty, RemoveEmptyDir, RemoveEmptyMeta,
          RemoveEmptyRefused, FinalizeCalled, TypeOK, AckedInv, DirsInv, MemInv,
          DirKept, Dirs, Records, NothingAcked, MemSteps, NoMeta, Metadata,
          record_length, RecoverUnchanged, appendVars, FinalizeError, Forget,
          Recoverable, Poison, ResetAppend, Step, Steps, CreateSteps, JsonStage,
          MetaStage, UndoSteps, FinalSteps, RecoverSteps
    <2>. QED BY <1>3, <2>1, <2>2
  <1>4. CASE recover_candidate
    <2>1. CASE RecoverValidated
      <3>1. mem'.rec = dir.meta.rec
        <4>1. PICK n \in 0..MaxFrames :
                 mem' = [record_length(dir.meta, dir.meta.len) EXCEPT !.count = n]
          BY <2>1 DEF RecoverValidated
        <4>2. dir.meta \in Metadata /\ dir.meta.len \in Nat
          BY DirectoryFields, MetadataFields DEF TypeOK
        <4>. DEFINE r == record_length(dir.meta, dir.meta.len)
        <4>3. r \in Metadata /\ r.rec = dir.meta.rec
          <5>1. r \in Metadata
            BY <4>2, RecordLengthType, Zenon
          <5>2. r.rec = dir.meta.rec
            BY <4>2, RecordLengthRec, Zenon
          <5>. QED BY <5>1, <5>2
        <4>. HIDE DEF r
        <4>4. ASSUME NEW m \in Metadata PROVE [m EXCEPT !.count = n].rec = m.rec
          BY DEF Metadata
        <4>5. mem'.rec = r.rec
          BY <4>1, <4>3, <4>4 DEF r
        <4>. QED BY <4>3, <4>5
      <3>2. Records(dir.meta)
        BY <2>1 DEF RecoverValidated, CanRecover, HasMeta, AckedInv, DirsInv, Dirs,
           DirKept
      <3>3. /\ pc' = "recover_repair" /\ saved' = dir.meta
            /\ UNCHANGED <<acked, dirVars, fileVars>>
        BY <2>1 DEF RecoverValidated, RecoverUnchanged
      <3>4. Records(mem)' /\ Records(saved)'
        BY <3>1, <3>2, <3>3 DEF Records
      <3>. QED BY <3>3, <3>4 DEF MemInv
    <2>2. CASE recover_candidate /\ ~RecoverValidated
      BY <2>2, DirChanges
      DEF recover_candidate, RecoverNothing, RecoverRetains, RecoverOrphanEmpty,
          RecoverOrphanFinalized, RecoverEmpty, RecoverActivitySync,
          RecoverUnlink, RecoverRemoveDir, RecoverRemoveMeta, QuarantineSource,
          QuarantineMeta, QuarantineMetaFails, RepairTruncate, RepairSync,
          RecoverFinalizing, RecoverRename, RecoverRenameFails, RecoverZone,
          RecoverDropMeta, RecoverDone, FinalizeCalled, TypeOK, AckedInv,
          DirsInv, MemInv, DirKept, Dirs, Records, NothingAcked, MemSteps,
          NoMeta, Metadata, record_length, RecoverUnchanged, appendVars,
          FinalizeError, Forget, Recoverable, Poison, ResetAppend, Step, Steps,
          CreateSteps, JsonStage, MetaStage, UndoSteps, FinalSteps, RecoverSteps
    <2>. QED BY <1>4, <2>1, <2>2
  <1>5. CASE Tick
    BY <1>5, DirChanges
    DEF Tick, FinalizeCalled, TypeOK, AckedInv, DirsInv, MemInv, DirKept, Dirs,
        Records, NothingAcked, MemSteps, NoMeta, Metadata, record_length,
        RecoverUnchanged, appendVars, FinalizeError, Forget, Recoverable, Poison,
        ResetAppend, Step, Steps, CreateSteps, JsonStage, MetaStage, UndoSteps,
        FinalSteps, RecoverSteps
  <1>6. CASE Kill
    BY <1>6, DirChanges
    DEF Kill, FinalizeCalled, TypeOK, AckedInv, DirsInv, MemInv, DirKept, Dirs,
        Records, NothingAcked, MemSteps, NoMeta, Metadata, record_length,
        RecoverUnchanged, appendVars, FinalizeError, Forget, Recoverable, Poison,
        ResetAppend, Step, Steps, CreateSteps, JsonStage, MetaStage, UndoSteps,
        FinalSteps, RecoverSteps
  <1>7. CASE PowerLoss
    BY <1>7, DirChanges
    DEF PowerLoss, FinalizeCalled, TypeOK, AckedInv, DirsInv, MemInv, DirKept,
        Dirs, Records, NothingAcked, MemSteps, NoMeta, Metadata, record_length,
        RecoverUnchanged, appendVars, FinalizeError, Forget, Recoverable, Poison,
        ResetAppend, Step, Steps, CreateSteps, JsonStage, MetaStage, UndoSteps,
        FinalSteps, RecoverSteps
  <1>8. CASE Rest
    BY <1>8, DirChanges
    DEF Rest, vars, dirVars, fileVars, appendVars, flagVars, FinalizeCalled,
        TypeOK, AckedInv, DirsInv, MemInv, DirKept, Dirs, Records, NothingAcked,
        MemSteps, NoMeta, Metadata, record_length, RecoverUnchanged, appendVars,
        FinalizeError, Forget, Recoverable, Poison, ResetAppend, Step, Steps,
        CreateSteps, JsonStage, MetaStage, UndoSteps, FinalSteps, RecoverSteps
  <1>. QED BY <1>1, <1>2, <1>3, <1>4, <1>5, <1>6, <1>7, <1>8 DEF Next

\* The directory is in place, durably, wherever an append may succeed.
LEMMA PlaceStep ==
    ASSUME TypeOK, AckedInv, Next, ~CommitAppend
    PROVE  PlaceInv'
  <1>1. CASE create_with_faults
    BY <1>1, DirChanges
    DEF create_with_faults, create_metadata, create_directory, create_open,
        create_done, TypeOK, AckedInv, PlaceInv, Dirs, Writing, Directory,
        ChangeDir, SyncThenChangeDir, sync_directory, dirVars, flagVars,
        FinalizeError, FinalizeCalled, Forget, Recoverable, Poison, Step, Steps,
        CreateSteps, JsonStage, MetaStage, UndoSteps, FinalSteps, RecoverSteps
  <1>2. CASE append_frame
    BY <1>2, DirChanges
    DEF append_frame, BeginAppend, CanAppend, AppendReadFails, OpenJsonl,
        WritePart, WriteRest, SyncJsonl, WriteMetadata, CommitAppend,
        AppendFails, RollbackNothing, RollbackTruncate, RollbackSync,
        RollbackFails, RestoreMetadata, RestoreSync, RestoreFails, TypeOK,
        AckedInv, PlaceInv, Dirs, Writing, Directory, ChangeDir,
        SyncThenChangeDir, sync_directory, dirVars, flagVars, FinalizeError,
        FinalizeCalled, Forget, Recoverable, Poison, Step, Steps, CreateSteps,
        JsonStage, MetaStage, UndoSteps, FinalSteps, RecoverSteps
  <1>3. CASE finalize
    BY <1>3, DirChanges
    DEF finalize, BeginFinalize, BeginRemoveEmpty, PoisonedExit, RenameFinalized,
        FinalizeCollides, WriteZone, RemoveMetadata, FinalizeDone, FinalizeFails,
        UnlinkEmpty, RemoveEmptyDir, RemoveEmptyMeta, RemoveEmptyRefused, TypeOK,
        AckedInv, PlaceInv, Dirs, Writing, Directory, ChangeDir,
        SyncThenChangeDir, sync_directory, dirVars, flagVars, FinalizeError,
        FinalizeCalled, Forget, Recoverable, Poison, Step, Steps, CreateSteps,
        JsonStage, MetaStage, UndoSteps, FinalSteps, RecoverSteps
  <1>4. CASE recover_candidate
    BY <1>4, DirChanges
    DEF recover_candidate, RecoverNothing, RecoverRetains, RecoverOrphanEmpty,
        RecoverOrphanFinalized, RecoverEmpty, RecoverActivitySync, RecoverUnlink,
        RecoverRemoveDir, RecoverRemoveMeta, QuarantineSource, QuarantineMeta,
        QuarantineMetaFails, RecoverValidated, RepairTruncate, RepairSync,
        RecoverFinalizing, RecoverRename, RecoverRenameFails, RecoverZone,
        RecoverDropMeta, RecoverDone, TypeOK, AckedInv, PlaceInv, Dirs, Writing,
        Directory, ChangeDir, SyncThenChangeDir, sync_directory, dirVars,
        flagVars, FinalizeError, FinalizeCalled, Forget, Recoverable, Poison,
        Step, Steps, CreateSteps, JsonStage, MetaStage, UndoSteps, FinalSteps,
        RecoverSteps
  <1>5. CASE Tick
    BY <1>5, DirChanges
    DEF Tick, TypeOK, AckedInv, PlaceInv, Dirs, Writing, Directory, ChangeDir,
        SyncThenChangeDir, sync_directory, dirVars, flagVars, FinalizeError,
        FinalizeCalled, Forget, Recoverable, Poison, Step, Steps, CreateSteps,
        JsonStage, MetaStage, UndoSteps, FinalSteps, RecoverSteps
  <1>6. CASE Kill
    BY <1>6, DirChanges
    DEF Kill, TypeOK, AckedInv, PlaceInv, Dirs, Writing, Directory, ChangeDir,
        SyncThenChangeDir, sync_directory, dirVars, flagVars, FinalizeError,
        FinalizeCalled, Forget, Recoverable, Poison, Step, Steps, CreateSteps,
        JsonStage, MetaStage, UndoSteps, FinalSteps, RecoverSteps
  <1>7. CASE PowerLoss
    BY <1>7, DirChanges
    DEF PowerLoss, TypeOK, AckedInv, PlaceInv, Dirs, Writing, Directory,
        ChangeDir, SyncThenChangeDir, sync_directory, dirVars, flagVars,
        FinalizeError, FinalizeCalled, Forget, Recoverable, Poison, Step, Steps,
        CreateSteps, JsonStage, MetaStage, UndoSteps, FinalSteps, RecoverSteps
  <1>8. CASE Rest
    BY <1>8, DirChanges
    DEF Rest, vars, dirVars, fileVars, appendVars, flagVars, TypeOK, AckedInv,
        PlaceInv, Dirs, Writing, Directory, ChangeDir, SyncThenChangeDir,
        sync_directory, dirVars, flagVars, FinalizeError, FinalizeCalled, Forget,
        Recoverable, Poison, Step, Steps, CreateSteps, JsonStage, MetaStage,
        UndoSteps, FinalSteps, RecoverSteps
  <1>. QED BY <1>1, <1>2, <1>3, <1>4, <1>5, <1>6, <1>7, <1>8 DEF Next

\* At the commit point the line is durable and its offset is on disk.
LEMMA CommitStep ==
    ASSUME TypeOK, AckedInv, Next, ~CommitAppend
    PROVE  CommitInv'
  <1>1. CASE create_with_faults
    BY <1>1, DirChanges
    DEF create_with_faults, create_metadata, create_directory, create_open,
        create_done, NextId, appendVars, CanAppend, TypeOK, AckedInv, CommitInv,
        Contents, Directory, ChangeDir, ChangeFile, SyncFileAndEntry, Truncated,
        FinalizeError, Forget, Recoverable, Poison, Step, Steps, CreateSteps,
        JsonStage, MetaStage, UndoSteps, FinalSteps, RecoverSteps
  <1>2. CASE append_frame
    <2>1. CASE SyncJsonl
      BY <2>1, DirChanges
      DEF SyncJsonl, NextId, appendVars, NextId, appendVars, CanAppend, TypeOK,
          AckedInv, CommitInv, Contents, Directory, ChangeDir, ChangeFile,
          SyncFileAndEntry, Truncated, FinalizeError, Forget, Recoverable,
          Poison, Step, Steps, CreateSteps, JsonStage, MetaStage, UndoSteps,
          FinalSteps, RecoverSteps
    <2>2. CASE WriteMetadata
      <3>1. Proposed(cur)' = Proposed(cur) /\ NextId(cur)' = NextId(cur)
        BY <2>2 DEF WriteMetadata, Proposed, NextId, record_length, appendVars, flagVars
      <3>2. dir'.meta = Proposed(cur)
        BY <2>2 DEF WriteMetadata, ChangeDir, TypeOK, Directory
      <3>. QED BY <2>2, <3>1, <3>2 DEF WriteMetadata, Step, AckedInv, CommitInv, MetaStage,
           Contents, fileVars, appendVars
    <2>3. CASE append_frame /\ ~SyncJsonl /\ ~WriteMetadata
      BY <2>3, DirChanges
      DEF append_frame, BeginAppend, CanAppend, AppendReadFails, OpenJsonl,
          WritePart, WriteRest, CommitAppend, AppendFails, RollbackNothing,
          RollbackTruncate, RollbackSync, RollbackFails, RestoreMetadata,
          RestoreSync, RestoreFails, NextId, appendVars, CanAppend, TypeOK,
          AckedInv, CommitInv, Contents, Directory, ChangeDir, ChangeFile,
          SyncFileAndEntry, Truncated, FinalizeError, Forget, Recoverable,
          Poison, Step, Steps, CreateSteps, JsonStage, MetaStage, UndoSteps,
          FinalSteps, RecoverSteps
    <2>. QED BY <1>2, <2>1, <2>2, <2>3
  <1>3. CASE finalize
    BY <1>3, DirChanges
    DEF finalize, BeginFinalize, BeginRemoveEmpty, PoisonedExit, RenameFinalized,
        FinalizeCollides, WriteZone, RemoveMetadata, FinalizeDone, FinalizeFails,
        UnlinkEmpty, RemoveEmptyDir, RemoveEmptyMeta, RemoveEmptyRefused, NextId,
        appendVars, CanAppend, TypeOK, AckedInv, CommitInv, Contents, Directory,
        ChangeDir, ChangeFile, SyncFileAndEntry, Truncated, FinalizeError,
        Forget, Recoverable, Poison, Step, Steps, CreateSteps, JsonStage,
        MetaStage, UndoSteps, FinalSteps, RecoverSteps
  <1>4. CASE recover_candidate
    BY <1>4, DirChanges
    DEF recover_candidate, RecoverNothing, RecoverRetains, RecoverOrphanEmpty,
        RecoverOrphanFinalized, RecoverEmpty, RecoverActivitySync, RecoverUnlink,
        RecoverRemoveDir, RecoverRemoveMeta, QuarantineSource, QuarantineMeta,
        QuarantineMetaFails, RecoverValidated, RepairTruncate, RepairSync,
        RecoverFinalizing, RecoverRename, RecoverRenameFails, RecoverZone,
        RecoverDropMeta, RecoverDone, NextId, appendVars, CanAppend, TypeOK,
        AckedInv, CommitInv, Contents, Directory, ChangeDir, ChangeFile,
        SyncFileAndEntry, Truncated, FinalizeError, Forget, Recoverable, Poison,
        Step, Steps, CreateSteps, JsonStage, MetaStage, UndoSteps, FinalSteps,
        RecoverSteps
  <1>5. CASE Tick
    BY <1>5, DirChanges
    DEF Tick, NextId, appendVars, CanAppend, TypeOK, AckedInv, CommitInv,
        Contents, Directory, ChangeDir, ChangeFile, SyncFileAndEntry, Truncated,
        FinalizeError, Forget, Recoverable, Poison, Step, Steps, CreateSteps,
        JsonStage, MetaStage, UndoSteps, FinalSteps, RecoverSteps
  <1>6. CASE Kill
    BY <1>6, DirChanges
    DEF Kill, NextId, appendVars, CanAppend, TypeOK, AckedInv, CommitInv,
        Contents, Directory, ChangeDir, ChangeFile, SyncFileAndEntry, Truncated,
        FinalizeError, Forget, Recoverable, Poison, Step, Steps, CreateSteps,
        JsonStage, MetaStage, UndoSteps, FinalSteps, RecoverSteps
  <1>7. CASE PowerLoss
    BY <1>7, DirChanges
    DEF PowerLoss, NextId, appendVars, CanAppend, TypeOK, AckedInv, CommitInv,
        Contents, Directory, ChangeDir, ChangeFile, SyncFileAndEntry, Truncated,
        FinalizeError, Forget, Recoverable, Poison, Step, Steps, CreateSteps,
        JsonStage, MetaStage, UndoSteps, FinalSteps, RecoverSteps
  <1>8. CASE Rest
    BY <1>8, DirChanges
    DEF Rest, vars, dirVars, fileVars, appendVars, flagVars, NextId, appendVars,
        CanAppend, TypeOK, AckedInv, CommitInv, Contents, Directory, ChangeDir,
        ChangeFile, SyncFileAndEntry, Truncated, FinalizeError, Forget,
        Recoverable, Poison, Step, Steps, CreateSteps, JsonStage, MetaStage,
        UndoSteps, FinalSteps, RecoverSteps
  <1>. QED BY <1>1, <1>2, <1>3, <1>4, <1>5, <1>6, <1>7, <1>8 DEF Next

\* The step that acknowledges: everything it promises is durable already.
LEMMA CommitKeeps ==
    ASSUME TypeOK, AckedInv, CommitAppend
    PROVE  AckedInv'
  <1>. DEFINE id == NextId(cur)
  <1>1. /\ cur \in File /\ dirLost' = {} /\ dir' = dir /\ pc' = "open"
        /\ files' = files /\ fileLost' = fileLost /\ saved' = NoMeta
        /\ mem' = Proposed(cur) /\ dir.meta = Proposed(cur) /\ pc = "meta_sync"
        /\ acked' = [acked EXCEPT ![cur] = @ \cup {id}]
    BY DEF TypeOK, AckedInv, CommitInv, CommitAppend, Step, sync_directory,
           ResetAppend, fileVars
  <1>2. \A f \in File : acked'[f] = IF f = cur THEN acked[f] \cup {id} ELSE acked[f]
    BY <1>1 DEF TypeOK
  <1>3. \A f \in File : acked'[f] \subseteq Proposed(cur).rec[f]
    BY <1>1, <1>2, ProposedRecords DEF AckedInv, MemInv, MemSteps, MetaStage, Records
  <1>4. FilesInv'
    BY <1>1, <1>2 DEF AckedInv, FilesInv, CommitInv, MetaStage, Kept, Contents
  <1>5. DirsInv'
    BY <1>1, <1>3 DEF AckedInv, PlaceInv, Writing, MetaStage, Dirs, DirsInv, DirKept,
       Records
  <1>6. MemInv'
    BY <1>1, <1>3 DEF MemInv, Records, NoMeta
  <1>7. PlaceInv' /\ CommitInv'
    BY <1>1 DEF AckedInv, PlaceInv, CommitInv, Writing, MetaStage, Dirs
  <1>. QED BY <1>4, <1>5, <1>6, <1>7 DEF AckedInv

\* The invariant of AckedSurvives is kept by every step.
LEMMA AckedInvStep ==
    ASSUME TypeOK, AckedInv, [Next]_vars
    PROVE  AckedInv'
  <1>1. CASE CommitAppend
    BY <1>1, CommitKeeps
  <1>2. CASE Next /\ ~CommitAppend
    BY <1>2, FilesStep, DirsStep, MemStep, PlaceStep, CommitStep DEF AckedInv
  <1>3. CASE UNCHANGED vars
    BY <1>3 DEF vars, AckedInv, FilesInv, DirsInv, MemInv, PlaceInv, CommitInv, Dirs,
       Contents, Kept, DirKept, NothingAcked, Records, Writing, NextId, Proposed,
       record_length
  <1>. QED BY <1>1, <1>2, <1>3

\* So it holds in every behaviour.
LEMMA AckedCorrect == Spec => []AckedInv
  <1>1. Init => AckedInv
    BY DEF Init, AckedInv, FilesInv, DirsInv, MemInv, PlaceInv, CommitInv, Dirs,
       Contents, Kept, DirKept, NothingAcked, Records, Writing, MemSteps, CreateSteps,
       JsonStage, MetaStage, UndoSteps, FinalSteps, NoMeta, NoDirectory
  <1>. QED BY <1>1, AckedInvStep, TypeCorrect, PTL DEF Spec

\* An acknowledged frame or activity record is never lost, for any number of
\* sessions, frames and faults (segment.rs append_capture, append_activity).
THEOREM AckedLinesSurvive == Spec => []AckedSurvives
  <1>1. AckedInv => AckedSurvives
    BY DEF AckedInv, FilesInv, DirsInv, Kept, DirKept, NothingAcked, AckedSurvives
  <1>. QED BY <1>1, AckedCorrect, PTL

-----------------------------------------------------------------------------
(***************************************************************************)
(* What the disk holds at every step: the metadata, the finalized name and *)
(* the zone sibling (MetadataConsistent, ZoneBeforeMetaRemoved), and the   *)
(* lines of the files (RenamesExact).  Each of them says nothing of the    *)
(* step a finalize or a recovery is at; the invariant adds, for every      *)
(* step, what the step before it left in memory and on disk.               *)
(***************************************************************************)

\* The offsets of m number the frames 1..count, each in one session.
Numbered(m) ==
    /\ RecordedIds(m) = 1..m.count /\ m.count <= MaxFrames
    /\ \A s, t \in Session : s # t => m.rec[s] \cap m.rec[t] = {}

Sound(m) == Numbered(m) /\ (m.life = "creating" => RecordsNothing(m))

DirSound(d) ==
    /\ d.meta.life # "none" => Sound(d.meta)
    /\ d.loc = "src" => d.meta.life # "none"
    /\ d.loc = "fin" =>
          IF d.meta.life = "none" THEN d.zone = d.len
          ELSE /\ d.meta.life = "finalizing" /\ d.meta.len = d.len
               /\ ~RecordsNothing(d.meta)

DirsSound ==
    /\ \A d \in Dirs : DirSound(d)
    /\ dir.loc # "fin" => \A d \in Dirs : d.loc # "fin"

AppendSteps == JsonStage \cup MetaStage \cup UndoSteps
RepairSteps == {"recover_repair", "recover_repair_sync", "recover_rename"}

MemSound ==
    /\ pc \in MemSteps => Sound(mem) /\ mem.life # "none"
    /\ pc \in AppendSteps \cup FinalSteps \cup {"created_open", "open"} =>
          mem.life \in {"open", "finalizing"}
    /\ pc \in AppendSteps \cup RepairSteps => Sound(saved) /\ saved.life # "none"
    /\ pc \in RepairSteps \cup {"final_sync"} => ~RecordsNothing(mem)
    /\ pc = "empty_scan" => RecordsNothing(mem)

\* The disk a step of create, finalize or recovery finds.
StepInv ==
    /\ pc \in {"fresh", "created_meta", "empty_gone", "recover_meta"} =>
          dir.loc = "none"
    /\ pc = "created_meta" => dir.meta.life # "none"
    /\ pc \in RepairSteps \cup {"recover_act", "recover_empty"} => dir.loc = "src"
    /\ pc = "quarantine_meta" => dir.loc = "failed" /\ dir.meta.life # "none"
    /\ pc \in {"final_sync", "recover_rename"} =>
          dir.meta = mem /\ mem.life = "finalizing"
    /\ pc \in {"final_named", "recover_named"} =>
          dir.loc = "fin" /\ dir.len = mem.len
    /\ pc \in {"final_zoned", "recover_zoned"} => dir.loc = "fin" /\ dir.zone = dir.len

\* LEN of a segment that finalize has named but not finished: only a rotation
\* leaves one open, and any later call derives the same LEN.
LenInv ==
    /\ pc \in FinalSteps /\ ~stopping => elapsed >= Interval
    /\ pc = "final_sync" => mem.len = segment_length(elapsed)
    /\ pc \in FinalSteps /\ dir.loc = "fin" => dir.len = segment_length(elapsed)
    /\ pc = "open" /\ dir.loc = "fin" =>
          elapsed >= Interval /\ dir.len = Max2(Interval, 1)

\* File f holds what m records, and nothing else.
Matches(m, f) ==
    \/ files[f] = Truncated(m.rec[f])
    \/ files[f] = NoFile /\ m.rec[f] = {}

\* A file that is not there has no lines, in any version of the disk.
ShapeInv == \A f \in File : \A c \in Contents(f) : c.here \/ c = NoFile

\* The lines of every file against the metadata in memory, step by step.
LinesInv ==
    /\ pc \in CreateSteps => \A f \in File : files[f] = NoFile /\ mem.rec[f] = {}
    /\ pc \in FinalSteps \cup {"recover_rename"} \/ (pc = "open" /\ ~poisoned) =>
          \A f \in File : Matches(mem, f)
    /\ pc \in AppendSteps => /\ \A f \in File \ {cur} : Matches(mem, f)
                            /\ (files[cur].here \/ Matches(mem, cur))
    /\ pc = "append_open" => Matches(mem, cur)
    /\ pc = "undo_sync" \/ (pc \in {"undo_meta", "undo_meta_sync"} /\ rolled) =>
          Matches(mem, cur)
    /\ pc \in MetaStage \cup {"append_sync"} =>
          files[cur] = Truncated(mem.rec[cur] \cup {NextId(cur)})
    /\ pc \in MetaStage \cup {"append_open", "append_write", "append_rest", "append_sync"}
          /\ cur # Activity => NextId(cur) <= MaxFrames
    /\ pc \in {"recover_repair", "recover_repair_sync"} =>
          \A f \in File : files[f].here \/ Matches(mem, f)

SegmentInv == DirsSound /\ MemSound /\ StepInv /\ LenInv /\ ShapeInv /\ LinesInv

\* Recording a length, or another point of the life cycle, changes no offset.
LEMMA MetaChanges ==
    ASSUME NEW m \in Metadata
    PROVE  /\ \A e \in Nat :
                  /\ record_length(m, e) \in Metadata
                  /\ record_length(m, e).life = m.life
                  /\ record_length(m, e).rec = m.rec
                  /\ record_length(m, e).len = segment_length(e)
                  /\ RecordsNothing(record_length(m, e)) <=> RecordsNothing(m)
                  /\ Sound(m) => Sound(record_length(m, e))
           /\ \A l \in {"open", "finalizing"} :
                  /\ [m EXCEPT !.life = l] \in Metadata
                  /\ [m EXCEPT !.life = l].life = l
                  /\ [m EXCEPT !.life = l].rec = m.rec
                  /\ [m EXCEPT !.life = l].len = m.len
                  /\ RecordsNothing([m EXCEPT !.life = l]) <=> RecordsNothing(m)
                  /\ Sound(m) => Sound([m EXCEPT !.life = l])
  <1>1. ASSUME NEW r \in Metadata, r.rec = m.rec, r.count = m.count, r.acts = m.acts,
               r.life = m.life \/ r.life \in {"open", "finalizing"}
        PROVE  /\ RecordsNothing(r) <=> RecordsNothing(m)
               /\ Sound(m) => Sound(r)
    BY <1>1 DEF RecordsNothing, Sound, Numbered, RecordedIds
  <1>2. ASSUME NEW e \in Nat
        PROVE  LET r == record_length(m, e)
               IN  /\ r \in Metadata /\ r.life = m.life /\ r.rec = m.rec
                   /\ r.count = m.count /\ r.acts = m.acts /\ r.len = segment_length(e)
    BY RecordLengthType DEF record_length, Metadata
  <1>3. ASSUME NEW l \in {"open", "finalizing"}
        PROVE  LET r == [m EXCEPT !.life = l]
               IN  /\ r \in Metadata /\ r.life = l /\ r.rec = m.rec
                   /\ r.count = m.count /\ r.acts = m.acts /\ r.len = m.len
    BY DEF Metadata, Lifecycle
  <1>4. ASSUME NEW e \in Nat
        PROVE  /\ RecordsNothing(record_length(m, e)) <=> RecordsNothing(m)
               /\ Sound(m) => Sound(record_length(m, e))
    BY <1>1, <1>2
  <1>5. ASSUME NEW l \in {"open", "finalizing"}
        PROVE  /\ RecordsNothing([m EXCEPT !.life = l]) <=> RecordsNothing(m)
               /\ Sound(m) => Sound([m EXCEPT !.life = l])
    BY <1>1, <1>3
  <1>. QED BY <1>2, <1>3, <1>4, <1>5

\* Sound metadata is what recovery calls consistent, and its count is the
\* number of frames recovery counts.
LEMMA SoundMeans ==
    ASSUME NEW m \in Metadata, Sound(m)
    PROVE  /\ metadata_is_consistent(m)
           /\ IdsConsecutive(m)
           /\ \A n \in Nat : RecordedIds(m) = 1..n => n = m.count
  <1>0. m.count \in Nat /\ RecordedIds(m) = 1..m.count
    BY DEF Metadata, Sound, Numbered
  <1>1. \A s \in Session : \A id \in m.rec[s] : id \in 1..m.count
    BY <1>0 DEF RecordedIds
  <1>2. metadata_is_consistent(m)
    BY <1>0, <1>1 DEF metadata_is_consistent, Sound
  <1>3. IdsConsecutive(m)
    BY <1>0 DEF IdsConsecutive, Sound, Numbered
  <1>4. ASSUME NEW n \in Nat, RecordedIds(m) = 1..n PROVE n = m.count
    <2>1. 1..n = 1..m.count
      BY <1>0, <1>4
    <2>2. n > 0 => n \in 1..m.count
      <3>1. n > 0 => n \in 1..n
        OBVIOUS
      <3>. QED BY <2>1, <3>1
    <2>3. m.count > 0 => m.count \in 1..n
      <3>1. m.count > 0 => m.count \in 1..m.count
        BY <1>0
      <3>. QED BY <2>1, <3>1
    <2>. QED BY <1>0, <2>2, <2>3
  <1>. QED BY <1>2, <1>3, <1>4

\* The metadata an append proposes is that of the segment with the new line.
LEMMA ProposedSound ==
    ASSUME TypeOK, NEW f \in File, Sound(mem), mem.life \in {"open", "finalizing"},
           f # Activity => NextId(f) <= MaxFrames
    PROVE  /\ Proposed(f) \in Metadata
           /\ Proposed(f).life = mem.life
           /\ Proposed(f).rec = [mem.rec EXCEPT ![f] = @ \cup {NextId(f)}]
           /\ Sound(Proposed(f))
  <1>. DEFINE rec == [mem.rec EXCEPT ![f] = @ \cup {NextId(f)}]
  <1>. DEFINE m == [mem EXCEPT !.rec[f] = @ \cup {NextId(f)}]
  <1>. DEFINE a == [m EXCEPT !.acts = @ + 1]
  <1>. DEFINE c == [m EXCEPT !.count = @ + 1]
  <1>. DEFINE p == IF f = Activity THEN a ELSE c
  <1>1. mem \in Metadata /\ NextId(f) \in Nat /\ elapsed \in Nat
    BY ProposedType DEF TypeOK
  <1>2. m \in Metadata /\ m.rec = rec /\ m.life = mem.life /\ m.count = mem.count
    <2>1. m \in Metadata
      BY <1>1, MetadataFields
    <2>. QED BY <1>1, <2>1 DEF Metadata
  <1>3. /\ p \in Metadata /\ p.rec = rec /\ p.life = mem.life
        /\ p.count = IF f = Activity THEN mem.count ELSE mem.count + 1
    <2>. HIDE DEF m, rec
    <2>1. p \in Metadata
      BY <1>2, MetadataFields
    <2>. QED BY <1>1, <1>2, <2>1 DEF Metadata
  <1>4. Sound(p)
    <2>. HIDE DEF p, m
    <2>1. mem.count \in Nat /\ mem.rec \in [File -> SUBSET Nat]
      BY <1>1 DEF Metadata
    <2>2. Session \subseteq File /\ MaxFrames \in Nat
      BY ConstantsAssumption DEF File
    <2>3. /\ RecordedIds(mem) = 1..mem.count /\ mem.count <= MaxFrames
          /\ \A s, t \in Session : s # t => mem.rec[s] \cap mem.rec[t] = {}
      BY DEF Sound, Numbered
    <2>4. CASE f = Activity
      <3>1. \A s \in Session : p.rec[s] = mem.rec[s]
        BY <1>3, <2>1, <2>2, <2>4, ConstantsAssumption
      <3>2. RecordedIds(p) = RecordedIds(mem)
        BY <3>1 DEF RecordedIds
      <3>. QED BY <1>3, <2>3, <2>4, <3>1, <3>2 DEF Sound, Numbered
    <2>5. CASE f # Activity
      <3>1. f \in Session /\ NextId(f) = mem.count + 1 /\ p.count = mem.count + 1
        BY <1>3, <2>5 DEF NextId, File
      <3>2. \A s \in Session :
               p.rec[s] = IF s = f THEN mem.rec[s] \cup {mem.count + 1} ELSE mem.rec[s]
        <4>1. p.rec = [mem.rec EXCEPT ![f] = @ \cup {mem.count + 1}]
          BY <1>3, <3>1
        <4>. QED BY <2>1, <2>2, <4>1
      <3>3. RecordedIds(p) = RecordedIds(mem) \cup {mem.count + 1}
        <4>1. \A n \in p.rec[f] : n \in mem.rec[f] \/ n = mem.count + 1
          <5>1. p.rec[f] = mem.rec[f] \cup {mem.count + 1}
            BY <3>1, <3>2
          <5>. QED BY <5>1, Zenon
        <4>2. ASSUME NEW n \in RecordedIds(p), n # mem.count + 1
              PROVE  n \in RecordedIds(mem)
          <5>1. PICK s \in Session : n \in p.rec[s]
            BY <4>2, Zenon DEF RecordedIds
          <5>2. n \in mem.rec[s]
            BY <3>2, <4>1, <4>2, <5>1
          <5>. QED BY <5>2, Zenon DEF RecordedIds
        <4>3. \A s \in Session : mem.rec[s] \subseteq p.rec[s]
          BY <3>2
        <4>4. RecordedIds(mem) \subseteq RecordedIds(p)
          BY <4>3, Zenon DEF RecordedIds
        <4>5. mem.count + 1 \in p.rec[f]
          BY <3>1, <3>2
        <4>6. mem.count + 1 \in RecordedIds(p)
          BY <3>1, <4>5, Zenon DEF RecordedIds
        <4>. QED BY <4>2, <4>4, <4>6
      <3>4. RecordedIds(p) = 1..(mem.count + 1)
        <4>1. 1..(mem.count + 1) = 1..mem.count \cup {mem.count + 1}
          BY <2>1
        <4>. QED BY <2>3, <3>3, <4>1
      <3>5. \A s \in Session : mem.count + 1 \notin mem.rec[s]
        <4>1. mem.count + 1 \notin 1..mem.count
          BY <2>1
        <4>. QED BY <2>3, <4>1 DEF RecordedIds
      <3>6. ASSUME NEW s \in Session, NEW t \in Session, s # t
            PROVE  p.rec[s] \cap p.rec[t] = {}
        <4>1. mem.rec[s] \cap mem.rec[t] = {}
          BY <2>3, <3>6
        <4>2. mem.count + 1 \notin mem.rec[s] /\ mem.count + 1 \notin mem.rec[t]
          BY <3>5
        <4>. QED BY <3>2, <3>6, <4>1, <4>2
      <3>. QED BY <1>3, <3>1, <3>4, <3>6 DEF Sound, Numbered
    <2>. QED BY <2>4, <2>5
  <1>5. Proposed(f) = record_length(p, elapsed)
    BY DEF Proposed
  <1>6. /\ record_length(p, elapsed) \in Metadata
        /\ record_length(p, elapsed).life = p.life
        /\ record_length(p, elapsed).rec = p.rec
        /\ Sound(record_length(p, elapsed))
    <2>. HIDE DEF p
    <2>. QED BY <1>1, <1>3, <1>4, MetaChanges
  <1>. HIDE DEF p, m, a, c
  <1>. QED BY <1>3, <1>5, <1>6

\* A step that leaves a sound directory entry, and does not undo the finalized
\* name, leaves every version of the stream directory sound.
LEMMA DirsChange ==
    ASSUME DirsSound, NEW d, DirSound(d), dir.loc = "fin" => d.loc = "fin",
           ChangeDir(d) \/ SyncThenChangeDir(d)
    PROVE  DirsSound'
  <1>1. dir' = d /\ dirLost' \subseteq dirLost \cup {dir, d}
    BY DEF ChangeDir, SyncThenChangeDir, DirsSound, Dirs
  <1>2. \A x \in Dirs' : x = d \/ x \in Dirs
    BY <1>1 DEF Dirs
  <1>. QED BY <1>1, <1>2 DEF DirsSound, DirSound, Dirs

\* The entries the writer and recovery leave, field by field, and when they are
\* sound.
LEMMA EntriesSound ==
    ASSUME NEW d \in Directory, DirSound(d)
    PROVE  /\ \A m \in Metadata : m.life # "none" /\ Sound(m) /\ d.loc # "fin" =>
                  LET e == [d EXCEPT !.meta = m] IN DirSound(e) /\ e.loc = d.loc
           /\ \A m \in Metadata :
                  /\ m.life = "finalizing" /\ Sound(m) /\ ~RecordsNothing(m)
                  /\ d.loc = "fin" => m.len = d.len
                  => LET e == [d EXCEPT !.meta = m] IN DirSound(e) /\ e.loc = d.loc
           /\ d.loc # "src" /\ (d.loc = "fin" => d.zone = d.len) =>
                  LET e == [d EXCEPT !.meta = NoMeta] IN DirSound(e) /\ e.loc = d.loc
           /\ \A p \in {"none", "src", "failed"} : (p = "src" => d.meta.life # "none") =>
                  LET e == [d EXCEPT !.loc = p] IN DirSound(e) /\ e.loc = p
           /\ d.loc = "failed" =>
                  LET e == [d EXCEPT !.meta = NoMeta, !.aside = TRUE]
                  IN  DirSound(e) /\ e.loc = d.loc
           /\ d.meta.life = "finalizing" /\ ~RecordsNothing(d.meta) =>
                  LET e == [d EXCEPT !.loc = "fin", !.len = d.meta.len]
                  IN  DirSound(e) /\ e.loc = "fin"
           /\ d.loc = "fin" =>
                  LET e == [d EXCEPT !.zone = d.len] IN DirSound(e) /\ e.loc = d.loc
  BY DEF DirSound, Directory, NoMeta

\* Every step of finalize and recovery leaves a sound stream directory.
LEMMA DirsSoundStep ==
    ASSUME TypeOK, AckedInv, SegmentInv, Next
    PROVE  DirsSound'
  <1>. USE DEF SegmentInv
  <1>0. /\ dir \in Directory /\ DirSound(dir) /\ DirsSound /\ dir.meta \in Metadata
        /\ mem \in Metadata /\ saved \in Metadata /\ elapsed \in Nat /\ cur \in File
    BY DirectoryFields DEF TypeOK, DirsSound, Dirs
  <1>1. ASSUME sync_directory \/ UNCHANGED dirVars PROVE DirsSound'
    BY <1>1 DEF DirsSound, Dirs, sync_directory, dirVars
  <1>2. CASE create_with_faults
    <2>1. CASE create_metadata
      <3>1. dir.loc = "none"
        BY <2>1 DEF create_metadata, Step, StepInv
      <3>2. mem' \in Metadata /\ mem'.life # "none" /\ Sound(mem')
        <4>. DEFINE m == [NoMeta EXCEPT !.life = "creating"]
        <4>1. m \in Metadata /\ m.life = "creating" /\ RecordsNothing(m)
          BY NoMetaType DEF Metadata, Lifecycle, RecordsNothing, NoMeta
        <4>2. Numbered(m)
          <5>1. m.count = 0 /\ \A f \in File : m.rec[f] = {}
            BY DEF NoMeta
          <5>2. RecordedIds(m) = {}
            BY <5>1 DEF RecordedIds, File
          <5>3. \A x, y \in Session : m.rec[x] \cap m.rec[y] = {}
            BY <5>1 DEF File
          <5>4. 1..0 = {} /\ 0 <= MaxFrames
            BY ConstantsAssumption
          <5>. HIDE DEF m
          <5>. QED BY <5>1, <5>2, <5>3, <5>4 DEF Numbered
        <4>3. mem' = record_length(m, 0)
          BY <2>1 DEF create_metadata
        <4>4. Sound(m)
          BY <4>1, <4>2 DEF Sound
        <4>. HIDE DEF m
        <4>5. /\ record_length(m, 0) \in Metadata
              /\ record_length(m, 0).life = m.life
              /\ Sound(record_length(m, 0))
          <5>1. 0 \in Nat
            OBVIOUS
          <5>. QED BY <4>1, <4>4, <5>1, MetaChanges
        <4>. QED BY <4>1, <4>3, <4>5
      <3>3. ChangeDir([dir EXCEPT !.meta = mem'])
        BY <2>1 DEF create_metadata
      <3>. QED BY <1>0, <3>1, <3>2, <3>3, EntriesSound, DirsChange
    <2>2. CASE create_directory
      <3>1. dir.loc = "none" /\ dir.meta.life # "none"
        BY <2>2 DEF create_directory, Step, StepInv
      <3>. QED BY <1>0, <2>2, <3>1, EntriesSound, DirsChange DEF create_directory
    <2>3. CASE create_open
      <3>1. dir.loc = "src" /\ Sound(mem)
        BY <2>3 DEF create_open, Step, AckedInv, PlaceInv, MemSound, MemSteps
      <3>2. mem' \in Metadata /\ mem'.life = "open" /\ Sound(mem')
        BY <1>0, <2>3, <3>1, MetaChanges DEF create_open
      <3>. QED BY <1>0, <2>3, <3>1, <3>2, EntriesSound, DirsChange DEF create_open
    <2>4. CASE create_done
      BY <1>1, <2>4 DEF create_done
    <2>. QED BY <1>2, <2>1, <2>2, <2>3, <2>4 DEF create_with_faults
  <1>3. CASE append_frame
    <2>1. CASE WriteMetadata
      <3>1. dir.loc = "src"
        BY <2>1 DEF WriteMetadata, Step, AckedInv, PlaceInv, Writing, Dirs, MetaStage
      <3>2. /\ Sound(mem) /\ mem.life \in {"open", "finalizing"}
            /\ cur # Activity => NextId(cur) <= MaxFrames
        BY <2>1 DEF WriteMetadata, Step, MemSound, LinesInv, MemSteps, MetaStage,
           AppendSteps
      <3>3. Proposed(cur) \in Metadata /\ Sound(Proposed(cur)) /\ Proposed(cur).life # "none"
        BY <1>0, <3>2, ProposedSound
      <3>. QED BY <1>0, <2>1, <3>1, <3>3, EntriesSound, DirsChange DEF WriteMetadata
    <2>2. CASE RestoreMetadata
      <3>1. dir.loc = "src"
        BY <2>2 DEF RestoreMetadata, Step, AckedInv, PlaceInv, Writing, Dirs, UndoSteps
      <3>2. Sound(saved) /\ saved.life # "none"
        BY <2>2 DEF RestoreMetadata, Step, MemSound, UndoSteps, AppendSteps
      <3>. QED BY <1>0, <2>2, <3>1, <3>2, EntriesSound, DirsChange DEF RestoreMetadata
    <2>3. CASE append_frame /\ ~WriteMetadata /\ ~RestoreMetadata
      BY <1>1, <2>3
      DEF append_frame, BeginAppend, AppendReadFails, OpenJsonl, WritePart, WriteRest,
          SyncJsonl, CommitAppend, AppendFails, RollbackNothing, RollbackTruncate,
          RollbackSync, RollbackFails, RestoreSync, RestoreFails
    <2>. QED BY <1>3, <2>1, <2>2, <2>3
  <1>4. CASE finalize
    <2>1. ASSUME NEW s \in BOOLEAN, BeginFinalize(s) PROVE DirsSound'
      <3>1. /\ pc = "open" /\ Sound(mem) /\ ~RecordsNothing(mem)
            /\ mem' = [record_length(mem, elapsed) EXCEPT !.life = "finalizing"]
            /\ ChangeDir([dir EXCEPT !.meta = mem'])
        BY <2>1 DEF BeginFinalize, FinalizeCalled, MemSound, MemSteps
      <3>2. /\ mem' \in Metadata /\ mem'.life = "finalizing" /\ Sound(mem')
            /\ ~RecordsNothing(mem') /\ mem'.len = segment_length(elapsed)
        <4>. DEFINE r == record_length(mem, elapsed)
        <4>1. /\ r \in Metadata /\ Sound(r) /\ ~RecordsNothing(r)
              /\ r.len = segment_length(elapsed)
          BY <1>0, <3>1, MetaChanges
        <4>2. mem' = [r EXCEPT !.life = "finalizing"]
          BY <3>1
        <4>. HIDE DEF r
        <4>. QED BY <4>1, <4>2, MetaChanges
      <3>3. dir.loc = "fin" => mem'.len = dir.len
        BY <1>0, <3>1, <3>2, ConstantsAssumption DEF LenInv, segment_length, Min2, Max2
      <3>. DEFINE e == [dir EXCEPT !.meta = mem']
      <3>7. DirSound(e) /\ e.loc = dir.loc
        BY <1>0, <3>2, <3>3, EntriesSound
      <3>8. ChangeDir(e)
        BY <3>1
      <3>. HIDE DEF e
      <3>. QED BY <1>0, <3>7, <3>8, DirsChange
    <2>2. CASE RenameFinalized
      <3>1. dir.meta = mem /\ mem.life = "finalizing" /\ ~RecordsNothing(mem)
        BY <2>2 DEF RenameFinalized, Step, StepInv, MemSound
      <3>. QED BY <1>0, <2>2, <3>1, EntriesSound, DirsChange DEF RenameFinalized
    <2>3. CASE WriteZone
      <3>1. dir.loc = "fin" /\ dir.len = mem.len
        BY <2>3 DEF WriteZone, Step, StepInv
      <3>. DEFINE e == [dir EXCEPT !.zone = dir.len]
      <3>7. DirSound(e) /\ e.loc = dir.loc
        BY <1>0, <3>1, EntriesSound
      <3>8. SyncThenChangeDir(e)
        BY <2>3, <3>1 DEF WriteZone
      <3>. HIDE DEF e
      <3>. QED BY <1>0, <3>7, <3>8, DirsChange
    <2>4. CASE RemoveMetadata
      <3>1. dir.loc = "fin" /\ dir.zone = dir.len
        BY <2>4 DEF RemoveMetadata, Step, StepInv
      <3>. DEFINE e == [dir EXCEPT !.meta = NoMeta]
      <3>7. DirSound(e) /\ e.loc = dir.loc
        BY <1>0, <3>1, EntriesSound
      <3>8. SyncThenChangeDir(e)
        BY <2>4, <3>1 DEF RemoveMetadata
      <3>. HIDE DEF e
      <3>. QED BY <1>0, <3>7, <3>8, DirsChange
    <2>5. CASE RemoveEmptyDir
      BY <1>0, <2>5, EntriesSound, DirsChange DEF RemoveEmptyDir
    <2>6. CASE RemoveEmptyMeta
      <3>1. dir.loc = "none"
        BY <2>6 DEF RemoveEmptyMeta, Step, StepInv
      <3>. QED BY <1>0, <2>6, <3>1, EntriesSound, DirsChange DEF RemoveEmptyMeta
    <2>7. ASSUME NEW s \in BOOLEAN, BeginRemoveEmpty(s) PROVE DirsSound'
      BY <1>1, <2>7 DEF BeginRemoveEmpty
    <2>8. CASE \/ PoisonedExit \/ FinalizeCollides \/ FinalizeDone \/ FinalizeFails
               \/ UnlinkEmpty \/ RemoveEmptyRefused
      BY <1>1, <2>8 DEF PoisonedExit, FinalizeCollides, FinalizeDone, FinalizeFails,
         UnlinkEmpty, RemoveEmptyRefused
    <2>. QED BY <1>4, <2>1, <2>2, <2>3, <2>4, <2>5, <2>6, <2>7, <2>8 DEF finalize
  <1>5. CASE recover_candidate
    <2>1. CASE RecoverOrphanEmpty
      <3>1. HasMeta /\ dir.loc # "src"
        BY <2>1 DEF RecoverOrphanEmpty, OrphanEmpty
      <3>2. dir.loc # "fin"
        BY <1>0, <2>1, <3>1 DEF RecoverOrphanEmpty, OrphanEmpty, HasMeta, DirSound
      <3>. QED BY <1>0, <2>1, <3>1, <3>2, EntriesSound, DirsChange DEF RecoverOrphanEmpty
    <2>2. CASE RecoverOrphanFinalized
      <3>1. dir.loc = "fin" /\ dir.len = dir.meta.len
        BY <2>2 DEF RecoverOrphanFinalized, OrphanFinalized
      <3>. DEFINE e == [dir EXCEPT !.zone = dir.len]
      <3>7. DirSound(e) /\ e.loc = dir.loc
        BY <1>0, <3>1, EntriesSound
      <3>8. ChangeDir(e)
        BY <2>2, <3>1 DEF RecoverOrphanFinalized
      <3>. HIDE DEF e
      <3>. QED BY <1>0, <3>7, <3>8, DirsChange
    <2>3. CASE RecoverRemoveDir
      <3>1. dir.loc = "src"
        BY <2>3 DEF RecoverRemoveDir, Step, StepInv
      <3>. QED BY <1>0, <2>3, <3>1, EntriesSound, DirsChange DEF RecoverRemoveDir
    <2>4. CASE RecoverRemoveMeta
      <3>1. dir.loc = "none"
        BY <2>4 DEF RecoverRemoveMeta, Step, StepInv
      <3>. QED BY <1>0, <2>4, <3>1, EntriesSound, DirsChange DEF RecoverRemoveMeta
    <2>5. CASE QuarantineSource
      <3>1. dir.loc = "src"
        BY <1>0, <2>5, SoundMeans DEF QuarantineSource, MustQuarantine, CanRecover, HasMeta,
           StepInv, DirSound
      <3>2. ChangeDir([dir EXCEPT !.loc = "failed"])
        BY <2>5, <3>1 DEF QuarantineSource
      <3>. QED BY <1>0, <3>1, <3>2, EntriesSound, DirsChange
    <2>6. CASE QuarantineMeta
      <3>1. dir.loc = "failed"
        BY <2>6 DEF QuarantineMeta, Step, StepInv
      <3>. QED BY <1>0, <2>6, <3>1, EntriesSound, DirsChange DEF QuarantineMeta
    <2>7. CASE QuarantineMetaFails
      <3>1. dir.loc = "failed" /\ dir.meta.life # "none"
        BY <2>7 DEF QuarantineMetaFails, Step, StepInv
      <3>. QED BY <1>0, <2>7, <3>1, EntriesSound, DirsChange DEF QuarantineMetaFails
    <2>8. CASE RecoverFinalizing
      <3>1. dir.loc = "src" /\ Sound(mem) /\ ~RecordsNothing(mem)
        BY <2>8 DEF RecoverFinalizing, Step, StepInv, MemSound, MemSteps, RepairSteps
      <3>2. /\ mem' \in Metadata /\ mem'.life = "finalizing" /\ Sound(mem')
            /\ ~RecordsNothing(mem')
        BY <1>0, <2>8, <3>1, MetaChanges DEF RecoverFinalizing
      <3>. QED BY <1>0, <2>8, <3>1, <3>2, EntriesSound, DirsChange DEF RecoverFinalizing
    <2>9. CASE RecoverRename
      <3>1. dir.meta = mem /\ mem.life = "finalizing" /\ ~RecordsNothing(mem)
        BY <2>9 DEF RecoverRename, Step, StepInv, MemSound, RepairSteps
      <3>. QED BY <1>0, <2>9, <3>1, EntriesSound, DirsChange DEF RecoverRename
    <2>10. CASE RecoverRenameFails
      <3>1. dir.loc = "src" /\ Sound(saved) /\ saved.life # "none"
        BY <2>10 DEF RecoverRenameFails, Step, StepInv, MemSound, RepairSteps
      <3>. QED BY <1>0, <2>10, <3>1, EntriesSound, DirsChange DEF RecoverRenameFails
    <2>11. CASE RecoverZone
      <3>1. dir.loc = "fin" /\ dir.len = mem.len
        BY <2>11 DEF RecoverZone, Step, StepInv
      <3>. DEFINE e == [dir EXCEPT !.zone = dir.len]
      <3>7. DirSound(e) /\ e.loc = dir.loc
        BY <1>0, <3>1, EntriesSound
      <3>8. SyncThenChangeDir(e)
        BY <2>11, <3>1 DEF RecoverZone
      <3>. HIDE DEF e
      <3>. QED BY <1>0, <3>7, <3>8, DirsChange
    <2>12. CASE RecoverDropMeta
      <3>1. dir.loc = "fin" /\ dir.zone = dir.len
        BY <2>12 DEF RecoverDropMeta, Step, StepInv
      <3>. DEFINE e == [dir EXCEPT !.meta = NoMeta]
      <3>7. DirSound(e) /\ e.loc = dir.loc
        BY <1>0, <3>1, EntriesSound
      <3>8. SyncThenChangeDir(e)
        BY <2>12, <3>1 DEF RecoverDropMeta
      <3>. HIDE DEF e
      <3>. QED BY <1>0, <3>7, <3>8, DirsChange
    <2>13. CASE \/ RecoverNothing \/ RecoverRetains \/ RecoverEmpty \/ RecoverActivitySync
                \/ RecoverUnlink \/ RecoverValidated \/ RepairTruncate \/ RepairSync
                \/ RecoverDone
      BY <1>1, <2>13
      DEF RecoverNothing, RecoverRetains, RecoverEmpty, RecoverActivitySync, RecoverUnlink,
          RecoverValidated, RepairTruncate, RepairSync, RecoverDone
    <2>. QED BY <1>5, <2>1, <2>2, <2>3, <2>4, <2>5, <2>6, <2>7, <2>8, <2>9, <2>10, <2>11,
         <2>12, <2>13 DEF recover_candidate
  <1>6. CASE PowerLoss
    BY <1>6 DEF PowerLoss, DirsSound, Dirs
  <1>7. CASE Tick \/ Kill \/ Rest
    BY <1>1, <1>7 DEF Tick, Kill, Rest, vars, dirVars
  <1>. QED BY <1>2, <1>3, <1>4, <1>5, <1>6, <1>7 DEF Next

\* The metadata in memory is that of the segment, whole, at every step that
\* still uses it.
LEMMA MemSoundStep ==
    ASSUME TypeOK, AckedInv, SegmentInv, Next
    PROVE  MemSound'
  <1>. USE DEF SegmentInv
  <1>0. /\ dir \in Directory /\ DirSound(dir) /\ dir.meta \in Metadata
        /\ mem \in Metadata /\ saved \in Metadata /\ elapsed \in Nat /\ cur \in File
        /\ NoMeta.life = "none"
    BY DirectoryFields DEF TypeOK, DirsSound, Dirs, NoMeta
  <1>1. CASE create_with_faults
    <2>1. CASE create_metadata
      <3>. DEFINE m == [NoMeta EXCEPT !.life = "creating"]
      <3>1. m \in Metadata /\ m.life = "creating" /\ RecordsNothing(m)
        BY NoMetaType DEF Metadata, Lifecycle, RecordsNothing, NoMeta
      <3>2. Numbered(m)
        <4>1. m.count = 0 /\ \A f \in File : m.rec[f] = {}
          BY DEF NoMeta
        <4>2. RecordedIds(m) = {}
          BY <4>1 DEF RecordedIds, File
        <4>3. \A x, y \in Session : m.rec[x] \cap m.rec[y] = {}
          BY <4>1 DEF File
        <4>4. 1..0 = {} /\ 0 <= MaxFrames
          BY ConstantsAssumption
        <4>. HIDE DEF m
        <4>. QED BY <4>1, <4>2, <4>3, <4>4 DEF Numbered
      <3>3. mem' = record_length(m, 0) /\ pc' = "created_meta"
        BY <2>1 DEF create_metadata, Step
      <3>4. Sound(mem') /\ mem'.life = "creating"
        <4>1. Sound(m)
          BY <3>1, <3>2 DEF Sound
        <4>. HIDE DEF m
        <4>. QED BY <3>1, <3>3, <4>1, MetaChanges
      <3>. QED BY <3>3, <3>4 DEF MemSound, AppendSteps, RepairSteps, FinalSteps, JsonStage,
           MetaStage, UndoSteps
    <2>2. CASE create_directory
      BY <2>2 DEF create_directory, Step, MemSound, MemSteps, AppendSteps, RepairSteps,
         FinalSteps, JsonStage, MetaStage, UndoSteps
    <2>3. CASE create_open
      <3>1. Sound(mem) /\ pc' = "created_open" /\ mem' = [mem EXCEPT !.life = "open"]
        BY <2>3 DEF create_open, Step, MemSound, MemSteps
      <3>2. Sound(mem') /\ mem'.life = "open"
        BY <1>0, <3>1, MetaChanges
      <3>. QED BY <3>1, <3>2 DEF MemSound, AppendSteps, RepairSteps, FinalSteps, JsonStage,
           MetaStage, UndoSteps
    <2>4. CASE create_done
      BY <2>4 DEF create_done, Step, MemSound, MemSteps, AppendSteps, RepairSteps,
         FinalSteps, JsonStage, MetaStage, UndoSteps
    <2>. QED BY <1>1, <2>1, <2>2, <2>3, <2>4 DEF create_with_faults
  <1>2. CASE append_frame
    <2>1. ASSUME NEW f \in File, BeginAppend(f) PROVE MemSound'
      <3>1. dir.loc = "src" /\ pc = "open" /\ pc' = "append_open" /\ saved' = dir.meta /\ mem' = mem
        BY <2>1 DEF BeginAppend, CanAppend, AckedInv, PlaceInv, Writing, Dirs
      <3>2. Sound(saved') /\ saved'.life # "none"
        BY <1>0, <3>1 DEF DirSound
      <3>. QED BY <3>1, <3>2 DEF MemSound, MemSteps, AppendSteps, RepairSteps, FinalSteps,
           JsonStage, MetaStage, UndoSteps
    <2>2. CASE CommitAppend
      <3>1. /\ pc = "meta_sync" /\ pc' = "open" /\ mem' = Proposed(cur)
            /\ Sound(mem) /\ mem.life \in {"open", "finalizing"}
            /\ cur # Activity => NextId(cur) <= MaxFrames
        BY <2>2 DEF CommitAppend, Step, MemSound, MemSteps, AppendSteps, MetaStage, LinesInv
      <3>2. Sound(mem') /\ mem'.life \in {"open", "finalizing"}
        BY <1>0, <3>1, ProposedSound
      <3>. QED BY <3>1, <3>2 DEF MemSound, AppendSteps, RepairSteps, FinalSteps, JsonStage,
           MetaStage, UndoSteps
    <2>3. CASE \/ AppendReadFails \/ OpenJsonl \/ WritePart \/ WriteRest \/ SyncJsonl
               \/ WriteMetadata \/ AppendFails \/ RollbackTruncate \/ RestoreMetadata
      BY <2>3 DEF AppendReadFails, OpenJsonl, WritePart, WriteRest, SyncJsonl, CanAppend,
         WriteMetadata, AppendFails, RollbackTruncate, RestoreMetadata, appendVars, Step,
         MemSound, MemSteps, AppendSteps, RepairSteps, FinalSteps, JsonStage, MetaStage,
         UndoSteps
    <2>4. CASE RollbackNothing \/ RollbackSync \/ RollbackFails \/ RestoreSync \/ RestoreFails
      <3>1. /\ pc \in UndoSteps /\ mem' = mem
            /\ pc' = "open" \/ (pc' = "undo_meta" /\ saved' = saved)
        BY <2>4 DEF RollbackNothing, RollbackSync, RollbackFails, RestoreSync, RestoreFails,
           Recoverable, Poison, appendVars, UndoSteps
      <3>. QED BY <3>1 DEF MemSound, MemSteps, AppendSteps, RepairSteps, FinalSteps,
           JsonStage, MetaStage, UndoSteps
    <2>. QED BY <1>2, <2>1, <2>2, <2>3, <2>4 DEF append_frame
  <1>3. CASE finalize
    <2>1. ASSUME NEW s \in BOOLEAN, BeginFinalize(s) PROVE MemSound'
      <3>1. /\ pc = "open" /\ Sound(mem) /\ ~RecordsNothing(mem) /\ pc' = "final_sync"
            /\ mem' = [record_length(mem, elapsed) EXCEPT !.life = "finalizing"]
        BY <2>1 DEF BeginFinalize, FinalizeCalled, MemSound, MemSteps
      <3>2. mem'.life = "finalizing" /\ Sound(mem') /\ ~RecordsNothing(mem')
        <4>. DEFINE r == record_length(mem, elapsed)
        <4>1. r \in Metadata /\ Sound(r) /\ ~RecordsNothing(r)
          BY <1>0, <3>1, MetaChanges
        <4>2. mem' = [r EXCEPT !.life = "finalizing"]
          BY <3>1
        <4>. HIDE DEF r
        <4>. QED BY <4>1, <4>2, MetaChanges
      <3>. QED BY <3>1, <3>2 DEF MemSound, AppendSteps, RepairSteps, FinalSteps, JsonStage,
           MetaStage, UndoSteps
    <2>2. ASSUME NEW s \in BOOLEAN, BeginRemoveEmpty(s) PROVE MemSound'
      BY <2>2 DEF BeginRemoveEmpty, FinalizeCalled, MemSound, MemSteps, AppendSteps,
         RepairSteps, FinalSteps, JsonStage, MetaStage, UndoSteps
    <2>3. CASE PoisonedExit \/ FinalizeCollides \/ RemoveEmptyRefused \/ FinalizeFails
      <3>1. pc' = "down" \/ (pc \in FinalSteps /\ pc' = "open" /\ mem' = mem)
        BY <2>3 DEF PoisonedExit, FinalizeCollides, RemoveEmptyRefused, FinalizeFails,
           FinalizeError, Forget, FinalSteps
      <3>. QED BY <3>1 DEF MemSound, MemSteps, AppendSteps, RepairSteps, FinalSteps,
           JsonStage, MetaStage, UndoSteps
    <2>4. CASE \/ RenameFinalized \/ WriteZone \/ RemoveMetadata \/ FinalizeDone
               \/ UnlinkEmpty \/ RemoveEmptyDir \/ RemoveEmptyMeta
      BY <2>4 DEF RenameFinalized, WriteZone, RemoveMetadata, FinalizeDone, UnlinkEmpty,
         RemoveEmptyDir, RemoveEmptyMeta, Step, MemSound, MemSteps, AppendSteps,
         RepairSteps, FinalSteps, JsonStage, MetaStage, UndoSteps
    <2>. QED BY <1>3, <2>1, <2>2, <2>3, <2>4 DEF finalize
  <1>4. CASE recover_candidate
    <2>1. CASE RecoverValidated
      <3>1. /\ pc' = "recover_repair" /\ saved' = dir.meta
            /\ dir.meta.life # "none" /\ ~RecordsNothing(dir.meta)
        BY <2>1 DEF RecoverValidated, CanRecover, HasMeta
      <3>2. Sound(dir.meta) /\ dir.meta.len \in Nat
        BY <1>0, <3>1, MetadataFields DEF DirSound
      <3>. DEFINE r == record_length(dir.meta, dir.meta.len)
      <3>3. /\ r \in Metadata /\ Sound(r) /\ ~RecordsNothing(r) /\ r.life # "none"
            /\ r.rec = dir.meta.rec
        <4>1. dir.meta \in Metadata /\ r.life = dir.meta.life
          BY <1>0, <3>2, MetaChanges
        <4>2. r \in Metadata /\ Sound(r) /\ r.rec = dir.meta.rec
          BY <1>0, <3>2, MetaChanges
        <4>3. ~RecordsNothing(r)
          BY <1>0, <3>1, <3>2, MetaChanges
        <4>. QED BY <3>1, <4>1, <4>2, <4>3
      <3>4. PICK n \in 0..MaxFrames :
               RecordedIds(dir.meta) = 1..n /\ mem' = [r EXCEPT !.count = n]
        BY <2>1 DEF RecoverValidated
      <3>5. n = r.count
        <4>1. n \in Nat
          BY ConstantsAssumption
        <4>2. RecordedIds(r) = RecordedIds(dir.meta)
          BY <3>3 DEF RecordedIds
        <4>. HIDE DEF r
        <4>. QED BY <3>3, <3>4, <4>1, <4>2, SoundMeans
      <3>6. mem' = r
        <4>. HIDE DEF r
        <4>. QED BY <3>3, <3>4, <3>5 DEF Metadata
      <3>. HIDE DEF r
      <3>. QED BY <3>1, <3>2, <3>3, <3>6 DEF MemSound, AppendSteps, RepairSteps, FinalSteps,
           JsonStage, MetaStage, UndoSteps
    <2>2. CASE RecoverFinalizing
      <3>1. /\ Sound(mem) /\ ~RecordsNothing(mem) /\ Sound(saved) /\ saved.life # "none"
            /\ saved' = saved /\ pc' = "recover_rename"
            /\ mem' = [mem EXCEPT !.life = "finalizing"]
        BY <2>2 DEF RecoverFinalizing, Step, MemSound, MemSteps, RepairSteps
      <3>2. Sound(mem') /\ mem'.life = "finalizing" /\ ~RecordsNothing(mem')
        BY <1>0, <3>1, MetaChanges
      <3>. QED BY <3>1, <3>2 DEF MemSound, AppendSteps, RepairSteps, FinalSteps, JsonStage,
           MetaStage, UndoSteps
    <2>3. CASE \/ RecoverNothing \/ RecoverRetains \/ RecoverOrphanEmpty
               \/ RecoverOrphanFinalized \/ RecoverEmpty \/ RecoverActivitySync
               \/ RecoverUnlink \/ RecoverRemoveDir \/ RecoverRemoveMeta
               \/ QuarantineSource \/ QuarantineMeta \/ QuarantineMetaFails
               \/ RecoverRename \/ RecoverRenameFails \/ RecoverZone \/ RecoverDropMeta
               \/ RecoverDone
      <3>1. pc' \in {"up", "down", "recover_last", "recover_zoned", "recover_act",
                     "recover_empty", "recover_meta", "quarantine_meta", "recover_named"}
        BY <2>3 DEF RecoverNothing, RecoverRetains, RecoverOrphanEmpty,
           RecoverOrphanFinalized, RecoverEmpty, RecoverActivitySync, RecoverUnlink,
           RecoverRemoveDir, RecoverRemoveMeta, QuarantineSource, QuarantineMeta,
           QuarantineMetaFails, RecoverRename, RecoverRenameFails, RecoverZone,
           RecoverDropMeta, RecoverDone, Step, Forget
      <3>. QED BY <3>1 DEF MemSound, MemSteps, AppendSteps, RepairSteps, FinalSteps,
           JsonStage, MetaStage, UndoSteps
    <2>4. CASE RepairTruncate \/ RepairSync
      BY <2>4 DEF RepairTruncate, RepairSync, Step, MemSound, MemSteps, AppendSteps,
         RepairSteps, FinalSteps, JsonStage, MetaStage, UndoSteps
    <2>. QED BY <1>4, <2>1, <2>2, <2>3, <2>4 DEF recover_candidate
  <1>5. CASE Tick \/ Rest
    BY <1>5 DEF Tick, Rest, vars, appendVars, MemSound, MemSteps, AppendSteps, RepairSteps,
       FinalSteps, JsonStage, MetaStage, UndoSteps
  <1>6. CASE Kill \/ PowerLoss
    <2>1. pc' = "down"
      BY <1>6 DEF Kill, PowerLoss, Forget
    <2>. QED BY <2>1 DEF MemSound, MemSteps, AppendSteps, RepairSteps, FinalSteps,
         JsonStage, MetaStage, UndoSteps
  <1>. QED BY <1>1, <1>2, <1>3, <1>4, <1>5, <1>6 DEF Next

\* Every step of create, finalize and recovery leaves the disk the next finds.
LEMMA StepInvStep ==
    ASSUME TypeOK, AckedInv, SegmentInv, Next
    PROVE  StepInv'
  <1>. USE DEF SegmentInv
  <1>0. dir \in Directory /\ DirSound(dir) /\ dir.meta \in Metadata /\ mem \in Metadata
        /\ elapsed \in Nat
    BY DirectoryFields DEF TypeOK, DirsSound, Dirs
  <1>1. ASSUME pc' \in {"created_open", "open", "final_last", "closed", "empty_scan", "down",
                        "up", "recover_last"} \cup AppendSteps
        PROVE  StepInv'
    BY <1>1 DEF StepInv, RepairSteps, AppendSteps, JsonStage, MetaStage, UndoSteps
  <1>2. CASE create_with_faults
    <2>1. CASE create_metadata
      <3>1. /\ pc' = "created_meta" /\ dir.loc = "none"
            /\ dir' = [dir EXCEPT !.meta = mem']
            /\ mem' = record_length([NoMeta EXCEPT !.life = "creating"], 0)
        BY <2>1 DEF create_metadata, Step, StepInv, ChangeDir
      <3>2. mem'.life = "creating"
        BY <3>1 DEF record_length, NoMeta
      <3>. QED BY <1>0, <3>1, <3>2 DEF StepInv, RepairSteps, Directory
    <2>2. CASE create_directory
      BY <2>2 DEF create_directory, Step, StepInv, RepairSteps
    <2>3. CASE create_open \/ create_done
      BY <1>1, <2>3 DEF create_open, create_done, Step
    <2>. QED BY <1>2, <2>1, <2>2, <2>3 DEF create_with_faults
  <1>3. CASE append_frame
    <2>1. pc' \in {"open"} \cup AppendSteps
      BY <1>3 DEF append_frame, BeginAppend, CanAppend, AppendReadFails, OpenJsonl,
         WritePart, WriteRest, SyncJsonl, WriteMetadata, CommitAppend, AppendFails,
         RollbackNothing, RollbackTruncate, RollbackSync, RollbackFails, RestoreMetadata,
         RestoreSync, RestoreFails, Recoverable, Poison, Step, AppendSteps, JsonStage,
         MetaStage, UndoSteps
    <2>. QED BY <1>1, <2>1
  <1>4. CASE finalize
    <2>1. ASSUME NEW s \in BOOLEAN, BeginFinalize(s) PROVE StepInv'
      <3>1. /\ pc' = "final_sync" /\ dir' = [dir EXCEPT !.meta = mem']
            /\ mem' = [record_length(mem, elapsed) EXCEPT !.life = "finalizing"]
        BY <2>1 DEF BeginFinalize, ChangeDir
      <3>2. mem'.life = "finalizing"
        BY <1>0, <3>1 DEF record_length, Metadata
      <3>. QED BY <1>0, <3>1, <3>2 DEF StepInv, RepairSteps, Directory
    <2>2. ASSUME NEW s \in BOOLEAN, BeginRemoveEmpty(s) PROVE StepInv'
      BY <1>1, <2>2 DEF BeginRemoveEmpty
    <2>3. CASE RenameFinalized
      BY <1>0, <2>3 DEF RenameFinalized, Step, StepInv, RepairSteps, SyncThenChangeDir,
         Directory
    <2>4. CASE WriteZone
      BY <1>0, <2>4 DEF WriteZone, Step, StepInv, RepairSteps, SyncThenChangeDir, Directory
    <2>5. CASE RemoveEmptyDir
      BY <1>0, <2>5 DEF RemoveEmptyDir, Step, StepInv, RepairSteps, ChangeDir, Directory
    <2>6. CASE UnlinkEmpty
      BY <1>1, <2>6 DEF UnlinkEmpty
    <2>7. CASE PoisonedExit \/ FinalizeCollides \/ RemoveEmptyRefused \/ FinalizeFails
      <3>1. pc' \in {"down", "open"}
        BY <2>7 DEF PoisonedExit, FinalizeCollides, RemoveEmptyRefused, FinalizeFails,
           FinalizeError, Forget
      <3>. QED BY <1>1, <3>1
    <2>8. CASE RemoveMetadata \/ FinalizeDone \/ RemoveEmptyMeta
      BY <1>1, <2>8 DEF RemoveMetadata, FinalizeDone, RemoveEmptyMeta, Step
    <2>. QED BY <1>4, <2>1, <2>2, <2>3, <2>4, <2>5, <2>6, <2>7, <2>8 DEF finalize
  <1>5. CASE recover_candidate
    <2>1. CASE RecoverOrphanFinalized
      <3>1. dir.loc = "fin" /\ dir.len = dir.meta.len
        BY <2>1 DEF RecoverOrphanFinalized, OrphanFinalized
      <3>2. pc' = "recover_zoned" /\ dir' = [dir EXCEPT !.zone = dir.meta.len]
        BY <2>1 DEF RecoverOrphanFinalized, Step, ChangeDir
      <3>. QED BY <1>0, <3>1, <3>2 DEF StepInv, RepairSteps, Directory
    <2>2. CASE RecoverEmpty
      <3>1. pc' \in {"recover_act", "recover_empty"} /\ dir' = dir /\ dir.loc = "src"
        BY <2>2 DEF RecoverEmpty, CanRecover, dirVars
      <3>. QED BY <3>1 DEF StepInv, RepairSteps
    <2>3. CASE RecoverActivitySync \/ RecoverUnlink \/ RepairTruncate \/ RepairSync
      <3>1. /\ pc' \in {"recover_empty", "recover_repair", "recover_repair_sync"}
            /\ dir' = dir /\ dir.loc = "src"
        BY <2>3 DEF RecoverActivitySync, RecoverUnlink, RepairTruncate, RepairSync, Step,
           dirVars, StepInv, RepairSteps
      <3>. QED BY <3>1 DEF StepInv, RepairSteps
    <2>4. CASE RecoverRemoveDir
      BY <1>0, <2>4 DEF RecoverRemoveDir, Step, StepInv, RepairSteps, ChangeDir, Directory
    <2>5. CASE QuarantineSource
      <3>1. dir.loc = "src"
        BY <1>0, <2>5, SoundMeans DEF QuarantineSource, MustQuarantine, CanRecover, HasMeta,
           StepInv, DirSound
      <3>2. dir.meta.life # "none"
        BY <1>0, <3>1 DEF DirSound
      <3>3. pc' = "quarantine_meta" /\ dir' = [dir EXCEPT !.loc = "failed"]
        BY <2>5, <3>1 DEF QuarantineSource, ChangeDir
      <3>. QED BY <1>0, <3>2, <3>3 DEF StepInv, RepairSteps, Directory
    <2>6. CASE RecoverValidated
      <3>1. pc' = "recover_repair" /\ dir' = dir /\ dir.loc = "src"
        BY <2>6 DEF RecoverValidated, CanRecover, dirVars
      <3>. QED BY <3>1 DEF StepInv, RepairSteps
    <2>7. CASE RecoverFinalizing
      <3>1. /\ pc' = "recover_rename" /\ dir' = [dir EXCEPT !.meta = mem'] /\ dir.loc = "src"
            /\ mem' = [mem EXCEPT !.life = "finalizing"]
        BY <2>7 DEF RecoverFinalizing, Step, StepInv, RepairSteps, ChangeDir
      <3>2. mem'.life = "finalizing"
        BY <1>0, <3>1 DEF Metadata
      <3>. QED BY <1>0, <3>1, <3>2 DEF StepInv, RepairSteps, Directory
    <2>8. CASE RecoverRename
      BY <1>0, <2>8 DEF RecoverRename, Step, StepInv, RepairSteps, SyncThenChangeDir,
         Directory
    <2>9. CASE RecoverZone
      BY <1>0, <2>9 DEF RecoverZone, Step, StepInv, RepairSteps, SyncThenChangeDir, Directory
    <2>10. CASE \/ RecoverNothing \/ RecoverRetains \/ RecoverOrphanEmpty
                \/ RecoverRemoveMeta \/ QuarantineMeta \/ QuarantineMetaFails
                \/ RecoverRenameFails \/ RecoverDropMeta \/ RecoverDone
      BY <1>1, <2>10 DEF RecoverNothing, RecoverRetains, RecoverOrphanEmpty,
         RecoverRemoveMeta, QuarantineMeta, QuarantineMetaFails, RecoverRenameFails,
         RecoverDropMeta, RecoverDone, Step, Forget
    <2>. QED BY <1>5, <2>1, <2>2, <2>3, <2>4, <2>5, <2>6, <2>7, <2>8, <2>9, <2>10
         DEF recover_candidate
  <1>6. CASE Tick \/ Kill \/ PowerLoss
    BY <1>1, <1>6 DEF Tick, Kill, PowerLoss, Forget
  <1>7. CASE Rest
    BY <1>1, <1>7 DEF Rest, vars
  <1>. QED BY <1>2, <1>3, <1>4, <1>5, <1>6, <1>7 DEF Next

\* Wherever finalize stops, a later call derives the LEN of the name it gave.
LEMMA LenInvStep ==
    ASSUME TypeOK, AckedInv, SegmentInv, Next
    PROVE  LenInv'
  <1>. USE DEF SegmentInv
  <1>0. /\ dir \in Directory /\ dir' \in Directory /\ mem \in Metadata
        /\ stopping \in BOOLEAN
    BY TypeStep DEF TypeOK
  <1>1. PICK e \in Nat, e2 \in Nat : elapsed = e /\ elapsed' = e2
    BY TypeStep DEF TypeOK
  <1>2. PICK I \in Nat : Interval = I
    BY ConstantsAssumption
  <1>3. e >= I => segment_length(e) = Max2(I, 1)
    BY <1>2 DEF segment_length, Min2, Max2
  <1>4. ASSUME pc' \notin FinalSteps \cup {"open"} PROVE LenInv'
    BY <1>4 DEF LenInv, FinalSteps
  <1>5. CASE create_with_faults
    <2>1. pc' # "open" \/ dir' = dir
      BY <1>5 DEF create_with_faults, create_metadata, create_directory, create_open,
         create_done, Step, sync_directory
    <2>2. pc' \in {"created_meta", "created_dir", "created_open"} \/ (pc' = "open" /\ dir.loc = "src")
      BY <1>5 DEF create_with_faults, create_metadata, create_directory, create_open,
         create_done, Step, AckedInv, PlaceInv, Writing, Dirs
    <2>. QED BY <1>4, <2>1, <2>2 DEF LenInv, FinalSteps
  <1>6. CASE append_frame
    <2>1. /\ pc' \in {"open"} \cup AppendSteps
          /\ pc \in {"open"} \cup AppendSteps
      BY <1>6 DEF append_frame, BeginAppend, CanAppend, AppendReadFails, OpenJsonl,
         WritePart, WriteRest, SyncJsonl, WriteMetadata, CommitAppend, AppendFails,
         RollbackNothing, RollbackTruncate, RollbackSync, RollbackFails, RestoreMetadata,
         RestoreSync, RestoreFails, Recoverable, Poison, Step, AppendSteps, JsonStage,
         MetaStage, UndoSteps
    <2>2. pc' = "open" => dir' = dir /\ dir.loc = "src"
      BY <1>6 DEF append_frame, BeginAppend, CanAppend, AppendReadFails, OpenJsonl,
         WritePart, WriteRest, SyncJsonl, WriteMetadata, CommitAppend, AppendFails,
         RollbackNothing, RollbackTruncate, RollbackSync, RollbackFails, RestoreMetadata,
         RestoreSync, RestoreFails, Step, dirVars, sync_directory, AckedInv, PlaceInv,
         Writing, Dirs, JsonStage, MetaStage, UndoSteps
    <2>. QED BY <2>1, <2>2 DEF LenInv, FinalSteps, AppendSteps, JsonStage, MetaStage,
         UndoSteps
  <1>7. CASE finalize
    <2>1. ASSUME NEW s \in BOOLEAN, BeginFinalize(s) PROVE LenInv'
      <3>1. /\ pc = "open" /\ pc' = "final_sync" /\ stopping' = s /\ elapsed' = elapsed
            /\ s \/ elapsed >= Interval
            /\ dir' = [dir EXCEPT !.meta = mem']
            /\ mem' = [record_length(mem, elapsed) EXCEPT !.life = "finalizing"]
        BY <2>1 DEF BeginFinalize, FinalizeCalled, ChangeDir
      <3>2. mem'.len = segment_length(elapsed)
        BY <1>0, <3>1 DEF record_length, Metadata
      <3>3. dir'.loc = dir.loc /\ dir'.len = dir.len
        BY <1>0, <3>1 DEF Directory
      <3>4. dir.loc = "fin" => dir.len = segment_length(elapsed)
        BY <1>1, <1>2, <1>3, <3>1 DEF LenInv
      <3>. QED BY <3>1, <3>2, <3>3, <3>4 DEF LenInv
    <2>2. ASSUME NEW s \in BOOLEAN, BeginRemoveEmpty(s) PROVE LenInv'
      <3>1. /\ pc = "open" /\ pc' = "empty_scan" /\ stopping' = s /\ elapsed' = elapsed
            /\ s \/ elapsed >= Interval
            /\ dir' = dir
        BY <2>2 DEF BeginRemoveEmpty, FinalizeCalled, dirVars
      <3>2. dir.loc = "fin" => dir.len = segment_length(elapsed)
        BY <1>1, <1>2, <1>3, <3>1 DEF LenInv
      <3>. QED BY <3>1, <3>2 DEF LenInv
    <2>3. CASE RenameFinalized
      <3>1. /\ pc = "final_sync" /\ pc' = "final_named" /\ elapsed' = elapsed
            /\ stopping' = stopping /\ dir' = [dir EXCEPT !.loc = "fin", !.len = mem.len]
        BY <2>3 DEF RenameFinalized, Step, SyncThenChangeDir, flagVars
      <3>2. dir'.len = mem.len
        BY <1>0, <3>1 DEF Directory
      <3>. QED BY <3>1, <3>2 DEF LenInv, FinalSteps
    <2>4. CASE \/ WriteZone \/ RemoveMetadata \/ FinalizeDone \/ UnlinkEmpty
               \/ RemoveEmptyDir \/ RemoveEmptyMeta
      <3>1. /\ pc \in FinalSteps /\ pc' \in FinalSteps \cup {"closed"} /\ pc' # "final_sync"
            /\ elapsed' = elapsed /\ stopping' = stopping
        BY <2>4 DEF WriteZone, RemoveMetadata, FinalizeDone, UnlinkEmpty, RemoveEmptyDir,
           RemoveEmptyMeta, Step, flagVars, FinalSteps
      <3>2. dir'.loc = "fin" => dir.loc = "fin" /\ dir'.len = dir.len
        BY <1>0, <2>4 DEF WriteZone, RemoveMetadata, FinalizeDone, UnlinkEmpty,
           RemoveEmptyDir, RemoveEmptyMeta, SyncThenChangeDir, ChangeDir, sync_directory,
           dirVars, Directory
      <3>. QED BY <3>1, <3>2 DEF LenInv, FinalSteps
    <2>5. CASE PoisonedExit \/ FinalizeCollides \/ RemoveEmptyRefused \/ FinalizeFails
      <3>1. /\ dir' = dir
            /\ \/ pc' = "down"
               \/ pc \in FinalSteps /\ ~stopping /\ pc' = "open" /\ elapsed' = elapsed
        BY <2>5 DEF PoisonedExit, FinalizeCollides, RemoveEmptyRefused, FinalizeFails,
           FinalizeError, Forget, FinalSteps, sync_directory, dirVars
      <3>. QED BY <1>1, <1>2, <1>3, <3>1 DEF LenInv, FinalSteps
    <2>. QED BY <1>7, <2>1, <2>2, <2>3, <2>4, <2>5 DEF finalize
  <1>8. CASE recover_candidate
    <2>1. pc' \in RecoverSteps \cup {"up", "down"}
      BY <1>8 DEF recover_candidate, RecoverNothing, RecoverRetains, RecoverOrphanEmpty,
         RecoverOrphanFinalized, RecoverEmpty, RecoverActivitySync, RecoverUnlink,
         RecoverRemoveDir, RecoverRemoveMeta, QuarantineSource, QuarantineMeta,
         QuarantineMetaFails, RecoverValidated, RepairTruncate, RepairSync,
         RecoverFinalizing, RecoverRename, RecoverRenameFails, RecoverZone,
         RecoverDropMeta, RecoverDone, Step, Forget, RecoverSteps
    <2>. QED BY <1>4, <2>1 DEF RecoverSteps, FinalSteps
  <1>9. CASE Tick
    <2>1. pc = "open" /\ pc' = "open" /\ dir' = dir /\ e2 = e + 1
      BY <1>1, <1>9 DEF Tick, dirVars
    <2>. QED BY <1>1, <1>2, <2>1 DEF LenInv, FinalSteps
  <1>10. CASE Kill \/ PowerLoss \/ Rest
    BY <1>4, <1>10 DEF Kill, PowerLoss, Rest, Forget, vars, FinalSteps
  <1>. QED BY <1>5, <1>6, <1>7, <1>8, <1>9, <1>10 DEF Next

\* No step leaves lines in a file that is not there.
LEMMA ShapeStep ==
    ASSUME TypeOK, ShapeInv, Next
    PROVE  ShapeInv'
  <1>0. files \in [File -> Content] /\ fileLost \in [File -> SUBSET Content]
    BY DEF TypeOK
  <1>1. ASSUME NEW f \in File, NEW c, c.here \/ c = NoFile, ChangeFile(f, c) PROVE ShapeInv'
    BY <1>0, <1>1 DEF ChangeFile, ShapeInv, Contents
  <1>2. ASSUME \A f \in File : files'[f] = files[f] /\ fileLost'[f] \subseteq fileLost[f]
        PROVE  ShapeInv'
    BY <1>2 DEF ShapeInv, Contents
  <1>3. ASSUME NEW f \in File, sync_all(f) \/ SyncFileAndEntry(f) PROVE ShapeInv'
    <2>1. \A g \in File : files'[g] = files[g] /\ fileLost'[g] \subseteq fileLost[g]
      BY <1>0, <1>3 DEF sync_all, SyncFileAndEntry
    <2>. QED BY <1>2, <2>1
  <1>4. ASSUME UNCHANGED fileVars PROVE ShapeInv'
    BY <1>2, <1>4 DEF fileVars
  <1>5. /\ EmptyFile.here /\ \A r : Truncated(r).here
        /\ \A x \in Content : [x EXCEPT !.torn = TRUE].here = x.here
        /\ cur \in File /\ Activity \in File
    BY DEF EmptyFile, Truncated, Content, TypeOK, File
  <1>6. CASE create_with_faults
    BY <1>4, <1>6 DEF create_with_faults, create_metadata, create_directory, create_open,
       create_done
  <1>7. CASE append_frame
    <2>1. CASE OpenJsonl
      BY <1>1, <1>4, <1>5, <2>1 DEF OpenJsonl
    <2>2. CASE WritePart
      BY <1>0, <1>1, <1>5, <2>2 DEF WritePart
    <2>3. CASE WriteRest
      BY <1>1, <1>5, <2>3 DEF WriteRest
    <2>4. CASE RollbackTruncate
      BY <1>1, <1>5, <2>4 DEF RollbackTruncate
    <2>5. CASE SyncJsonl \/ RollbackSync
      BY <1>3, <1>5, <2>5 DEF SyncJsonl, RollbackSync
    <2>6. CASE /\ append_frame
               /\ ~(OpenJsonl \/ WritePart \/ WriteRest \/ RollbackTruncate \/ SyncJsonl
                    \/ RollbackSync)
      BY <1>4, <2>6 DEF append_frame, BeginAppend, AppendReadFails, WriteMetadata,
         CommitAppend, AppendFails, RollbackNothing, RollbackFails, RestoreMetadata,
         RestoreSync, RestoreFails
    <2>. QED BY <1>7, <2>1, <2>2, <2>3, <2>4, <2>5, <2>6
  <1>8. CASE finalize
    <2>1. ASSUME NEW s \in BOOLEAN, BeginRemoveEmpty(s) PROVE ShapeInv'
      <3>1. \A g \in File : files'[g] = files[g] /\ fileLost'[g] \subseteq fileLost[g]
        BY <2>1 DEF BeginRemoveEmpty
      <3>. QED BY <1>2, <3>1
    <2>2. CASE RenameFinalized
      <3>1. \A g \in File : files'[g] = files[g] /\ fileLost'[g] \subseteq fileLost[g]
        BY <2>2 DEF RenameFinalized
      <3>. QED BY <1>2, <3>1
    <2>3. CASE UnlinkEmpty
      BY <1>1, <2>3 DEF UnlinkEmpty, HereFiles
    <2>4. ASSUME NEW s \in BOOLEAN, BeginFinalize(s) PROVE ShapeInv'
      BY <1>4, <2>4 DEF BeginFinalize
    <2>5. CASE \/ PoisonedExit \/ FinalizeCollides \/ WriteZone \/ RemoveMetadata
               \/ FinalizeDone \/ FinalizeFails \/ RemoveEmptyDir \/ RemoveEmptyMeta
               \/ RemoveEmptyRefused
      BY <1>4, <2>5 DEF PoisonedExit, FinalizeCollides, WriteZone, RemoveMetadata,
         FinalizeDone, FinalizeFails, RemoveEmptyDir, RemoveEmptyMeta, RemoveEmptyRefused
    <2>. QED BY <1>8, <2>1, <2>2, <2>3, <2>4, <2>5 DEF finalize
  <1>9. CASE recover_candidate
    <2>1. CASE RecoverEmpty
      BY <1>1, <1>4, <1>5, <2>1 DEF RecoverEmpty
    <2>2. CASE RecoverActivitySync \/ RepairSync
      BY <1>3, <1>5, <2>2 DEF RecoverActivitySync, RepairSync
    <2>3. CASE RecoverUnlink
      BY <1>1, <2>3 DEF RecoverUnlink, HereFiles
    <2>4. CASE RepairTruncate
      BY <1>1, <1>5, <2>4 DEF RepairTruncate
    <2>5. CASE /\ recover_candidate
               /\ ~(RecoverEmpty \/ RecoverActivitySync \/ RepairSync \/ RecoverUnlink
                    \/ RepairTruncate)
      BY <1>4, <2>5 DEF recover_candidate, RecoverNothing, RecoverRetains,
         RecoverOrphanEmpty, RecoverOrphanFinalized, RecoverRemoveDir, RecoverRemoveMeta,
         QuarantineSource, QuarantineMeta, QuarantineMetaFails, RecoverValidated,
         RecoverFinalizing, RecoverRename, RecoverRenameFails, RecoverZone,
         RecoverDropMeta, RecoverDone
    <2>. QED BY <1>9, <2>1, <2>2, <2>3, <2>4, <2>5
  <1>10. CASE PowerLoss
    <2>1. \A f \in File : fileLost'[f] = {}
      BY <1>10 DEF PowerLoss
    <2>2. \A f \in File : files'[f] = NoFile \/ files'[f] \in Contents(f)
      BY <1>10 DEF PowerLoss, Contents
    <2>. QED BY <2>1, <2>2 DEF ShapeInv, Contents
  <1>11. CASE Tick \/ Kill \/ Rest
    BY <1>4, <1>11 DEF Tick, Kill, Rest, vars, fileVars
  <1>. QED BY <1>6, <1>7, <1>8, <1>9, <1>10, <1>11 DEF Next

\* At the steps not named here nothing is promised of the lines.
LineSteps == CreateSteps \cup AppendSteps \cup FinalSteps \cup RepairSteps \cup {"open"}

\* Appends, their rollbacks, finalize and the repairs of recovery leave in every
\* file what the metadata in memory records.
LEMMA LinesStep ==
    ASSUME TypeOK, AckedInv, SegmentInv, Next
    PROVE  LinesInv'
  <1>. USE DEF SegmentInv
  <1>0. /\ files \in [File -> Content] /\ cur \in File /\ mem \in Metadata
        /\ mem.rec \in [File -> SUBSET Nat] /\ elapsed \in Nat
        /\ dir \in Directory /\ dir.meta \in Metadata
    BY DirectoryFields DEF TypeOK, Metadata
  <1>1. \A f \in File : files[f].here \/ files[f] = NoFile
    BY DEF ShapeInv, Contents
  <1>2. ASSUME pc' \notin LineSteps PROVE LinesInv'
    BY <1>2 DEF LinesInv, LineSteps, CreateSteps, AppendSteps, JsonStage, MetaStage,
       UndoSteps, FinalSteps, RepairSteps
  <1>3. ASSUME files' = files, mem'.rec = mem.rec, NEW f \in File, Matches(mem, f)
        PROVE  Matches(mem, f)'
    BY <1>3 DEF Matches
  <1>4. EmptyFile.here /\ \A r : Truncated(r).here
    BY DEF EmptyFile, Truncated
  <1>5. CASE create_with_faults
    <2>1. CASE create_metadata
      <3>1. /\ pc = "fresh" /\ pc' = "created_meta" /\ files' = files
            /\ mem' = record_length([NoMeta EXCEPT !.life = "creating"], 0)
        BY <2>1 DEF create_metadata, Step, fileVars
      <3>2. \A f \in File : mem'.rec[f] = {}
        BY <3>1 DEF record_length, NoMeta
      <3>3. \A f \in File : files'[f] = NoFile
        BY <3>1 DEF LinesInv, CreateSteps
      <3>. QED BY <3>1, <3>2, <3>3 DEF LinesInv, AppendSteps, JsonStage, MetaStage,
           UndoSteps, FinalSteps
    <2>2. CASE create_directory \/ create_open
      <3>1. /\ pc \in CreateSteps /\ pc' \in {"created_dir", "created_open"}
            /\ files' = files /\ mem'.rec = mem.rec
        BY <1>0, <2>2 DEF create_directory, create_open, Step, fileVars, CreateSteps, Metadata
      <3>. QED BY <3>1 DEF LinesInv, AppendSteps, JsonStage, MetaStage, UndoSteps,
           FinalSteps, CreateSteps
    <2>3. CASE create_done
      <3>1. pc = "created_open" /\ pc' = "open" /\ files' = files /\ mem' = mem
        BY <2>3 DEF create_done, Step, fileVars
      <3>2. \A f \in File : Matches(mem, f)
        BY <3>1 DEF LinesInv, CreateSteps, Matches
      <3>. QED BY <1>3, <3>1, <3>2 DEF LinesInv, AppendSteps, JsonStage, MetaStage,
           UndoSteps, FinalSteps, CreateSteps
    <2>. QED BY <1>5, <2>1, <2>2, <2>3 DEF create_with_faults
  <1>6. CASE append_frame
    <2>1. ASSUME NEW f \in File, BeginAppend(f) PROVE LinesInv'
      <3>1. /\ pc = "open" /\ ~poisoned /\ pc' = "append_open" /\ cur' = f
            /\ files' = files /\ mem' = mem
            /\ f # Activity => NextId(f) <= MaxFrames
        BY <2>1 DEF BeginAppend, CanAppend, fileVars
      <3>2. \A g \in File : Matches(mem, g)'
        BY <1>3, <3>1 DEF LinesInv
      <3>3. cur' # Activity => NextId(cur)' <= MaxFrames
        BY <3>1 DEF NextId
      <3>. QED BY <3>1, <3>2, <3>3 DEF LinesInv, CreateSteps, FinalSteps, Matches, MetaStage
    <2>2. CASE AppendReadFails
      <3>1. pc = "open" /\ pc' = "open" /\ files' = files /\ mem' = mem /\ poisoned' = poisoned
        BY <2>2 DEF AppendReadFails, CanAppend, fileVars
      <3>2. ~poisoned => \A g \in File : Matches(mem, g)'
        BY <1>3, <3>1 DEF LinesInv
      <3>. QED BY <3>1, <3>2 DEF LinesInv, CreateSteps, AppendSteps, JsonStage, MetaStage,
           UndoSteps, FinalSteps
    \* The other steps of an append keep the metadata and its file.
    <2>3. ASSUME mem' = mem, cur' = cur, pc \in AppendSteps, pc' \in AppendSteps,
                 \A f \in File \ {cur} : files'[f] = files[f],
                 files'[cur].here \/ files'[cur] = files[cur],
                 pc' # "append_open",
                 pc' = "undo_sync" \/ (pc' \in {"undo_meta", "undo_meta_sync"} /\ rolled')
                    => files'[cur] = Truncated(mem.rec[cur]) \/ Matches(mem, cur)',
                 pc' \in MetaStage \cup {"append_sync"}
                    => files'[cur] = Truncated(mem.rec[cur] \cup {NextId(cur)}),
                 pc' \in MetaStage \cup {"append_write", "append_rest", "append_sync"}
                    => pc \in MetaStage \cup {"append_open", "append_write", "append_rest",
                                              "append_sync"}
          PROVE  LinesInv'
      <3>1. \A f \in File \ {cur} : Matches(mem, f)'
        BY <1>0, <2>3 DEF LinesInv, Matches
      <3>2. (files[cur].here \/ Matches(mem, cur))'
        BY <1>0, <2>3 DEF LinesInv, Matches
      <3>3. NextId(cur)' = NextId(cur)
        BY <2>3 DEF NextId
      <3>4. pc' = "undo_sync" \/ (pc' \in {"undo_meta", "undo_meta_sync"} /\ rolled')
               => Matches(mem, cur)'
        BY <2>3 DEF Matches
      <3>5. pc' \in MetaStage \cup {"append_write", "append_rest", "append_sync"}
               /\ cur' # Activity => NextId(cur)' <= MaxFrames
        BY <2>3, <3>3 DEF LinesInv
      <3>6. pc' \notin CreateSteps \cup FinalSteps \cup RepairSteps \cup {"open"}
        BY <2>3 DEF AppendSteps, JsonStage, MetaStage, UndoSteps, CreateSteps, FinalSteps,
           RepairSteps
      <3>. QED BY <2>3, <3>1, <3>2, <3>3, <3>4, <3>5, <3>6 DEF LinesInv, RepairSteps
    <2>4. CASE OpenJsonl
      <3>1. /\ pc = "append_open" /\ pc' = "append_write" /\ mem' = mem /\ cur' = cur
            /\ IF files[cur].here THEN files' = files
                                  ELSE files' = [files EXCEPT ![cur] = EmptyFile]
        BY <2>4 DEF OpenJsonl, Step, ChangeFile, fileVars, appendVars
      <3>. QED BY <1>0, <1>4, <2>3, <3>1 DEF AppendSteps, JsonStage, MetaStage, UndoSteps
    <2>5. CASE WritePart
      <3>1. /\ pc = "append_write" /\ pc' = "append_rest" /\ mem' = mem /\ cur' = cur
            /\ files[cur] = Truncated(mem.rec[cur])
            /\ files' = [files EXCEPT ![cur] = [files[cur] EXCEPT !.torn = TRUE]]
        BY <2>5 DEF WritePart, Step, ChangeFile, appendVars
      <3>2. files'[cur].here
        BY <1>0, <1>4, <3>1 DEF Content
      <3>. QED BY <1>0, <2>3, <3>1, <3>2 DEF AppendSteps, JsonStage, MetaStage, UndoSteps
    <2>6. CASE WriteRest
      <3>1. /\ pc = "append_rest" /\ pc' = "append_sync" /\ mem' = mem /\ cur' = cur
            /\ files' = [files EXCEPT ![cur] = Truncated(mem.rec[cur] \cup {NextId(cur)})]
        BY <2>6 DEF WriteRest, Step, ChangeFile, appendVars
      <3>. QED BY <1>0, <1>4, <2>3, <3>1 DEF AppendSteps, JsonStage, MetaStage, UndoSteps
    <2>7. CASE SyncJsonl
      <3>1. /\ pc = "append_sync" /\ pc' = "meta_write" /\ mem' = mem /\ cur' = cur
            /\ files' = files
        BY <2>7 DEF SyncJsonl, Step, SyncFileAndEntry, appendVars
      <3>. QED BY <2>3, <3>1 DEF LinesInv, AppendSteps, JsonStage, MetaStage, UndoSteps
    <2>8. CASE WriteMetadata
      <3>1. /\ pc = "meta_write" /\ pc' = "meta_sync" /\ mem' = mem /\ cur' = cur
            /\ files' = files
        BY <2>8 DEF WriteMetadata, Step, fileVars, appendVars
      <3>. QED BY <2>3, <3>1 DEF LinesInv, AppendSteps, JsonStage, MetaStage, UndoSteps
    <2>9. CASE CommitAppend
      <3>1. /\ pc = "meta_sync" /\ pc' = "open" /\ files' = files /\ mem' = Proposed(cur)
        BY <2>9 DEF CommitAppend, Step, fileVars
      <3>2. /\ Sound(mem) /\ mem.life \in {"open", "finalizing"}
            /\ cur # Activity => NextId(cur) <= MaxFrames
            /\ files[cur] = Truncated(mem.rec[cur] \cup {NextId(cur)})
            /\ \A f \in File \ {cur} : Matches(mem, f)
        BY <3>1 DEF MemSound, MemSteps, MetaStage, AppendSteps, LinesInv
      <3>3. mem'.rec = [mem.rec EXCEPT ![cur] = @ \cup {NextId(cur)}]
        BY <1>0, <3>1, <3>2, ProposedSound
      <3>4. \A f \in File : Matches(mem, f)'
        BY <1>0, <3>1, <3>2, <3>3 DEF Matches
      <3>. QED BY <3>1, <3>4 DEF LinesInv, CreateSteps, AppendSteps, JsonStage, MetaStage,
           UndoSteps, FinalSteps
    <2>10. CASE AppendFails
      <3>1. /\ pc \in AppendSteps /\ pc' = "undo_file" /\ mem' = mem /\ cur' = cur
            /\ files' = files
        BY <2>10 DEF AppendFails, fileVars, AppendSteps
      <3>. QED BY <2>3, <3>1 DEF AppendSteps, JsonStage, MetaStage, UndoSteps
    <2>11. CASE RollbackNothing
      <3>1. /\ pc = "undo_file" /\ pc' = "open" /\ mem' = mem /\ files' = files
            /\ ~files[cur].here
        BY <2>11 DEF RollbackNothing, Recoverable, fileVars
      <3>2. \A f \in File : Matches(mem, f)
        BY <3>1 DEF LinesInv, AppendSteps, UndoSteps
      <3>3. \A f \in File : Matches(mem, f)'
        BY <1>3, <3>1, <3>2
      <3>. QED BY <3>1, <3>3 DEF LinesInv, CreateSteps, AppendSteps, JsonStage, MetaStage,
           UndoSteps, FinalSteps
    <2>12. CASE RollbackTruncate
      <3>1. /\ pc = "undo_file" /\ pc' = "undo_sync" /\ mem' = mem /\ cur' = cur
            /\ files' = [files EXCEPT ![cur] = Truncated(mem.rec[cur])]
        BY <2>12 DEF RollbackTruncate, Step, ChangeFile, appendVars
      <3>. QED BY <1>0, <1>4, <2>3, <3>1 DEF AppendSteps, JsonStage, MetaStage, UndoSteps
    <2>13. CASE RollbackSync
      <3>1. /\ pc = "undo_sync" /\ mem' = mem /\ files' = files
            /\ pc' = "open" \/ (pc' = "undo_meta" /\ cur' = cur)
        BY <2>13 DEF RollbackSync, Recoverable, sync_all, appendVars
      <3>2. \A f \in File : Matches(mem, f)
        BY <3>1 DEF LinesInv, AppendSteps, UndoSteps
      <3>3. \A f \in File : Matches(mem, f)'
        BY <1>3, <3>1, <3>2
      <3>4. CASE pc' = "open"
        BY <3>3, <3>4 DEF LinesInv, CreateSteps, AppendSteps, JsonStage, MetaStage,
           UndoSteps, FinalSteps
      <3>5. CASE pc' = "undo_meta" /\ cur' = cur
        <4>1. Matches(mem, cur)'
          BY <1>0, <3>1, <3>2, <3>5 DEF Matches
        <4>. QED BY <2>3, <3>1, <3>5, <4>1 DEF AppendSteps, JsonStage, MetaStage, UndoSteps
      <3>. QED BY <3>1, <3>4, <3>5
    <2>14. CASE RollbackFails
      <3>1. /\ pc \in {"undo_file", "undo_sync"} /\ mem' = mem /\ files' = files
            /\ \/ pc' = "open" /\ poisoned'
               \/ pc' = "undo_meta" /\ cur' = cur /\ ~rolled'
        BY <2>14 DEF RollbackFails, Poison, fileVars
      <3>2. CASE pc' = "open" /\ poisoned'
        BY <3>2 DEF LinesInv, CreateSteps, AppendSteps, JsonStage, MetaStage, UndoSteps,
           FinalSteps
      <3>3. CASE pc' = "undo_meta" /\ cur' = cur /\ ~rolled'
        BY <2>3, <3>1, <3>3 DEF AppendSteps, JsonStage, MetaStage, UndoSteps
      <3>. QED BY <3>1, <3>2, <3>3
    <2>15. CASE RestoreMetadata
      <3>1. /\ pc = "undo_meta" /\ pc' = "undo_meta_sync" /\ mem' = mem /\ cur' = cur
            /\ files' = files /\ rolled' = rolled
        BY <2>15 DEF RestoreMetadata, Step, fileVars, appendVars
      <3>2. rolled' => Matches(mem, cur)'
        BY <3>1 DEF LinesInv, Matches
      <3>. QED BY <2>3, <3>1, <3>2 DEF AppendSteps, JsonStage, MetaStage, UndoSteps
    <2>16. CASE RestoreSync \/ RestoreFails
      <3>1. /\ pc \in {"undo_meta", "undo_meta_sync"} /\ pc' = "open" /\ mem' = mem
            /\ files' = files
            /\ rolled \/ poisoned'
        BY <2>16 DEF RestoreSync, RestoreFails, Recoverable, Poison, fileVars
      <3>2. rolled => \A f \in File : Matches(mem, f)
        BY <3>1 DEF LinesInv, AppendSteps, UndoSteps
      <3>3. ASSUME rolled, NEW f \in File PROVE Matches(mem, f)'
        BY <1>3, <3>1, <3>2, <3>3
      <3>. QED BY <3>1, <3>3 DEF LinesInv, CreateSteps, AppendSteps, JsonStage, MetaStage,
           UndoSteps, FinalSteps
    <2>. QED BY <1>6, <2>1, <2>2, <2>4, <2>5, <2>6, <2>7, <2>8, <2>9, <2>10, <2>11, <2>12,
         <2>13, <2>14, <2>15, <2>16 DEF append_frame
  <1>7. CASE finalize
    <2>1. ASSUME pc' \in FinalSteps \cup {"open"}, \A f \in File : Matches(mem, f)'
          PROVE  LinesInv'
      BY <2>1 DEF LinesInv, CreateSteps, AppendSteps, JsonStage, MetaStage, UndoSteps,
         FinalSteps
    <2>2. ASSUME pc \in FinalSteps, pc' \in FinalSteps \cup {"open"}, mem' = mem,
                 files' = files
          PROVE  LinesInv'
      <3>1. \A f \in File : Matches(mem, f)'
        BY <1>3, <2>2 DEF LinesInv
      <3>. QED BY <2>1, <2>2, <3>1
    <2>3. ASSUME NEW s \in BOOLEAN, BeginFinalize(s) PROVE LinesInv'
      <3>1. /\ pc = "open" /\ ~poisoned /\ pc' = "final_sync" /\ files' = files
            /\ mem' = [record_length(mem, elapsed) EXCEPT !.life = "finalizing"]
        BY <2>3 DEF BeginFinalize, FinalizeCalled, fileVars
      <3>2. mem'.rec = mem.rec
        BY <1>0, <3>1 DEF record_length, Metadata
      <3>3. \A f \in File : Matches(mem, f)'
        BY <1>3, <3>1, <3>2 DEF LinesInv
      <3>. QED BY <2>1, <3>1, <3>3 DEF FinalSteps
    <2>4. ASSUME NEW s \in BOOLEAN, BeginRemoveEmpty(s) PROVE LinesInv'
      <3>1. /\ pc = "open" /\ ~poisoned /\ pc' = "empty_scan" /\ files' = files /\ mem' = mem
        BY <2>4 DEF BeginRemoveEmpty, FinalizeCalled
      <3>2. \A f \in File : Matches(mem, f)'
        BY <1>3, <3>1 DEF LinesInv
      <3>. QED BY <2>1, <3>1, <3>2 DEF FinalSteps
    <2>5. CASE UnlinkEmpty
      <3>1. PICK f \in HereFiles : files[f] = EmptyFile /\ ChangeFile(f, NoFile)
        BY <2>5 DEF UnlinkEmpty
      <3>2. /\ pc = "empty_scan" /\ pc' = pc /\ mem' = mem
            /\ files' = [files EXCEPT ![f] = NoFile] /\ f \in File
        BY <2>5, <3>1 DEF UnlinkEmpty, ChangeFile, HereFiles
      <3>3. mem.rec[f] = {}
        BY <3>2 DEF MemSound, RecordsNothing
      <3>4. \A g \in File : Matches(mem, g)'
        BY <1>0, <3>2, <3>3 DEF LinesInv, FinalSteps, Matches
      <3>. QED BY <2>1, <3>2, <3>4 DEF FinalSteps
    <2>6. CASE PoisonedExit \/ FinalizeCollides \/ RemoveEmptyRefused \/ FinalizeFails
      <3>1. \/ pc' = "down"
            \/ pc \in FinalSteps /\ pc' = "open" /\ mem' = mem /\ files' = files
        BY <2>6 DEF PoisonedExit, FinalizeCollides, RemoveEmptyRefused, FinalizeFails,
           FinalizeError, Forget, FinalSteps, fileVars
      <3>2. pc' = "down" => pc' \notin LineSteps
        BY DEF LineSteps, CreateSteps, AppendSteps, JsonStage, MetaStage, UndoSteps,
           FinalSteps, RepairSteps
      <3>. QED BY <1>2, <2>2, <3>1, <3>2
    <2>7. CASE RenameFinalized \/ WriteZone \/ RemoveMetadata \/ RemoveEmptyDir \/ RemoveEmptyMeta
      <3>1. pc \in FinalSteps /\ pc' \in FinalSteps /\ mem' = mem /\ files' = files
        BY <2>7 DEF RenameFinalized, WriteZone, RemoveMetadata, RemoveEmptyDir,
           RemoveEmptyMeta, Step, FinalSteps, fileVars
      <3>. QED BY <2>2, <3>1
    <2>8. CASE FinalizeDone
      <3>1. pc' = "closed"
        BY <2>8 DEF FinalizeDone, Step
      <3>. QED BY <1>2, <3>1 DEF LineSteps, CreateSteps, AppendSteps, JsonStage, MetaStage,
           UndoSteps, FinalSteps, RepairSteps
    <2>. QED BY <1>7, <2>3, <2>4, <2>5, <2>6, <2>7, <2>8 DEF finalize
  <1>8. CASE recover_candidate
    <2>1. CASE RecoverValidated
      <3>1. /\ pc' = "recover_repair" /\ files' = files
            /\ validate_files(dir.meta, files) # "contradictory"
            /\ \E n \in 0..MaxFrames :
                  mem' = [record_length(dir.meta, dir.meta.len) EXCEPT !.count = n]
        BY <2>1 DEF RecoverValidated, fileVars
      <3>2. mem'.rec = dir.meta.rec
        BY <1>0, <3>1 DEF record_length, Metadata
      <3>3. ~ShortFile(dir.meta, files)
        BY <3>1 DEF validate_files
      <3>4. \A f \in File : files'[f].here \/ Matches(mem, f)'
        BY <1>1, <3>1, <3>2, <3>3 DEF ShortFile, Matches
      <3>. QED BY <3>1, <3>4 DEF LinesInv, CreateSteps, AppendSteps, JsonStage, MetaStage,
           UndoSteps, FinalSteps
    <2>2. CASE RepairTruncate
      <3>1. PICK f \in File : ChangeFile(f, Truncated(mem.rec[f]))
        BY <2>2 DEF RepairTruncate
      <3>2. /\ pc = "recover_repair" /\ pc' = "recover_repair_sync" /\ mem' = mem
            /\ files' = [files EXCEPT ![f] = Truncated(mem.rec[f])]
        BY <2>2, <3>1 DEF RepairTruncate, Step, ChangeFile
      <3>3. \A g \in File : files'[g].here \/ Matches(mem, g)'
        BY <1>0, <1>4, <3>2 DEF LinesInv, Matches
      <3>. QED BY <3>2, <3>3 DEF LinesInv, CreateSteps, AppendSteps, JsonStage, MetaStage,
           UndoSteps, FinalSteps
    <2>3. CASE RepairSync
      <3>1. /\ pc = "recover_repair_sync" /\ pc' = "recover_repair" /\ mem' = mem
            /\ files' = files
        BY <2>3 DEF RepairSync, Step, sync_all
      <3>2. \A g \in File : files'[g].here \/ Matches(mem, g)'
        BY <1>3, <3>1 DEF LinesInv
      <3>. QED BY <3>1, <3>2 DEF LinesInv, CreateSteps, AppendSteps, JsonStage, MetaStage,
           UndoSteps, FinalSteps
    <2>4. CASE RecoverFinalizing
      <3>1. /\ pc = "recover_repair" /\ pc' = "recover_rename" /\ files' = files
            /\ mem' = [mem EXCEPT !.life = "finalizing"]
            /\ \A f \in File : ~NeedsRepair(mem, files, f)
        BY <2>4 DEF RecoverFinalizing, Step, fileVars
      <3>2. mem'.rec = mem.rec
        BY <1>0, <3>1 DEF Metadata
      <3>3. ASSUME NEW f \in File PROVE Matches(mem, f)
        <4>1. CASE files[f].here
          <5>1. files[f].torn = FALSE /\ files[f].lines = mem.rec[f] /\ files[f].here = TRUE
            BY <1>0, <3>1, <4>1 DEF NeedsRepair, Content
          <5>2. files[f] \in Content
            BY <1>0
          <5>. QED BY <5>1, <5>2 DEF Matches, Truncated, Content
        <4>2. CASE ~files[f].here
          BY <3>1, <4>2 DEF LinesInv
        <4>. QED BY <4>1, <4>2
      <3>4. \A f \in File : Matches(mem, f)'
        BY <1>3, <3>1, <3>2, <3>3
      <3>. QED BY <3>1, <3>4 DEF LinesInv, CreateSteps, AppendSteps, JsonStage, MetaStage,
           UndoSteps, FinalSteps
    <2>5. CASE /\ recover_candidate
               /\ ~(RecoverValidated \/ RepairTruncate \/ RepairSync \/ RecoverFinalizing)
      <3>1. pc' \in {"up", "down", "recover_last", "recover_zoned", "recover_act",
                     "recover_empty", "recover_meta", "quarantine_meta", "recover_named"}
        BY <2>5 DEF recover_candidate, RecoverNothing, RecoverRetains, RecoverOrphanEmpty,
           RecoverOrphanFinalized, RecoverEmpty, RecoverActivitySync, RecoverUnlink,
           RecoverRemoveDir, RecoverRemoveMeta, QuarantineSource, QuarantineMeta,
           QuarantineMetaFails, RecoverRename, RecoverRenameFails, RecoverZone,
           RecoverDropMeta, RecoverDone, Step, Forget
      <3>. QED BY <1>2, <3>1 DEF LineSteps, CreateSteps, AppendSteps, JsonStage, MetaStage,
           UndoSteps, FinalSteps, RepairSteps
    <2>. QED BY <1>8, <2>1, <2>2, <2>3, <2>4, <2>5
  <1>9. CASE Tick
    <2>1. pc = "open" /\ pc' = "open" /\ files' = files /\ mem' = mem /\ poisoned' = poisoned
      BY <1>9 DEF Tick, fileVars
    <2>2. ~poisoned => \A g \in File : Matches(mem, g)'
      BY <1>3, <2>1 DEF LinesInv
    <2>. QED BY <2>1, <2>2 DEF LinesInv, CreateSteps, AppendSteps, JsonStage, MetaStage,
         UndoSteps, FinalSteps
  <1>10. CASE Kill \/ PowerLoss \/ Rest
    <2>1. pc' \in {"down", "closed", "up"}
      BY <1>10 DEF Kill, PowerLoss, Rest, Forget, vars
    <2>. QED BY <1>2, <2>1 DEF LineSteps, CreateSteps, AppendSteps, JsonStage, MetaStage,
         UndoSteps, FinalSteps, RepairSteps
  <1>. QED BY <1>5, <1>6, <1>7, <1>8, <1>9, <1>10 DEF Next

\* The invariant holds before create_with_faults.
LEMMA SegmentInit == Init => SegmentInv
  <1>. SUFFICES ASSUME Init PROVE SegmentInv
    OBVIOUS
  <1>1. /\ pc = "fresh" /\ dir = NoDirectory /\ dirLost = {} /\ saved = NoMeta /\ mem = NoMeta
        /\ files = [f \in File |-> NoFile] /\ fileLost = [f \in File |-> {}]
    BY DEF Init
  <1>2. dir.loc = "none" /\ dir.meta.life = "none" /\ \A f \in File : mem.rec[f] = {}
    BY <1>1 DEF NoDirectory, NoMeta
  <1>3. DirsSound
    BY <1>1, <1>2 DEF DirsSound, DirSound, Dirs
  <1>4. MemSound /\ StepInv /\ LenInv
    BY <1>1, <1>2 DEF MemSound, StepInv, LenInv, MemSteps, AppendSteps, RepairSteps,
       FinalSteps, CreateSteps, JsonStage, MetaStage, UndoSteps
  <1>5. ShapeInv /\ LinesInv
    BY <1>1, <1>2 DEF ShapeInv, LinesInv, Contents, AppendSteps, FinalSteps, CreateSteps,
       JsonStage, MetaStage, UndoSteps
  <1>. QED BY <1>3, <1>4, <1>5 DEF SegmentInv

\* The invariant of the disk, by AckedLinesSurvive's invariant for the place of
\* the directory and by TypeOK.
LEMMA SegmentCorrect == Spec => []SegmentInv
  <1>1. TypeOK /\ AckedInv /\ SegmentInv /\ [Next]_vars => SegmentInv'
    <2>. SUFFICES ASSUME TypeOK, AckedInv, SegmentInv, [Next]_vars PROVE SegmentInv'
      OBVIOUS
    <2>1. CASE Next
      <3>1. DirsSound' /\ MemSound'
        BY <2>1, DirsSoundStep, MemSoundStep
      <3>2. StepInv' /\ LenInv'
        BY <2>1, StepInvStep, LenInvStep
      <3>3. ShapeInv' /\ LinesInv'
        BY <2>1, ShapeStep, LinesStep DEF SegmentInv
      <3>. QED BY <3>1, <3>2, <3>3 DEF SegmentInv
    <2>2. CASE UNCHANGED vars
      BY <2>2 DEF vars, SegmentInv, DirsSound, DirSound, MemSound, StepInv, LenInv, ShapeInv,
         LinesInv, Matches, NextId, Dirs, Contents
    <2>. QED BY <2>1, <2>2
  <1>. QED BY <1>1, SegmentInit, TypeCorrect, AckedCorrect, PTL DEF Spec

\* Metadata that a crash or a power loss leaves lets the next start decide, and
\* finalize, called again, derive the same name (recovery.rs recover_candidate,
\* segment.rs finalize).
THEOREM MetadataDecides == Spec => []MetadataConsistent
  <1>1. TypeOK /\ SegmentInv => MetadataConsistent
    <2>. SUFFICES ASSUME TypeOK, SegmentInv, NEW d \in Dirs
                  PROVE  /\ d.meta.life # "none" => metadata_is_consistent(d.meta)
                         /\ d.loc = "src" => d.meta.life # "none"
                         /\ d.loc = "fin" /\ d.meta.life # "none" =>
                               d.meta.life = "finalizing" /\ d.meta.len = d.len
      BY DEF MetadataConsistent
    <2>1. d.meta \in Metadata /\ DirSound(d)
      BY DirectoryFields DEF TypeOK, SegmentInv, DirsSound, Dirs
    <2>. QED BY <2>1, SoundMeans DEF DirSound
  <1>. QED BY <1>1, SegmentCorrect, TypeCorrect, PTL

\* No crash loses the zone of a finalized segment: finalize and recovery remove
\* the metadata only once the zone.json sibling names the directory.
THEOREM ZoneIsNeverLost == Spec => []ZoneBeforeMetaRemoved
  <1>1. SegmentInv => ZoneBeforeMetaRemoved
    BY DEF SegmentInv, DirsSound, DirSound, ZoneBeforeMetaRemoved
  <1>. QED BY <1>1, SegmentCorrect, PTL

\* Only the two renames take a segment directory to its finalized name.
LEMMA RenamesOnly ==
    ASSUME TypeOK, SegmentInv, [Next]_vars, dir.loc = "src", dir'.loc = "fin"
    PROVE  RenameFinalized \/ RecoverRename
  <1>0. dir \in Directory /\ \A d \in Dirs : d.loc # "fin"
    BY DEF TypeOK, SegmentInv, DirsSound
  <1>1. ASSUME sync_directory \/ UNCHANGED dirVars PROVE FALSE
    BY <1>1 DEF sync_directory, dirVars
  <1>2. ASSUME NEW m, ChangeDir([dir EXCEPT !.meta = m])
                      \/ SyncThenChangeDir([dir EXCEPT !.meta = m])
        PROVE  FALSE
    BY <1>0, <1>2 DEF ChangeDir, SyncThenChangeDir, Directory
  <1>3. ASSUME NEW p, p # "fin", ChangeDir([dir EXCEPT !.loc = p])
                      \/ SyncThenChangeDir([dir EXCEPT !.loc = p])
        PROVE  FALSE
    BY <1>0, <1>3 DEF ChangeDir, SyncThenChangeDir, Directory
  <1>4. ASSUME NEW n, ChangeDir([dir EXCEPT !.zone = n])
                      \/ SyncThenChangeDir([dir EXCEPT !.zone = n])
        PROVE  FALSE
    BY <1>0, <1>4 DEF ChangeDir, SyncThenChangeDir, Directory
  <1>5. CASE create_with_faults
    BY <1>1, <1>2, <1>3, <1>5 DEF create_with_faults, create_metadata, create_directory,
       create_open, create_done
  <1>6. CASE append_frame
    BY <1>1, <1>2, <1>6 DEF append_frame, BeginAppend, AppendReadFails, OpenJsonl,
       WritePart, WriteRest, SyncJsonl, WriteMetadata, CommitAppend, AppendFails,
       RollbackNothing, RollbackTruncate, RollbackSync, RollbackFails, RestoreMetadata,
       RestoreSync, RestoreFails
  <1>7. CASE finalize
    BY <1>1, <1>2, <1>3, <1>4, <1>7 DEF finalize, BeginFinalize, BeginRemoveEmpty,
       PoisonedExit, FinalizeCollides, WriteZone, RemoveMetadata, FinalizeDone,
       FinalizeFails, UnlinkEmpty, RemoveEmptyDir, RemoveEmptyMeta, RemoveEmptyRefused
  <1>8. CASE recover_candidate
    <2>1. CASE QuarantineSource
      BY <1>3, <2>1 DEF QuarantineSource
    <2>2. CASE QuarantineMeta
      BY <1>0, <2>2 DEF QuarantineMeta, ChangeDir, Directory
    <2>3. CASE recover_candidate /\ ~QuarantineSource /\ ~QuarantineMeta
      BY <1>1, <1>2, <1>3, <1>4, <2>3 DEF recover_candidate, RecoverNothing,
         RecoverRetains, RecoverOrphanEmpty, RecoverOrphanFinalized, RecoverEmpty,
         RecoverActivitySync, RecoverUnlink, RecoverRemoveDir, RecoverRemoveMeta,
         QuarantineMetaFails, RecoverValidated, RepairTruncate, RepairSync,
         RecoverFinalizing, RecoverRenameFails, RecoverZone, RecoverDropMeta, RecoverDone
    <2>. QED BY <1>8, <2>1, <2>2, <2>3
  <1>9. CASE PowerLoss
    BY <1>0, <1>9 DEF PowerLoss, Dirs
  <1>10. CASE Tick \/ Kill \/ Rest \/ UNCHANGED vars
    BY <1>1, <1>10 DEF Tick, Kill, Rest, vars, dirVars
  <1>. QED BY <1>5, <1>6, <1>7, <1>8, <1>9, <1>10 DEF Next

\* The finalized name is given only to whole lines with consecutive frames,
\* whatever was rolled back, repaired or cut short before (segment.rs finalize,
\* recovery.rs apply_repairs).
THEOREM FinalizedIsExact == Spec => RenamesExact
  <1>1. TypeOK /\ AckedInv /\ SegmentInv /\ [Next]_vars =>
           (dir.loc = "src" /\ dir'.loc = "fin" => ExactFiles')
    <2>. SUFFICES ASSUME TypeOK, AckedInv, SegmentInv, [Next]_vars,
                         dir.loc = "src", dir'.loc = "fin"
                  PROVE  ExactFiles'
      OBVIOUS
    <2>1. RenameFinalized \/ RecoverRename
      BY RenamesOnly
    <2>2. /\ files' = files /\ mem \in Metadata
          /\ pc \in {"final_sync", "recover_rename"}
      BY <2>1 DEF RenameFinalized, RecoverRename, Step, fileVars, TypeOK
    <2>3. /\ \A f \in File : Matches(mem, f)
          /\ Sound(mem)
      BY <2>2 DEF SegmentInv, LinesInv, MemSound, MemSteps, FinalSteps
    <2>4. \A f \in File : ~files[f].torn /\ files[f].lines = mem.rec[f]
      <3>1. \A f \in File : files[f].torn = FALSE /\ files[f].lines = mem.rec[f]
        <4>. SUFFICES ASSUME NEW f \in File
                      PROVE  files[f].torn = FALSE /\ files[f].lines = mem.rec[f]
          OBVIOUS
        <4>1. CASE files[f] = Truncated(mem.rec[f])
          BY <4>1 DEF Truncated
        <4>2. CASE files[f] = NoFile /\ mem.rec[f] = {}
          BY <4>2 DEF NoFile
        <4>. QED BY <2>3, <4>1, <4>2 DEF Matches
      <3>. QED BY <3>1
    <2>5. mem.rec = [f \in File |-> files[f].lines]
      BY <2>2, <2>4 DEF Metadata
    <2>6. [NoMeta EXCEPT !.rec = [f \in File |-> files[f].lines]].rec = mem.rec
      BY <2>5 DEF NoMeta
    <2>7. IdsConsecutive([NoMeta EXCEPT !.rec = [f \in File |-> files[f].lines]])
      <3>1. IdsConsecutive(mem)
        BY <2>2, <2>3, SoundMeans
      <3>. QED BY <2>6, <3>1 DEF IdsConsecutive, RecordedIds
    <2>. QED BY <2>2, <2>4, <2>7 DEF ExactFiles
  <1>2. TypeOK /\ TypeOK' /\ AckedInv /\ SegmentInv /\ [Next]_vars =>
           [dir.loc = "src" /\ dir'.loc = "fin" => ExactFiles']_vars
    BY <1>1
  <1>. QED BY <1>2, TypeCorrect, AckedCorrect, SegmentCorrect, PTL DEF Spec, RenamesExact

=============================================================================
