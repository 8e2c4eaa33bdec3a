---------------------------- MODULE Status_proofs ----------------------------
(***************************************************************************)
(* Theorems about Supervision and Status: what the end of one run owes to  *)
(* the work it leaves behind and to its exit code, and, for any number of  *)
(* runs one after the other, what a status command may say about them.     *)
(***************************************************************************)
EXTENDS Status, TLAPS

----------------------------------------------------------------------------
(* The inductive invariant of one run *)

Finishing == {"closing", "draining", "restoring", "exited", "gone"}

\* The fence counts the removal under way; only a running task starts work.
FenceInv ==
    /\ permits = IF blocking = "remove" THEN 0 ELSE 1
    /\ sync = "running" => blocking = "none"
    /\ sup \in {"restoring", "exited", "gone"} => blocking # "remove"
    /\ sup = "gone" => blocking = "none"

LockInv ==
    /\ lock <=> sup \notin {"exited", "gone"}
    /\ privateLock <=> sup # "gone"

\* The observer passes the barrier after its release, the release is sent after the
\* end of the sync task, and that end is final.
BarrierInv ==
    /\ obs = "closing" => release
    /\ release => sync \in Over
    /\ sup \in Finishing \cup {"joining"} => sync \in Over

\* What the exit code still owes at each stage of the supervisor.
ExitInv ==
    /\ observerStop => failed
    /\ obs \in {"barrier", "closing", "done"} /\ ~obsFailed => signal \/ observerStop
    /\ obs = "done" /\ ~obsFailed => segment = "closed"
    /\ sup \in Finishing \cup {"joining"} /\ ~failed => sync = "ok"
    /\ sup \in Finishing /\ ~failed => obs = "done" /\ ~obsFailed

\* TypeOK, variable by variable.
RunTypes ==
    /\ signal \in BOOLEAN /\ obsFailed \in BOOLEAN /\ release \in BOOLEAN
    /\ observerStop \in BOOLEAN /\ syncStop \in BOOLEAN /\ accepting \in BOOLEAN
    /\ failed \in BOOLEAN /\ lock \in BOOLEAN /\ privateLock \in BOOLEAN
    /\ obs \in {"ticking", "capturing", "writing", "barrier", "closing", "done"}
    /\ segment \in {"open", "closed", "lost"} /\ request \in {"none", "sent", "dropped"}
    /\ sync \in Over \union {"running", "awaiting"}
    /\ blocking \in {"none", "remove", "other"} /\ permits \in {0, 1}
    /\ sup \in {"watching", "stopping", "joining", "closing", "draining", "restoring",
                "exited", "gone"}

RunInv == RunTypes /\ FenceInv /\ LockInv /\ BarrierInv /\ ExitInv

----------------------------------------------------------------------------
(* The inductive invariant of the status command *)

Snapshots == [run : 1..MaxRuns, up : BOOLEAN, heard : BOOLEAN]

StatusTypeOK ==
    /\ run \in 1..MaxRuns /\ lastRun \in 1..MaxRuns /\ named \in 0..MaxRuns
    /\ next \in {"none", "holding", "emptied", "named"}
    /\ {rival, heard, linkUp} \subseteq BOOLEAN
    /\ {writing, snap} \subseteq Snapshots \cup {None}
    /\ reader \in [pc : {"idle", "snapshot", "identity"}, snap : Snapshots \cup {None},
                   id : 0..MaxRuns, alive : BOOLEAN, lease : BOOLEAN, raced : BOOLEAN]

\* A start holds the instance lock that no run holds, and its number is new; the
\* identity in the lock file is that of the run or the start that wrote it last.
NameInv ==
    /\ run <= lastRun
    /\ next # "none" => ~lock /\ run < lastRun
    /\ next = "named" => named = lastRun
    /\ lock => named = run

\* No snapshot is of a later run; one that still tells of an answer is not
\* ahead of the facts of the run it is about.
SnapInv ==
    /\ snap # None => snap.run <= run
    /\ writing # None => writing.run = run /\ (writing.heard => heard)
    /\ lock /\ snap # None /\ snap.run = run /\ snap.heard => heard

\* Between its reads, a status command that no other process got in the way of.
ReaderInv ==
    /\ reader.pc # "idle" /\ ~reader.raced =>
           /\ ~rival /\ next \notin {"holding", "emptied"}
           /\ reader.alive \/ LockFree \/ named # reader.snap.run
           /\ reader.pc = "identity" => reader.id = named
    /\ reader.pc # "idle" /\ reader.alive /\ reader.snap.heard => reader.lease

StatusInv == RunInv /\ StatusTypeOK /\ NameInv /\ SnapInv /\ ReaderInv

----------------------------------------------------------------------------
(* One run *)

\* Every step of the observer, the sync task, its blocking calls and the supervisor
\* keeps the invariant of a run.
LEMMA RunStep == RunInv /\ [Next]_vars => RunInv'
  <1>. SUFFICES ASSUME RunInv, [Next]_vars PROVE RunInv'
    OBVIOUS
  <1>. USE DEF RunInv, FenceInv, LockInv, BarrierInv, ExitInv, Finishing, Over, RunTypes
  <1>1. CASE Signal
    BY <1>1 DEF Signal, observer, syncer, told, locks
  <1>2. CASE Poll
    BY <1>2 DEF Poll, ObserverOnly, syncer, told, locks
  <1>3. CASE Captured
    BY <1>3 DEF Captured, ObserverOnly, syncer, told, locks
  <1>4. CASE Processed
    BY <1>4 DEF Processed, ObserverOnly, syncer, told, locks
  <1>5. CASE ShutdownSeen
    BY <1>5 DEF ShutdownSeen, AskToClose, StopEvent, ObserverOnly, syncer, told, locks
  <1>6. CASE Released
    BY <1>6 DEF Released, ObserverOnly, syncer, told, locks
  <1>7. CASE Closed
    <2>1. RunTypes'
      <3>1. obsFailed' \in BOOLEAN
        BY <1>7, Zenon DEF Closed
      <3>2. segment' \in {"open", "closed", "lost"} /\ obs' = "done"
        BY <1>7 DEF Closed
      <3>. QED BY <1>7, <3>1, <3>2 DEF Closed, ObserverOnly, syncer, told, locks
    <2>2. FenceInv' /\ LockInv' /\ BarrierInv' /\ ExitInv'
      BY <1>7 DEF Closed, ObserverOnly, syncer, told, locks
    <2>. QED BY <2>1, <2>2
  <1>8. CASE CaptureTaskFailed
    BY <1>8 DEF CaptureTaskFailed, AskToClose, StopEvent, ObserverOnly, syncer, told, locks
  <1>9. CASE PollFailed
    BY <1>9 DEF PollFailed, AskToClose, ObserverOnly, syncer, told, locks
  <1>10. CASE PollPanicked
    BY <1>10 DEF PollPanicked, ObserverOnly, syncer, told, locks
  <1>11. CASE ObserverPanicked
    BY <1>11 DEF ObserverPanicked, ObserverOnly, syncer, told, locks
  <1>12. CASE BeginRemoval
    BY <1>12 DEF BeginRemoval, SyncOnly, observer, told, locks
  <1>13. CASE BeginOther
    BY <1>13 DEF BeginOther, SyncOnly, observer, told, locks
  <1>14. CASE BlockingDone
    BY <1>14 DEF BlockingDone, SyncOnly, observer, told, locks
  <1>15. ASSUME NEW o \in {"ok", "error", "panicked"}, SyncEnds(o) PROVE RunInv'
    BY <1>15 DEF SyncEnds, SyncOnly, observer, told, locks
  <1>16. CASE StopSync
    BY <1>16 DEF StopSync, SupervisorOnly, observer, told, locks
  <1>17. CASE SyncEndedFirst
    BY <1>17 DEF SyncEndedFirst, SupervisorOnly, observer, told, locks
  <1>18. CASE SyncJoined
    <2>1. RunTypes'
      <3>1. failed' \in BOOLEAN
        BY <1>18, Zenon DEF SyncJoined
      <3>. QED BY <1>18, <3>1 DEF SyncJoined, SupervisorOnly, observer, told, locks
    <2>2. FenceInv' /\ LockInv' /\ BarrierInv'
      BY <1>18 DEF SyncJoined, SupervisorOnly, observer, told, locks
    <2>3. ExitInv'
      BY <1>18 DEF SyncJoined, SupervisorOnly, observer, told, locks
    <2>. QED BY <2>1, <2>2, <2>3
  <1>19. CASE SyncTimedOut
    BY <1>19 DEF SyncTimedOut, SupervisorOnly, observer, told, locks
  <1>20. CASE ObserverJoined
    BY <1>20 DEF ObserverJoined, SupervisorOnly, observer, told, locks
  <1>21. CASE CloseFence
    <2>1. RunTypes'
      <3>1. accepting' \in BOOLEAN
        BY <1>21, Zenon DEF CloseFence
      <3>. QED BY <1>21, <3>1 DEF CloseFence, SupervisorOnly, observer, told, locks
    <2>2. FenceInv' /\ LockInv' /\ BarrierInv' /\ ExitInv'
      BY <1>21 DEF CloseFence, SupervisorOnly, observer, told, locks
    <2>. QED BY <2>1, <2>2
  <1>22. CASE Drain
    BY <1>22 DEF Drain, SupervisorOnly, observer, told, locks
  <1>23. CASE RestoreIndicator
    <2>1. RunTypes'
      <3>1. lock' \in BOOLEAN /\ failed' \in BOOLEAN
        BY <1>23, Zenon DEF RestoreIndicator
      <3>. QED BY <1>23, <3>1 DEF RestoreIndicator, SupervisorOnly, observer, told, locks
    <2>2. FenceInv' /\ LockInv' /\ BarrierInv' /\ ExitInv'
      BY <1>23 DEF RestoreIndicator, SupervisorOnly, observer, told, locks
    <2>. QED BY <2>1, <2>2
  <1>24. CASE DropRuntime
    <2>1. RunTypes'
      <3>1. privateLock' \in BOOLEAN
        BY <1>24, Zenon DEF DropRuntime
      <3>. QED BY <1>24, <3>1 DEF DropRuntime, SupervisorOnly, observer, told, locks
    <2>2. FenceInv' /\ LockInv' /\ BarrierInv' /\ ExitInv'
      BY <1>24 DEF DropRuntime, SupervisorOnly, observer, told, locks
    <2>. QED BY <2>1, <2>2
  <1>25. CASE UNCHANGED vars
    BY <1>25 DEF vars, observer, syncer, told, locks
  <1>. QED BY <1>1, <1>2, <1>3, <1>4, <1>5, <1>6, <1>7, <1>8, <1>9, <1>10,
              <1>11, <1>12, <1>13, <1>14, <1>15, <1>16, <1>17, <1>18, <1>19,
              <1>20, <1>21, <1>22, <1>23, <1>24, <1>25
    DEF Next, RunObserver, ObserverFails, RunSync, Supervise, Terminated

\* The invariant holds when a run begins.
LEMMA RunStarts == Init => RunInv
  <1>1. Init => RunTypes
    BY DEF Init, RunTypes
  <1>2. Init => FenceInv /\ LockInv /\ BarrierInv /\ ExitInv
    BY DEF Init, FenceInv, LockInv, BarrierInv, ExitInv, Finishing
  <1>. QED BY <1>1, <1>2 DEF RunInv

\* What the invariant is for.
LEMMA RunPromises == RunInv => TypeOK /\ WorkUnderLocks /\ CloseAfterSync /\ HonestExit
  <1>. SUFFICES ASSUME RunInv
                PROVE  TypeOK /\ WorkUnderLocks /\ CloseAfterSync /\ HonestExit
    OBVIOUS
  <1>0. TypeOK
    BY DEF RunInv, RunTypes, TypeOK
  <1>1. WorkUnderLocks
    BY DEF RunInv, FenceInv, LockInv, WorkUnderLocks
  <1>2. CloseAfterSync
    BY DEF RunInv, BarrierInv, CloseAfterSync
  <1>3. HonestExit
    BY DEF RunInv, ExitInv, Finishing, HonestExit
  <1>. QED BY <1>0, <1>1, <1>2, <1>3

\* For one run of the run command, from run_observer and supervise_observer: a
\* removal runs under the instance lock and no file work outlives the private-state
\* lock, the last segment is closed after the sync task has ended, and exit code 0
\* means a closed segment, a sync task that ended because it was told to, a signal.
THEOREM RunCorrect ==
    Spec => [](TypeOK /\ WorkUnderLocks /\ CloseAfterSync /\ HonestExit)
  <1>1. Init => RunInv
    BY RunStarts
  <1>2. RunInv /\ [Next]_vars => RunInv'
    BY RunStep
  <1>3. RunInv => TypeOK /\ WorkUnderLocks /\ CloseAfterSync /\ HonestExit
    BY RunPromises DEF RunInv
  <1>. QED BY <1>1, <1>2, <1>3, PTL DEF Spec

----------------------------------------------------------------------------
(* Runs one after the other *)

\* A run of Status steps as one of Supervision does, begins, or is killed.
LEMMA StepOfRun == [StatusNext]_allvars => [Next]_vars \/ Begin \/ Kill
  <1>. SUFFICES ASSUME [StatusNext]_allvars PROVE [Next]_vars \/ Begin \/ Kill
    OBVIOUS
  <1>1. CASE Rest \/ OtherWork \/ WriteHealth \/ WorkDone
    BY <1>1 DEF Rest, OtherWork, WriteHealth, WorkDone, Next, RunSync
  <1>2. CASE \/ LeasePasses \/ TakeLock \/ WriteIdentity \/ StartEnds
             \/ RivalTries \/ RivalUnlocks \/ ReadSnapshot \/ ReadIdentity \/ Probe
             \/ UNCHANGED allvars
    BY <1>2 DEF LeasePasses, TakeLock, WriteIdentity, StartEnds, RivalTries,
                RivalUnlocks, ReadSnapshot, ReadIdentity, Probe, allvars
  <1>. QED BY <1>1, <1>2 DEF StatusNext

\* A run that begins does so as Supervision does.
LEMMA BeginsAsInit == Begin => Init'
  BY DEF Begin, Init

\* The invariant of a run holds of each run, killed or not.
LEMMA RunsStep == RunInv /\ [StatusNext]_allvars => RunInv'
  <1>. SUFFICES ASSUME RunInv, [StatusNext]_allvars PROVE RunInv'
    OBVIOUS
  <1>1. CASE [Next]_vars
    BY <1>1, RunStep
  <1>2. CASE Begin
    BY <1>2, BeginsAsInit, RunStarts, PTL
  <1>3. CASE Kill
    <2>1. RunTypes'
      <3>1. {signal, obsFailed, release, observerStop, syncStop, accepting, failed,
             lock, privateLock}' \subseteq BOOLEAN
        BY <1>3 DEF Kill
      <3>. QED BY <1>3, <3>1 DEF Kill, RunTypes, Over
    <2>2. FenceInv' /\ LockInv' /\ BarrierInv' /\ ExitInv'
      BY <1>3 DEF Kill, FenceInv, LockInv, BarrierInv, ExitInv, Finishing, Over
    <2>. QED BY <2>1, <2>2 DEF RunInv
  <1>. QED BY <1>1, <1>2, <1>3, StepOfRun

----------------------------------------------------------------------------
(* The status command *)

\* What a step of a run, alone or in Status, may do to the instance lock: let it go.
LEMMA LockOnlyReleased == RunInv /\ Next => (lock' => lock)
  <1>. SUFFICES ASSUME RunInv, Next PROVE lock' => lock
    OBVIOUS
  <1>1. CASE RestoreIndicator
    BY <1>1 DEF RestoreIndicator
  <1>2. CASE ~RestoreIndicator
    <2>1. UNCHANGED lock
      BY <1>2 DEF Next, RunObserver, ObserverFails, RunSync, Supervise, Terminated,
        Signal, Poll, Captured, Processed, ShutdownSeen, Released, Closed,
        CaptureTaskFailed, PollFailed, PollPanicked, ObserverPanicked, AskToClose,
        ObserverOnly, BeginRemoval, BeginOther, BlockingDone, SyncEnds, SyncOnly,
        StopSync, SyncEndedFirst, SyncJoined, SyncTimedOut, ObserverJoined, CloseFence,
        Drain, DropRuntime, SupervisorOnly, locks, vars
    <2>. QED BY <2>1
  <1>. QED BY <1>1, <1>2

\* The values a health snapshot may have, written late or not.
LEMMA SnapshotTypes ==
    ASSUME StatusTypeOK
    PROVE  /\ \A h, l \in BOOLEAN : Snapshot(h, l) \in Snapshots
           /\ Late(writing) \in Snapshots \cup {None}
           /\ Late(snap) \in Snapshots \cup {None}
           /\ {snap, writing} \subseteq Snapshots \cup {None}
  <1>1. \A s \in Snapshots : [s EXCEPT !.heard = FALSE] \in Snapshots
    BY DEF Snapshots
  <1>2. \A h, l \in BOOLEAN : Snapshot(h, l) \in Snapshots
    BY DEF Snapshot, Snapshots, StatusTypeOK
  <1>. QED BY <1>1, <1>2 DEF StatusTypeOK, Late

\* The status command and the starts keep their types.
LEMMA StatusTypes == RunInv /\ StatusTypeOK /\ [StatusNext]_allvars => StatusTypeOK'
  <1>. SUFFICES ASSUME RunInv, StatusTypeOK, [StatusNext]_allvars PROVE StatusTypeOK'
    OBVIOUS
  <1>. USE DEF StatusTypeOK
  <1>1. CASE Rest \/ OtherWork \/ UNCHANGED allvars
    BY <1>1 DEF Rest, OtherWork, statusVars, allvars, starts, health
  <1>2. CASE WriteHealth
    <2>1. {heard', linkUp'} \subseteq BOOLEAN
      BY <1>2 DEF WriteHealth
    <2>2. writing' \in Snapshots
      BY <1>2, <2>1, SnapshotTypes DEF WriteHealth
    <2>. QED BY <1>2, <2>1, <2>2 DEF WriteHealth, starts
  <1>3. CASE WorkDone
    BY <1>3, SnapshotTypes DEF WorkDone, starts
  <1>4. CASE LeasePasses
    <2>1. heard' \in BOOLEAN
      BY <1>4 DEF LeasePasses
    <2>2. {writing', snap'} \subseteq Snapshots \cup {None}
      BY <1>4, SnapshotTypes DEF LeasePasses
    <2>. QED BY <1>4, <2>1, <2>2 DEF LeasePasses, starts
  <1>5. CASE TakeLock
    <2>1. lastRun' \in 1..MaxRuns
      BY <1>5, RunsAssumption DEF TakeLock
    <2>2. (reader.pc # "idle") \in BOOLEAN
      OBVIOUS
    <2>. QED BY <1>5, <2>1, <2>2 DEF TakeLock, health
  <1>6. CASE WriteIdentity
    BY <1>6, RunsAssumption DEF WriteIdentity, health
  <1>7. CASE Begin
    BY <1>7 DEF Begin
  <1>8. CASE StartEnds
    BY <1>8 DEF StartEnds, health
  <1>9. CASE Kill
    BY <1>9, SnapshotTypes DEF Kill, starts
  <1>10. CASE RivalTries
    BY <1>10 DEF RivalTries, starts, health
  <1>11. CASE RivalUnlocks
    BY <1>11 DEF RivalUnlocks, starts, health
  <1>12. CASE ReadSnapshot
    <2>1. lock \in BOOLEAN
      BY DEF RunInv, RunTypes
    <2>2. /\ (lock /\ run = snap.run) \in BOOLEAN /\ (heard /\ run = snap.run) \in BOOLEAN
          /\ (rival \/ next \in {"holding", "emptied"}) \in BOOLEAN
      OBVIOUS
    <2>3. reader' \in [pc : {"idle", "snapshot", "identity"}, snap : Snapshots \cup {None},
                      id : 0..MaxRuns, alive : BOOLEAN, lease : BOOLEAN, raced : BOOLEAN]
      BY <1>12, <2>2, RunsAssumption DEF ReadSnapshot
    <2>. QED BY <1>12, <2>3 DEF ReadSnapshot, starts, health
  <1>13. CASE ReadIdentity
    BY <1>13, RunsAssumption DEF ReadIdentity, Idle, starts, health
  <1>14. CASE Probe
    BY <1>14, RunsAssumption DEF Probe, Idle, starts, health
  <1>. QED BY <1>1, <1>2, <1>3, <1>4, <1>5, <1>6, <1>7, <1>8, <1>9, <1>10, <1>11,
              <1>12, <1>13, <1>14 DEF StatusNext

\* The fields a status command has read are typed.
LEMMA ReaderFields ==
    ASSUME StatusTypeOK
    PROVE  /\ run \in Int /\ lastRun \in Int /\ named \in Int
           /\ reader.alive \in BOOLEAN /\ reader.lease \in BOOLEAN
           /\ reader.raced \in BOOLEAN
  BY RunsAssumption DEF StatusTypeOK

\* The identity in the lock file names the run or the start that wrote it.
LEMMA NameStep == StatusInv /\ [StatusNext]_allvars => NameInv'
  <1>. SUFFICES ASSUME StatusInv, [StatusNext]_allvars PROVE NameInv'
    OBVIOUS
  <1>. USE DEF NameInv
  <1>0. NameInv /\ StatusTypeOK /\ RunInv
    BY DEF StatusInv
  <1>1. CASE Rest \/ OtherWork \/ WriteHealth \/ WorkDone
    <2>1. Next /\ UNCHANGED starts
      BY <1>1 DEF Rest, OtherWork, WriteHealth, WorkDone, Next, RunSync, statusVars
    <2>2. lock' => lock
      BY <1>0, <2>1, LockOnlyReleased
    <2>. QED BY <1>0, <2>1, <2>2 DEF starts
  <1>2. CASE TakeLock
    BY <1>0, <1>2, ReaderFields DEF TakeLock, LockFree, vars, locks
  <1>3. CASE WriteIdentity
    BY <1>0, <1>3 DEF WriteIdentity, vars, locks
  <1>4. CASE Begin
    BY <1>0, <1>4, ReaderFields DEF Begin
  <1>5. CASE StartEnds
    BY <1>0, <1>5 DEF StartEnds, vars, locks
  <1>6. CASE Kill
    BY <1>0, <1>6 DEF Kill, starts
  <1>7. CASE \/ LeasePasses \/ RivalTries \/ RivalUnlocks \/ ReadSnapshot
             \/ ReadIdentity \/ Probe \/ UNCHANGED allvars
    <2>1. UNCHANGED <<lock, run, next, lastRun, named>>
      BY <1>7 DEF LeasePasses, RivalTries, RivalUnlocks, ReadSnapshot, ReadIdentity,
                  Probe, allvars, statusVars, starts, vars, locks
    <2>. QED BY <1>0, <2>1
  <1>. QED BY <1>1, <1>2, <1>3, <1>4, <1>5, <1>6, <1>7 DEF StatusNext

\* Health snapshots are of runs that have begun, and claim no answer that the facts
\* of their run do not.
LEMMA SnapStep == StatusInv /\ [StatusNext]_allvars => SnapInv'
  <1>. SUFFICES ASSUME StatusInv, [StatusNext]_allvars PROVE SnapInv'
    OBVIOUS
  <1>. USE DEF SnapInv
  <1>0. SnapInv /\ NameInv /\ StatusTypeOK /\ RunInv
    BY DEF StatusInv
  <1>1. CASE Rest \/ OtherWork
    <2>1. Next /\ UNCHANGED <<run, heard, writing, snap>>
      BY <1>1 DEF Rest, OtherWork, Next, RunSync, statusVars, starts, health
    <2>2. lock' => lock
      BY <1>0, <2>1, LockOnlyReleased
    <2>. QED BY <1>0, <2>1, <2>2
  <1>2. CASE WriteHealth
    <2>1. heard => heard'
      BY <1>2 DEF WriteHealth
    <2>2. lock' => lock
      BY <1>0, <1>2, LockOnlyReleased DEF WriteHealth, Next, RunSync
    <2>3. writing'.run = run /\ (writing'.heard => heard')
      BY <1>2 DEF WriteHealth, Snapshot
    <2>. QED BY <1>0, <1>2, <2>1, <2>2, <2>3 DEF WriteHealth, starts
  <1>3. CASE WorkDone
    <2>1. lock' => lock
      BY <1>0, <1>3, LockOnlyReleased DEF WorkDone, Next
    <2>. QED BY <1>0, <1>3, <2>1, ReaderFields DEF WorkDone, starts
  <1>4. CASE LeasePasses
    <2>1. \A s \in Snapshots \cup {None} : s # None =>
             Late(s).run = s.run /\ Late(s).heard = FALSE
      BY DEF Late, Snapshots
    <2>2. Late(None) = None
      BY DEF Late
    <2>. QED BY <1>0, <1>4, <2>1, <2>2, SnapshotTypes DEF LeasePasses, starts
  <1>5. CASE Begin
    <2>1. snap # None => snap.run <= run /\ snap.run \in Int
      BY <1>0 DEF StatusTypeOK, Snapshots
    <2>. QED BY <1>0, <1>5, <2>1, ReaderFields DEF Begin, NameInv
  <1>6. CASE Kill
    BY <1>0, <1>6, ReaderFields DEF Kill, starts
  <1>7. CASE \/ TakeLock \/ WriteIdentity \/ StartEnds \/ RivalTries \/ RivalUnlocks
             \/ ReadSnapshot \/ ReadIdentity \/ Probe \/ UNCHANGED allvars
    <2>1. UNCHANGED <<lock, run, heard, writing, snap>>
      BY <1>7 DEF TakeLock, WriteIdentity, StartEnds, RivalTries, RivalUnlocks,
        ReadSnapshot, ReadIdentity, Probe, allvars, statusVars, starts, health, vars, locks
    <2>. QED BY <1>0, <2>1
  <1>. QED BY <1>1, <1>2, <1>3, <1>4, <1>5, <1>6, <1>7 DEF StatusNext

\* What was true when a status command read the snapshot still decides what it may
\* say, as long as no other process took the lock.
LEMMA ReaderStep == StatusInv /\ [StatusNext]_allvars => ReaderInv'
  <1>. SUFFICES ASSUME StatusInv, [StatusNext]_allvars PROVE ReaderInv'
    OBVIOUS
  <1>. USE DEF ReaderInv, LockFree
  <1>0. ReaderInv /\ SnapInv /\ NameInv /\ StatusTypeOK /\ RunInv
    BY DEF StatusInv
  <1>1. CASE Rest \/ OtherWork \/ WriteHealth \/ WorkDone
    <2>1. Next /\ UNCHANGED <<starts, rival, reader>>
      BY <1>1 DEF Rest, OtherWork, WriteHealth, WorkDone, Next, RunSync, statusVars
    <2>2. lock' => lock
      BY <1>0, <2>1, LockOnlyReleased
    <2>. QED BY <1>0, <2>1, <2>2 DEF starts
  <1>2. CASE TakeLock
    BY <1>0, <1>2 DEF TakeLock, StatusTypeOK
  <1>3. CASE WriteIdentity
    BY <1>0, <1>3 DEF WriteIdentity, vars, locks
  <1>4. CASE Begin
    BY <1>0, <1>4 DEF Begin
  <1>5. CASE StartEnds
    BY <1>0, <1>5 DEF StartEnds, vars, locks
  <1>6. CASE Kill
    BY <1>0, <1>6 DEF Kill, starts
  <1>7. CASE RivalTries
    BY <1>0, <1>7 DEF RivalTries, StatusTypeOK
  <1>8. CASE RivalUnlocks
    BY <1>0, <1>8 DEF RivalUnlocks, starts, vars, locks
  <1>9. CASE ReadSnapshot
    <2>1. /\ reader'.pc = "snapshot" /\ reader'.snap = snap
          /\ reader'.alive = (lock /\ run = snap.run)
          /\ reader'.lease = (heard /\ run = snap.run)
          /\ reader'.raced = (rival \/ next \in {"holding", "emptied"})
          /\ UNCHANGED <<lock, next, rival, named>> /\ snap # None
      BY <1>9 DEF ReadSnapshot, starts, vars, locks
    <2>2. ~reader'.raced => reader'.alive \/ LockFree \/ named # snap.run
      <3>1. snap.run \in Int /\ snap.run <= run /\ (next = "named" => run < lastRun)
        BY <1>0, <2>1 DEF StatusTypeOK, Snapshots, SnapInv, NameInv
      <3>2. CASE next = "named"
        BY <1>0, <3>1, <3>2, ReaderFields DEF NameInv
      <3>3. CASE next = "none"
        BY <1>0, <2>1, <3>3 DEF NameInv
      <3>. QED BY <1>0, <2>1, <3>2, <3>3 DEF StatusTypeOK
    <2>3. reader'.alive /\ snap.heard => reader'.lease
      BY <1>0, <2>1 DEF SnapInv
    <2>. QED BY <2>1, <2>2, <2>3
  <1>10. CASE ReadIdentity
    BY <1>0, <1>10 DEF ReadIdentity, Idle, StatusTypeOK, starts, vars, locks
  <1>11. CASE LeasePasses \/ Probe \/ UNCHANGED allvars
    BY <1>0, <1>11 DEF LeasePasses, Probe, Idle, allvars, statusVars, starts, vars, locks
  <1>. QED BY <1>1, <1>2, <1>3, <1>4, <1>5, <1>6, <1>7, <1>8, <1>9, <1>10, <1>11
    DEF StatusNext

\* The invariant holds when the first run has taken both locks.
LEMMA StatusStarts == StatusInit => StatusInv
  <1>. SUFFICES ASSUME StatusInit PROVE StatusInv
    OBVIOUS
  <1>1. RunInv
    BY RunStarts DEF StatusInit
  <1>2. StatusTypeOK
    <2>1. {rival, heard, linkUp} \subseteq BOOLEAN
      BY DEF StatusInit
    <2>. QED BY <2>1, RunsAssumption DEF StatusInit, StatusTypeOK, Idle
  <1>3. NameInv /\ SnapInv /\ ReaderInv
    BY DEF StatusInit, Init, NameInv, SnapInv, ReaderInv, Idle
  <1>. QED BY <1>1, <1>2, <1>3 DEF StatusInv

\* Every step of a run, of a start and of a status command keeps the invariant.
LEMMA StatusStep == StatusInv /\ [StatusNext]_allvars => StatusInv'
  BY RunsStep, StatusTypes, NameStep, SnapStep, ReaderStep DEF StatusInv

\* However many runs take the instance lock, die or are killed, one after the other:
\* what RunCorrect says of one run holds of each of them.
THEOREM RunsCorrect ==
    StatusSpec => [](TypeOK /\ WorkUnderLocks /\ CloseAfterSync /\ HonestExit)
  <1>1. StatusInv => TypeOK /\ WorkUnderLocks /\ CloseAfterSync /\ HonestExit
    BY RunPromises DEF StatusInv, RunInv
  <1>. QED BY <1>1, StatusStarts, StatusStep, PTL DEF StatusSpec

(***************************************************************************)
(* Its three parts, each a promise of run: file work stays under both      *)
(* locks although an aborted sync task leaves its blocking call running;   *)
(* the last segment is closed after the sync task ended; and exit code 0   *)
(* means that nothing failed.                                              *)
(***************************************************************************)
THEOREM FileWorkIsLocked == StatusSpec => []WorkUnderLocks
  BY RunsCorrect, PTL

(* The observer closes its last segment only when the sync task has ended,
   whichever task ends first: the shutdown barrier of supervise_observer.  *)
THEOREM SegmentIsClosedLast == StatusSpec => []CloseAfterSync
  BY RunsCorrect, PTL

(* Exit code 0 of run_native says that nothing failed, over every order in
   which the tasks may fail or end.                                        *)
THEOREM ExitCodeIsHonest == StatusSpec => []HonestExit
  BY RunsCorrect, PTL

\* What the processes of all runs do to the variables of Supervision: a step of the one
\* run, its end by a kill, or the beginning of the next when nothing of it is left.
Begins == sup = "gone" /\ blocking = "none" /\ Init'
Killed ==
    /\ sup # "gone" /\ sup' = "gone" /\ failed' = TRUE
    /\ lock' = FALSE /\ privateLock' = FALSE /\ blocking' = "none"

\* Every run of the command is a run of Supervision until it ends or is killed, and no
\* two overlap: the next begins (run_native, past InstanceLock::open and the private-
\* state lock) only when the one before is gone, with its file work.
THEOREM RunsAreSupervised == StatusSpec => Init /\ [][Next \/ Begins \/ Killed]_vars
  <1>1. StatusInv /\ [StatusNext]_allvars => [Next \/ Begins \/ Killed]_vars
    <2>. SUFFICES ASSUME StatusInv, [StatusNext]_allvars
                  PROVE  [Next \/ Begins \/ Killed]_vars
      OBVIOUS
    <2>1. CASE [Next]_vars
      BY <2>1
    <2>2. CASE Begin
      <3>1. sup = "gone" /\ blocking = "none"
        BY <2>2 DEF Begin, StatusInv, RunInv, LockInv, FenceInv
      <3>. QED BY <2>2, <3>1, BeginsAsInit DEF Begins
    <2>3. CASE Kill
      BY <2>3 DEF Kill, Killed
    <2>. QED BY <2>1, <2>2, <2>3, StepOfRun
  <1>2. StatusInit => Init
    BY DEF StatusInit
  <1>. QED BY <1>1, <1>2, StatusStarts, StatusStep, PTL DEF StatusSpec

\* inspect_existing and read_status_health: a status command that finds the lock taken
\* and the identity in it equal to the snapshot's tells the health of a run that held
\* the lock when its snapshot was read, unless another process got in between.
THEOREM StatusIsOfALiveRun == StatusSpec => []LiveMeansRunning
  <1>1. StatusInv => LiveMeansRunning
    <2>. SUFFICES ASSUME StatusInv, Live, ~reader.raced PROVE reader.alive
      BY DEF LiveMeansRunning
    <2>1. reader.pc = "identity" /\ ~LockFree /\ reader.snap.run = reader.id
      BY DEF Live, SameRun
    <2>. QED BY <2>1 DEF StatusInv, ReaderInv
  <1>. QED BY <1>1, StatusStarts, StatusStep, PTL DEF StatusSpec

\* state_now: the status command tells of a connection only when the run it is about
\* had heard from the journal within CONNECTED_LEASE_SECONDS of the read.
THEOREM StatusUpIsHeard == StatusSpec => []UpMeansHeard
  <1>1. StatusInv => UpMeansHeard
    <2>. SUFFICES ASSUME StatusInv, LiveUp, ~reader.raced PROVE reader.lease
      BY DEF UpMeansHeard
    <2>1. reader.pc = "identity" /\ ~LockFree /\ reader.snap.run = reader.id
      BY DEF LiveUp, Live, SameRun
    <2>2. reader.snap.heard
      BY DEF LiveUp
    <2>. QED BY <2>1, <2>2 DEF StatusInv, ReaderInv
  <1>. QED BY <1>1, StatusStarts, StatusStep, PTL DEF StatusSpec
=============================================================================
