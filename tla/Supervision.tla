---------------------------- MODULE Supervision ----------------------------
(***************************************************************************)
(* The run command's tasks and how they end (observer.rs run_observer,     *)
(* supervise_observer; sync.rs RetentionFence).                            *)
(*                                                                         *)
(* The observer polls and appends on a blocking thread; the sync task does *)
(* its file work on blocking threads, removals under the retention fence;  *)
(* the supervisor waits for whichever ends first, stops the other, drains  *)
(* the fence, restores the indicator and lets go of the instance lock.     *)
(* Aborting the sync task does not stop a blocking call it has started.    *)
(***************************************************************************)
EXTENDS Integers

VARIABLES
    signal,        \* SIGINT or SIGTERM has arrived
    obs,           \* the observer task
    obsFailed,     \* the observer has recorded a failure
    segment,       \* the open segment: "open", "closed", or "lost"
    request,       \* the barrier's request channel: "none", "sent", "dropped"
    release,       \* the barrier's release has been sent
    observerStop,  \* the supervisor told the observer to stop
    sync,          \* the sync task
    syncStop,      \* the supervisor told the sync task to stop
    blocking,      \* the file work under way: "none", "remove", "other"
    accepting,     \* RetentionFence.accepting
    permits,       \* RetentionFence.irreversible
    sup,           \* the supervisor
    failed,        \* the exit has a failure, hence exit code 1
    lock,          \* the instance lock is held
    privateLock    \* the private-state lock is held

observer == <<obs, obsFailed, segment, request>>
syncer == <<sync, blocking, permits>>
told == <<observerStop, syncStop, release>>
locks == <<lock, privateLock>>
vars == <<signal, observer, syncer, told, accepting, sup, failed, locks>>

Init ==
    /\ signal = FALSE
    /\ obs = "ticking" /\ obsFailed = FALSE /\ segment = "open" /\ request = "none"
    /\ sync = "running" /\ blocking = "none" /\ permits = 1
    /\ observerStop = FALSE /\ syncStop = FALSE /\ release = FALSE
    /\ accepting = TRUE /\ sup = "watching" /\ failed = FALSE
    /\ lock = TRUE /\ privateLock = TRUE

Signal ==
    /\ ~signal /\ signal' = TRUE
    /\ UNCHANGED <<observer, syncer, told, accepting, sup, failed, locks>>

----------------------------------------------------------------------------
(* run_observer *)

ObserverOnly == UNCHANGED <<signal, syncer, told, accepting, sup, failed, locks>>

StopEvent == signal \/ observerStop

(* The biased selects look for the stop event first.                       *)
Poll ==
    /\ obs = "ticking" /\ ~StopEvent
    /\ obs' = "capturing"
    /\ UNCHANGED <<obsFailed, segment, request>> /\ ObserverOnly

(* A failed tmux read still hands an empty poll to the segment.            *)
Captured ==
    /\ obs = "capturing" /\ ~StopEvent
    /\ obs' = "writing"
    /\ UNCHANGED <<obsFailed, segment, request>> /\ ObserverOnly

Processed ==
    /\ obs = "writing"
    /\ obs' = "ticking"
    /\ UNCHANGED <<obsFailed, segment, request>> /\ ObserverOnly

(* Leaving the loop: ask the supervisor to stop sync, and wait.            *)
AskToClose(failure) ==
    /\ obs' = "barrier" /\ request' = "sent"
    /\ obsFailed' = (obsFailed \/ failure)
    /\ UNCHANGED segment /\ ObserverOnly

ShutdownSeen == obs \in {"ticking", "capturing"} /\ StopEvent /\ AskToClose(FALSE)
CaptureTaskFailed == obs = "capturing" /\ ~StopEvent /\ AskToClose(TRUE)
PollFailed == obs = "writing" /\ AskToClose(TRUE)

(* The blocking thread panicked and took the segment with it: no barrier.  *)
PollPanicked ==
    /\ obs = "writing"
    /\ obs' = "done" /\ obsFailed' = TRUE /\ segment' = "lost" /\ request' = "dropped"
    /\ ObserverOnly

(* A panic of the task itself: the join reports it, the channel is dropped. *)
ObserverPanicked ==
    /\ obs \in {"ticking", "capturing", "barrier"}
    /\ obs' = "done" /\ obsFailed' = TRUE /\ segment' = "lost"
    /\ request' = IF request = "sent" THEN "sent" ELSE "dropped"
    /\ ObserverOnly

Released ==
    /\ obs = "barrier" /\ release
    /\ obs' = "closing"
    /\ UNCHANGED <<obsFailed, segment, request>> /\ ObserverOnly

Closed ==
    /\ obs = "closing" /\ obs' = "done"
    /\ \/ segment' = "closed" /\ UNCHANGED obsFailed
       \/ obsFailed' = TRUE /\ UNCHANGED segment
    /\ UNCHANGED request /\ ObserverOnly

----------------------------------------------------------------------------
(* The sync task and its blocking calls *)

SyncOnly == UNCHANGED <<signal, observer, told, accepting, sup, failed, locks>>

(* begin_irreversible, then spawn_blocking with the permit inside.         *)
BeginRemoval ==
    /\ sync = "running" /\ accepting /\ permits > 0 /\ blocking = "none"
    /\ sync' = "awaiting" /\ blocking' = "remove" /\ permits' = permits - 1
    /\ SyncOnly

(* Scans, hashing, ledger and health writes: not behind the fence.         *)
BeginOther ==
    /\ sync = "running" /\ blocking = "none"
    /\ sync' = "awaiting" /\ blocking' = "other"
    /\ UNCHANGED permits /\ SyncOnly

BlockingDone ==
    /\ blocking # "none"
    /\ permits' = IF blocking = "remove" THEN permits + 1 ELSE permits
    /\ blocking' = "none"
    /\ sync' = IF sync = "awaiting" THEN "running" ELSE sync
    /\ SyncOnly

(* It returns when told to, but also by itself: an error, a panic.         *)
SyncEnds(outcome) ==
    /\ sync = "running"
    /\ sync' = outcome
    /\ UNCHANGED <<blocking, permits>> /\ SyncOnly

Over == {"ok", "error", "panicked", "aborted"}

----------------------------------------------------------------------------
(* supervise_observer *)

SupervisorOnly == UNCHANGED <<signal, observer, blocking, permits>>

StopSync_releases ==
    /\ sup = "watching" /\ (obs = "done" \/ request = "sent")
    /\ sup' = "stopping" /\ syncStop' = TRUE /\ release' = TRUE
    /\ UNCHANGED <<sync, observerStop, accepting, failed, locks>> /\ SupervisorOnly

(* The observer ended or asked to close: sync is told to stop first.       *)
StopSync ==
    /\ sup = "watching" /\ (obs = "done" \/ request = "sent")
    /\ sup' = "stopping" /\ syncStop' = TRUE
    /\ UNCHANGED <<sync, observerStop, release, accepting, failed, locks>> /\ SupervisorOnly

SyncEndedFirst_unreleased ==
    /\ sup = "watching" /\ sync \in Over
    /\ sup' = "joining" /\ observerStop' = TRUE
    /\ failed' = TRUE
    /\ UNCHANGED <<sync, syncStop, release, accepting, locks>> /\ SupervisorOnly

(* The sync task ended by itself: that is a failure, whatever it returned. *)
SyncEndedFirst ==
    /\ sup = "watching" /\ sync \in Over
    /\ sup' = "joining" /\ observerStop' = TRUE /\ release' = TRUE
    /\ failed' = TRUE
    /\ UNCHANGED <<sync, syncStop, accepting, locks>> /\ SupervisorOnly

(* stop_sync_with_deadline, then release_observer.                         *)
SyncJoined ==
    /\ sup = "stopping" /\ sync \in Over
    /\ sup' = "joining" /\ release' = TRUE
    /\ failed' = (failed \/ sync # "ok")
    /\ UNCHANGED <<sync, observerStop, syncStop, accepting, locks>> /\ SupervisorOnly

SyncTimedOut_unreported ==
    /\ sup = "stopping" /\ sync \notin Over
    /\ sync' = "aborted" /\ sup' = "joining" /\ release' = TRUE
    /\ UNCHANGED <<observerStop, syncStop, accepting, failed, locks>> /\ SupervisorOnly

SyncTimedOut ==
    /\ sup = "stopping" /\ sync \notin Over
    /\ sync' = "aborted" /\ sup' = "joining" /\ release' = TRUE
    /\ failed' = TRUE
    /\ UNCHANGED <<observerStop, syncStop, accepting, locks>> /\ SupervisorOnly

ObserverJoined ==
    /\ sup = "joining" /\ obs = "done"
    /\ sup' = "closing" /\ failed' = (failed \/ obsFailed)
    /\ UNCHANGED <<sync, told, accepting, locks>> /\ SupervisorOnly

(* finish_supervision: close_and_drain, restore the indicator, unlock.     *)
CloseFence ==
    /\ sup = "closing"
    /\ sup' = "draining" /\ accepting' = FALSE
    /\ UNCHANGED <<sync, told, failed, locks>> /\ SupervisorOnly

Drain_unwaited ==
    /\ sup = "draining"
    /\ sup' = "restoring"
    /\ UNCHANGED <<sync, told, accepting, failed, locks>> /\ SupervisorOnly

Drain ==
    /\ sup = "draining" /\ permits > 0
    /\ sup' = "restoring"
    /\ UNCHANGED <<sync, told, accepting, failed, locks>> /\ SupervisorOnly

RestoreIndicator ==
    /\ sup = "restoring"
    /\ sup' = "exited" /\ lock' = FALSE
    /\ failed' \in {failed, TRUE}
    /\ UNCHANGED <<sync, told, accepting, privateLock>> /\ SupervisorOnly

(* Dropping the runtime waits for blocking threads; then run_native ends.  *)
DropRuntime ==
    /\ sup = "exited" /\ blocking = "none"
    /\ sup' = "gone" /\ privateLock' = FALSE
    /\ UNCHANGED <<sync, told, accepting, failed, lock>> /\ SupervisorOnly

Terminated == sup = "gone" /\ UNCHANGED vars

RunObserver == Poll \/ Captured \/ Processed \/ ShutdownSeen \/ Released \/ Closed
ObserverFails == CaptureTaskFailed \/ PollFailed \/ PollPanicked \/ ObserverPanicked
RunSync == BeginRemoval \/ BeginOther \/ \E o \in {"ok", "error", "panicked"} : SyncEnds(o)
Supervise ==
    \/ StopSync \/ SyncEndedFirst \/ SyncJoined \/ SyncTimedOut \/ ObserverJoined
    \/ CloseFence \/ Drain \/ RestoreIndicator \/ DropRuntime

Next ==
    \/ Signal \/ RunObserver \/ ObserverFails \/ RunSync \/ BlockingDone \/ Supervise
    \/ Terminated
Spec == Init /\ [][Next]_vars

(* The runtime polls ready tasks, tmux reads have a deadline, blocking     *)
(* calls return, and the 15 s timer fires.  Nothing is assumed to fail,    *)
(* and the sync task is not assumed to make progress.                      *)
FairSpec ==
    /\ Spec
    /\ WF_vars(RunObserver) /\ WF_vars(Supervise) /\ WF_vars(BlockingDone)

----------------------------------------------------------------------------
(* Properties *)

(* Every variable keeps its type; the fence has at most one permit.        *)
TypeOK ==
    /\ {signal, obsFailed, release, observerStop, syncStop, accepting, failed, lock,
        privateLock} \subseteq BOOLEAN
    /\ obs \in {"ticking", "capturing", "writing", "barrier", "closing", "done"}
    /\ segment \in {"open", "closed", "lost"} /\ request \in {"none", "sent", "dropped"}
    /\ sync \in Over \union {"running", "awaiting"}
    /\ blocking \in {"none", "remove", "other"} /\ permits \in 0..1
    /\ sup \in {"watching", "stopping", "joining", "closing", "draining", "restoring",
                "exited", "gone"}

(* A removal never runs without the instance lock, although an aborted     *)
(* sync task leaves its blocking call running (close_and_drain before the  *)
(* lock is dropped); other file work never outlives the private-state lock,*)
(* so neither setup nor a second observer sees it.                         *)
WorkUnderLocks ==
    /\ blocking = "remove" => lock
    /\ blocking # "none" => privateLock

(* The last segment is closed only when the sync task has ended: the       *)
(* barrier holds the observer until sync is stopped, joined or aborted.    *)
CloseAfterSync == obs = "closing" => sync \in Over

(* Exit code 0 is honest: the segment was closed, the sync task returned   *)
(* because it was told to, and nothing else was reported.                  *)
HonestExit ==
    sup \in {"exited", "gone"} /\ ~failed => segment = "closed" /\ sync = "ok" /\ signal

(* A signal, or the end of either task, leads to the end of the process    *)
(* with both locks free, even if the sync task never reacts.               *)
Exits == (signal \/ sync \in Over \/ obs \notin {"ticking", "capturing", "writing"}) ~> sup = "gone"
=============================================================================
