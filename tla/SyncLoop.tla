------------------------------ MODULE SyncLoop ------------------------------
(***************************************************************************)
(* When the sync scheduler sweeps (sync.rs SyncWake, Backoff,              *)
(* run_with_shutdown).                                                     *)
(*                                                                         *)
(* The observer's blocking thread finalizes a segment and wakes the loop:  *)
(* it stores a flag, then notifies.  The loop waits in a select among the  *)
(* shutdown, the wake, the periodic tick, the retry deadline and a sleep   *)
(* of the machine; the wake future is dropped whenever another branch      *)
(* wins.  What a sweep does with a segment is module Custody.              *)
(***************************************************************************)
EXTENDS Integers

CONSTANT Delays  \* the length of RETRY_DELAYS

ASSUME ConstantsAssumption == Delays \in Nat \ {0}

VARIABLES
    captured,   \* a segment was finalized, how many does not matter
    unswept,    \* history: one was finalized and no sweep has listed it
    closing,    \* the observer's thread: "no", "renamed", "stored"
    pending,    \* SyncWake.pending
    permit,     \* SyncWake.notify holds a permit
    pc,         \* the loop
    waiting,    \* the future of SyncWake::wait: "fresh" or "parked"
    requested,  \* a sweep is requested
    deadline,   \* Backoff.deadline: "none", "set", "passed"
    delay,      \* Backoff.next_delay
    owed,       \* history: a failed sweep's delay is not over
    stop        \* shutdown was requested

wake == <<pending, permit>>
backoff == <<deadline, delay, owed>>
vars == <<captured, unswept, closing, wake, pc, waiting, requested, backoff, stop>>

Init ==
    /\ captured = FALSE /\ unswept = FALSE /\ closing = "no"
    /\ pending = FALSE /\ permit = FALSE
    /\ pc = "top" /\ waiting = "fresh" /\ requested = TRUE
    /\ deadline = "none" /\ delay = 0 /\ owed = FALSE /\ stop = FALSE

----------------------------------------------------------------------------
(* The observer's thread *)

Rename ==
    /\ closing = "no"
    /\ closing' = "renamed" /\ captured' = TRUE /\ unswept' = TRUE
    /\ UNCHANGED <<wake, pc, waiting, requested, backoff, stop>>

(* segment_closed *)
StorePending ==
    /\ closing = "renamed" /\ closing' = "stored"
    /\ pending' = TRUE
    /\ UNCHANGED <<captured, unswept, permit, pc, waiting, requested, backoff, stop>>

NotifyOne ==
    /\ closing = "stored" /\ closing' = "no"
    /\ permit' = TRUE
    /\ UNCHANGED <<captured, unswept, pending, pc, waiting, requested, backoff, stop>>

----------------------------------------------------------------------------
(* The loop *)

LoopOnly == UNCHANGED <<captured, closing, stop>>

Shutdown ==
    /\ ~stop /\ stop' = TRUE
    /\ UNCHANGED <<captured, unswept, closing, wake, pc, waiting, requested, backoff>>

(* A loop told to stop comes to its select, or to a cancellable request,   *)
(* before the shortest delay, five seconds, is over.                       *)
TimePasses ==
    /\ ~stop /\ deadline = "set" /\ deadline' = "passed" /\ owed' = FALSE
    /\ UNCHANGED <<captured, unswept, closing, wake, pc, waiting, requested, delay, stop>>

Top ==
    /\ pc = "top"
    /\ pc' = CASE requested /\ deadline = "none" -> "sweep"
               [] requested /\ deadline # "none" -> "finish"
               [] OTHER -> "idle"
    /\ UNCHANGED <<unswept, wake, waiting, requested, backoff>> /\ LoopOnly

(* local_finish while backing off: removals go on without the journal.     *)
Finish ==
    /\ pc = "finish"
    /\ \/ stop /\ pc' = "stopped" /\ UNCHANGED deadline
       \/ /\ deadline = "passed"
          /\ deadline' = "none" /\ pc' = "sweep"
       \/ /\ deadline = "set"
          /\ pc' = "backoff" /\ UNCHANGED deadline
    /\ UNCHANGED <<unswept, wake, waiting, requested, delay, owed>> /\ LoopOnly

Selecting == pc \in {"idle", "backoff"}

Stops ==
    /\ Selecting /\ stop /\ pc' = "stopped"
    /\ UNCHANGED <<unswept, wake, waiting, requested, backoff>> /\ LoopOnly

(* SyncWake::wait: the flag first, then the notification, then the flag.   *)
WaitParks ==
    /\ Selecting /\ ~stop /\ waiting = "fresh" /\ ~pending
    /\ waiting' = "parked"
    /\ UNCHANGED <<unswept, wake, pc, requested, backoff>> /\ LoopOnly

WaitNotified ==
    /\ Selecting /\ ~stop /\ waiting = "parked" /\ permit
    /\ permit' = FALSE /\ waiting' = "fresh"
    /\ UNCHANGED <<unswept, pending, pc, requested, backoff>> /\ LoopOnly

WaitReturns_resets ==
    /\ Selecting /\ ~stop /\ waiting = "fresh" /\ pending
    /\ pending' = FALSE /\ requested' = TRUE /\ pc' = "top" /\ deadline' = "none"
    /\ UNCHANGED <<unswept, permit, waiting, delay, owed>> /\ LoopOnly

WaitReturns ==
    /\ Selecting /\ ~stop /\ waiting = "fresh" /\ pending
    /\ pending' = FALSE /\ requested' = TRUE /\ pc' = "top"
    /\ UNCHANGED <<unswept, permit, waiting, backoff>> /\ LoopOnly

(* The tick wakes the idle loop; in backoff it only writes health.  Like   *)
(* each branch that wins over the wake, it drops the future of the wait.   *)
Periodic ==
    /\ Selecting /\ ~stop
    /\ requested' = TRUE /\ pc' = "top" /\ waiting' = "fresh"
    /\ UNCHANGED <<unswept, wake, backoff>> /\ LoopOnly

DeadlineReached ==
    /\ pc = "backoff" /\ ~stop /\ deadline = "passed"
    /\ deadline' = "none" /\ pc' = "top" /\ waiting' = "fresh"
    /\ UNCHANGED <<unswept, wake, requested, delay, owed>> /\ LoopOnly

(* The machine slept: the wait for the journal starts over.                *)
Slept ==
    /\ Selecting /\ ~stop
    /\ deadline' = "none" /\ owed' = FALSE /\ requested' = TRUE /\ pc' = "top"
    /\ waiting' = "fresh"
    /\ UNCHANGED <<unswept, wake, delay>> /\ LoopOnly

(* run_sweep, from its scan to its last answer.                            *)
SweepScans ==
    /\ pc = "sweep"
    /\ \/ stop /\ pc' = "stopped" /\ UNCHANGED unswept
       \/ pc' = "answers" /\ unswept' = FALSE
    /\ UNCHANGED <<wake, waiting, requested, backoff>> /\ LoopOnly

SweepCancelled_ignored ==
    /\ pc = "answers" /\ stop
    /\ pc' = "after"
    /\ UNCHANGED <<unswept, wake, waiting, requested, backoff>> /\ LoopOnly

SweepCancelled ==
    /\ pc = "answers" /\ stop
    /\ pc' = "stopped"
    /\ UNCHANGED <<unswept, wake, waiting, requested, backoff>> /\ LoopOnly

SweepSucceeds ==
    /\ pc = "answers" /\ ~stop
    /\ delay' = 0 /\ deadline' = "none" /\ owed' = FALSE
    /\ requested' = FALSE /\ pc' = "after"
    /\ UNCHANGED <<unswept, wake, waiting>> /\ LoopOnly

failed_operation(from) ==
    /\ delay' = IF from + 1 < Delays THEN from + 1 ELSE Delays - 1
    /\ deadline' = "set" /\ owed' = TRUE

(* An operation before the failing one may have succeeded.                 *)
SweepFails ==
    /\ pc = "answers" /\ ~stop
    /\ \E from \in {delay, 0} : failed_operation(from)
    /\ requested' = TRUE /\ pc' = "after"
    /\ UNCHANGED <<unswept, wake, waiting>> /\ LoopOnly

(* The captures root cannot be listed: no request, no look at the shutdown. *)
ScanFails ==
    /\ pc = "sweep"
    /\ failed_operation(delay)
    /\ requested' = TRUE /\ pc' = "after"
    /\ UNCHANGED <<unswept, wake, waiting>> /\ LoopOnly

TakePending_ignored ==
    /\ pc = "after"
    /\ pending' = FALSE
    /\ pc' = "top"
    /\ UNCHANGED <<unswept, permit, waiting, requested, backoff>> /\ LoopOnly

TakePending ==
    /\ pc = "after"
    /\ requested' = (requested \/ pending) /\ pending' = FALSE
    /\ pc' = "top"
    /\ UNCHANGED <<unswept, permit, waiting, backoff>> /\ LoopOnly

Thread == StorePending \/ NotifyOne
Wait == WaitParks \/ WaitNotified \/ WaitReturns
Sweep ==
    \/ SweepScans \/ ScanFails \/ SweepSucceeds \/ SweepFails \/ SweepCancelled
    \/ TakePending
Loop == Top \/ Finish \/ Stops \/ Wait \/ DeadlineReached \/ Sweep
Next ==
    \/ Rename \/ Thread \/ Shutdown \/ TimePasses \/ Loop \/ Periodic \/ Slept

Spec == Init /\ [][Next]_vars

----------------------------------------------------------------------------
(* Properties *)

(* Neither a finalized segment nor the periodic tick cuts a retry delay    *)
(* short: after a failed sweep the next one starts when the delay is over  *)
(* or the machine slept (Backoff::deadline in run_with_shutdown).          *)
BackoffHeld == pc \in {"sweep", "answers"} => ~owed

(* No wake is lost: again and again all that was finalized has been listed *)
(* by a sweep, without the help of the periodic tick, wherever in the loop *)
(* the flag and the notification land.                                     *)
NoLostWake == []<>(~unswept \/ pc = "stopped")

(* A shutdown request ends the loop, should the process not end before.    *)
ShutdownEnds == []<>(~stop \/ pc = "stopped")
=============================================================================
