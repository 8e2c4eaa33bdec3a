----------------------------- MODULE RetryClamp -----------------------------
(***************************************************************************)
(* RetrySchedule with a history of how long ago a sweep cut a wait short,  *)
(* to state what the clamp in run_sweep is for.                            *)
(*                                                                         *)
(* The clock is set back between two sweeps, under a wait that is on disk: *)
(* the wait then lies further ahead than its interval.  The history counts *)
(* from the sweep that leaves the segment under the clamp, and counts only *)
(* the hours between sweeps, so that those within one count for nothing.   *)
(***************************************************************************)
EXTENDS RetrySchedule

VARIABLE passed  \* history: hours between sweeps since one clamped the wait, or None

(* The time on disk is further ahead of this sweep than one interval.      *)
Ahead == OwnState /\ sched.due + lag > sched.interval

ClampNext ==
    \/ /\ Hour
       /\ passed' = IF passed = None \/ visit # "no" THEN passed ELSE Min({passed + 1, Day})
    \/ Skip /\ passed' = IF passed = None /\ Ahead THEN 0 ELSE passed
    \/ (sched # None /\ visit = "no" /\ ClockSetBack) /\ passed' = None
    \/ (Accepted \/ Restart \/ \E a \in Answers : Refused(a)) /\ passed' = None
    \/ (SweepLists \/ SweepEnds \/ SweepOver \/ Rest) /\ UNCHANGED passed

ClampSpec ==
    ScheduleInit /\ passed = None /\ [][ClampNext]_<<allvars, passed>>

(* "Future due times clamp to one interval" (tests/sync_scheduler.rs): a   *)
(* sweep that finds the time on disk further ahead takes it for one        *)
(* interval from now, so that, the clock left alone from then on, a sweep  *)
(* one interval later finds the segment due.  The clamp in run_sweep is    *)
(* taken anew from the clock of each sweep and is not stored.              *)
WaitClamped ==
    pc = "answers" /\ visit = "skipped" /\ floor = None /\ passed # None =>
        passed < sched.interval
=============================================================================
