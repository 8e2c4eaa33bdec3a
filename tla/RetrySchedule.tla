---------------------------- MODULE RetrySchedule ----------------------------
(***************************************************************************)
(* When one segment is offered again after the journal refused it (sync.rs *)
(* StateRecord, SyncMemoryFloors, the due check and the answers of         *)
(* run_sweep), under the loop of module SyncLoop.                          *)
(*                                                                         *)
(* No timer waits for a segment: a sweep that finds it not yet due leaves  *)
(* it, and some later sweep finds it due.  The wait is in state.json, or,  *)
(* when that cannot be written, in the memory of the process.  All times   *)
(* are wall-clock times, and are kept here in hours relative to the clock, *)
(* so that an hour passing lowers them and a clock set back raises them.   *)
(***************************************************************************)
EXTENDS SyncLoop, FiniteSetsExt

CONSTANTS
    None,        \* no record, no floor, no answer
    Answers,     \* the refusals a journal may give
    Unwritten,   \* those of them that say received but not written
    Day,         \* the long wait; the short one is one hour
    SweepHours,  \* bound on the hours that pass within one sweep
    MaxSetBack,  \* bound on the hours the clock is set back, all together
    MaxFaults,   \* bound on failing writes of the ledger
    MaxPairings, \* bound on the journals paired, one after the other
    MaxRestarts  \* bound on the restarts of the process

\* StateRecord, as far as a schedule is concerned.
Records == [due : Int, interval : {1, Day}, answer : Answers, count : 1..3,
            journal : 1..MaxPairings]

ASSUME ScheduleAssumption ==
    /\ Unwritten \subseteq Answers
    /\ None \notin Answers /\ None \notin Int /\ None \notin Records
    /\ Day \in Nat \ {0, 1} /\ MaxPairings \in Nat \ {0}
    /\ {SweepHours, MaxSetBack, MaxFaults, MaxRestarts} \subseteq Nat
    /\ SweepHours <= MaxSetBack

VARIABLES
    sched,     \* state.json: [due, interval, answer, count, journal], or None
    floor,     \* SyncMemoryFloors: hours until the segment is due, or None
    acked,     \* ack.json is written
    identity,  \* the paired journal
    lag,       \* hours since the sweep read the clock
    visit,     \* this sweep and the segment: "no", "listed", "skipped", "asked"
    wait,      \* history: hours of the wait the last refusal began
    refusedBy, \* history: the journal that gave it
    kept,      \* history: the last refusal was recorded
    setBack, faults, restarts

record == <<sched, floor, acked>>
history == <<wait, refusedBy, kept>>
bounds == <<setBack, faults, restarts>>
schedule == <<record, identity, lag, visit, history, bounds>>
allvars == <<vars, schedule>>

ScheduleInit ==
    /\ Init
    /\ sched = None /\ floor = None /\ acked = FALSE /\ identity = 1
    /\ lag = 0 /\ visit = "no"
    /\ wait = 0 /\ refusedBy = None /\ kept = TRUE
    /\ setBack = 0 /\ faults = 0 /\ restarts = 0

----------------------------------------------------------------------------
(* Time *)

\* Times long past are not told apart: neither is the clock set back to them nor a
\* sweep begun before them.  A floor long past is as good as none.
Shifted(t, d) == IF t = None THEN None ELSE Max({t + d, -MaxSetBack})
ShiftClock(d) ==
    /\ sched' = IF sched = None THEN None ELSE [sched EXCEPT !.due = Shifted(@, d)]
    /\ floor' = IF Shifted(floor, d) = -MaxSetBack THEN None ELSE Shifted(floor, d)

Hour ==
    /\ sched # None \/ floor # None \/ wait > 0
    /\ IF pc = "answers" THEN lag < SweepHours /\ lag' = lag + 1 ELSE UNCHANGED lag
    /\ ShiftClock(-1)
    /\ wait' = Max({wait - 1, 0})
    /\ UNCHANGED <<vars, acked, identity, visit, refusedBy, kept, bounds>>

ClockSetBack ==
    /\ setBack < MaxSetBack /\ setBack' = setBack + 1
    /\ ShiftClock(1)
    /\ lag' = IF pc = "answers" THEN lag - 1 ELSE lag
    /\ UNCHANGED <<vars, acked, identity, visit, history, faults, restarts>>

----------------------------------------------------------------------------
(* The sweep and the segment *)

SweepLists_newOnly ==
    /\ SweepScans
    /\ lag' = 0
    /\ visit' = IF pc' = "answers" /\ unswept /\ ~acked THEN "listed" ELSE "no"
    /\ UNCHANGED <<record, identity, history, bounds>>

\* local_finish, the clock, scan_candidates.
SweepLists ==
    /\ SweepScans
    /\ lag' = 0
    /\ visit' = IF pc' = "answers" /\ captured /\ ~acked THEN "listed" ELSE "no"
    /\ UNCHANGED <<record, identity, history, bounds>>

Blank == [due |-> -MaxSetBack, interval |-> 1, answer |-> None, count |-> 0,
          journal |-> identity]

OwnState_anyone == sched # None

\* A schedule another journal set counts for nothing.
OwnState == sched # None /\ sched.journal = identity
State == IF OwnState THEN sched ELSE Blank

\* Hours from the sweep's clock to the next attempt: the stored time, at most one
\* interval ahead, and the floor.
Clamped == IF OwnState THEN {Min({sched.due + lag, sched.interval})} ELSE {}
NextAttempts_floorless == Clamped
NextAttempts == Clamped \cup (IF floor = None THEN {} ELSE {floor + lag})

Due == \A t \in NextAttempts : t <= 0

Visiting == pc = "answers" /\ ~stop /\ visit = "listed"
LoopWaits == UNCHANGED <<vars, identity, lag, setBack, restarts>>

Skip ==
    /\ Visiting /\ ~Due
    /\ visit' = "skipped"
    /\ UNCHANGED <<record, history, faults>> /\ LoopWaits

Fault == faults < MaxFaults /\ faults' = faults + 1

Counted(a) == IF State.answer = a /\ a \notin Unwritten THEN Min({State.count + 1, 3}) ELSE 1

Interval(a) == IF a \in Unwritten \/ Counted(a) >= 3 THEN Day ELSE 1

\* RetainCandidate, an invalid receipt or none: the wait runs from the sweep's
\* clock, and is kept in memory when it cannot be written.
Refused(a) ==
    /\ Visiting /\ Due
    /\ visit' = "asked"
    /\ LET due == Interval(a) - lag
       IN  /\ \/ /\ sched' = [due |-> due, interval |-> Interval(a), answer |-> a,
                              count |-> Counted(a), journal |-> identity]
                 /\ kept' = TRUE /\ UNCHANGED <<floor, faults>>
              \/ Fault /\ floor' = due /\ kept' = FALSE /\ UNCHANGED sched
           /\ wait' = Max({due, 0})
    /\ refusedBy' = identity
    /\ UNCHANGED acked /\ LoopWaits

\* A receipt, or the segment was removed from the journal.
Accepted ==
    /\ Visiting /\ Due
    /\ visit' = "asked"
    /\ \/ /\ acked' = TRUE /\ floor' = None
          /\ sched' = None     \* should that fail, the acknowledgement still counts
          /\ wait' = 0 /\ refusedBy' = None /\ kept' = TRUE
          /\ UNCHANGED faults
       \/ /\ Fault             \* ack.json was not written: no wait
          /\ UNCHANGED <<record, history>>
    /\ LoopWaits

Visit == Skip \/ Accepted \/ \E a \in Answers : Refused(a)

\* Every candidate was visited; a failed request ends the sweep before that.
SweepEnds ==
    /\ visit # "listed" /\ SweepSucceeds
    /\ UNCHANGED schedule

SweepOver ==
    /\ TakePending
    /\ visit' = "no" /\ lag' = 0
    /\ UNCHANGED <<record, identity, history, bounds>>

----------------------------------------------------------------------------
(* The process *)

\* Killed, or stopped, and started again, perhaps paired with another journal in
\* between; floors are forgotten.
Restart ==
    /\ restarts < MaxRestarts /\ restarts' = restarts + 1
    /\ closing' = "no" /\ pending' = FALSE /\ permit' = FALSE
    /\ pc' = "top" /\ waiting' = "fresh" /\ requested' = TRUE
    /\ deadline' = "none" /\ delay' = 0 /\ owed' = FALSE /\ stop' = FALSE
    /\ identity' \in identity..Min({identity + 1, MaxPairings})
    /\ floor' = None /\ lag' = 0 /\ visit' = "no"
    /\ wait' = IF identity' # identity \/ ~kept THEN 0 ELSE wait
    /\ UNCHANGED <<captured, unswept, sched, acked, refusedBy, kept, setBack, faults>>

Rest ==
    /\ \/ Rename \/ Thread \/ Shutdown \/ TimePasses \/ Periodic \/ Slept
       \/ Top \/ Finish \/ Stops \/ Wait \/ DeadlineReached
       \/ ScanFails \/ SweepFails \/ SweepCancelled
    /\ UNCHANGED schedule

ScheduleNext ==
    Hour \/ ClockSetBack \/ SweepLists \/ Visit \/ SweepEnds \/ SweepOver \/ Restart \/ Rest

ScheduleSpec == ScheduleInit /\ [][ScheduleNext]_allvars

Still(A) == A /\ UNCHANGED schedule
LoopStep ==
    \/ Still(Top \/ Finish \/ Stops \/ Wait \/ DeadlineReached \/ ScanFails \/ SweepFails)
    \/ Still(SweepCancelled) \/ SweepLists \/ SweepEnds \/ SweepOver

(* The thread finishes its two stores, the loop is polled when it can go   *)
(* on, time passes, and the captures root is not unlistable for good.      *)
(* Neither the periodic tick nor a sleep of the machine is assumed: no     *)
(* wake may depend on them.                                                *)
ScheduleFairSpec ==
    /\ ScheduleSpec
    /\ WF_allvars(Still(Thread)) /\ WF_allvars(LoopStep \/ Visit)
    /\ WF_allvars(Still(TimePasses)) /\ SF_allvars(SweepLists)

----------------------------------------------------------------------------
(* Properties *)

Asks == visit = "listed" /\ visit' = "asked"

(* A journal that refused a segment is not asked about it again before the *)
(* wait its answer calls for is over in real time: across restarts, a      *)
(* clock set back, wakes by other segments and a state.json that cannot be *)
(* written, unless the refusal was forgotten with the memory of a process  *)
(* (disk_next_attempt and floor_next_attempt in run_sweep).                *)
Paced == [][Asks => wait = 0]_allvars

(* "A schedule set by any other journal, or by none, never delays          *)
(* delivery" (StateRecord): a segment is only ever left for later when the *)
(* journal now paired has refused it itself.                               *)
OtherJournalNeverDelays == visit = "skipped" => refusedBy = identity

(* A refused segment is offered again and again until it is acknowledged,  *)
(* although no timer runs for it, as long as the periodic tick comes and   *)
(* hours pass, requests before it do not fail for ever, and the loop runs. *)
Retried ==
    WF_allvars(Still(Periodic)) /\ WF_allvars(Hour) /\ SF_allvars(Visit)
        => []<>(~captured \/ acked \/ visit = "asked" \/ pc = "stopped")
=============================================================================
