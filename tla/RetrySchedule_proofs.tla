------------------------ MODULE RetrySchedule_proofs ------------------------
(***************************************************************************)
(* Theorems about SyncLoop and RetrySchedule: the delay after a failed     *)
(* sweep is held, a refused segment is not offered again before its wait   *)
(* is over, and only the journal now paired makes it wait; for any delays, *)
(* answers, restarts, faults, pairings and clock steps.                    *)
(***************************************************************************)
EXTENDS RetrySchedule, TLAPS

----------------------------------------------------------------------------
(* The inductive invariants *)

\* The delay is owed only while the deadline stands; no sweep runs under a deadline.
BackoffInv ==
    /\ owed => deadline = "set"
    /\ pc \in {"sweep", "answers"} => deadline = "none"

ScheduleTypeOK ==
    /\ sched \in Records \cup {None} /\ floor \in Int \cup {None}
    /\ identity \in 1..MaxPairings /\ lag \in Int
    /\ visit \in {"no", "listed", "skipped", "asked"}
    /\ wait \in Nat /\ kept \in BOOLEAN

\* Whatever can make the segment wait was set by the journal now paired.
OwnerInv ==
    /\ sched # None => sched.journal <= identity
    /\ OwnState => refusedBy = identity
    /\ floor # None => refusedBy = identity
    /\ visit = "skipped" => refusedBy = identity

\* A time that covers the wait: it lies at least as far ahead, and for a sweep that
\* has read the clock it still lies as far ahead of that reading.
Covers(t) == t >= wait /\ (visit = "listed" => t + lag >= wait)

\* A wait that runs is recorded on disk, or in memory if the record failed.
WaitInv ==
    wait > 0 => IF kept THEN OwnState /\ Covers(sched.due)
                        ELSE floor # None /\ Covers(floor)

ScheduleInv == BackoffInv /\ ScheduleTypeOK /\ OwnerInv /\ WaitInv

----------------------------------------------------------------------------
(* Operators *)

\* The larger of two numbers.
LEMMA MaxOfTwo ==
    ASSUME NEW m \in Int, NEW n \in Int
    PROVE  Max({m, n}) = IF m >= n THEN m ELSE n
  <1>1. \E x \in {m, n} : \A y \in {m, n} : x >= y
    BY SMT
  <1>2. Max({m, n}) \in {m, n} /\ \A y \in {m, n} : Max({m, n}) >= y
    BY <1>1, Zenon DEF Max
  <1>. QED BY <1>2

\* The smaller of two numbers.
LEMMA MinOfTwo ==
    ASSUME NEW m \in Int, NEW n \in Int
    PROVE  Min({m, n}) = IF m <= n THEN m ELSE n
  <1>1. \E x \in {m, n} : \A y \in {m, n} : x <= y
    BY SMT
  <1>2. Min({m, n}) \in {m, n} /\ \A y \in {m, n} : Min({m, n}) <= y
    BY <1>1, Zenon DEF Min
  <1>. QED BY <1>2

\* A time moves with the clock, down to the last one that is told apart.
LEMMA ShiftedTime ==
    ASSUME NEW t \in Int, NEW d \in Int
    PROVE  Shifted(t, d) \in Int /\ Shifted(t, d) >= t + d
  <1>1. t # None /\ -MaxSetBack \in Int
    BY ScheduleAssumption
  <1>. QED BY <1>1, MaxOfTwo DEF Shifted

\* When the clock moves, the schedule keeps its journal and its times move along; a
\* floor that is still ahead stays.
LEMMA ShiftedSchedule ==
    ASSUME ScheduleTypeOK, NEW d \in Int, ShiftClock(d)
    PROVE  /\ sched' \in Records \cup {None} /\ floor' \in Int \cup {None}
           /\ sched # None <=> sched' # None
           /\ floor = None => floor' = None
           /\ sched # None =>
                  /\ sched.due \in Int /\ sched'.due \in Int
                  /\ sched'.due >= sched.due + d /\ sched'.journal = sched.journal
           /\ floor # None /\ floor + d > 0 =>
                  floor' \in Int /\ floor' # None /\ floor' >= floor + d
  <1>1. ASSUME sched # None
        PROVE  /\ sched' \in Records /\ sched.due \in Int /\ sched'.due \in Int
               /\ sched'.due >= sched.due + d /\ sched'.journal = sched.journal
    <2>1. sched \in Records /\ sched' = [sched EXCEPT !.due = Shifted(sched.due, d)]
      BY <1>1 DEF ScheduleTypeOK, ShiftClock
    <2>2. sched.due \in Int
      BY <2>1 DEF Records
    <2>. QED BY <2>1, <2>2, ShiftedTime DEF Records
  <1>2. ASSUME floor # None
        PROVE  /\ floor \in Int /\ floor' \in Int \cup {None}
               /\ floor + d > 0 => floor' \in Int /\ floor' # None /\ floor' >= floor + d
    <2>1. floor \in Int /\ Shifted(floor, d) \in Int /\ Shifted(floor, d) >= floor + d
      BY <1>2, ShiftedTime DEF ScheduleTypeOK
    <2>2. floor' = IF Shifted(floor, d) = -MaxSetBack THEN None ELSE Shifted(floor, d)
      BY DEF ShiftClock
    <2>3. MaxSetBack \in Nat
      BY ScheduleAssumption
    <2>4. None \notin Int
      BY ScheduleAssumption
    <2>. QED BY <2>1, <2>2, <2>3, <2>4
  <1>3. (sched = None => sched' = None) /\ (floor = None => floor' = None)
    BY ScheduleAssumption DEF ShiftClock, Shifted
  <1>. QED BY <1>1, <1>2, <1>3, ScheduleAssumption

----------------------------------------------------------------------------
(* The loop *)

\* Every step of the loop, the observer's thread and the clock keeps the backoff.
LEMMA BackoffStep == BackoffInv /\ [Next]_vars => BackoffInv'
  <1>. SUFFICES ASSUME BackoffInv, [Next]_vars PROVE BackoffInv'
    OBVIOUS
  <1>. USE DEF BackoffInv, LoopOnly, backoff, wake
  <1>1. CASE Rename \/ Thread \/ Shutdown \/ UNCHANGED vars
    BY <1>1 DEF Rename, Thread, StorePending, NotifyOne, Shutdown, vars
  <1>2. CASE TimePasses
    BY <1>2 DEF TimePasses
  <1>3. CASE Top
    BY <1>3 DEF Top
  <1>4. CASE Finish
    BY <1>4 DEF Finish
  <1>5. CASE Stops \/ Wait
    BY <1>5 DEF Stops, Wait, WaitParks, WaitNotified, WaitReturns
  <1>6. CASE DeadlineReached
    BY <1>6 DEF DeadlineReached
  <1>7. CASE SweepScans \/ SweepSucceeds \/ SweepCancelled \/ TakePending
    BY <1>7 DEF SweepScans, SweepSucceeds, SweepCancelled, TakePending
  <1>8. CASE SweepFails \/ ScanFails
    BY <1>8 DEF SweepFails, ScanFails, failed_operation
  <1>9. CASE Periodic \/ Slept
    BY <1>9 DEF Periodic, Slept, Selecting
  <1>. QED BY <1>1, <1>2, <1>3, <1>4, <1>5, <1>6, <1>7, <1>8, <1>9
    DEF Next, Loop, Sweep

\* Backoff::deadline in run_with_shutdown: after a failed sweep none starts before the
\* delay is over or the machine slept, however often segments are finalized and the
\* periodic tick comes meanwhile.
THEOREM BackoffIsHeld == Spec => []BackoffHeld
  <1>1. Init => BackoffInv
    BY DEF Init, BackoffInv
  <1>2. BackoffInv => BackoffHeld
    BY DEF BackoffInv, BackoffHeld
  <1>. QED BY <1>1, <1>2, BackoffStep, PTL DEF Spec

----------------------------------------------------------------------------
(* The schedule of one segment *)

\* A step of the loop alone leaves the schedule alone; the others are steps of the
\* loop, leave it alone, or restart it.
LEMMA LoopStepOrRestart ==
    [ScheduleNext]_allvars => [Next]_vars \/ Restart
  BY DEF ScheduleNext, Hour, ClockSetBack, SweepLists, Visit, Skip, Accepted, Refused,
    LoopWaits, SweepEnds, SweepOver, Rest, Next, Loop, Sweep, allvars

\* The backoff is held under the schedule, too.
LEMMA ScheduleBackoffStep == BackoffInv /\ [ScheduleNext]_allvars => BackoffInv'
  <1>1. Restart => BackoffInv'
    BY DEF Restart, BackoffInv
  <1>. QED BY <1>1, LoopStepOrRestart, BackoffStep

\* The wait an answer calls for, and the count of equal answers behind it.
LEMMA AnswerTypes ==
    ASSUME ScheduleTypeOK, NEW a \in Answers
    PROVE  Interval(a) \in {1, Day} /\ Counted(a) \in 1..3
  <1>1. Interval(a) \in {1, Day}
    BY DEF Interval
  <1>2. State.count \in 0..3
    BY DEF State, OwnState, Blank, ScheduleTypeOK, Records
  <1>3. Counted(a) \in 1..3
    BY <1>2, MinOfTwo DEF Counted
  <1>. QED BY <1>1, <1>3

\* A refusal begins a wait, measured from now, and records it on disk or in memory.
LEMMA RefusedSchedule ==
    ASSUME ScheduleTypeOK, NEW a \in Answers, Refused(a)
    PROVE  \E due \in Int :
               /\ wait' = (IF due >= 0 THEN due ELSE 0)
               /\ \/ /\ kept' = TRUE /\ UNCHANGED floor
                     /\ sched' \in Records /\ sched'.due = due /\ sched'.journal = identity
                  \/ kept' = FALSE /\ floor' = due /\ UNCHANGED sched
  <1>. DEFINE due == Interval(a) - lag
  <1>1. due \in Int /\ Interval(a) \in {1, Day} /\ Counted(a) \in 1..3
    BY AnswerTypes, ScheduleAssumption DEF ScheduleTypeOK
  <1>2. wait' = IF due >= 0 THEN due ELSE 0
    BY <1>1, MaxOfTwo DEF Refused
  <1>3. \/ /\ kept' = TRUE /\ UNCHANGED floor
           /\ sched' \in Records /\ sched'.due = due /\ sched'.journal = identity
        \/ kept' = FALSE /\ floor' = due /\ UNCHANGED sched
    <2>1. ASSUME sched' = [due |-> due, interval |-> Interval(a), answer |-> a,
                           count |-> Counted(a), journal |-> identity]
          PROVE  sched' \in Records /\ sched'.due = due /\ sched'.journal = identity
      BY <1>1, <2>1 DEF Records, ScheduleTypeOK
    <2>. QED BY <2>1 DEF Refused, due
  <1>. QED BY <1>1, <1>2, <1>3

\* The schedule keeps its types.
LEMMA ScheduleTypes == ScheduleTypeOK /\ [ScheduleNext]_allvars => ScheduleTypeOK'
  <1>. SUFFICES ASSUME ScheduleTypeOK, [ScheduleNext]_allvars PROVE ScheduleTypeOK'
    OBVIOUS
  <1>. USE DEF ScheduleTypeOK
  <1>1. CASE Hour
    <2>1. wait' \in Nat
      BY <1>1, MaxOfTwo DEF Hour
    <2>2. ShiftClock(-1) /\ lag' \in Int
      BY <1>1 DEF Hour
    <2>. QED BY <1>1, <2>1, <2>2, ShiftedSchedule DEF Hour, history
  <1>2. CASE ClockSetBack
    <2>1. ShiftClock(1) /\ lag' \in Int
      BY <1>2 DEF ClockSetBack
    <2>. QED BY <1>2, <2>1, ShiftedSchedule DEF ClockSetBack, history
  <1>3. CASE SweepLists
    BY <1>3 DEF SweepLists, record, history
  <1>4. CASE Skip
    BY <1>4 DEF Skip, LoopWaits, record, history
  <1>5. CASE Accepted
    <2>1. kept' \in BOOLEAN
      BY <1>5, Zenon DEF Accepted, history
    <2>. QED BY <1>5, <2>1 DEF Accepted, LoopWaits, record, history
  <1>6. ASSUME NEW a \in Answers, Refused(a) PROVE ScheduleTypeOK'
    <2>1. PICK due \in Int :
              /\ wait' = (IF due >= 0 THEN due ELSE 0)
              /\ \/ /\ kept' = TRUE /\ UNCHANGED floor
                    /\ sched' \in Records /\ sched'.due = due /\ sched'.journal = identity
                 \/ kept' = FALSE /\ floor' = due /\ UNCHANGED sched
      BY <1>6, RefusedSchedule
    <2>2. (kept' = TRUE) \/ (kept' = FALSE)
      BY <2>1
    <2>3. kept' \in BOOLEAN
      BY <2>2, Zenon
    <2>4. (IF due >= 0 THEN due ELSE 0) \in Nat
      OBVIOUS
    <2>5. wait' \in Nat /\ sched' \in Records \cup {None} /\ floor' \in Int \cup {None}
      BY <2>1, <2>4
    <2>. QED BY <1>6, <2>3, <2>5 DEF Refused, LoopWaits
  <1>7. CASE SweepEnds \/ Rest \/ UNCHANGED allvars
    BY <1>7 DEF SweepEnds, Rest, allvars, schedule, record, history
  <1>8. CASE SweepOver
    BY <1>8 DEF SweepOver, record, history
  <1>9. CASE Restart
    <2>1. identity' \in 1..MaxPairings
      BY <1>9, MinOfTwo, ScheduleAssumption DEF Restart
    <2>. QED BY <1>9, <2>1 DEF Restart
  <1>. QED BY <1>1, <1>2, <1>3, <1>4, <1>5, <1>6, <1>7, <1>8, <1>9
    DEF ScheduleNext, Visit

\* Only the journal now paired makes the segment wait, whatever was paired before.
LEMMA OwnerStep ==
    ScheduleTypeOK /\ OwnerInv /\ [ScheduleNext]_allvars => OwnerInv'
  <1>. SUFFICES ASSUME ScheduleTypeOK, OwnerInv, [ScheduleNext]_allvars PROVE OwnerInv'
    OBVIOUS
  <1>. USE DEF OwnerInv, OwnState
  <1>1. CASE Hour
    BY <1>1, ShiftedSchedule DEF Hour
  <1>2. CASE ClockSetBack
    BY <1>2, ShiftedSchedule DEF ClockSetBack, history
  <1>3. CASE SweepLists
    BY <1>3 DEF SweepLists, record, history
  <1>4. CASE Skip
    <2>1. OwnState \/ floor # None
      BY <1>4 DEF Skip, Due, NextAttempts, Clamped
    <2>2. refusedBy = identity
      BY <2>1
    <2>. QED BY <1>4, <2>2 DEF Skip, LoopWaits, record, history
  <1>5. CASE Accepted
    BY <1>5 DEF Accepted, LoopWaits, record, history
  <1>6. ASSUME NEW a \in Answers, Refused(a) PROVE OwnerInv'
    <2>1. refusedBy' = identity' /\ identity' = identity
      BY <1>6 DEF Refused, LoopWaits
    <2>2. identity \in Int
      BY DEF ScheduleTypeOK
    <2>3. (sched' = sched) \/ sched'.journal = identity
      BY <1>6, RefusedSchedule
    <2>4. sched' # None => sched'.journal <= identity
      BY <2>2, <2>3
    <2>. QED BY <2>1, <2>4
  <1>7. CASE SweepEnds \/ Rest \/ UNCHANGED allvars
    BY <1>7 DEF SweepEnds, Rest, allvars, schedule, record, history
  <1>8. CASE SweepOver
    BY <1>8 DEF SweepOver, record, history
  <1>9. CASE Restart
    <2>1. identity' \in Int /\ identity' >= identity
      BY <1>9, MinOfTwo, ScheduleAssumption DEF Restart, ScheduleTypeOK
    <2>2. sched # None => sched.journal \in Int
      BY DEF ScheduleTypeOK, Records
    <2>3. (sched' # None /\ sched'.journal = identity') => identity' = identity
      BY <1>9, <2>1, <2>2 DEF Restart, ScheduleTypeOK
    <2>. QED BY <1>9, <2>1, <2>2, <2>3 DEF Restart, ScheduleTypeOK
  <1>. QED BY <1>1, <1>2, <1>3, <1>4, <1>5, <1>6, <1>7, <1>8, <1>9
    DEF ScheduleNext, Visit

\* A wait that runs stays recorded: in state.json across restarts, or in the memory of
\* the process.
LEMMA WaitStep ==
    ScheduleTypeOK /\ OwnerInv /\ WaitInv /\ [ScheduleNext]_allvars => WaitInv'
  <1>. SUFFICES ASSUME ScheduleTypeOK, WaitInv, [ScheduleNext]_allvars, wait' > 0
                PROVE  IF kept' THEN OwnState' /\ Covers(sched.due)'
                                ELSE floor' # None /\ Covers(floor)'
    BY DEF WaitInv
  <1>. USE DEF OwnState, Covers
  <1>0. /\ wait \in Nat /\ lag \in Int /\ kept \in BOOLEAN
        /\ sched # None => sched.due \in Int
        /\ floor # None => floor \in Int
    BY DEF ScheduleTypeOK, Records
  <1>1. CASE Hour
    <2>1. wait > 0 /\ wait' = wait - 1
      <3>1. Max({wait - 1, 0}) = IF wait - 1 >= 0 THEN wait - 1 ELSE 0
        BY <1>0, MaxOfTwo
      <3>. QED BY <1>0, <1>1, <3>1 DEF Hour
    <2>2. PICK hours \in {0, 1} :
              lag' = lag + hours /\ UNCHANGED <<identity, visit, kept>>
      BY <1>0, <1>1 DEF Hour
    <2>3. CASE kept
      <3>1. OwnState /\ Covers(sched.due)
        BY <2>1, <2>3 DEF WaitInv
      <3>2. sched'.due \in Int /\ sched'.due >= sched.due - 1 /\ OwnState'
        BY <1>0, <1>1, <2>2, <3>1, ShiftedSchedule DEF Hour
      <3>. QED BY <1>0, <2>1, <2>2, <2>3, <3>1, <3>2
    <2>4. CASE ~kept
      <3>1. floor # None /\ Covers(floor)
        BY <2>1, <2>4 DEF WaitInv
      <3>2. floor \in Int /\ floor - 1 > 0
        BY <1>0, <2>1, <3>1
      <3>3. PICK t \in Int : floor' = t /\ t >= floor - 1 /\ floor' # None
        BY <1>0, <1>1, <3>1, <3>2, ShiftedSchedule DEF Hour
      <3>4. Covers(floor)'
        BY <1>0, <2>1, <2>2, <3>1, <3>2, <3>3
      <3>. QED BY <2>2, <2>4, <3>3, <3>4
    <2>. QED BY <2>3, <2>4
  <1>2. CASE ClockSetBack
    <2>1. wait > 0 /\ wait' = wait /\ UNCHANGED <<identity, visit, kept>>
      BY <1>2 DEF ClockSetBack, history
    <2>2. PICK hours \in {0, 1} : lag' = lag - hours
      BY <1>0, <1>2 DEF ClockSetBack
    <2>3. CASE kept
      <3>1. OwnState /\ Covers(sched.due)
        BY <2>1, <2>3 DEF WaitInv
      <3>2. sched'.due \in Int /\ sched'.due >= sched.due + 1 /\ OwnState'
        BY <1>0, <1>2, <2>1, <3>1, ShiftedSchedule DEF ClockSetBack
      <3>. QED BY <1>0, <2>1, <2>2, <2>3, <3>1, <3>2
    <2>4. CASE ~kept
      <3>1. floor # None /\ Covers(floor)
        BY <2>1, <2>4 DEF WaitInv
      <3>2. floor \in Int /\ floor + 1 > 0
        BY <1>0, <2>1, <3>1
      <3>3. PICK t \in Int : floor' = t /\ t >= floor + 1 /\ floor' # None
        BY <1>0, <1>2, <3>1, <3>2, ShiftedSchedule DEF ClockSetBack
      <3>4. Covers(floor)'
        BY <1>0, <2>1, <2>2, <3>1, <3>2, <3>3
      <3>. QED BY <2>1, <2>4, <3>3, <3>4
    <2>. QED BY <2>3, <2>4
  <1>3. CASE SweepLists
    <2>1. /\ wait > 0 /\ UNCHANGED <<wait, kept, sched, floor, identity>> /\ lag' = 0
      BY <1>3 DEF SweepLists, record, history
    <2>. QED BY <1>0, <2>1 DEF WaitInv
  <1>4. CASE Skip \/ SweepOver
    <2>1. /\ wait > 0 /\ UNCHANGED <<wait, kept, sched, floor, identity>>
          /\ visit' # "listed"
      BY <1>4 DEF Skip, LoopWaits, SweepOver, record, history
    <2>. QED BY <1>0, <2>1 DEF WaitInv
  <1>5. CASE Accepted
    <2>1. /\ wait > 0 /\ UNCHANGED <<wait, kept, sched, floor, identity>>
          /\ visit' # "listed"
      BY <1>5 DEF Accepted, LoopWaits, record, history
    <2>. QED BY <1>0, <2>1 DEF WaitInv
  <1>6. ASSUME NEW a \in Answers, Refused(a)
        PROVE  IF kept' THEN OwnState' /\ Covers(sched.due)'
                        ELSE floor' # None /\ Covers(floor)'
    <2>1. PICK due \in Int :
              /\ wait' = (IF due >= 0 THEN due ELSE 0)
              /\ \/ /\ kept' = TRUE /\ UNCHANGED floor
                    /\ sched' \in Records /\ sched'.due = due /\ sched'.journal = identity
                 \/ kept' = FALSE /\ floor' = due /\ UNCHANGED sched
      BY <1>6, RefusedSchedule
    <2>2. wait' = due /\ visit' = "asked" /\ UNCHANGED identity
      BY <1>6, <2>1 DEF Refused, LoopWaits
    <2>. QED BY <2>1, <2>2, ScheduleAssumption
  <1>7. CASE SweepEnds \/ Rest \/ UNCHANGED allvars
    BY <1>7 DEF SweepEnds, Rest, allvars, schedule, record, history, WaitInv
  <1>8. CASE Restart
    <2>1. wait > 0 /\ wait' = wait /\ UNCHANGED <<kept, sched, identity>> /\ kept
      BY <1>8 DEF Restart
    <2>2. visit' = "no"
      BY <1>8 DEF Restart
    <2>. QED BY <2>1, <2>2 DEF WaitInv
  <1>. QED BY <1>1, <1>2, <1>3, <1>4, <1>5, <1>6, <1>7, <1>8
    DEF ScheduleNext, Visit

\* The invariant holds of a process just started with nothing recorded.
LEMMA ScheduleStarts == ScheduleInit => ScheduleInv
  <1>. SUFFICES ASSUME ScheduleInit PROVE ScheduleInv
    OBVIOUS
  <1>1. BackoffInv
    BY DEF ScheduleInit, Init, BackoffInv
  <1>2. ScheduleTypeOK
    BY ScheduleAssumption DEF ScheduleInit, ScheduleTypeOK
  <1>3. OwnerInv /\ WaitInv
    BY DEF ScheduleInit, OwnerInv, OwnState, WaitInv
  <1>. QED BY <1>1, <1>2, <1>3 DEF ScheduleInv

\* Every step of the loop, the segment, the clock and the process keeps it.
LEMMA ScheduleStep == ScheduleInv /\ [ScheduleNext]_allvars => ScheduleInv'
  BY ScheduleBackoffStep, ScheduleTypes, OwnerStep, WaitStep DEF ScheduleInv

\* StateRecord.journal: a sweep leaves a segment for later only when the journal now
\* paired has refused it; no other journal's schedule delays its delivery.
THEOREM DelaysAreTheJournals ==
    ScheduleSpec => [](BackoffHeld /\ OtherJournalNeverDelays)
  <1>1. ScheduleInv => BackoffHeld /\ OtherJournalNeverDelays
    BY DEF ScheduleInv, BackoffInv, OwnerInv, BackoffHeld, OtherJournalNeverDelays
  <1>. QED BY <1>1, ScheduleStarts, ScheduleStep, PTL DEF ScheduleSpec

\* disk_next_attempt and floor_next_attempt in run_sweep: while a wait runs, the sweep
\* finds the segment not yet due.
LEMMA WaitingIsNotDue ==
    ASSUME ScheduleInv, visit = "listed", wait > 0
    PROVE  ~Due
  <1>1. wait \in Nat /\ lag \in Int
    BY DEF ScheduleInv, ScheduleTypeOK
  <1>2. CASE kept
    <2>1. sched # None /\ OwnState /\ sched.due + lag > 0
      BY <1>1, <1>2 DEF ScheduleInv, WaitInv, Covers, OwnState, ScheduleTypeOK, Records
    <2>2. sched.due \in Int /\ sched.interval \in Int /\ sched.interval > 0
      BY <2>1, ScheduleAssumption DEF ScheduleInv, ScheduleTypeOK, Records
    <2>3. Min({sched.due + lag, sched.interval}) \in NextAttempts
      BY <2>1 DEF NextAttempts, Clamped
    <2>4. Min({sched.due + lag, sched.interval}) > 0
      BY <1>1, <2>1, <2>2, MinOfTwo
    <2>. QED BY <2>3, <2>4, <2>2, <1>1, MinOfTwo DEF Due
  <1>3. CASE ~kept
    <2>1. floor # None /\ floor + lag >= wait /\ floor \in Int
      BY <1>3 DEF ScheduleInv, WaitInv, Covers, ScheduleTypeOK
    <2>2. floor + lag \in NextAttempts
      BY <2>1 DEF NextAttempts
    <2>. QED BY <1>1, <2>1, <2>2 DEF Due
  <1>. QED BY <1>2, <1>3

\* A journal that refused a segment is not asked about it again before the wait is
\* over: whatever the clock does, however often the process restarts, and whether the
\* refusal could be recorded on disk or only in memory.
THEOREM WaitsAreKept == ScheduleSpec => Paced
  <1>1. ScheduleInv /\ [ScheduleNext]_allvars => [Asks => wait = 0]_allvars
    <2>. SUFFICES ASSUME ScheduleInv, [ScheduleNext]_allvars, Asks PROVE wait = 0
      OBVIOUS
    <2>1. Due
      BY DEF Asks, ScheduleNext, Hour, ClockSetBack, SweepLists, Visit, Skip, Accepted,
        Refused, SweepEnds, SweepOver, Restart, Rest, allvars, schedule
    <2>2. wait \in Nat /\ visit = "listed"
      BY DEF Asks, ScheduleInv, ScheduleTypeOK
    <2>. QED BY <2>1, <2>2, WaitingIsNotDue
  <1>. QED BY <1>1, ScheduleStarts, ScheduleStep, PTL DEF ScheduleSpec, Paced
=============================================================================
