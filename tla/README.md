# TLA+ specifications of solstone-tmux

solstone-tmux polls tmux every five seconds, appends what it reads to JSONL
files in a *segment* directory, finalizes a segment every five minutes, uploads
finalized segments to the owner's journal, and removes the local copy once the
journal has proven custody. The modules here specify that path, from an append
to the removal of the local file, with the crashes, I/O errors, lost answers
and interleavings the code has to survive. All paths below are relative to
`src/native/solstone-tmux/src/`.

`PROJECT.json` lists components, runs, mutants, the map from definitions to
source lines, findings, hazards and theorems.

## Inventory

| Part | State | Operations | What makes it correct |
| --- | --- | --- | --- |
| Segment writer (`segment.rs`, `storage.rs`) | `HHMMSS.incomplete/`, its JSONL files, `HHMMSS.incomplete.meta`; in memory the metadata, handles, `poisoned` | create, append (frame or activity record) with rollback, finalize, remove when empty | an acknowledged line survives anything; metadata and files agree at every crash point |
| Recovery (`recovery.rs`) | what an interrupted writer left | per candidate: retain, remove, repair, finalize, quarantine | never loses an acknowledged line, ends, can itself be interrupted |
| Custody (`sync.rs`, `journal.rs`) | finalized directory, `zone.json` sibling, `ack.json`, `state.json`, inventory cache | scan, hash, upload, assess receipt, record, remove, restore | local bytes go only when the journal holds them; every segment is delivered |
| Retry schedule (`sync.rs`) | `state.json`, the floors in memory | record a refusal, skip a segment that is not due | a journal is not asked too early, and always again |
| Sync scheduler (`sync.rs`) | `SyncWake`, `Backoff`, periodic timer, sleep watch | wake, sweep, back off, stop | no lost wake, no shortened delay, shutdown ends it |
| Observer and supervisor (`observer.rs`, `main.rs`) | the open segment, the shutdown barrier, the retention fence, two locks | poll, rotate, stop, join, drain, exit | everything ends in order and the exit code is honest |
| Activity indicator (`indicator.rs`, `ActivityLinger` in `observer.rs`) | three options of the tmux server, what was written there, the linger | install, roll back, show, refresh, restore | the owner's text and length survive it, and the cell tells the truth |
| Credential store and journal session (`sync.rs` 129-800, `post_connect.rs`, `relay_access.rs`) | live credential, access attempt, mutation generation, pending persistence | connect, refresh, publish, disable | a late result never replaces a newer one |
| Pairing (`private_link.rs`, `pairing_answer.rs`) | credential and answer files under locks | setup, confirm, settle | nothing syncs to a journal the owner has not confirmed |
| Instance lock (`instance_lock.rs`) | lock file with the run's identity | acquire, name, probe, release | one observer at a time, and its identity tells which |
| Health (`health.rs`) | health file with a lease | write, read by `status` | status never reports a dead service as healthy |
| Journal version, client metadata, about | a cached description of the journal, its generation, a publication guard | refresh, publish | what is published is of the journal paired now |
| tmux adapter (`tmux.rs`, `command.rs`) | session activity | list, capture under a deadline | |
| Serialization, names, clock, config | none | pure functions | |
| Service installation, command line | unit files | install, uninstall, print | |

How they interact: `run_native` takes both locks, recovers every stream, then
starts two tasks on one runtime thread. The observer writes segments on a
blocking thread and, when one is finalized, sets a flag and notifies the sync
task. The sync task shares only the captures directory with it, and meets a
segment first by its finalized name. The supervisor watches both, and at the
end stops sync, lets the observer close its segment, closes the fence that
guards removals, restores the indicator and drops the locks. `setup` runs in
another process and is kept out by the instance lock.

What is hard: a crash between any two file-system calls; fsyncs that order
nothing but their own file; an append that fails after part of it took effect;
a removal that is interrupted; a task that is aborted while its blocking call
runs on; answers that are lost after they took effect; a name that is used
again; a wake that lands while the wait for it is being dropped; a clock that is
set back; a file, a lock and the process behind both read at different instants;
options of a tmux server that its owner changes and that vanish with the server.

## Modules

| Module | Models | Instances |
| --- | --- | --- |
| `SegmentStore` | writer and recovery of one segment, on a disk with fsync | itself |
| `Transfer` | abstract: the bytes of a segment pass to the paired journal | `Custody` |
| `Custody` | one finalized segment from publication to removal; implements `Transfer` | itself |
| `SyncLoop` | when the scheduler sweeps | in `RetrySchedule` |
| `RetrySchedule` | when a refused segment is offered again; extends `SyncLoop` | itself |
| `RetryClamp` | `RetrySchedule` with one more history | itself |
| `Supervision` | the tasks of `run` and how they end | in `Status` |
| `Status` | runs one after the other and what the status command tells of them; extends `Supervision` | itself |
| `Indicator` | the mark in tmux's status line | itself |
| `CredentialStore` | a session's credential: access attempts, the chain of publications, the opener dials go through | `MCCredentialStore` |
| `PostConnect` | the two lanes of work after a dial | itself |
| `Pairing` | setup, confirm and the service on the credential and answer files | itself |

Theorems are in a module of their own beside what they are about:
`SegmentStore_proofs`, `Custody_proofs`, `RetrySchedule_proofs` (with
`SyncLoop`), `Status_proofs` (with `Supervision`), `Indicator_proofs`,
`CredentialStore_proofs`, `PostConnect_proofs`, `Pairing_proofs`.

The modules meet at narrow places. `SegmentStore` ends where a directory gets
its finalized name; `Custody` starts there (`Publish`, then
`write_capture_time`, the two steps of finalize the sync task can fall
between). `SyncLoop` takes a whole sweep as one scan and one outcome;
`Custody` is what such a sweep does. `Supervision` takes a removal as one
blocking call; `Custody` is its inside. In `RetrySchedule` a sweep of `SyncLoop`
visits one segment between its scan and its end; `Custody` keeps of the schedule
only whether a wait is over. `Status` lets the run of `Supervision` be killed,
and others start after it. `Indicator` has the branches of the supervisor's
select that `Supervision` leaves out; they share no state with the others.
`Pairing` ends where the service starts a session; `CredentialStore` is that session. `PostConnect` says when the jobs
that ask the journal for endpoints and tell it the host's name run;
`CredentialStore` takes such a job as one access attempt.

### SegmentStore

*State.* `dir` is the segment's part of the stream directory: the name the
directory has, the metadata file, the zone sibling. `files` are its JSONL
files. `dirLost` and `fileLost` hold the older values a power loss may bring
back: a rename or write adds one, `sync_directory` and `sync_all` clear them.
A new file's directory entry needs the fsync of the segment directory as well,
which `append_inner` does after creating it (`SyncFileAndEntry`). `mem`,
`poisoned`, `stopping` are the process's memory. `acked` is a history variable: the lines
whose append returned `Ok`.

*Lines for bytes.* A file is the set of its complete lines and whether a torn
one follows; a durable offset is the set of lines before it. Line contents play
no part in any decision of the code, except that a line parses.

*Actions.* Creation is four steps, an append six (open, write in two halves,
fsync, metadata rename, fsync), each of which may fail; the rollback of either
half, which may fail too; `finalize` from `process_poll` and, after a failure,
again from `shutdown`; `remove_confirmed_empty`; and `recover_candidate` with
every branch. `Kill` and `PowerLoss` may come at any step, and an I/O error
that nothing handles is a `Kill`. Where the code fsyncs a directory and then
changes it again, one action does both: a crash between the two finds nothing
that a crash before them does not.

Left out: frames that repeat the previous one (`Unchanged`), the refusal of
symbolic links and special files, a finalized name that another segment has,
torn bytes *inside* the recorded prefix (no fault of the model makes a durable
byte unreadable).

### Custody

*State.* The directory with its files (inode, version, bytes), files set aside
by a restoration (`.retention-conflict-N`) and the temporary file of an atomic
write; the zone sibling; `ack` and `sched` for `ack.json` and `state.json`; the
identity of the paired journal; the inventory cache and the locals of the
candidate being worked on; and what each journal holds or has removed
(external, chosen freely within what it was sent).

*Actions.* One pass of `local_finish` or `run_sweep` for one candidate, a step
per file-system call that matters: list, identify, hash, read the
acknowledgement, read the schedule, upload (a receipt naming any subset of what
the journal holds, received-but-not-written files, a refusal, `segment_removed`,
a lost answer), write the ledger, revalidate, check and unlink file by file,
remove the directory, or restore. Around it: finalize publishes, someone edits
or replaces a file, time passes, an I/O error, a kill, a re-pairing while the
service is off. A retry wait is a flag that `Elapse` clears.

Edits fall at any instant. In the few instants between the last check of a file
and the system call that acts on it by name (`Unguarded`) the code cannot see
them; the history variable `raced` remembers which names were edited then, and
`ReleasedOnlyWithCustody` excuses only those.

*Refinement.* `Transfer` has the local files, what each journal holds, and four
kinds of step: a segment is captured, a journal stores some of it or its owner
removes it, the computer lets go of files the paired journal has, the service is
paired again. `Custody` maps its local bytes (`Present`: the files of the
directory and those set aside) to `local`. Lists, ledgers,
inode checks and kills are stutters, so the refinement says that no step of them
loses a byte. A restoration, which only an edit or a failing call brings about,
puts bytes back that were already let go and is no step of `Transfer`; the run
has neither, and what holds then is `ReleasedOnlyWithCustody` (checked and
proved) and `TransferButForTheOwner` (proved). The liveness of `Transfer` is that
everything captured leaves the computer in the end.

### SyncLoop

The observer's thread renames, stores `pending`, notifies, again and again: how
many segments it finalizes is not bounded and not counted. The loop is the two
selects of `run_with_shutdown`; the wait future keeps whether it is parked and
is dropped whenever another branch wins. A retry deadline is absent, set or passed; `owed`
remembers that the delay of a failed sweep is not over.

### RetrySchedule

*State.* `sched` is `state.json`, `floor` the entry of `SyncMemoryFloors`, both
as hours relative to the wall clock; `lag` the hours since the sweep read the
clock, since a sweep keeps using that instant; `visit` where this sweep is with
the segment. `wait`, `refusedBy` and `kept` are histories of the last refusal.
*Actions.* Those of `SyncLoop`, and: an hour passes, also inside a sweep; the
clock is set back; a sweep lists the segment, skips it or asks; a refusal is
counted and recorded, or kept in memory when the write fails; a receipt; a
restart, perhaps paired with another journal. A refusal is one of a set of
answers, of which some say *received, not written*; the day is two hours, so
the long wait differs from the short one. A third like answer and a day's wait
for it are in the model. A due time is kept down to the furthest the clock is
ever set back; a floor below that is dropped, as it delays nothing any more.

`RetryClamp` adds one history, for the finding below: the hours between sweeps
since a sweep left the segment although it found the recorded wait further ahead
than its interval. Hours within a sweep do not count, and the clock is set back
only between sweeps, under a wait that is recorded.

### Supervision

The observer's loop, the sync task with at most one blocking call, and the
supervisor's steps from the first task that ends to the release of both locks.
The sync task may stop reacting; then it is aborted at the 15 s deadline, and
its blocking call goes on.

### Status

*State.* `lock` and `privateLock` of `Supervision`, and which run holds them;
a starting run between taking the instance lock and having both; the identity
in the lock file, which stays when its run is gone; `heard` and `linkUp`, the
two facts of `SyncFacts` an up state depends on; the snapshot under way and the
one on disk; one status command with what it read. Its fields `alive`, `lease`
and `raced` are history: whether the run it read of held the lock then, whether
its lease ran, whether another process took the lock meanwhile or stood between
taking it and writing its name.

*Actions.* Those of `Supervision`; a health write as a blocking call that may
fail; the lease running out; a kill; a run that takes the lock, truncates and
writes the identity, gets the private-state lock or ends; the reads of the
status command one by one; another status command that holds the lock for an
instant, since `inspect_existing` tries it. The states that are not up
(connecting, offline, held, unpaired, revoked, update needed) are one.

### Indicator

*State.* The tmux server with the three options (`status-left` as the owner's
text and the number of marks before it), or none; the run's place between two
tmux commands; `ServerIndicator` and `IndicatorOwnership`; the linger; the
activity of the sync task. Histories say what the owner last set, whether the
room for the mark is in the length (`widened`), whether a run left the mark
without the room or the room without the mark (`torn`), whether the owner's
edits made the code take one length for another (`blurred`), whether a write
went over a change made after the last read (`unseen`), and whether the owner
changed the text since the install (`touched`).

*Actions.* Every read and write of install, rollback, update and restore is a
step. Between two of them the owner edits an option (keeping the mark or not),
the server exits, another starts, the process is killed. Any command may fail,
by its timeout too, in which case a write may have taken effect. The select of
`supervise_observer` takes a change of activity, the end of the linger, the
refresh tick, or the stop. The activity changes only while the loop is in that
select: it looks at nothing but the latest value, so a change during a command
is a change right after it.

Left out: a length that is not a number, which tmux does not take; the owner's
own value of `@solstone`; `IndicatorOwnership::install`, which only tests call.
New servers begin with the text and length of `tmux.conf`.

### CredentialStore

*State.* `live`, `gen`, `pending`, `clear`, `shutdown`, `attempt` and `issue`
are the locked state of the store; `disk` is the credential file; `opener` what
dials go through. `queue` is the chain of `enqueue_owned`, whose operations run
one after another and outlive the caller that gave up waiting for them; the one
at its head, once claimed, is `running`. `job` is the access lane that feeds it.
A credential is reduced to what a decision looks at: its relay origin, its token
(which records the relay that issued it) and its endpoints.

*Actions.* An access attempt begins, its listing is fetched, a deadline passes
or it is superseded; a result is submitted, checked again at its turn,
installed, written, and the write may fail; the relay disables the access; a
carrier delivers a refreshed token through its hook; a pending update is
flushed; the session shuts down. Deadlines may pass at any step.

Left out: which transport a dial that is under way uses (a dial that began
before an install is given up when it ends, `dial_carrier`), the bridge's own retries, comparisons of the certificate within one
session (it does not change there), and the three steps of
`coordinator.shutdown`, which are one action because nothing runs between them.

### PostConnect

*State.* The burst (active, its id), and per lane the pass count, whether a pass
is in flight, its attempt and whether a follow-up was requested; the jobs under
way. *Actions.* A dial is noted, a description or a trigger
arrives, a job ends by an answer or at its deadline, the coordinator is shut
down. A completion of an attempt that is no longer the lane's is looked at and
dropped.

### Pairing

*State.* The credential file, the answer file, the two locks, and the processes
`setup`, `run` and any number of `confirm`s, each a record of its step and what
it remembers. `said`, `denied` and `retired` are histories of what the owner
answered and what setup retired at the journal. *Actions.* Each file operation
under its lock, the owner's answers (yes, no, walking away) in any order, and a
kill between any two. `existing_pairing_confirmed` only chooses a wording and is
not in the model.

Left out: a credential file that does not parse, a mismatch of the stream, the
request that retires a pairing at the journal.

## Runs

| Run | Checks | Shows |
| --- | --- | --- |
| `segment_store` | `TypeOK`, `AckedSurvives`, `ZoneBeforeMetaRemoved`, `MetadataConsistent`, `RenamesExact`, `Settles` | two sessions and the activity file, three frames, two activity records, four faults. Nothing acknowledged is lost; metadata is consistent on every disk a power loss may leave; the finalized name is only given to a directory of whole lines and consecutive frames; after the last fault every segment is closed or recovered |
| `custody_edits` | `RemovalResumable`, `ReleasedOnlyWithCustody` | two files, three contents of two sizes, an edit, an I/O error and a kill anywhere: files go only when the journal has them, and what a broken removal leaves can be taken up |
| `custody_pairings` | `AckTruthful`, `Transfers` | the segment name used twice, two pairings, a kill: an acknowledgement speaks for the journal and the bytes it names, and `Custody` implements `Transfer`, its liveness included |
| `status` | `WorkUnderLocks`, `CloseAfterSync`, `HonestExit`, `LiveMeansRunning`, `UpMeansHeard`, `Exits` | two runs, killed or ended in order: file work stays under both locks, the segment is closed after the sync task ended, the exit code tells every failure, the end is reached; and status tells the health of a run only if it lived when read, connected only within the lease |
| `retry_schedule` | `OtherJournalNeverDelays`, `BackoffHeld`, `Paced`, `Retried`, `NoLostWake`, `ShutdownEnds` | any number of segments, one of them refused; two journals, an hour within a sweep, a clock set back by one, one failing ledger write, one restart: the loop loses no wake, holds its delays and ends; the refused segment is offered again, and not too early |
| `retry_clamp` | `WaitClamped` | violated, see below |
| `credential` | `OpenerFollowsStore`, `TokenOfOrigin`, `DivergenceKnown`, `EndpointsStayBounded`, `NoLostUpdate`, `LaneEnds` | two relays, two operations waiting, failed and hanging writes, late tokens, new addresses, a restart |
| `post_connect` | `LaneOwnsItsPass`, `NoManufacturedBursts`, `FollowUpHappens`, `BurstEnds` | both lanes, late completions, shutdown |
| `pairing` | `SendsOnlyAccepted`, `RetiredNeverSaved`, `ConfirmedYieldsToOwner`, `ConfirmedIsTakenUp` | two setups, two open confirms, a kill, the service |
| `pairing_denied_stays_unpaired` | `DeniedStaysUnpaired` | violated, see below |
| `indicator` | `OwnerTextKept`, `WholeInstallTakenBack`, `CellFollowsWork` | two servers, two runs, an edit and a failing command anywhere, kills: the owner's text stays, what was installed whole is taken back, the cell comes to show the work |
| `indicator_clean_stop_restores` | `CleanStopRestores` | violated, see below |

`TypeOK` is in one run only. In the other modules that define one, TLC is
spared it: it is part of what is proved.

*Bounds.* In `segment_store` the second session makes a file without metadata
possible, a third frame makes one session's ids non-adjacent, and four faults
are an append error, the failure of its rollback, and a kill in each of two
recoveries. `MaxElapsed` is past the interval, so LEN is clamped from both
sides. In `custody_edits` two files make a partly finished removal possible,
and three contents, one of another size, make an edit that keeps the size and
one that does not. In `custody_pairings` the second publication reuses the name
while the first one's ledger may be there, and each pairing has a journal.
In `RetrySchedule.cfg` segments land without bound, so one can be swept while a
second wakes the loop and a third lands during the wake. It has one retry delay
and one kind of refusal: how long a delay is decides nothing in `SyncLoop`, and
a second kind, *received, not written*, only resets the count and takes the long
wait at once, which three like ones reach as well. The theorems are for any set
of answers.

`Status` needs two runs: the one a snapshot is of, and its successor. With one
unit of setting the clock back, a wait of one and one of two hours,
`RetrySchedule.cfg` has every order of due time, interval and clock; longer
waits repeat them. In `Indicator.cfg` the second run is the one that finds what
a killed one left, the second server one that replaces the first; two texts tell
the owner's from the run's, and the two lengths differ by one, so that the owner
can set the very length a run writes. The violated run needs neither a second
server nor an edit nor a failing command, and has none. `RetryClamp.cfg` has no
hour within a sweep, no failing write and no restart: what it finds needs the
clock set back once and three sweeps.

`Credential.cfg` has two tokens and a lane of two: one operation that outlived
its waiter, one newer behind it, and a late token between them. In
`Pairing.cfg` the second setup replaces what the first one left, and two
confirms are the fewest that can answer one pairing differently; one kill can fall between the
credential and the answer file of either setup.

*Symmetry.* None: most runs check liveness, and the others are small.

*Fairness.* `SegmentStore`: the process takes its next step, the clock ticks,
a stopped service is started again (the unit restarts it); an append or an
early stop need never happen. `Custody`: the runtime runs the sync task, the
periodic tick keeps starting sweeps, time passes, the service is started again,
and the journal does not forever fail to store what it is sent; the last is
strong fairness on a full receipt and is the journal's duty, not this program's.
`RetrySchedule`: the loop is polled, time passes, the captures directory can be
listed again and again; the periodic tick and the sleep watch get no fairness,
so no wake depends on them. Inside `Retried` alone there is what that property
supposes: the tick comes, hours pass, and a sweep again and again gets as far as
the segment. `Status`: ready tasks are polled,
blocking calls return, the 15 s timer fires; the sync task, starts and status
commands get none. `Indicator`: a tmux command ends, by its timeout if not
before; the branches of the select get strong fairness, because `select!`
starts at a random branch and so starves none that is ready again and again;
tmux, its owner, starts and stops get none.
`CredentialStore`: only the deadlines fire and the address job ends; the file
system may hang. `PostConnect`: a pass ends, by its deadline at the latest.
`Pairing`: the waiting service looks at the files again after each health
interval; owners need never answer.

## Findings

Three runs are expected to violate a sentence of the code's comments, its texts
or its tests.

- `retry_clamp`: a test is named `future_due_times_clamp_to_one_interval`
  (`tests/sync_scheduler.rs:1924`). `run_sweep` clamps the stored due time to
  one interval after *this* sweep's clock and stores nothing, so the clamped
  time moves along with the clock. `stored.min(now + interval) > now` is
  `stored > now`: the clamp decides nothing. In the trace a refusal is recorded
  and its sweep ends; the clock is set back under the recorded wait; a sweep
  clamps the wait to one interval and leaves the segment; a whole interval
  passes between sweeps; the next sweep leaves the segment again. It waits until
  the stored time comes. The test makes one sweep and asserts that it attempts
  nothing.
- `pairing_denied_stays_unpaired`: confirm's "no" says "so this computer isn't
  paired". With two confirms open on one pairing, one yes starts a session, the
  other's no deletes the credential, and the session's next write of its
  credential puts it back, under an answer that still says confirmed.

- `indicator_clean_stop_restores`: `LengthOwnership::from_current` counts the
  room as in place whenever the mark is (`indicator.rs:215`: "whose widening is
  still in place"). They are written by two tmux commands, mark first. A run
  killed between them leaves the mark alone; the next run takes one off the
  owner's 10, and its own clean stop puts back 9. Nothing was edited and no
  command failed. A kill between the two writes of `restore` is the mirror
  image: the next run finds no mark, takes 11 for the owner's, and the length
  stays one too wide. `tests/indicator.rs:123`
  (`repeated_unclean_starts_widen_status_left_length_once`) has only installs
  that were completed. `WholeInstallTakenBack` is what does hold.

More things a reader of the models will meet. They are limits of what the
properties say:

- *Segments.* A kill after the first frame of a further session created its
  file, or between the JSONL fsync and the metadata rename, makes the next start
  set the whole segment aside as `HHMMSS.failed`, acknowledged frames included.
  Nothing is lost (`AckedSurvives`), but nothing uploads it either; `Settles`
  counts it as taken out of its incomplete state.
- Recovery validates what it reads, which may be in the page cache only, and
  does not fsync the file. Bytes that a power loss then takes were never
  acknowledged (`AckedSurvives`).
- `finalize` gives the directory its finalized name before it writes the zone
  record (`segment.rs:282`, `:288`). A sweep in between uploads the segment
  without its zone, and it is not sent again. `sync.rs:1826` prefers that to
  holding a segment back.
- *Custody.* A file edited between its digest check and its unlink is removed
  unseen (`raced` in `Custody`).
- *Post-connect.* `deferred_metadata` (`post_connect.rs:43`) is never set:
  `request_follow_up` returns before it records anything once two passes were
  started (`:221`), so the mark at `:291` finds no request. A description that
  arrives during the second pass waits for the next burst.
- *Status.* Trying the lock is taking it: a service that starts in the instant a
  status command probes ends with `AlreadyLocked`. A dead run may be told live
  when another process takes the lock during the read, or is between taking it
  and writing its name (`raced` in `LiveMeansRunning`). With the clock set back,
  an answer lies in the future and its lease lasts until the clock is there;
  the model has no such clock. `SyncFacts::state_at` is documented with "a
  timed-out request changes nothing"; a timeout after another failure replaces
  that failure as the last error, and so shows connected again within the lease
  (`linkUp'` in `WriteHealth`).
- *Indicator.* An owner who edits what a killed run left, takes the mark away
  under a run that is then killed, or sets the very length a run has written,
  makes the code misjudge whether the length is widened, and a clean stop leaves
  it off by one column; so does a server replaced between the two writes of an
  install, since the second does not look where it goes.
  `WholeInstallTakenBack` excuses these (`torn`, `blurred`), a write over a
  change made since the read (`unseen`), and a mark the owner edited under the
  run (`touched`). A restore does not look whether the server is still the one
  it installed on. A write of the cell that timed out but took effect makes the
  run give the cell up; `CellFollowsWork` and `WholeInstallTakenBack` excuse
  faults. A kill leaves the mark and the cell as they are.

## Proofs

Every invariant and every action property of the runs that pass is a theorem,
for every value of the constants their assumptions allow. Each follows from an
inductive invariant, proved with one case per action; `PTL` then joins Init and
the step. Where a property is not inductive, and few are, this is why and what
was added.

**SegmentStore.** `TypeCorrect`, `AckedLinesSurvive`, `MetadataDecides`,
`ZoneIsNeverLost`, `FinalizedIsExact`.

`AckedSurvives` is not inductive: that a file keeps its acknowledged lines when
it is cut back depends on what the metadata records, and that depends on which
metadata a power loss may bring back. `AckedInv` says so in five parts: every
version of a file has the acknowledged lines (`FilesInv`); every version of the
directory has the segment and metadata that records them, unless it is already
finalized (`DirsInv`); the metadata in memory, and the bytes saved for a
rollback, record them (`MemInv`); the writer only has an open segment where it
believes to have one (`PlaceInv`); and between the JSONL fsync and the
acknowledgement the new line is in every version of its file (`CommitInv`).

`SegmentInv` adds what the metadata is worth: every version of it, the one in
memory and the saved one are consistent (`DirsSound`, `MemSound`), each step of
create, finalize and recovery finds the disk its predecessor left (`StepInv`), a
second finalize derives the same LEN (`LenInv`), and the files hold exactly the
recorded lines but for the one an append is at (`ShapeInv`, `LinesInv`). The
last is what `RenamesExact` needs; the others give `MetadataConsistent` and
`ZoneBeforeMetaRemoved`.

**Custody.** `CustodyCorrect`, `AcknowledgementsAreTrue`, `RemovalsResume`,
`CustodyBeforeRelease`, `TransferButForTheOwner`, `TransferIsImplemented`.

`AckTruthful` depends on the inventory cache, since an acknowledgement is
assessed against cached digests. `LastingInv` says that a cache entry with the
identity of a present file has its bytes (`CacheExact`; inodes and versions are
never used twice, so an edit changes the identity), and that the digests a
removal goes by were released by the paired journal (`DigestsHeld`).
`CandidateInv` ties what the candidate under way remembers to the cache and the
ledger; `RemovalInv` says how far a removal or its restoration is, file by file,
and that the file at hand is as its check left it or was edited since.
`ReleasedOnlyWithCustody` is then a lemma on each step that takes bytes away.

`TransferButForTheOwner` is the refinement in every configuration: `Spec` implies
`T!Init` and `[][TransferOrOwner]_(T!vars)`, whatever is edited, fails, is killed
or paired anew. Beside the steps of `Transfer` there are two of Custody's own.
`OwnersHand` is a change of one file by its owner, or the unlink or rename that
takes away what the owner put there after the check, with the journal not
involved. `PutBack` is a removal that failed half way and restores a file it let
go; then the paired journal has those bytes, or the owner wrote into the open
file after its identity was taken. That last clause needs `HandlesInv`: an open
file that still has the identity of the inventory has the bytes of the digest,
since a version number is given out once (`EditedHandle`). TLC refutes the
theorem without the clause, at two edits, one fault and one kill.

`TransferIsImplemented` follows: without edits and failing calls neither happens
(`QuietInv`), and what is left, `[][T!Next]_(T!vars)`, is the safety half of
`Transfers`, for any number of publications, pairings and kills. The liveness
half stays with TLC.

**Supervision and Status.** `RunCorrect` (one run), `RunsCorrect` (`TypeOK`,
`WorkUnderLocks`, `CloseAfterSync`, `HonestExit` of any number of runs) with
`FileWorkIsLocked`, `SegmentIsClosedLast`, `ExitCodeIsHonest` as its parts,
`RunsAreSupervised`, `StatusIsOfALiveRun`, `StatusUpIsHeard`.

`RunInv` has the type of each variable (`RunTypes`), the permit count of the
fence, where each lock is held, that the barrier opens only after the sync task
ended, and what the exit code owes at each stage. `StatusInv` adds who has
written the lock file last (`NameInv`), that every snapshot, on disk or being
written, is of a run that has started and tells a lease its run had (`SnapInv`),
and what the reader may conclude from what it has read so far (`ReaderInv`).

`RunsAreSupervised` is the refinement between the two modules: the variables of
`Supervision` change in `Status` only as `Supervision` lets them, until the run
ends or is killed, and start over only when it is gone with its file work, so no
two runs overlap.

**SyncLoop and RetrySchedule.** `BackoffIsHeld`, `DelaysAreTheJournals`,
`WaitsAreKept`.

A wait that still runs is covered by a recorded due time, on disk or in memory,
both against the clock now and against the reading a sweep works with
(`WaitInv`, `Covers`); what can make a segment wait is of the journal now paired
(`OwnerInv`). The action property `Paced` follows, across a clock set back.

**CredentialStore.** `TypeCorrect`, `EndpointsBounded`, `TokensStayHome`,
`DialsFollowStore`, `DivergenceIsKnown`, `NoUpdateIsLost`.

`ClaimInv` is the core: the claimed operation is the head of the chain and
nothing else has touched the live credential since it was claimed, unless it has
done so itself. With it come `TokenInv` (whatever waits in the chain or in a
hook carries a token of its own relay, and one of the present generation a token
of the present relay), `FollowInv` (the opener), and `DebtInv` (a divergence is
recorded or owed, and the flush that pays it is still to come). `ListInv`,
`RevInv` and `LaneInv` complete the types.

The merged address list is a fold. What holds of it needs an induction, and the
theorem of the library takes an operator; a *set* of numbers in place of the
operator makes it provable from the least-element form of well-foundedness
(`Smallest`, `Induction`). `FoldDefined` and `FoldKeeps` then say what a fold
keeps, and `Merges` what `MergeDialEndpoints` returns.

**PostConnect.** `LanesOwnTheirPasses`, `BurstsAreWork`, `WorkBegetsNoWork`.

`NoManufacturedBursts` counts, so it needs the credit still out: the bursts so
far and the callers that may yet begin one are together no more than the
triggers and quiet dials (`CreditInv`), and a burst is active exactly while a
lane has a pass (`BurstInv`).

**Pairing.** `SessionsAreAccepted`, `RetiredIsGone`, `OwnerDecides`.

A credential anywhere, on disk or in a process, is no newer than the last one
made, not retired, and accepted if the answer file confirms it (`Sound`,
`SoundInv`); nobody else knows the pairing setup is asking about (`FreshInv`);
what is about to be recorded as confirmed was accepted (`SaidInv`); and before
there is an answer file hardly anything can have happened (`AbsentInv`).

**Indicator.** `OwnersText`, `CleanStop`.

Between a read and a write the run knows what it read (`Known`), and every edit
since is in `unseen` (`ServerInv`, `MarkInv`). The room for the mark is followed
apart from the text, since either may be left or edited alone: between runs mark
and room are there together (`LeftoverInv`), and within one the length it counts
as the owner's is the owner's from the read on (`LengthInv`, `PutInv`), both up
to what `torn` and `blurred` record. `CleanStop` holds for any lengths. What it
excuses of the crashes is no weakness of the argument: without it the theorem is
false, as the run `indicator_clean_stop_restores` shows.

*Assumptions.* Each theorem rests on the named assumptions of its module and
nothing else. Those that are more than the kind of a constant: in
`CredentialStore`, `ListsAssumption`, that there are finitely many address lists
(an answer is limited by `OPTIONAL_RESPONSE_BODY_BYTES`, a saved pairing by its
file), without which a longest one need not exist; in `RetrySchedule`, that no
more hours pass within a sweep than the clock may be set back
(`SweepHours <= MaxSetBack`), since due times longer past are not told apart;
and everywhere, that `None` is not one of the values it stands in for.

*What the proofs corrected.* Two flaws of the models that TLC could not see at
the bounds of the runs: the remaining wait in `RetrySchedule` is never negative
(a refusal whose due time has passed by the time it is noted), and two
alternatives of `validate_files` in `SegmentStore` overlapped, so that which of
them applied was TLC's choice.

Only model-checked: liveness (`Settles`, `Transfers`' second half, `NoLostWake`,
`ShutdownEnds`, `Retried`, `Exits`, `LaneEnds`, `FollowUpHappens`, `BurstEnds`,
`ConfirmedIsTakenUp`, `CellFollowsWork`), which needs fairness and ENABLED and
is out of the prover's reach, and the three counterexamples.

## Not modelled

Formatting and parsing (JSONL, JSON, names), HTTP and the private-network
bridge, the command line, service installation; they keep no state that these
properties speak of. The tmux adapter runs one command under a deadline; the
modules take its outcome from it.

The cached journal version and the client metadata (`journal_version.rs`,
`client_metadata.rs`, `about.rs`) have state worth a model: a generation and a
publication guard fence what a request that began under one journal publishes
under the next. Its interleavings are with the lanes of `PostConnect` and the
chain of `CredentialStore`, over several sessions; composed with either, the
state space is out of TLC's reach at the smallest bounds that show a race.

The choice of a stem in `open_segment` and the activity gate of a session are
sequential, and left to the tests. In `Status`, the states that are not up; in
`Custody`, several segments in one sweep, whose batches only share the shutdown.

## Plan

Done: all modules above, a theorem for every invariant and action property, and
the refinements of `Custody` to `Transfer` and of `Status` to `Supervision`.

Next:

1. Refinement between the remaining parts: the session of `CredentialStore` as
   what `Pairing` calls a session.
2. The liveness of `Transfers` with edits and failing calls, which TLC checks
   only without them.
3. Shorter proofs where several actions are shown harmless by the same argument,
   above all in `SegmentStore_proofs` and `CredentialStore_proofs`.
