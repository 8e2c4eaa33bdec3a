------------------------------- MODULE Status -------------------------------
(***************************************************************************)
(* What the status command tells of the run command (instance_lock.rs,     *)
(* health.rs; run_native in main.rs), from the file a run writes its       *)
(* health to, the identity in the instance lock and a try of that lock.    *)
(*                                                                         *)
(* Module Supervision is the life of one run; here it may be killed, and   *)
(* further runs start: each takes the instance lock without waiting,       *)
(* writes its identity into it, and then needs the private-state lock.     *)
(* The identity stays in the file after its run is gone.  Another status   *)
(* command may hold the lock for an instant, too, since it tries it.       *)
(*                                                                         *)
(* Of the health facts the model keeps what decides between an up state    *)
(* (connected, syncing) and the others: whether the journal's last answer  *)
(* is within the lease, and whether a failure was recorded after it.       *)
(***************************************************************************)
EXTENDS Supervision

CONSTANTS
    None,    \* no file, no snapshot
    MaxRuns  \* bound on the runs that take the instance lock

ASSUME RunsAssumption == MaxRuns \in Nat \ {0} /\ None \notin 0..MaxRuns

VARIABLES
    run,      \* the run that Supervision describes
    next,     \* a starting run: "none", "holding", "emptied", "named"
    lastRun,  \* the last run to take the instance lock
    named,    \* the identity in instance.lock, 0 while it is incomplete
    rival,    \* another status command holds the lock for an instant
    heard,    \* SyncFacts: the last answer is within the lease
    linkUp,   \* SyncFacts: no error but a timeout is the last error
    writing,  \* the snapshot a blocking call writes, or None
    snap,     \* health.json, or None
    reader    \* one status command, see Idle

starts == <<run, next, lastRun, named>>
health == <<heard, linkUp, writing, snap>>
statusVars == <<starts, rival, health, reader>>
allvars == <<vars, statusVars>>

(* A status command: what it read, and as history whether the run it read  *)
(* of was alive then, whether its lease ran, and whether another process   *)
(* took the lock meanwhile or held it without having written its name.     *)
Idle == [pc |-> "idle", snap |-> None, id |-> 0, alive |-> FALSE, lease |-> FALSE,
         raced |-> FALSE]

StatusInit ==
    /\ Init
    /\ run = 1 /\ next = "none" /\ lastRun = 1 /\ named = 1 /\ rival = FALSE
    /\ heard = FALSE /\ linkUp = TRUE /\ writing = None /\ snap = None
    /\ reader = Idle

----------------------------------------------------------------------------
(* Health *)

(* The time of the last answer matters in an up snapshot only.             *)
Snapshot(h, l) == [run |-> run, up |-> h /\ l, heard |-> h /\ l]

(* update_facts and write_health after a sweep: it was answered, it failed *)
(* (a timeout overwrites the error before it), or nothing changed.         *)
WriteHealth ==
    /\ BeginOther
    /\ \/ heard' = TRUE /\ linkUp' = TRUE
       \/ linkUp' = FALSE /\ UNCHANGED heard
       \/ linkUp' = TRUE /\ UNCHANGED heard
       \/ UNCHANGED <<heard, linkUp>>
    /\ writing' = Snapshot(heard', linkUp')
    /\ UNCHANGED <<starts, rival, snap, reader>>

OtherWork == (BeginOther \/ BeginRemoval) /\ UNCHANGED statusVars

(* atomic_write_bytes: a failure is not looked at.                         *)
WorkDone ==
    /\ BlockingDone
    /\ snap' \in IF writing = None THEN {snap} ELSE {snap, writing}
    /\ writing' = None
    /\ UNCHANGED <<starts, rival, heard, linkUp, reader>>

Late(s) == IF s = None THEN None ELSE [s EXCEPT !.heard = FALSE]

(* CONNECTED_LEASE_SECONDS pass: every answer so far is outside it.        *)
LeasePasses ==
    /\ heard' = FALSE /\ writing' = Late(writing) /\ snap' = Late(snap)
    /\ UNCHANGED <<vars, starts, rival, linkUp, reader>>

----------------------------------------------------------------------------
(* Runs *)

LockFree == ~lock /\ next = "none" /\ ~rival

(* InstanceLock::open; a start that finds the lock taken ends at once.     *)
TakeLock ==
    /\ LockFree /\ lastRun < MaxRuns
    /\ next' = "holding" /\ lastRun' = lastRun + 1
    /\ reader' = [reader EXCEPT !.raced = (reader.pc # "idle")]
    /\ UNCHANGED <<vars, run, named, rival, health>>

WriteIdentity ==
    /\ \/ next = "holding" /\ next' = "emptied" /\ named' = 0
       \/ next = "emptied" /\ next' = "named" /\ named' = lastRun
    /\ UNCHANGED <<vars, run, lastRun, rival, health, reader>>

(* The new run has both locks; recovery and the first poll follow.         *)
Begin ==
    /\ next = "named" /\ ~privateLock
    /\ next' = "none" /\ run' = lastRun
    /\ signal' = FALSE
    /\ obs' = "ticking" /\ obsFailed' = FALSE /\ segment' = "open" /\ request' = "none"
    /\ sync' = "running" /\ blocking' = "none" /\ permits' = 1
    /\ observerStop' = FALSE /\ syncStop' = FALSE /\ release' = FALSE
    /\ accepting' = TRUE /\ sup' = "watching" /\ failed' = FALSE
    /\ lock' = TRUE /\ privateLock' = TRUE
    /\ heard' = FALSE /\ linkUp' = TRUE /\ writing' = None
    /\ UNCHANGED <<lastRun, named, rival, snap, reader>>

(* The private-state lock is taken, or an error, or a kill: it ends.       *)
StartEnds ==
    /\ next # "none" /\ next' = "none"
    /\ UNCHANGED <<vars, run, lastRun, named, rival, health, reader>>

(* The kernel frees both locks; a rename under way happened or did not;    *)
(* the memory of the process is gone.                                      *)
Kill ==
    /\ sup # "gone"
    /\ sup' = "gone" /\ failed' = TRUE /\ lock' = FALSE /\ privateLock' = FALSE
    /\ obs' = "done" /\ obsFailed' = TRUE /\ segment' = "lost" /\ request' = "dropped"
    /\ sync' = "aborted" /\ blocking' = "none" /\ permits' = 1
    /\ signal' = FALSE /\ accepting' = TRUE
    /\ observerStop' = FALSE /\ syncStop' = FALSE /\ release' = FALSE
    /\ snap' \in IF writing = None THEN {snap} ELSE {snap, writing}
    /\ heard' = FALSE /\ linkUp' = TRUE /\ writing' = None
    /\ UNCHANGED <<starts, rival, reader>>

----------------------------------------------------------------------------
(* Status commands *)

RivalTries ==
    /\ LockFree /\ rival' = TRUE
    /\ reader' = [reader EXCEPT !.raced = (reader.pc # "idle")]
    /\ UNCHANGED <<vars, starts, health>>

RivalUnlocks == rival /\ rival' = FALSE /\ UNCHANGED <<vars, starts, health, reader>>

ReadSnapshot ==
    /\ reader.pc = "idle" /\ snap # None
    /\ reader' = [pc |-> "snapshot", snap |-> snap, id |-> 0,
                  alive |-> lock /\ run = snap.run,
                  lease |-> heard /\ run = snap.run,
                  raced |-> rival \/ next \in {"holding", "emptied"}]
    /\ UNCHANGED <<vars, starts, rival, health>>

(* inspect_existing reads the identity first; an incomplete one is unknown. *)
ReadIdentity ==
    /\ reader.pc = "snapshot"
    /\ reader' = IF named = 0 THEN Idle ELSE [reader EXCEPT !.pc = "identity", !.id = named]
    /\ UNCHANGED <<vars, starts, rival, health>>

SameRun_unchecked == TRUE
SameRun == reader.snap.run = reader.id

(* The try of the lock: were it free, the answer would be stale.           *)
Live == reader.pc = "identity" /\ ~LockFree /\ SameRun

(* state_now: an up state in the snapshot counts only within the lease.    *)
LiveUp_unleased == Live /\ reader.snap.up
LiveUp == Live /\ reader.snap.up /\ reader.snap.heard

Probe ==
    /\ reader.pc = "identity" /\ reader' = Idle
    /\ UNCHANGED <<vars, starts, rival, health>>

Rest ==
    /\ \/ Signal \/ RunObserver \/ ObserverFails \/ Supervise
       \/ \E o \in {"ok", "error", "panicked"} : SyncEnds(o)
    /\ UNCHANGED statusVars

StatusNext ==
    \/ Rest \/ OtherWork \/ WriteHealth \/ WorkDone \/ LeasePasses
    \/ TakeLock \/ WriteIdentity \/ Begin \/ StartEnds \/ Kill
    \/ RivalTries \/ RivalUnlocks \/ ReadSnapshot \/ ReadIdentity \/ Probe

StatusSpec == StatusInit /\ [][StatusNext]_allvars

StatusFairSpec ==
    /\ StatusSpec
    /\ WF_allvars(RunObserver /\ UNCHANGED statusVars)
    /\ WF_allvars(Supervise /\ UNCHANGED statusVars)
    /\ WF_allvars(WorkDone)

----------------------------------------------------------------------------
(* Properties *)

(* The status command tells the health of a run only if that run held the  *)
(* instance lock when its snapshot was read, whatever run wrote the file,  *)
(* died or started before; unless another process took the lock during the *)
(* read, or stood between taking it and writing its name (read_status_     *)
(* health, inspect_existing).                                              *)
LiveMeansRunning == Live => reader.alive \/ reader.raced

(* Connected or syncing is told only while the journal's last answer to    *)
(* that run is within the lease: a sync task that hangs, or whose health   *)
(* writes fail or come late, is not shown as connected for longer.         *)
UpMeansHeard == LiveUp /\ ~reader.raced => reader.lease
=============================================================================
