---------------------------- MODULE PostConnect ----------------------------
(***************************************************************************)
(* The bursts of optional work a session does when it connects             *)
(* (PostConnectCoordinator in post_connect.rs): a metadata lane and an     *)
(* access lane, each with at most one pass and one coalesced follow-up in  *)
(* a burst.  A pass is a spawned task, bounded by its deadline, whose own  *)
(* requests may make the bridge dial a carrier; a successful dial is       *)
(* itself a trigger unless a burst was active when it began                *)
(* (PrivateLinkOpener::dial_carrier in private_link.rs).                   *)
(*                                                                         *)
(* A trigger reads the alive flag, and a finished dial the active flag,    *)
(* before it takes the lock that starts the burst, so these are two steps. *)
(* deferred_metadata, which no step can set, is left out.                  *)
(***************************************************************************)
EXTENDS Integers, FiniteSets

CONSTANTS
    Callers,        \* the tasks that may trigger or dial at the same time
    MaxTriggers,    \* bound on external triggers (bootstrap, attach, manual)
    MaxDials        \* bound on carrier dials

ASSUME BoundsAssumption ==
    MaxTriggers \in Nat /\ MaxDials \in Nat /\ IsFiniteSet(Callers)

Lanes == {"metadata", "access"}

VARIABLES
    alive,          \* the coordinator's alive flag
    active,         \* BurstState.active
    bursts,         \* BurstState.burst_id
    lane,           \* BurstState.metadata and .access
    counter,        \* attempt_counter
    tasks,          \* the spawned passes still running, per lane
    caller,         \* what each caller is doing
    triggers,       \* external triggers so far
    dials,          \* dials so far
    quietDials      \* dials that began while no burst was active

vars == <<alive, active, bursts, lane, counter, tasks, caller,
          triggers, dials, quietDials>>
burst == <<active, bursts, lane, counter, tasks>>

NewLane == [passes |-> 0, inFlight |-> FALSE, followUp |-> FALSE, attempt |-> 0]
Resting == [ph |-> "idle", induced |-> FALSE]

Init ==
    /\ alive = TRUE /\ active = FALSE /\ bursts = 0
    /\ lane = [l \in Lanes |-> NewLane]
    /\ counter = 0 /\ tasks = [l \in Lanes |-> {}]
    /\ caller = [c \in Callers |-> Resting]
    /\ triggers = 0 /\ dials = 0 /\ quietDials = 0

(***************************************************************************)
(* Starting passes.  The metadata lane takes the first attempt number.     *)
(***************************************************************************)
Started(s, n) == [s EXCEPT !.passes = @ + 1, !.inFlight = TRUE, !.attempt = n]

\* Whether a trigger starts a pass at once in a lane of an active burst.
StartsNow(s) == s.passes < 2 /\ ~s.inFlight

MutRequested(s) == [s EXCEPT !.followUp = TRUE]

\* request_follow_up: asked for while the first pass runs.
Requested(s) == IF s.passes < 2 /\ s.inFlight THEN [s EXCEPT !.followUp = TRUE] ELSE s

\* Starts a pass in each lane of ls, of the lanes as they are in from.
StartPasses(ls, from) ==
    LET nth(l) == counter + (IF l = "access" /\ "metadata" \in ls THEN 2 ELSE 1)
    IN /\ lane' = [l \in Lanes |->
                      IF l \in ls THEN Started(from[l], nth(l)) ELSE from[l]]
       /\ tasks' = [l \in Lanes |->
                      IF l \in ls THEN tasks[l] \cup {nth(l)} ELSE tasks[l]]
       /\ counter' = counter + Cardinality(ls)

\* trigger_external under the burst lock.
StartOrRequest ==
    IF ~active
    THEN /\ active' = TRUE
         /\ bursts' = bursts + 1
         /\ StartPasses(Lanes, [l \in Lanes |-> NewLane])
    ELSE /\ StartPasses({l \in Lanes : StartsNow(lane[l])},
                        [l \in Lanes |-> Requested(lane[l])])
         /\ UNCHANGED <<active, bursts>>

(***************************************************************************)
(* Callers.                                                                *)
(***************************************************************************)
Becomes(c, ph) == caller' = [caller EXCEPT ![c].ph = ph]

\* An external event reads the alive flag.
TriggerExternal(c) ==
    /\ caller[c].ph = "idle" /\ triggers < MaxTriggers
    /\ alive
    /\ triggers' = triggers + 1
    /\ Becomes(c, "trigger")
    /\ UNCHANGED <<alive, burst, dials, quietDials>>

Trigger(c) ==
    /\ caller[c].ph = "trigger"
    /\ StartOrRequest
    /\ caller' = [caller EXCEPT ![c] = Resting]
    /\ UNCHANGED <<alive, triggers, dials, quietDials>>

\* dial_carrier notes whether a burst is active when the dial begins.
DialStart(c) ==
    /\ caller[c].ph = "idle" /\ dials < MaxDials
    /\ dials' = dials + 1
    /\ quietDials' = IF active THEN quietDials ELSE quietDials + 1
    /\ caller' = [caller EXCEPT ![c] = [ph |-> "dial", induced |-> active]]
    /\ UNCHANGED <<alive, burst, triggers>>

MutNotes(c) == TRUE

\* Whether a successful dial is told to the coordinator.
Notes(c) == ~caller[c].induced

\* The dial fails, finds the opener replaced, or succeeds; note_successful_dial
\* then looks whether the burst is active, and trigger_external whether the
\* coordinator is alive.
DialDone(c) ==
    /\ caller[c].ph = "dial"
    /\ \/ caller' = [caller EXCEPT ![c] = Resting]
       \/ Notes(c) /\ ~active /\ alive /\ Becomes(c, "trigger")
    /\ UNCHANGED <<alive, burst, triggers, dials, quietDials>>

(***************************************************************************)
(* The end of a pass (on_metadata_complete, on_access_complete).           *)
(***************************************************************************)
MutQuiescent(ls) == ~ls["metadata"].inFlight

Quiescent(ls) == \A l \in Lanes : ~ls[l].inFlight /\ ~ls[l].followUp

MutFollowsUp(s) == FALSE

FollowsUp(s) == s.followUp /\ s.passes < 2 /\ alive

Complete(l) ==
    \E n \in tasks[l] :
        LET ended == [lane EXCEPT ![l].inFlight = FALSE, ![l].followUp = FALSE]
            next == [ended EXCEPT ![l] = Started(@, counter + 1)]
            gone == [tasks EXCEPT ![l] = @ \ {n}]
        IN IF lane[l].attempt # n
           THEN /\ tasks' = gone
                /\ UNCHANGED <<active, bursts, lane, counter>>
           ELSE /\ IF FollowsUp(lane[l])
                   THEN /\ lane' = next
                        /\ counter' = counter + 1
                        /\ tasks' = [gone EXCEPT ![l] = @ \cup {counter + 1}]
                   ELSE lane' = ended /\ tasks' = gone /\ UNCHANGED counter
                /\ active' = (active /\ ~Quiescent(lane'))
                /\ UNCHANGED bursts

CompletePass(l) ==
    /\ Complete(l)
    /\ UNCHANGED <<alive, caller, triggers, dials, quietDials>>

\* The flag first, then the follow-ups under the burst lock.
Shutdown ==
    /\ alive
    /\ alive' = FALSE
    /\ lane' = [l \in Lanes |-> [lane[l] EXCEPT !.followUp = FALSE]]
    /\ UNCHANGED <<active, bursts, counter, tasks, caller, triggers,
                   dials, quietDials>>

Next ==
    \/ \E c \in Callers : TriggerExternal(c) \/ Trigger(c) \/ DialStart(c) \/ DialDone(c)
    \/ \E l \in Lanes : CompletePass(l)
    \/ Shutdown

Spec == Init /\ [][Next]_vars

\* Every pass ends by its deadline.
FairSpec == Spec /\ \A l \in Lanes : WF_vars(CompletePass(l))

(***************************************************************************)
(* Properties.                                                             *)
(***************************************************************************)
TypeOK ==
    /\ alive \in BOOLEAN /\ active \in BOOLEAN
    /\ bursts \in Nat /\ counter \in Nat
    /\ lane \in [Lanes -> [passes : 0..2, inFlight : BOOLEAN, followUp : BOOLEAN,
                           attempt : 0..counter]]
    /\ tasks \in [Lanes -> SUBSET (1..counter)]
    /\ caller \in [Callers -> [ph : {"idle", "trigger", "dial"}, induced : BOOLEAN]]

\* A lane runs exactly the pass its record says it runs: no second pass beside it,
\* none left over from an earlier burst, none when it is at rest.  This is what
\* makes an access attempt the only one of its session (CredentialStore).
LaneOwnsItsPass ==
    \A l \in Lanes : tasks[l] = IF lane[l].inFlight THEN {lane[l].attempt} ELSE {}

\* Work begets no work: every burst comes from an external trigger or from a dial
\* that began while no burst was active.  A dial made by a pass cannot start a new
\* burst, even when it completes after the pass has ended (the comment in
\* dial_carrier).
NoManufacturedBursts == bursts <= triggers + quietDials

\* A trigger that arrives while a lane runs its first pass is followed by a pass
\* that starts after it, unless the session is shut down.
FollowUpHappens ==
    \A l \in Lanes : lane[l].followUp ~> (lane[l].passes = 2 \/ ~alive)

\* A burst ends, whatever arrives while it is active.
BurstEnds == active ~> ~active
=============================================================================
