-------------------------- MODULE CredentialStore --------------------------
(***************************************************************************)
(* The owner of a session's private-link credential (CredentialStore in    *)
(* sync.rs), the opener every dial goes through (PrivateLinkOpener in      *)
(* private_link.rs) and the access lane of the post-connect work that      *)
(* feeds them (relay_access.rs).                                           *)
(*                                                                         *)
(* Every change of the credential is an operation queued behind the last   *)
(* one (enqueue_owned).  An operation is claimed under the state lock,     *)
(* writes the file with the lock released and takes the lock again to      *)
(* finish; a waiter that times out leaves its operation in the queue.      *)
(* The three moments are three actions here, so that shutdown, token       *)
(* refreshes, new attempts and crashes fall between them.           *)
(*                                                                         *)
(* A credential is its relay origin, its device token and the addresses to *)
(* dial; a token records which relay issued it.  The certificate, which no *)
(* operation changes, is left out, and with it the pairing-generation      *)
(* comparisons of one session with itself.                                 *)
(***************************************************************************)
EXTENDS Integers, Sequences, FiniteSetsExt, SequencesExt

CONSTANTS
    Origins,        \* relay origins the journal may name
    Listings,       \* the address lists the journal may answer with
    StartEndpoints, \* the address lists a saved pairing may hold
    HostNames,      \* stored addresses that are names, not IP addresses
    Loopback,       \* addresses on the loopback interface
    None,           \* an absent option
    MaxTokens,      \* bound on the tokens relays issue
    MaxLanes,       \* bound on the lane passes of one session
    MaxQueue,       \* bound on the operations waiting in the owner chain
    MaxRestarts     \* bound on crashes of the process

ASSUME BoundsAssumption ==
    /\ MaxTokens \in Nat \ {0} /\ MaxLanes \in Nat
    /\ MaxQueue \in Nat \ {0} /\ MaxRestarts \in Nat
    /\ None \notin Origins /\ None \notin {"Failed", "Uncertain"}

\* Answers and saved pairings are of limited size, so there are finitely many lists.
ASSUME ListsAssumption ==
    /\ Listings # {} /\ IsFiniteSet(Listings)
    /\ StartEndpoints # {} /\ IsFiniteSet(StartEndpoints)
    /\ \A l \in Listings \cup StartEndpoints : l \in Seq(Range(l))

Endpoints == UNION {Range(l) : l \in Listings \cup StartEndpoints}
Tokens == [origin : Origins, n : 1..MaxTokens]
Credentials == [origin : Origins \cup {None}, token : Tokens \cup {None},
                ep : Seq(Endpoints)]

VARIABLES
    live,       \* CredentialStoreState.credential
    gen,        \* mutation_generation
    pending,    \* generation of the unsaved token update, or None
    clear,      \* durable_clear_pending_gen
    shutdown,   \* the store was invalidated
    attempt,    \* current_access_attempt_id
    issue,      \* persistence_issue
    disk,       \* the credential file
    opener,     \* OpenerState
    hooks,      \* the token hooks handed to transports, by generation
    queue,      \* the owner chain, its head first
    running,    \* the claimed operation at the head of the chain, or Free
    job,        \* the access lane
    lanes,      \* lane passes spawned in this session
    expired,    \* access attempts whose deadline has passed
    session,    \* "open", "closing" (shutdown awaits its flush), "closed"
    minted,     \* tokens issued so far
    restarts    \* crashes so far

store == <<live, gen, pending, clear, shutdown, attempt, issue>>
vars == <<store, disk, opener, hooks, queue, running, job, lanes, expired,
          session, minted, restarts>>

Relay(c) == [origin |-> c.origin, token |-> c.token]
Idle == [ph |-> "idle", att |-> None]
Free == [ph |-> "none"]

(***************************************************************************)
(* A new session: the saved credential becomes the live one and the first  *)
(* transport is installed with the hook of generation 0.                   *)
(***************************************************************************)
Hook(g, c) == IF c.origin = None THEN {} ELSE {[gen |-> g, origin |-> c.origin]}

FreshOpener(c) == [inc |-> 0, retired |-> FALSE, mode |-> "transport",
                   cred |-> c, rev |-> 0]

Init ==
    /\ \E o \in Origins \cup {None}, e \in StartEndpoints :
          /\ o # None \/ e # <<>>
          /\ disk = [origin |-> o, ep |-> e,
                     token |-> IF o = None THEN None ELSE [origin |-> o, n |-> 1]]
    /\ live = disk /\ gen = 0 /\ pending = None /\ clear = None
    /\ shutdown = FALSE /\ attempt = 0 /\ issue = None
    /\ opener = FreshOpener(disk) /\ hooks = Hook(0, disk)
    /\ queue = <<>> /\ running = Free /\ job = Idle /\ lanes = 0 /\ expired = {}
    /\ session = "open" /\ minted = 1 /\ restarts = 0

(***************************************************************************)
(* The opener.                                                             *)
(***************************************************************************)
Installed(op, mode, c, rev) ==
    IF op.retired THEN op
    ELSE [op EXCEPT !.inc = @ + 1, !.mode = mode, !.cred = c, !.rev = rev]

InstallTransport(op, c, rev) == Installed(op, "transport", c, rev)
InstallDisabled(op, c, rev) == Installed(op, "disabled", c, rev)
Retired(op) == [op EXCEPT !.retired = TRUE, !.inc = @ + 1]

(***************************************************************************)
(* The owner chain.                                                        *)
(***************************************************************************)
Room == Len(queue) < MaxQueue

\* A transport refreshed its token with the relay and calls its hook, which
\* leases the generation the hook was made for and queues the publication.
TokenHook(h) ==
    /\ Room /\ minted < MaxTokens
    /\ minted' = minted + 1
    /\ queue' = Append(queue, [kind |-> "refresh", gen |-> h.gen,
                               token |-> [origin |-> h.origin, n |-> minted + 1]])
    /\ UNCHANGED <<store, disk, opener, hooks, running, job, expired,
                   session, lanes, restarts>>

MutAttemptIsCurrent(a) == a.id \notin expired /\ ~shutdown

\* access_attempt_is_current, under the state lock.
AttemptIsCurrent(a) ==
    /\ a.id \notin expired
    /\ attempt = a.id
    /\ ~shutdown
    /\ gen = a.rev
    /\ live.origin = a.origin /\ live.token = a.token

\* merge_dial_endpoints: the listed addresses once each, then at most two of the
\* stored ones that are not among them; a stored name is never compared.
PushListed(merged, e) == IF e \in Range(merged) THEN merged ELSE Append(merged, e)

MutPushStored(acc, e) ==
    IF e \notin HostNames /\ e \in Range(acc.merged)
    THEN acc
    ELSE [merged |-> Append(acc.merged, e), added |-> acc.added + 1]

PushStored(acc, e) ==
    IF acc.added = 2 \/ (e \notin HostNames /\ e \in Range(acc.merged))
    THEN acc
    ELSE [merged |-> Append(acc.merged, e), added |-> acc.added + 1]

MergeDialEndpoints(listed, stored) ==
    LET first == FoldLeft(PushListed, <<>>, listed)
    IN FoldLeft(PushStored, [merged |-> first, added |-> 0], stored).merged

\* An operation that turns out to have nothing to do leaves the chain.
Drop ==
    /\ queue' = Tail(queue)
    /\ UNCHANGED <<store, disk, opener, hooks, running, job, expired,
                   session, minted, lanes, restarts>>

\* The claimed operation, the credential it writes and the state it started from.
Claim(op, c) == running' = [op |-> op, cred |-> c, base |-> live, ph |-> "write",
                            wrote |-> FALSE, ok |-> FALSE]

MutRefreshIsCurrent(op) == ~shutdown
RefreshIsCurrent(op) == ~shutdown /\ gen = op.gen

ClaimRefresh(op) ==
    IF ~RefreshIsCurrent(op)
    THEN Drop
    ELSE /\ live' = [live EXCEPT !.token = op.token]
         /\ pending' = gen
         /\ Claim(op, live')
         /\ UNCHANGED <<gen, clear, shutdown, attempt, issue, disk, opener, hooks,
                        queue, job, expired, session, minted, lanes, restarts>>

\* submit_ready builds the transport before it writes, and changes no state yet.
ClaimReady(op) ==
    \/ /\ AttemptIsCurrent(op.att)
       /\ Claim(op, [live EXCEPT !.origin = op.origin, !.token = op.token])
       /\ UNCHANGED <<store, disk, opener, hooks, queue, job, expired,
                      session, minted, lanes, restarts>>
    \/ Drop     \* out of date, or no transport can be built

ClaimDial(op) ==
    LET merged == MergeDialEndpoints(op.ep, live.ep)
    IN \/ /\ ~shutdown /\ merged # <<>> /\ merged # live.ep
          /\ Claim(op, [live EXCEPT !.ep = merged])
          /\ UNCHANGED <<store, disk, opener, hooks, queue, job, expired,
                         session, minted, lanes, restarts>>
       \/ Drop  \* shut down, nothing new, or no transport can be built

\* submit_disable changes the live credential at once.
ClaimDisable(op) ==
    IF ~AttemptIsCurrent(op.att)
    THEN Drop
    ELSE /\ live' = [live EXCEPT !.origin = None, !.token = None]
         /\ pending' = None
         /\ gen' = gen + 1
         /\ clear' = gen + 1
         /\ running' = [op |-> op, cred |-> live', base |-> live,
                        ph |-> "install", wrote |-> FALSE, ok |-> FALSE]
         /\ UNCHANGED <<shutdown, attempt, issue, disk, opener, hooks, queue, job,
                        expired, session, minted, lanes, restarts>>

\* persist_pending: shutdown does not stop an already accepted change.
HasPending == pending = gen \/ clear = gen

ClaimFlush(op) ==
    IF ~HasPending
    THEN Drop
    ELSE /\ Claim(op, live)
         /\ UNCHANGED <<store, disk, opener, hooks, queue, job, expired,
                        session, minted, lanes, restarts>>

ClaimHead ==
    /\ running = Free /\ queue # <<>>
    /\ LET op == Head(queue)
       IN CASE op.kind = "refresh" -> ClaimRefresh(op)
            [] op.kind = "ready" -> ClaimReady(op)
            [] op.kind = "dial" -> ClaimDial(op)
            [] op.kind = "disable" -> ClaimDisable(op)
            [] op.kind = "flush" -> ClaimFlush(op)

MutDisabledOpener(c, rev) ==
    IF c.ep = <<>> THEN opener ELSE InstallTransport(opener, c, rev)

\* submit_disable replaces the opener before it writes.
DisabledOpener(c, rev) ==
    LET off == InstallDisabled(opener, c, rev)
    IN IF c.ep = <<>> THEN off ELSE InstallTransport(off, c, rev)

DisableInstall ==
    /\ running # Free /\ running.ph = "install"
    /\ \/ /\ opener' = DisabledOpener(running.cred, gen)
          /\ running' = [running EXCEPT !.ph = "write"]
          /\ UNCHANGED queue
       \/ /\ running.cred.ep # <<>>   \* no transport can be built: it stops here
          /\ opener' = InstallDisabled(opener, running.cred, gen)
          /\ running' = Free
          /\ queue' = Tail(queue)
    /\ UNCHANGED <<store, disk, hooks, job, lanes, expired, session, minted,
                   restarts>>

\* persist_credential: the write succeeds, fails with the file as it was, or
\* reports an error after the file was replaced.
Write ==
    /\ running # Free /\ running.ph = "write"
    /\ \E ok, landed \in BOOLEAN :
          /\ ok => landed
          /\ disk' = IF landed THEN running.cred ELSE disk
          /\ running' = [running EXCEPT !.ph = "finish", !.ok = ok, !.wrote = landed]
    /\ UNCHANGED <<store, opener, hooks, queue, job, expired, session,
                   minted, lanes, restarts>>

\* Reading the file back after a reported error: it matches, or it does not or
\* cannot be read.
ReadBack == running.ok \/ disk = running.cred

FinishRefresh ==
    /\ IF running.ok
       THEN pending' = None /\ issue' = None
       ELSE issue' = "Failed" /\ UNCHANGED pending
    /\ UNCHANGED <<live, gen, clear, shutdown, attempt, opener, hooks>>

FinishReady ==
    \/ /\ ReadBack
       /\ live' = running.cred
       /\ gen' = gen + 1
       /\ clear' = None
       /\ pending' = IF running.ok THEN None ELSE gen + 1
       /\ issue' = IF running.ok THEN None ELSE "Uncertain"
       /\ opener' = InstallTransport(opener, running.cred, gen + 1)
       /\ hooks' = hooks \cup Hook(gen + 1, running.cred)
       /\ UNCHANGED <<shutdown, attempt>>
    \/ /\ ~running.ok
       /\ issue' = "Failed"
       /\ UNCHANGED <<live, gen, pending, clear, shutdown, attempt, opener, hooks>>

FinishDial ==
    \/ /\ ReadBack
       /\ live' = running.cred
       /\ opener' = InstallTransport(opener, running.cred, gen)
       /\ hooks' = hooks \cup Hook(gen, running.cred)
       /\ UNCHANGED <<gen, pending, clear, shutdown, attempt, issue>>
    \/ /\ ~running.ok
       /\ UNCHANGED <<store, opener, hooks>>

FinishDisable ==
    /\ IF running.ok
       THEN IF clear = gen THEN clear' = None /\ issue' = None
            ELSE UNCHANGED <<clear, issue>>
       ELSE issue' = "Failed" /\ UNCHANGED clear
    /\ UNCHANGED <<live, gen, pending, shutdown, attempt, opener, hooks>>

FinishFlush ==
    /\ IF running.ok
       THEN pending' = None /\ clear' = None /\ issue' = None
       ELSE /\ issue' = IF issue = None THEN "Failed" ELSE issue
            /\ UNCHANGED <<pending, clear>>
    /\ UNCHANGED <<live, gen, shutdown, attempt, opener, hooks>>

Finish ==
    /\ running # Free /\ running.ph = "finish"
    /\ CASE running.op.kind = "refresh" -> FinishRefresh
         [] running.op.kind = "ready" -> FinishReady
         [] running.op.kind = "dial" -> FinishDial
         [] running.op.kind = "disable" -> FinishDisable
         [] running.op.kind = "flush" -> FinishFlush
    /\ running' = Free
    /\ queue' = Tail(queue)
    /\ UNCHANGED <<disk, job, expired, session, minted, lanes, restarts>>

(***************************************************************************)
(* The access lane: run_relay_access_job, then run_dial_address_job.       *)
(***************************************************************************)
OfLane(op, ph) == "lane" \in DOMAIN op /\ op.lane = ph

\* Whether the operation the lane waits for has left the chain.  The chain is
\* first in, first out, so its own operation is the last of its kind to leave.
Done(ph) == \A i \in DOMAIN queue : ~OfLane(queue[i], ph)

LaneTo(ph, a) == job' = [ph |-> ph, att |-> a]

Enqueue(op) == Room /\ queue' = Append(queue, op)

\* A burst spawns the lane's task while the session is open; the task may first
\* run after the session was shut down.
SpawnLane ==
    /\ job.ph = "idle" /\ session = "open" /\ lanes < MaxLanes
    /\ lanes' = lanes + 1
    /\ LaneTo("spawned", None)
    /\ UNCHANGED <<store, disk, opener, hooks, queue, running, expired,
                   session, minted, restarts>>

\* The lane starts by retrying an unsaved change.
RelayJobStart ==
    /\ job.ph = "spawned"
    /\ Enqueue([kind |-> "flush", lane |-> "flush"])
    /\ LaneTo("flush", None)
    /\ UNCHANGED <<store, disk, opener, hooks, running, expired, session,
                   minted, lanes, restarts>>

CaptureAccessAttempt ==
    /\ job.ph = "flush" /\ Done("flush")
    /\ attempt' = attempt + 1
    /\ LaneTo("get", [id |-> attempt + 1, rev |-> gen, origin |-> live.origin,
                      token |-> live.token])
    /\ UNCHANGED <<live, gen, pending, clear, shutdown, issue, disk, opener, hooks,
                   queue, running, expired, session, minted, lanes, restarts>>

\* The journal answers Ready with a token of its relay, new or the one in use.
AnswerReady(o) ==
    /\ job.ph = "get"
    /\ \/ /\ minted < MaxTokens
          /\ minted' = minted + 1
          /\ Enqueue([kind |-> "ready", lane |-> "publish", att |-> job.att, origin |-> o,
                      token |-> [origin |-> o, n |-> minted + 1]])
          /\ LaneTo("wait", job.att)
       \/ /\ live.origin = o       \* the credential in use: nothing to do
          /\ LaneTo("addr", None)
          /\ UNCHANGED <<minted, queue>>
    /\ UNCHANGED <<store, disk, opener, hooks, running, expired, session,
                   lanes, restarts>>

AnswerNotConfigured ==
    /\ job.ph = "get"
    /\ Enqueue([kind |-> "disable", lane |-> "publish", att |-> job.att])
    /\ LaneTo("wait", job.att)
    /\ UNCHANGED <<store, disk, opener, hooks, running, expired, session,
                   minted, lanes, restarts>>

\* No usable answer, or the publication the lane waited for has ended.
RelayJobEnd ==
    /\ \/ job.ph = "get"
       \/ job.ph = "wait" /\ Done("publish")
    /\ LaneTo("addr", None)
    /\ UNCHANGED <<store, disk, opener, hooks, queue, running, expired,
                   session, minted, lanes, restarts>>

DeadlinePasses ==
    /\ job.att # None /\ job.att.id \notin expired
    /\ expired' = expired \cup {job.att.id}
    /\ UNCHANGED <<store, disk, opener, hooks, queue, running, job, session,
                   minted, lanes, restarts>>

\* The deadline covers the request alone.
MutRelayJobTimeout ==
    /\ job.ph = "get" /\ job.att.id \in expired
    /\ LaneTo("addr", None)
    /\ UNCHANGED <<store, disk, opener, hooks, queue, running, expired,
                   session, minted, lanes, restarts>>

\* timeout_at drops the waiter; the queued operation stays.
RelayJobTimeout ==
    /\ \/ job.ph = "flush"
       \/ job.ph \in {"get", "wait"} /\ job.att.id \in expired
    /\ LaneTo("addr", None)
    /\ UNCHANGED <<store, disk, opener, hooks, queue, running, expired,
                   session, minted, lanes, restarts>>

LoopbackOnly == live.ep # <<>> /\ Range(live.ep) \subseteq Loopback

AnswerAddresses(l) ==
    /\ job.ph = "addr" /\ ~LoopbackOnly
    /\ Enqueue([kind |-> "dial", lane |-> "addr", ep |-> l])
    /\ LaneTo("addrwait", None)
    /\ UNCHANGED <<store, disk, opener, hooks, running, expired, session,
                   minted, lanes, restarts>>

\* Loopback only, nothing to commit, a failed request, the end of the commit, or
\* the deadline of the address job.
AddressJobEnd ==
    /\ job.ph \in {"addr", "addrwait"}
    /\ LaneTo("idle", None)
    /\ UNCHANGED <<store, disk, opener, hooks, queue, running, expired,
                   session, minted, lanes, restarts>>

MutSessionShutdown ==
    /\ session = "open"
    /\ opener' = Retired(opener)
    /\ shutdown' = TRUE
    /\ session' = "closing"
    /\ UNCHANGED <<live, gen, pending, clear, attempt, issue, disk, hooks, queue,
                   running, job, expired, minted, lanes, restarts>>

(***************************************************************************)
(* The session's end and the process's.                                    *)
(***************************************************************************)
\* PostConnectCoordinator::shutdown, then the last persist_pending is queued.
SessionShutdown ==
    /\ session = "open"
    /\ opener' = Retired(opener)
    /\ shutdown' = TRUE
    /\ Enqueue([kind |-> "flush", lane |-> "close"])
    /\ session' = "closing"
    /\ UNCHANGED <<live, gen, pending, clear, attempt, issue, disk, hooks, running,
                   job, expired, minted, lanes, restarts>>

SessionClosed ==
    /\ session = "closing" /\ Done("close")
    /\ session' = "closed"
    /\ UNCHANGED <<store, disk, opener, hooks, queue, running, job, expired,
                   minted, lanes, restarts>>

\* The process dies, or ends after its shutdown, and a later one starts a session
\* from the file.
Restart ==
    /\ restarts < MaxRestarts
    /\ restarts' = restarts + 1
    /\ live' = disk /\ gen' = 0 /\ pending' = None /\ clear' = None
    /\ shutdown' = FALSE /\ attempt' = 0 /\ issue' = None
    /\ opener' = FreshOpener(disk) /\ hooks' = Hook(0, disk)
    /\ queue' = <<>> /\ running' = Free /\ job' = Idle /\ lanes' = 0 /\ expired' = {}
    /\ session' = "open"
    /\ UNCHANGED <<disk, minted>>

Chain == ClaimHead \/ DisableInstall \/ Write \/ Finish
Lane == SpawnLane \/ RelayJobStart \/ CaptureAccessAttempt \/ (\E o \in Origins : AnswerReady(o))
        \/ AnswerNotConfigured \/ RelayJobEnd \/ DeadlinePasses \/ RelayJobTimeout
        \/ (\E l \in Listings : AnswerAddresses(l)) \/ AddressJobEnd
Next ==
    \/ Chain \/ Lane
    \/ \E h \in hooks : TokenHook(h)
    \/ SessionShutdown \/ SessionClosed \/ Restart

Spec == Init /\ [][Next]_vars

\* Timers fire and the lane runs when woken; the file system may hang for ever.
LaneFairness == WF_vars(DeadlinePasses) /\ WF_vars(RelayJobTimeout) /\ WF_vars(AddressJobEnd)
FairSpec == Spec /\ LaneFairness

(***************************************************************************)
(* Properties.                                                             *)
(***************************************************************************)
TypeOK ==
    /\ live \in Credentials /\ disk \in Credentials
    /\ gen \in Nat /\ attempt \in 0..MaxLanes
    /\ pending \in 0..gen \cup {None} /\ clear \in 0..gen \cup {None}
    /\ shutdown \in BOOLEAN /\ issue \in {None, "Failed", "Uncertain"}
    /\ opener.cred \in Credentials /\ opener.rev \in 0..gen
    /\ job.ph \in {"idle", "spawned", "flush", "get", "wait", "addr", "addrwait"}
    /\ session \in {"open", "closing", "closed"}

\* Whenever no publication is under way, a session's opener dials with the
\* credential the store holds: the same revision, relay and addresses.  So a
\* disabled relay is out of reach at once, whether or not the disable could be
\* written (the comment on submit_disable), and no later address publication
\* brings an older relay back.
OpenerFollowsStore ==
    running = Free /\ ~opener.retired =>
        /\ opener.rev = gen
        /\ opener.cred.origin = live.origin
        /\ opener.cred.ep = live.ep
        /\ opener.mode = "transport" \/ live.origin = None

\* A device token is only ever kept, saved or dialed with beside the relay that
\* issued it: a refresh made by a transport of an earlier revision, however late
\* its hook runs, is not written into the credential of another relay.
TokenOfOrigin ==
    \A c \in {live, disk, opener.cred} :
        c.token # None => c.origin = c.token.origin

\* When the file's relay access differs from the live one and nothing is being
\* written, the failure has been recorded or, until the shutdown's own flush is
\* done, the store still owes the write, through any sequence of failed and
\* half-failed writes.
DivergenceKnown ==
    running = Free /\ Relay(disk) # Relay(live) =>
        \/ issue # None
        \/ session # "closed" /\ (pending = gen \/ clear = gen)

\* The saved addresses never grow past what the pairing gave, or the longest list
\* the journal gave and two older ones, however many refreshes are merged.
Longest(lists) == Max({Len(l) : l \in lists})
EndpointsStayBounded ==
    Len(live.ep) <= Max({Longest(StartEndpoints), Longest(Listings) + 2})

\* An answer of the journal that changes the credential (Ready and an address list
\* when they are published, a disable when it is claimed) replaces exactly the
\* credential it was computed from, and a relay answer moreover the one its request
\* was made under: no refresh, disable or address change that was accepted
\* meanwhile is lost (access_attempt_is_current).
ComputedFrom(op) ==
    /\ op.base = live
    /\ op.op.kind \in {"ready", "disable"} =>
          /\ op.op.att.rev = gen
          /\ Relay(live) = [origin |-> op.op.att.origin, token |-> op.op.att.token]
NoLostUpdate ==
    [][live' # live /\ restarts' = restarts =>
          \A op \in {running, running'} \ {Free} :
              op.op.kind \in {"ready", "disable", "dial"} => ComputedFrom(op)]_vars

\* The access lane always comes to rest, so that its burst can end, even when a
\* write to the file system never returns.
LaneEnds == (job.ph \in {"flush", "get", "wait", "addr", "addrwait"})
            ~> (job.ph \in {"idle", "spawned"})
=============================================================================
