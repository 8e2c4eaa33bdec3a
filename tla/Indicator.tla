----------------------------- MODULE Indicator -----------------------------
(***************************************************************************)
(* The activity indicator in tmux's status line (indicator.rs; the part of *)
(* supervise_observer and ActivityLinger in observer.rs that drives it).   *)
(*                                                                         *)
(* A run puts a mark in front of the owner's status-left, makes room for   *)
(* it in status-left-length and shows its activity in an option of its     *)
(* own, the cell; a clean stop puts back what it still finds as it wrote   *)
(* it.  Each read and each write is one tmux command.  Between any two of  *)
(* them the owner may change an option, the server may exit and another    *)
(* may start, and the process may be killed; a command may fail.           *)
(*                                                                         *)
(* A length that is not a number, which tmux does not allow, and an        *)
(* owner's own value of the cell are left out.                             *)
(***************************************************************************)
EXTENDS Integers

CONSTANTS
    None,       \* no server; nothing shown yet
    Texts,      \* what an owner may have in status-left
    Lengths,    \* the lengths an owner may set
    ConfText, ConfLength,   \* what tmux.conf sets in every new server
    MaxServers, \* bound on the tmux servers, one after the other
    MaxEdits,   \* bound on the owner's changes
    MaxFaults,  \* bound on failing tmux commands
    MaxRuns     \* bound on the starts of the service

(* A server as far as the indicator sees it: what is in its status-left,   *)
(* the marks in front of the text apart, its length and the cell.          *)
Lefts == [marks : Nat, text : Texts]
Cells == {"absent", "observing", "syncing"}
Servers == [id : Nat, left : Lefts, len : Nat, cell : Cells]

ASSUME ConstantsAssumption ==
    /\ ConfText \in Texts /\ ConfLength \in Lengths /\ Lengths \subseteq Nat
    /\ {MaxServers, MaxEdits, MaxFaults, MaxRuns} \subseteq Nat
    /\ None \notin Servers

VARIABLES
    server,     \* the tmux server: [id, left, len, cell], or None
    servers,    \* servers started so far
    pc,         \* the tmux command the run is at; "loop": in the select
    starting,   \* the run is still in ServerIndicator::start
    installed,  \* ServerIndicator.installed is there
    own,        \* its server and IndicatorOwnership, in the making until installed
    working,    \* ServerIndicator.working
    activity,   \* what the sync task does: "working" or "idle"
    changed,    \* the watch of the activity has a change
    shown,      \* ActivityLinger.shown, None at first
    lingering,  \* ActivityLinger.idle_at is set
    owner,      \* history: [text, len], the owner's last words on this server
    widened,    \* history: the room for the mark is in the length
    torn,       \* history: a run left the mark without the room, or the room without it
    blurred,    \* history: the owner made the code take one length for another
    unseen,     \* history: a write went over a change it had not seen
    touched,    \* history: the owner changed status-left since the install
    known,      \* history: the options as the run last read or wrote them
    runs, edits, faults

tmux == <<server, servers>>
indicator == <<installed, own, working>>
control == <<pc, starting>>
sync == <<activity, changed>>
linger == <<shown, lingering>>
history == <<owner, widened, torn, blurred, unseen, touched, known>>
bounds == <<runs, edits, faults>>
vars == <<tmux, control, indicator, sync, linger, history, bounds>>

Plain(t) == [marks |-> 0, text |-> t]
NoOwn == [of |-> 0, left |-> Plain(ConfText), len |-> 0,
          wcell |-> "absent", owned |-> FALSE]
Written == [own.left EXCEPT !.marks = @ + 1]
Unknown == [left |-> NoOwn.left, len |-> 0, cell |-> "absent"]
Nobody == [text |-> ConfText, len |-> 0]

Init ==
    /\ server = None /\ servers = 0 /\ pc = "off" /\ starting = FALSE
    /\ installed = FALSE /\ own = NoOwn /\ working = FALSE
    /\ activity = "idle" /\ changed = FALSE /\ shown = None /\ lingering = FALSE
    /\ owner = Nobody /\ widened = FALSE /\ torn = FALSE /\ blurred = FALSE
    /\ unseen = FALSE /\ touched = FALSE /\ known = Unknown
    /\ runs = 0 /\ edits = 0 /\ faults = 0

----------------------------------------------------------------------------
(* tmux and its owner *)

ServerStarts ==
    /\ server = None /\ servers < MaxServers
    /\ servers' = servers + 1
    /\ server' = [id |-> servers + 1, left |-> Plain(ConfText), len |-> ConfLength,
                  cell |-> "absent"]
    /\ owner' = [text |-> ConfText, len |-> ConfLength]
    /\ UNCHANGED <<widened, unseen, touched, torn, blurred, known>>
    /\ UNCHANGED <<control, indicator, sync, linger, bounds>>

ServerExits ==
    /\ server # None /\ server' = None
    /\ owner' = Nobody /\ widened' = FALSE /\ unseen' = FALSE /\ touched' = FALSE
    /\ UNCHANGED <<servers, control, indicator, sync, linger, torn, blurred, known, bounds>>

(* What is there was left by an earlier run, and this one, before or at the *)
(* commands named, has not replaced it.                                    *)
Leftover(commands) == own.of # server.id \/ pc \in commands

(* The owner writes another text, with the mark still in front or without; *)
(* a mark taken away from a killed run's room leaves the room unexplained. *)
EditLeft(t) ==
    /\ server # None /\ edits < MaxEdits /\ edits' = edits + 1
    /\ \E m \in {0, server.left.marks} :
          /\ server' = [server EXCEPT !.left = [marks |-> m, text |-> t]]
          /\ blurred' = (blurred \/ (Leftover({"readLeft"}) /\ m # server.left.marks))
    /\ owner' = [owner EXCEPT !.text = t] /\ touched' = TRUE
    /\ UNCHANGED <<servers, control, indicator, sync, linger, widened, torn, unseen, known,
                   runs, faults>>

(* A length set over a killed run's room is taken for that room.           *)
EditLength(l) ==
    /\ server # None /\ edits < MaxEdits /\ edits' = edits + 1
    /\ server' = [server EXCEPT !.len = l]
    /\ owner' = [owner EXCEPT !.len = l] /\ widened' = FALSE
    /\ blurred' = (blurred \/ (widened /\ Leftover({"readLeft", "readLength", "readCell",
                                                    "writeLeft", "writeLength"})))
    /\ UNCHANGED <<servers, control, indicator, sync, linger, torn, unseen, touched, known,
                   runs, faults>>

(* The loop alone looks at the activity: what happens meanwhile it sees as  *)
(* happening when it is back.                                              *)
SyncTask ==
    /\ pc = "loop" /\ activity' \in {"working", "idle"} \ {activity} /\ changed' = TRUE
    /\ UNCHANGED <<tmux, control, indicator, linger, history, bounds>>

----------------------------------------------------------------------------
(* Commands.  A start ends where the loop begins; what a round has read is *)
(* forgotten at its end.                                                   *)

Asks(at) == pc = at /\ server # None
Goes(to) == pc' = to /\ starting' = (starting /\ to # "loop")

Between == {"loop", "off", "restored"}
Learns(option, value) ==
    known' = IF pc' \in Between THEN Unknown ELSE [known EXCEPT ![option] = value]

LoopUnchanged == UNCHANGED <<sync, linger, runs, edits>>

Reads(option) ==
    /\ Learns(option, server[option])
    /\ UNCHANGED <<tmux, owner, widened, torn, blurred, unseen, touched, faults>>
    /\ LoopUnchanged

(* An install begun on one server writes on another; a restore takes a     *)
(* length the owner set for the one it had written.                        *)
Strays == pc \in {"writeLeft", "writeLength"} /\ own.of # server.id
Mistakes == pc = "putLength" /\ ~widened /\ server.len = own.len + 1

Puts(option, value) ==
    /\ server' = [server EXCEPT ![option] = value]
    /\ Learns(option, value)
    /\ unseen' = (unseen \/ (option # "cell" /\ server[option] # known[option]))
    /\ touched' = (touched /\ ~(option = "left" /\ value.marks > 0))
    /\ widened' = IF option = "len" THEN value = own.len + 1 ELSE widened
    /\ torn' = (torn \/ Strays) /\ blurred' = (blurred \/ Mistakes)
    /\ UNCHANGED <<servers, owner>> /\ LoopUnchanged

(* A write as it succeeds; what else the step does follows it.             *)
Writes(option, value) == Puts(option, value) /\ UNCHANGED faults

(* refresh: the server's identity first.                                   *)
Answered == installed /\ own.of = server.id

ServerIdentity ==
    /\ Asks("identity")
    /\ IF Answered
       THEN Goes("loop") /\ UNCHANGED <<installed, own>>
       ELSE Goes("readLeft") /\ installed' = FALSE /\ own' = [NoOwn EXCEPT !.of = server.id]
    /\ UNCHANGED <<working, tmux, history, faults>> /\ LoopUnchanged

----------------------------------------------------------------------------
(* install_default, install_with_originals *)

normalize_status_left(left) == [left EXCEPT !.marks = 0]

AlreadyWidened == known.left.marks > 0

ReadLeft ==
    /\ Asks("readLeft") /\ Goes("readLength")
    /\ own' = [own EXCEPT !.left = normalize_status_left(server.left)]
    /\ UNCHANGED <<installed, working>> /\ Reads("left")

from_current_always(len) == len
from_current(len) == IF AlreadyWidened /\ len > 0 THEN len - 1 ELSE len

ReadLength ==
    /\ Asks("readLength") /\ Goes("readCell")
    /\ own' = [own EXCEPT !.len = from_current(server.len)]
    /\ UNCHANGED <<installed, working>> /\ Reads("len")

ReadCell ==
    /\ Asks("readCell") /\ Goes("writeLeft")
    /\ UNCHANGED indicator /\ Reads("cell")

WriteLeft ==
    /\ Asks("writeLeft") /\ Goes("writeLength")
    /\ Writes("left", Written) /\ UNCHANGED indicator

WriteLength ==
    /\ Asks("writeLength") /\ Goes("writeCell")
    /\ Writes("len", own.len + 1) /\ UNCHANGED indicator

WriteCell ==
    /\ Asks("writeCell") /\ Goes(IF working THEN "readUpdate" ELSE "loop")
    /\ Writes("cell", "observing")
    /\ own' = [own EXCEPT !.wcell = "observing", !.owned = TRUE]
    /\ installed' = ~working /\ UNCHANGED working

(* The rollback of a failed install writes without looking; a start fails. *)
Fails == pc' = (IF starting THEN "off" ELSE "loop") /\ starting' = FALSE
Dropped == installed' = FALSE /\ own' = NoOwn

RollLength ==
    /\ Asks("rollLength") /\ Goes("rollLeft")
    /\ Writes("len", own.len) /\ UNCHANGED indicator

RollLeft ==
    /\ Asks("rollLeft") /\ Fails
    /\ Writes("left", own.left) /\ Dropped /\ UNCHANGED working

----------------------------------------------------------------------------
(* update_solstone, in an install or in set_working.  An update that ends  *)
(* well leaves the ownership installed.                                    *)

Cell == IF working THEN "syncing" ELSE "observing"

Updated == Goes("loop") /\ installed' = TRUE

ReadUpdate ==
    /\ Asks("readUpdate")
    /\ IF server.cell = own.wcell /\ own.wcell # Cell
       THEN Goes("writeUpdate") /\ UNCHANGED installed
       ELSE Updated
    /\ own' = [own EXCEPT !.owned = server.cell = own.wcell] /\ Reads("cell")
    /\ UNCHANGED working

WriteUpdate ==
    /\ Asks("writeUpdate") /\ Updated /\ Writes("cell", Cell)
    /\ own' = [own EXCEPT !.wcell = Cell] /\ UNCHANGED working

set_working_installed(w) == working' = IF installed THEN w ELSE working
set_working(w) == working' = w

(* The cell is to show idle or work: set_working up to its first command.  *)
ShowActivity(a) ==
    /\ set_working(a = "working")
    /\ IF installed /\ own.owned THEN Goes("readUpdate") ELSE Goes("loop")

----------------------------------------------------------------------------
(* The select of supervise_observer, and the run *)

SelectUnchanged == UNCHANGED <<tmux, history, bounds, installed, own, activity>>

Lingers == activity = "idle" /\ shown = "working"

Observe ==
    /\ pc = "loop" /\ changed /\ changed' = FALSE
    /\ IF Lingers
       THEN lingering' = TRUE /\ UNCHANGED <<shown, control, working>>
       ELSE /\ lingering' = (lingering /\ activity = "idle") /\ shown' = activity
            /\ IF shown = activity THEN UNCHANGED <<control, working>>
                                   ELSE ShowActivity(activity)
    /\ SelectUnchanged

LingerEnds ==
    /\ pc = "loop" /\ lingering /\ lingering' = FALSE
    /\ shown' = "idle" /\ ShowActivity("idle")
    /\ UNCHANGED changed /\ SelectUnchanged

Refresh ==
    /\ pc = "loop" /\ Goes("identity")
    /\ UNCHANGED <<working, changed, linger>> /\ SelectUnchanged

Start ==
    /\ pc = "off" /\ runs < MaxRuns /\ runs' = runs + 1
    /\ pc' = "identity" /\ starting' = TRUE
    /\ UNCHANGED <<tmux, indicator, sync, linger, history, edits, faults>>

(* The end of the process: killed, or gone after its restore.              *)
Ends ==
    /\ pc # "off" /\ pc' = "off" /\ starting' = FALSE
    /\ Dropped /\ working' = FALSE /\ activity' = "idle" /\ changed' = FALSE
    /\ shown' = None /\ lingering' = FALSE /\ known' = Unknown
    /\ torn' = (torn \/ (server # None /\ (server.left.marks > 0) # widened))
    /\ UNCHANGED <<tmux, owner, widened, blurred, unseen, touched, bounds>>

----------------------------------------------------------------------------
(* restore: each option only where it still reads as it was written *)

Stop ==
    /\ pc = "loop"
    /\ Goes(IF installed THEN "restoreLeft" ELSE "restored")
    /\ UNCHANGED <<working, changed, linger>> /\ SelectUnchanged

AfterLength == IF own.owned THEN "restoreCell" ELSE "restored"

LeftIsOurs_any == TRUE
LeftIsOurs == server.left = Written
LengthIsOurs == server.len = own.len + 1

RestoreRead(at, option, ours, put, next) ==
    /\ Asks(at) /\ Goes(IF ours THEN put ELSE next) /\ Reads(option)
    /\ UNCHANGED indicator

RestoreWrite(at, option, value, next) ==
    /\ Asks(at) /\ Goes(next) /\ Writes(option, value) /\ UNCHANGED indicator

RestoreLeft ==
    \/ RestoreRead("restoreLeft", "left", LeftIsOurs, "putLeft", "restoreLength")
    \/ RestoreWrite("putLeft", "left", own.left, "restoreLength")

RestoreLength ==
    \/ RestoreRead("restoreLength", "len", LengthIsOurs, "putLength", AfterLength)
    \/ RestoreWrite("putLength", "len", own.len, AfterLength)

RestoreCell ==
    \/ RestoreRead("restoreCell", "cell", server.cell = own.wcell, "putCell", "restored")
    \/ RestoreWrite("putCell", "cell", "absent", "restored")

----------------------------------------------------------------------------
(* A command that fails *)

Restoring == {"restoreLeft", "putLeft", "restoreLength", "putLength", "restoreCell", "putCell"}
Commands == {"identity", "readLeft", "readLength", "readCell", "writeLeft", "writeLength",
             "writeCell", "rollLength", "rollLeft", "readUpdate", "writeUpdate"}

(* A restore goes on after a failure.                                      *)
SkipsOn ==
    Goes(CASE pc \in {"restoreLeft", "putLeft"} -> "restoreLength"
           [] pc \in {"restoreLength", "putLength"} -> AfterLength
           [] pc \in {"restoreCell", "putCell"} -> "restored")

Given(at) ==
    CASE at = "writeLeft" -> Puts("left", Written)
      [] at = "writeLength" -> Puts("len", own.len + 1)
      [] at = "writeCell" -> Puts("cell", "observing")
      [] at = "writeUpdate" -> Puts("cell", Cell)
      [] at = "rollLength" -> Puts("len", own.len)
      [] at \in {"rollLeft", "putLeft"} -> Puts("left", own.left)
      [] at = "putLength" -> Puts("len", own.len)
      [] at = "putCell" -> Puts("cell", "absent")
      [] OTHER -> FALSE

Untold ==
    /\ known' = (IF pc' \in Between THEN Unknown ELSE known)
    /\ UNCHANGED <<tmux, owner, widened, torn, blurred, unseen, touched>> /\ LoopUnchanged

(* IndicatorError::NoServer                                                *)
NoServer ==
    /\ server = None
    /\ \/ pc \in {"rollLength", "rollLeft"} /\ Fails /\ Dropped
       \/ pc \in Commands \ {"rollLength", "rollLeft"} /\ Goes("loop") /\ Dropped
       \/ pc = "restoreLeft" /\ Goes("restored") /\ UNCHANGED <<installed, own>>
       \/ pc \in Restoring \ {"restoreLeft"} /\ SkipsOn /\ UNCHANGED <<installed, own>>
    /\ Untold /\ UNCHANGED <<working, faults>>

(* Any other error, its timeout among them; a write may have taken effect. *)
Fault ==
    /\ server # None /\ pc \in Commands \cup Restoring
    /\ faults < MaxFaults /\ faults' = faults + 1
    /\ CASE pc \in Restoring -> SkipsOn /\ UNCHANGED <<installed, own>>
         [] pc = "writeLength" -> Goes("rollLeft") /\ UNCHANGED <<installed, own>>
         [] pc = "writeCell" -> Goes("rollLength") /\ UNCHANGED <<installed, own>>
         [] OTHER -> Fails /\ IF installed THEN UNCHANGED <<installed, own>> ELSE Dropped
    /\ Given(pc) \/ Untold
    /\ UNCHANGED working

(* A refused read of the cell is taken for an absent option.               *)
CellRefused ==
    /\ Asks("readUpdate") /\ Updated
    /\ faults < MaxFaults /\ faults' = faults + 1
    /\ own' = [own EXCEPT !.owned = FALSE]
    /\ Untold /\ UNCHANGED working

Install == ReadLeft \/ ReadLength \/ ReadCell \/ WriteLeft \/ WriteLength \/ WriteCell
Command == ServerIdentity \/ Install \/ RollLength \/ RollLeft \/ ReadUpdate \/ WriteUpdate
           \/ RestoreLeft \/ RestoreLength \/ RestoreCell \/ NoServer

Next ==
    \/ ServerStarts \/ ServerExits
    \/ \E t \in Texts : EditLeft(t)
    \/ \E l \in Lengths : EditLength(l)
    \/ SyncTask \/ Command
    \/ Observe \/ LingerEnds \/ Refresh \/ Start \/ Stop \/ Ends
    \/ Fault \/ CellRefused

(* Every command ends, by its timeout if not before.  The select takes any *)
(* of its ready branches at random, so none starves.                       *)
Fairness ==
    /\ WF_vars(Command)
    /\ SF_vars(Observe) /\ SF_vars(LingerEnds) /\ SF_vars(Refresh)

IndicatorSpec == Init /\ [][Next]_vars /\ Fairness

----------------------------------------------------------------------------
(* The text of status-left is always the owner's latest, except where a    *)
(* write went over a change made after the last read (install_default      *)
(* keeps what it finds, restore puts back only what it recognizes).        *)
OwnerTextKept == server # None => server.left.text = owner.text \/ unseen

(* A run that stopped without a failing command has put the length of      *)
(* status-left back to the owner's and taken its own mark and cell away,   *)
(* also when a run before it was killed at work (from_current,             *)
(* normalize_status_left, restore).  Excused are runs that end with the    *)
(* mark there and not the room or the room and not the mark: killed, or    *)
(* their server replaced, between the writes of the two (for which see     *)
(* CleanStopRestores), or one of the two edited by the owner before        *)
(* (torn).  Of the owner's other edits, those are excused that take the    *)
(* mark away from, or set the length over, what a killed run has left, or  *)
(* that set the very length the run would have written (blurred), those    *)
(* made between a read and its write (unseen) and, for the mark, any of    *)
(* status-left since the install (touched).                                *)
WholeInstallTakenBack ==
    pc = "restored" /\ server # None /\ faults = 0 =>
        /\ server.left.marks = 0 \/ touched \/ unseen
        /\ server.len = owner.len \/ torn \/ blurred \/ unseen
        /\ server.cell = "absent"

(* "already_widened is set when status-left still carried an indicator     *)
(* left by a run that did not exit cleanly, whose widening is still in     *)
(* place" (LengthOwnership::from_current): whatever crashed before it, a   *)
(* clean stop leaves the options of an owner who changed nothing as they   *)
(* were.                                                                   *)
CleanStopRestores ==
    pc = "restored" /\ server # None /\ faults = 0 /\ edits = 0 =>
        server.left.marks = 0 /\ server.len = owner.len /\ server.cell = "absent"

(* While the run lasts and no command fails, the cell comes to show what   *)
(* the sync task does: on the server it was started with, on one that      *)
(* appears later, and whether the work began or ended before there was a   *)
(* server to show it on (refresh, set_working, ActivityLinger).            *)
CellFollowsWork ==
    \A a \in {"idle", "working"} :
        <>[](activity = a) =>
            []<>(\/ server = None \/ faults > 0
                 \/ pc \in Restoring \cup {"off", "restored"}
                 \/ server.cell = (IF a = "working" THEN "syncing" ELSE "observing"))

TypeOK ==
    /\ server \in Servers \cup {None}
    /\ pc \in Commands \cup Restoring \cup {"off", "loop", "restored"}
    /\ working \in BOOLEAN /\ starting \in BOOLEAN
    /\ shown \in {None, "idle", "working"}
============================================================================
