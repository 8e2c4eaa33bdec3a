------------------------------ MODULE Pairing ------------------------------
(***************************************************************************)
(* Pairing with a journal: `setup` makes a pairing and asks the owner      *)
(* whether the journal's mark matches (private_link.rs), `confirm` asks    *)
(* about a pairing that is still waiting, and `run` starts a session only  *)
(* with a confirmed one (SyncTask::run in sync.rs).  They share the        *)
(* credential file, the answer file and the unverified marker              *)
(* (pairing_answer.rs).                                                    *)
(*                                                                         *)
(* `run` and `setup` exclude each other by the private-state lock, which   *)
(* they hold for life.  `confirm` takes no such lock: it may run beside    *)
(* either, and beside another confirm.  The answer lock guards the         *)
(* sections that write the answer; it is waited for with a timeout.  Locks *)
(* are flocks, so a process that dies releases its own.                    *)
(*                                                                         *)
(* A pairing generation (the digest of its certificate) is a number.  Of a *)
(* credential's other fields only its instance id matters here: "own" when *)
(* it is the pinned CA's, "claimed" when it is not, "none" when there is   *)
(* no readable CA to judge it by.                                          *)
(***************************************************************************)
EXTENDS Integers

CONSTANTS
    Confirms,   \* confirm processes that may run at the same time
    None,       \* no credential, no process
    MaxSetups,  \* bound on the pairings setup makes
    MaxConfirms,\* bound on the confirms started
    MaxCrashes  \* bound on killed processes

Procs == Confirms \cup {"run", "setup"}
Gens == 1..(MaxSetups + 1)
Ids == {"own", "claimed", "none"}
Credentials == [gen : Gens, id : Ids]

ASSUME BoundsAssumption ==
    /\ MaxSetups \in Nat /\ MaxConfirms \in Nat /\ MaxCrashes \in Nat
    /\ "run" \notin Confirms /\ "setup" \notin Confirms
    /\ None \notin Procs \cup Credentials

Absent == -1    \* no answer file
Damaged == -2   \* an answer file that cannot be read or parsed
NoAnswer == 0   \* a settled answer that confirms nothing
Answers == {Absent, Damaged, NoAnswer} \cup Gens

VARIABLES
    cred,       \* the credential file
    answer,     \* the answer file
    unverified, \* the generation in the unverified marker, 0 when there is none
    owner,      \* who holds the private-state lock
    lock,       \* who holds the answer lock
    proc,       \* each process: its phase and the credential it works with
    made,       \* the last generation made
    confirms,   \* confirms started
    crashes,    \* processes killed
    said,       \* history: generations the owner accepted
    denied,     \* history: generations a confirm has ended
    retired     \* history: generations a setup has retired

files == <<cred, answer, unverified>>
history == <<said, denied, retired>>
counts == <<made, confirms, crashes>>
vars == <<files, owner, lock, proc, counts, history>>

Off == [ph |-> "off", cred |-> None]
Started(ph) == [ph |-> ph, cred |-> None]

\* stored_id_needs_asking
NeedsAsking(c) == c.id = "claimed" \/ (c.id = "none" /\ unverified # c.gen)

MutIsConfirmed(c) == c # None /\ answer = c.gen

\* is_pairing_confirmed
IsConfirmed(c) == c # None /\ ~NeedsAsking(c) /\ answer = c.gen

\* A first run of this version: with no pairing, or with one from a version that
\* did not ask, or with an answer file that was damaged since.
Init ==
    /\ \/ cred = None /\ answer = Absent
       \/ cred \in [gen : {1}, id : Ids] /\ answer \in {Absent, Damaged}
    /\ unverified = 0 /\ owner = None /\ lock = None
    /\ proc = [p \in Procs |-> Off]
    /\ made = 1 /\ confirms = 0 /\ crashes = 0
    /\ said = IF cred # None /\ cred.id = "own" /\ answer = Absent THEN {1} ELSE {}
    /\ denied = {} /\ retired = {}

PrivateStateFree == owner = None
AnswerLockFree == lock = None

To(p, ph) == proc' = [proc EXCEPT ![p].ph = ph]
Exit(p) == proc' = [proc EXCEPT ![p] = Off]

\* An atomic replacement of a file: done, failed, or done and reported as failed.
Landed(res) == res # "failed"
Results == {"ok", "failed", "landed"}

\* The process leaves with its locks: setup drops the private-state lock.
Leave(p) ==
    /\ Exit(p)
    /\ owner' = IF owner = p THEN None ELSE owner
    /\ lock' = IF lock = p THEN None ELSE lock

(***************************************************************************)
(* grandfather_or_settle: with no answer file, a stored pairing is taken   *)
(* as confirmed and the lack of one as settled; an answer file of any kind *)
(* is left alone.                                                          *)
(***************************************************************************)
Settled == IF answer # Absent THEN answer
           ELSE IF cred = None THEN NoAnswer ELSE cred.gen

\* The settle section of a process: it goes on to ph when it succeeds.
Settle(p, ph, onFailure) ==
    /\ proc[p].ph = "settle"
    /\ \/ /\ AnswerLockFree
          /\ \E res \in Results :
                /\ answer' = IF Landed(res) THEN Settled ELSE answer
                /\ IF res = "ok" \/ answer # Absent THEN To(p, ph) /\ UNCHANGED owner
                   ELSE onFailure
       \/ ~AnswerLockFree /\ onFailure /\ UNCHANGED answer
    /\ UNCHANGED <<cred, unverified, lock, counts, history>>

SettleOrQuit(p, ph) ==
    Settle(p, ph, Exit(p) /\ owner' = IF owner = p THEN None ELSE owner)

\* SyncTask ignores the outcome.
SettleAnyway(p, ph) == Settle(p, ph, To(p, ph) /\ UNCHANGED owner)

(***************************************************************************)
(* record_confirmation, under the answer lock: the stored id is corrected  *)
(* or the acceptance of an unverified pairing noted, then the answer       *)
(* written.                                                                *)
(***************************************************************************)
Corrected(c) == [c EXCEPT !.id = "own"]

RecordStanding(p, c) ==
    \E res \in Results :
        /\ CASE c.id = "claimed" ->
                  /\ cred' = IF Landed(res) THEN Corrected(c) ELSE cred
                  /\ UNCHANGED unverified
             [] c.id = "none" ->
                  /\ unverified' = IF Landed(res) THEN c.gen ELSE unverified
                  /\ UNCHANGED cred
             [] c.id = "own" -> UNCHANGED <<cred, unverified>>
        /\ IF res = "ok" \/ c.id = "own"
           THEN /\ To(p, "answer")
                /\ lock' = p
                /\ UNCHANGED owner
           ELSE Leave(p)

\* The generation whose mark was shown.
Accepted(p) == proc[p].cred.gen

RecordAnswer(p) ==
    /\ proc[p].ph = "answer"
    /\ \E res \in Results : answer' = IF Landed(res) THEN Accepted(p) ELSE answer
    /\ Leave(p)
    /\ UNCHANGED <<cred, unverified, counts, history>>

(***************************************************************************)
(* setup.                                                                  *)
(***************************************************************************)
SetupStart ==
    /\ proc["setup"].ph = "off" /\ PrivateStateFree /\ made <= MaxSetups
    /\ owner' = "setup"
    /\ proc' = [proc EXCEPT !["setup"] = Started("settle")]
    /\ UNCHANGED <<files, lock, counts, history>>

SetupSettle == SettleOrQuit("setup", "pair")

\* The journal answers the pairing link with a credential, or pairing fails.
SetupPair ==
    /\ proc["setup"].ph = "pair"
    /\ \/ /\ \E i \in Ids :
                proc' = [proc EXCEPT !["setup"] =
                            [ph |-> "ask", cred |-> [gen |-> made + 1, id |-> i]]]
          /\ made' = made + 1
          /\ UNCHANGED <<owner, lock>>
       \/ Leave("setup") /\ UNCHANGED made
    /\ UNCHANGED <<files, confirms, crashes, history>>

New == proc["setup"].cred

\* retire_credential asks the journal to forget the pairing, and waits a while.
Retire(c) == retired' = retired \cup {c.gen}

\* The owner says yes at the terminal, or gave the right words beforehand; words
\* can only match a mark that a readable CA gives.
SetupYes ==
    /\ proc["setup"].ph = "ask"
    /\ To("setup", "yes")
    /\ said' = said \cup {New.gen}
    /\ UNCHANGED <<files, owner, lock, counts, denied, retired>>

\* The owner says no, or the words do not match: the new pairing is retired.
SetupNo ==
    /\ proc["setup"].ph = "ask"
    /\ Leave("setup")
    /\ Retire(New)
    /\ UNCHANGED <<files, counts, said, denied>>

SetupWalkedAway ==
    /\ proc["setup"].ph = "ask"
    /\ To("setup", "walk")
    /\ UNCHANGED <<files, owner, lock, counts, history>>

\* persist_credential under the answer lock.
SetupSave ==
    /\ proc["setup"].ph = "yes" /\ AnswerLockFree
    /\ \E res \in Results :
          /\ cred' = IF Landed(res) THEN New ELSE cred
          /\ IF res = "ok" THEN lock' = "setup" /\ To("setup", "record") /\ UNCHANGED owner
             ELSE Leave("setup")
    /\ UNCHANGED <<answer, unverified, counts, history>>

SetupRecord ==
    /\ proc["setup"].ph = "record"
    /\ RecordStanding("setup", New)
    /\ UNCHANGED <<answer, counts, history>>

MutWalkMaySave == TRUE

\* Nobody answered: a confirmed pairing stays in use.
WalkMaySave == ~IsConfirmed(cred)

\* The new pairing is retired before the stored one is looked at.
MutSetupWalk ==
    /\ proc["setup"].ph = "walk" /\ AnswerLockFree
    /\ Retire(New)
    /\ cred' = IF WalkMaySave THEN New ELSE cred
    /\ Leave("setup")
    /\ UNCHANGED <<answer, unverified, counts, said, denied>>

SetupWalk ==
    /\ proc["setup"].ph = "walk" /\ AnswerLockFree
    /\ IF WalkMaySave
       THEN /\ \E res \in Results : cred' = IF Landed(res) THEN New ELSE cred
            /\ UNCHANGED retired
       ELSE Retire(New) /\ UNCHANGED cred
    /\ Leave("setup")
    /\ UNCHANGED <<answer, unverified, counts, said, denied>>

\* The answer lock could not be had in time.
SetupLockTimeout ==
    /\ proc["setup"].ph \in {"yes", "walk"} /\ ~AnswerLockFree
    /\ Leave("setup")
    /\ UNCHANGED <<files, counts, history>>

(***************************************************************************)
(* confirm.                                                                *)
(***************************************************************************)
ConfirmStart(c) ==
    /\ proc[c].ph = "off" /\ confirms < MaxConfirms
    /\ confirms' = confirms + 1
    /\ proc' = [proc EXCEPT ![c] = Started("settle")]
    /\ UNCHANGED <<files, owner, lock, made, crashes, history>>

ConfirmSettle(c) == SettleOrQuit(c, "load")

ConfirmLoad(c) ==
    /\ proc[c].ph = "load"
    /\ IF cred = None THEN Exit(c)
       ELSE proc' = [proc EXCEPT ![c] = [ph |-> "check", cred |-> cred]]
    /\ UNCHANGED <<files, owner, lock, counts, history>>

\* An already confirmed pairing is left alone; else the mark is shown.
ConfirmCheck(c) ==
    /\ proc[c].ph = "check"
    /\ IF IsConfirmed(proc[c].cred) THEN Exit(c) ELSE To(c, "ask")
    /\ UNCHANGED <<files, owner, lock, counts, history>>

ConfirmYes(c) ==
    /\ proc[c].ph = "ask"
    /\ To(c, "yes")
    /\ said' = said \cup {proc[c].cred.gen}
    /\ UNCHANGED <<files, owner, lock, counts, denied, retired>>

\* The pairing is retired at the journal, then ended here.
ConfirmNo(c) ==
    /\ proc[c].ph = "ask"
    /\ To(c, "no")
    /\ UNCHANGED <<files, owner, lock, counts, history>>

\* The owner walked away, the words cannot be matched, or the lock timed out.
ConfirmQuit(c) ==
    /\ \/ proc[c].ph = "ask"
       \/ proc[c].ph \in {"yes", "no"} /\ ~AnswerLockFree
    /\ Exit(c)
    /\ UNCHANGED <<files, owner, lock, counts, history>>

\* The pairing now stored is the one whose mark was shown.
StillShown(c) == cred # None /\ cred.gen = proc[c].cred.gen

ConfirmRecord(c) ==
    /\ proc[c].ph = "yes" /\ AnswerLockFree
    /\ IF StillShown(c) THEN RecordStanding(c, cred)
       ELSE Leave(c) /\ UNCHANGED <<cred, unverified>>
    /\ UNCHANGED <<answer, counts, history>>

ConfirmDelete(c) ==
    /\ proc[c].ph = "no" /\ AnswerLockFree
    /\ \/ /\ StillShown(c)
          /\ cred' = None
          /\ denied' = denied \cup {proc[c].cred.gen}
       \/ UNCHANGED <<cred, denied>>   \* another pairing now, or unlink fails
    /\ Exit(c)
    /\ UNCHANGED <<answer, unverified, owner, lock, counts, said, retired>>

(***************************************************************************)
(* run.                                                                    *)
(***************************************************************************)
RunStart ==
    /\ proc["run"].ph = "off" /\ PrivateStateFree
    /\ owner' = "run"
    /\ proc' = [proc EXCEPT !["run"] = Started("settle")]
    /\ UNCHANGED <<files, lock, counts, history>>

RunSettle == SettleAnyway("run", "load")

\* Waits with no credential, one look per health refresh.
RunLoad ==
    /\ proc["run"].ph = "load" /\ cred # None
    /\ proc' = [proc EXCEPT !["run"] = [ph |-> "check", cred |-> cred]]
    /\ UNCHANGED <<files, owner, lock, counts, history>>

\* A held pairing ends the wait.
MutHeldNext == "done"
HeldNext == "load"

RunCheck ==
    /\ proc["run"].ph = "check"
    /\ To("run", IF IsConfirmed(proc["run"].cred) THEN "session" ELSE HeldNext)
    /\ UNCHANGED <<files, owner, lock, counts, history>>

\* The session's credential store saves the credential with a new token or new
\* addresses.
SessionPersist ==
    /\ proc["run"].ph = "session"
    /\ cred' = proc["run"].cred
    /\ UNCHANGED <<answer, unverified, owner, lock, proc, counts, history>>

RunStop ==
    /\ proc["run"].ph \in {"load", "check", "session"}
    /\ Leave("run")
    /\ UNCHANGED <<files, counts, history>>

Crash(p) ==
    /\ proc[p].ph # "off" /\ crashes < MaxCrashes
    /\ crashes' = crashes + 1
    /\ Leave(p)
    /\ UNCHANGED <<files, made, confirms, history>>

Setup == SetupStart \/ SetupSettle \/ SetupPair \/ SetupYes \/ SetupNo
         \/ SetupWalkedAway \/ SetupSave \/ SetupRecord \/ RecordAnswer("setup")
         \/ SetupWalk \/ SetupLockTimeout
Confirm(c) == ConfirmStart(c) \/ ConfirmSettle(c) \/ ConfirmLoad(c)
              \/ ConfirmCheck(c) \/ ConfirmYes(c) \/ ConfirmNo(c) \/ ConfirmQuit(c)
              \/ ConfirmRecord(c) \/ RecordAnswer(c) \/ ConfirmDelete(c)
RunStep == RunSettle \/ RunLoad \/ RunCheck
Run == RunStart \/ RunStep \/ SessionPersist \/ RunStop

Next == Setup \/ (\E c \in Confirms : Confirm(c)) \/ Run \/ \E p \in Procs : Crash(p)

Spec == Init /\ [][Next]_vars

\* The waiting loop of run is driven by a timer.
FairSpec == Spec /\ WF_vars(RunStep)

(***************************************************************************)
(* Properties.                                                             *)
(***************************************************************************)
TypeOK ==
    /\ cred \in Credentials \cup {None}
    /\ answer \in Answers
    /\ unverified \in {0} \cup Gens
    /\ owner \in {None, "run", "setup"} /\ lock \in Procs \cup {None}
    /\ \A p \in Procs : proc[p].cred \in Credentials \cup {None}
    /\ said \cup denied \cup retired \subseteq Gens

Session == proc["run"].ph = "session"

\* Nothing is sent through a pairing before its owner accepted it ("nothing waiting
\* goes into your journal until you do"), through any crash, walked-away setup or
\* failed write; a pairing older than the question counts as accepted.
SendsOnlyAccepted == Session => proc["run"].cred.gen \in said

\* A confirmed pairing gives way only to the owner: it is replaced by a pairing
\* the owner accepted, or removed because the owner denied that same pairing.
ConfirmedYieldsToOwner ==
    [][IsConfirmed(cred) /\ (cred' = None \/ cred'.gen # cred.gen) =>
          IF cred' = None THEN cred.gen \in denied' ELSE cred'.gen \in said']_vars

\* What setup retired at the journal is never what it leaves in the file.
RetiredNeverSaved == cred # None => cred.gen \notin retired

\* A run that waits takes up a pairing once it is confirmed and stays so.
ConfirmedIsTakenUp ==
    (IsConfirmed(cred) /\ proc["run"].ph # "off")
        ~> (Session \/ ~IsConfirmed(cred) \/ proc["run"].ph = "off")

\* After confirm has said that this computer is not paired, that pairing is not
\* stored again.
DeniedStaysUnpaired == cred # None => cred.gen \notin denied
=============================================================================
