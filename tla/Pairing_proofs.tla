---------------------------- MODULE Pairing_proofs ----------------------------
(***************************************************************************)
(* Theorems about Pairing, for any number of setups, confirms, crashes and *)
(* failed writes: a session uses a pairing its owner accepted, what setup  *)
(* retired at the journal is not what the file holds, and a confirmed      *)
(* pairing yields to the owner only.                                       *)
(***************************************************************************)
EXTENDS Pairing, TLAPS

----------------------------------------------------------------------------
(* The inductive invariant *)

Phases == {"off", "settle", "load", "check", "pair", "ask", "walk", "yes", "no",
           "record", "answer", "session"}

ProcTypes ==
    /\ proc \in [Procs -> [ph : Phases, cred : Credentials \cup {None}]]
    /\ made \in Gens

\* A process works with no credential until it has loaded or made one, and setup
\* makes one only while the bound allows it.
PhaseInv ==
    /\ \A p \in Procs :
        /\ proc[p].ph \in {"off", "settle"} => proc[p].cred = None
        /\ proc[p].ph \in {"check", "ask", "walk", "yes", "no", "record", "answer",
                          "session"} => proc[p].cred # None
    /\ proc["setup"].ph \in {"settle", "pair"} => made <= MaxSetups

\* Until setup saves or retires it, nobody else knows the pairing it made.
FreshInv ==
    proc["setup"].ph \in {"ask", "walk", "yes"} =>
        /\ New.gen = made /\ answer # made
        /\ cred # None => cred.gen # made
        /\ \A p \in Procs \ {"setup"} : proc[p].cred # None => proc[p].cred.gen # made

\* Before the first answer file: an old pairing at most, and nobody past settling but
\* a run that waits.
AbsentInv ==
    answer = Absent =>
        /\ unverified = 0 /\ made = 1
        /\ \A p \in Procs \ {"run"} : proc[p].ph \in {"off", "settle"}

\* A credential on disk or in the memory of a process is no newer than the last one
\* made, not retired, and accepted by the owner if it is confirmed or, before the
\* first answer file, bound to be taken as confirmed.
Sound(c) ==
    c # None =>
        /\ c.gen <= made /\ c.gen \notin retired
        /\ IsConfirmed(c) => c.gen \in said
        /\ answer = Absent /\ c.id = "own" => 1 \in said

SoundInv ==
    /\ answer <= made /\ \A g \in retired : g <= made
    /\ Sound(cred) /\ \A p \in Procs : Sound(proc[p].cred)

\* What is about to be recorded as confirmed, or is in use, was accepted.
SaidInv ==
    \A p \in Procs : proc[p].ph \in {"yes", "record", "answer", "session"} =>
                        proc[p].cred.gen \in said

PairingInv ==
    TypeOK /\ ProcTypes /\ PhaseInv /\ FreshInv /\ AbsentInv /\ SoundInv /\ SaidInv

----------------------------------------------------------------------------
(* The initial states *)

\* The files of a first run satisfy the invariant.
LEMMA InitInv == Init => PairingInv
  <1>. SUFFICES ASSUME Init PROVE PairingInv
    OBVIOUS
  <1>. USE BoundsAssumption
  <1>1. "run" \in Procs /\ "setup" \in Procs /\ 1 \in Gens
    BY DEF Procs, Gens
  <1>2. cred = None \/ (cred \in Credentials /\ cred.gen = 1)
    BY <1>1 DEF Init, Credentials
  <1>3. \A p \in Procs : proc[p] = Off
    BY DEF Init
  <1>4. TypeOK
    BY <1>1, <1>2, <1>3 DEF Init, TypeOK, Answers, Off
  <1>5. ProcTypes /\ PhaseInv
    BY <1>1, <1>3 DEF Init, ProcTypes, PhaseInv, Off, Phases
  <1>6. FreshInv /\ AbsentInv /\ SaidInv
    BY <1>1, <1>3 DEF Init, FreshInv, AbsentInv, SaidInv, Off
  <1>7. Sound(cred)
    BY <1>2 DEF Init, Sound, IsConfirmed, Absent, Damaged
  <1>8. SoundInv
    BY <1>3, <1>7 DEF Init, SoundInv, Sound, Off, Absent, Damaged
  <1>. QED BY <1>4, <1>5, <1>6, <1>8 DEF PairingInv

----------------------------------------------------------------------------
(* Steps of one process that leave the files alone *)

\* The phases in which a process works with a credential, and those in which the
\* owner has accepted it.
Holding == {"check", "ask", "walk", "yes", "no", "record", "answer", "session"}
Granted == {"yes", "record", "answer", "session"}

\* Process p goes on to phase ph with the credential c.
Turns(p, ph, c) == proc' = [proc EXCEPT ![p] = [ph |-> ph, cred |-> c]]

\* The types of what a process keeps, whichever step wrote it.
LEMMA TurnTypes ==
    ASSUME ProcTypes, NEW p \in Procs, NEW ph \in Phases,
           NEW c \in Credentials \cup {None}, Turns(p, ph, c)
    PROVE  /\ proc' \in [Procs -> [ph : Phases, cred : Credentials \cup {None}]]
           /\ proc'[p].ph = ph /\ proc'[p].cred = c
           /\ \A q \in Procs \ {p} : proc'[q] = proc[q]
  BY DEF ProcTypes, Turns

\* A phase change alone, and an exit.
LEMMA TurnForms ==
    ASSUME ProcTypes, NEW p \in Procs
    PROVE  /\ \A ph : To(p, ph) => Turns(p, ph, proc[p].cred)
           /\ Exit(p) => Turns(p, "off", None)
  <1>1. proc[p] = [ph |-> proc[p].ph, cred |-> proc[p].cred]
    BY DEF ProcTypes
  <1>. QED BY <1>1 DEF ProcTypes, To, Exit, Turns, Off

\* A process takes a step with a credential it had or has read from the file: what it
\* must bring along for the invariant to hold.
LEMMA ProcessStep ==
    ASSUME PairingInv, NEW p \in Procs, NEW ph \in Phases,
           NEW c \in {None, cred, proc[p].cred}, Turns(p, ph, c),
           UNCHANGED <<files, made, retired>>,
           said \subseteq said', said' \subseteq Gens, denied' \subseteq Gens,
           owner' \in {None, "run", "setup"}, lock' \in Procs \cup {None},
           ph \in {"off", "settle"} => c = None,
           ph \in Holding => c # None,
           ph \in Granted => c.gen \in said',
           p = "setup" /\ ph \in {"settle", "pair"} => made <= MaxSetups,
           p = "setup" /\ ph \in {"ask", "walk", "yes"} =>
                c = proc[p].cred /\ proc[p].ph \in {"ask", "walk", "yes"},
           p # "run" /\ answer = Absent => ph \in {"off", "settle"}
    PROVE  PairingInv'
  <1>. USE BoundsAssumption
  <1>0. "run" \in Procs /\ "setup" \in Procs
    BY DEF Procs
  <1>1. c \in Credentials \cup {None}
    BY DEF PairingInv, TypeOK
  <1>2. /\ proc' \in [Procs -> [ph : Phases, cred : Credentials \cup {None}]]
        /\ proc'[p].ph = ph /\ proc'[p].cred = c
        /\ \A q \in Procs \ {p} : proc'[q] = proc[q]
    BY <1>1, TurnTypes DEF PairingInv
  <1>3. UNCHANGED <<cred, answer, unverified>>
    BY DEF files
  <1>4. TypeOK' /\ ProcTypes'
    <2>1. \A q \in Procs : proc'[q].cred \in Credentials \cup {None}
      BY <1>2
    <2>. QED BY <1>2, <1>3, <2>1 DEF PairingInv, TypeOK, ProcTypes
  <1>5. PhaseInv'
    BY <1>0, <1>2, <1>3 DEF PairingInv, PhaseInv, Holding
  <1>6. FreshInv'
    BY <1>0, <1>2, <1>3 DEF PairingInv, FreshInv, New
  <1>7. AbsentInv'
    BY <1>2, <1>3 DEF PairingInv, AbsentInv
  <1>8. \A d : Sound(d) => Sound(d)'
    BY <1>3 DEF Sound, IsConfirmed, NeedsAsking
  <1>9. SoundInv'
    <2>1. Sound(None) /\ Sound(c)
      BY DEF PairingInv, SoundInv, Sound
    <2>2. \A q \in Procs : Sound(proc'[q].cred)
      BY <1>2, <2>1 DEF PairingInv, SoundInv
    <2>3. Sound(cred)' /\ \A q \in Procs : Sound(proc[q].cred)'
      BY <1>3, <1>8, <2>2 DEF PairingInv, SoundInv
    <2>. QED BY <1>3, <2>3 DEF PairingInv, SoundInv
  <1>10. SaidInv'
    BY <1>2 DEF PairingInv, SaidInv, Granted
  <1>. QED BY <1>4, <1>5, <1>6, <1>7, <1>9, <1>10 DEF PairingInv

\* Leaving keeps the types of the locks.
LEMMA LeaveTypes ==
    ASSUME PairingInv, NEW p \in Procs, Leave(p)
    PROVE  /\ Turns(p, "off", None)
           /\ owner' \in {None, "run", "setup"} /\ lock' \in Procs \cup {None}
  BY TurnForms DEF PairingInv, TypeOK, Leave

\* A step after which the process is gone and the files are as they were.
LEMMA ExitStep ==
    ASSUME PairingInv, NEW p \in Procs, Turns(p, "off", None),
           UNCHANGED <<files, made, history>>,
           owner' \in {None, "run", "setup"}, lock' \in Procs \cup {None}
    PROVE  PairingInv'
  BY ProcessStep DEF PairingInv, TypeOK, history, Phases, Holding, Granted

\* The steps of run that leave the files alone.
LEMMA RunSteps ==
    ASSUME PairingInv, RunStart \/ RunLoad \/ RunCheck \/ RunStop
    PROVE  PairingInv'
  <1>. USE BoundsAssumption
  <1>0. "run" \in Procs /\ "run" # "setup"
    BY DEF Procs
  <1>a. /\ said \subseteq Gens /\ denied \subseteq Gens /\ retired \subseteq Gens
        /\ owner \in {None, "run", "setup"} /\ lock \in Procs \cup {None}
    BY DEF PairingInv, TypeOK
  <1>1. CASE RunStart
    <2>1. Turns("run", "settle", None)
      BY <1>1 DEF RunStart, Started, Turns
    <2>. QED BY <1>0, <1>a, <1>1, <2>1, ProcessStep
           DEF RunStart, history, counts, Phases, Holding, Granted
  <1>2. CASE RunLoad
    <2>1. Turns("run", "check", cred) /\ cred # None
      BY <1>2 DEF RunLoad, Turns
    <2>. QED BY <1>0, <1>a, <1>2, <2>1, ProcessStep
           DEF RunLoad, history, counts, Phases, Holding, Granted
  <1>3. CASE RunCheck
    <2>1. CASE IsConfirmed(proc["run"].cred)
      <3>1. Turns("run", "session", proc["run"].cred)
        BY <1>0, <1>3, <2>1, TurnForms DEF RunCheck, PairingInv
      <3>2. proc["run"].cred # None /\ proc["run"].cred.gen \in said
        BY <1>0, <2>1 DEF PairingInv, SoundInv, Sound, IsConfirmed
      <3>. QED BY <1>0, <1>a, <1>3, <3>1, <3>2, ProcessStep
             DEF RunCheck, history, counts, Phases, Holding, Granted
    <2>2. CASE ~IsConfirmed(proc["run"].cred)
      <3>1. Turns("run", "load", proc["run"].cred)
        BY <1>0, <1>3, <2>2, TurnForms DEF RunCheck, HeldNext, PairingInv
      <3>. QED BY <1>0, <1>a, <1>3, <3>1, ProcessStep
             DEF RunCheck, history, counts, Phases, Holding, Granted
    <2>. QED BY <2>1, <2>2
  <1>4. CASE RunStop
    BY <1>0, <1>4, LeaveTypes, ExitStep DEF RunStop, counts
  <1>. QED BY <1>1, <1>2, <1>3, <1>4

\* The steps of confirm that leave the files alone.
LEMMA ConfirmSteps ==
    ASSUME PairingInv, NEW p \in Confirms,
           ConfirmStart(p) \/ ConfirmLoad(p) \/ ConfirmCheck(p) \/ ConfirmYes(p)
               \/ ConfirmNo(p) \/ ConfirmQuit(p)
    PROVE  PairingInv'
  <1>. USE BoundsAssumption
  <1>0. p \in Procs /\ p # "setup" /\ p # "run"
    BY DEF Procs
  <1>a. /\ said \subseteq Gens /\ denied \subseteq Gens /\ retired \subseteq Gens
        /\ owner \in {None, "run", "setup"} /\ lock \in Procs \cup {None}
    BY DEF PairingInv, TypeOK
  <1>b. proc[p].ph \notin {"off", "settle"} => answer # Absent
    BY <1>0 DEF PairingInv, AbsentInv
  <1>c. proc[p].ph \in Holding => proc[p].cred \in Credentials /\ proc[p].cred # None
    BY <1>0 DEF PairingInv, PhaseInv, TypeOK, Holding
  <1>1. CASE ConfirmStart(p)
    <2>1. Turns(p, "settle", None)
      BY <1>1 DEF ConfirmStart, Started, Turns
    <2>. QED BY <1>0, <1>a, <1>1, <2>1, ProcessStep
           DEF ConfirmStart, history, Phases, Holding, Granted
  <1>2. CASE ConfirmLoad(p)
    <2>1. CASE cred = None
      <3>1. Turns(p, "off", None)
        BY <1>0, <1>2, <2>1, TurnForms DEF ConfirmLoad, PairingInv
      <3>. QED BY <1>0, <1>a, <1>2, <3>1, ExitStep DEF ConfirmLoad, counts
    <2>2. CASE cred # None
      <3>1. Turns(p, "check", cred)
        BY <1>2, <2>2 DEF ConfirmLoad, Turns
      <3>. QED BY <1>0, <1>a, <1>b, <1>2, <2>2, <3>1, ProcessStep
             DEF ConfirmLoad, history, counts, Phases, Holding, Granted
    <2>. QED BY <2>1, <2>2
  <1>3. CASE ConfirmCheck(p)
    <2>1. CASE IsConfirmed(proc[p].cred)
      <3>1. Turns(p, "off", None)
        BY <1>0, <1>3, <2>1, TurnForms DEF ConfirmCheck, PairingInv
      <3>. QED BY <1>0, <1>a, <1>3, <3>1, ExitStep DEF ConfirmCheck, counts
    <2>2. CASE ~IsConfirmed(proc[p].cred)
      <3>1. Turns(p, "ask", proc[p].cred)
        BY <1>0, <1>3, <2>2, TurnForms DEF ConfirmCheck, PairingInv
      <3>. QED BY <1>0, <1>a, <1>b, <1>c, <1>3, <3>1, ProcessStep
             DEF ConfirmCheck, history, counts, Phases, Holding, Granted
    <2>. QED BY <2>1, <2>2
  <1>4. CASE ConfirmYes(p)
    <2>1. Turns(p, "yes", proc[p].cred)
      BY <1>0, <1>4, TurnForms DEF ConfirmYes, PairingInv
    <2>2. /\ proc[p].cred.gen \in said' /\ said \subseteq said'
          /\ said' \subseteq Gens
      BY <1>a, <1>c, <1>4 DEF ConfirmYes, Holding, Credentials
    <2>. QED BY <1>0, <1>a, <1>b, <1>c, <1>4, <2>1, <2>2, ProcessStep
           DEF ConfirmYes, counts, Phases, Holding, Granted
  <1>5. CASE ConfirmNo(p)
    <2>1. Turns(p, "no", proc[p].cred)
      BY <1>0, <1>5, TurnForms DEF ConfirmNo, PairingInv
    <2>. QED BY <1>0, <1>a, <1>b, <1>c, <1>5, <2>1, ProcessStep
           DEF ConfirmNo, history, counts, Phases, Holding, Granted
  <1>6. CASE ConfirmQuit(p)
    <2>1. Turns(p, "off", None)
      BY <1>0, <1>6, TurnForms DEF ConfirmQuit, PairingInv
    <2>. QED BY <1>0, <1>a, <1>6, <2>1, ExitStep DEF ConfirmQuit, counts
  <1>. QED BY <1>1, <1>2, <1>3, <1>4, <1>5, <1>6

\* The steps of setup that leave the files alone, with the credential it had.
LEMMA SetupSteps ==
    ASSUME PairingInv,
           SetupStart \/ SetupYes \/ SetupWalkedAway \/ SetupLockTimeout
    PROVE  PairingInv'
  <1>. USE BoundsAssumption
  <1>0. "setup" \in Procs
    BY DEF Procs
  <1>a. /\ said \subseteq Gens /\ denied \subseteq Gens /\ retired \subseteq Gens
        /\ owner \in {None, "run", "setup"} /\ lock \in Procs \cup {None}
    BY DEF PairingInv, TypeOK
  <1>b. proc["setup"].ph = "ask" => answer # Absent
    BY <1>0 DEF PairingInv, AbsentInv
  <1>c. proc["setup"].ph = "ask" => New \in Credentials /\ New # None
    BY <1>0 DEF PairingInv, PhaseInv, TypeOK, New
  <1>1. CASE SetupStart
    <2>1. Turns("setup", "settle", None)
      BY <1>1 DEF SetupStart, Started, Turns
    <2>. QED BY <1>0, <1>a, <1>1, <2>1, ProcessStep
           DEF SetupStart, history, counts, Phases, Holding, Granted
  <1>2. CASE SetupYes
    <2>1. Turns("setup", "yes", New)
      BY <1>0, <1>2, TurnForms DEF SetupYes, PairingInv, New
    <2>2. New.gen \in said' /\ said \subseteq said' /\ said' \subseteq Gens
      BY <1>a, <1>c, <1>2 DEF SetupYes, Credentials
    <2>. QED BY <1>0, <1>a, <1>b, <1>c, <1>2, <2>1, <2>2, ProcessStep
           DEF SetupYes, counts, Phases, Holding, Granted, New
  <1>3. CASE SetupWalkedAway
    <2>1. Turns("setup", "walk", New)
      BY <1>0, <1>3, TurnForms DEF SetupWalkedAway, PairingInv, New
    <2>. QED BY <1>0, <1>a, <1>b, <1>c, <1>3, <2>1, ProcessStep
           DEF SetupWalkedAway, history, counts, Phases, Holding, Granted, New
  <1>4. CASE SetupLockTimeout
    BY <1>0, <1>4, LeaveTypes, ExitStep DEF SetupLockTimeout, counts
  <1>. QED BY <1>1, <1>2, <1>3, <1>4

----------------------------------------------------------------------------
(* Steps that write the credential file or the marker, or retire a pairing *)

\* A pairing stays sound when others are retired or an accepted one is marked.
LEMMA SoundStep ==
    ASSUME NEW d, Sound(d), UNCHANGED <<answer, made, said>>,
           unverified' = unverified \/ unverified' \in said,
           d # None => d.gen \in retired \/ d.gen \notin retired'
    PROVE  Sound(d)'
  BY DEF Sound, IsConfirmed, NeedsAsking

\* The file gets a pairing somebody holds, its id corrected only if it was accepted;
\* the marker names accepted pairings only; what is retired is nobody's.
LEMMA FileStep ==
    ASSUME PairingInv, NEW p \in Procs, NEW ph \in Phases,
           NEW c \in {None, proc[p].cred}, Turns(p, ph, c),
           UNCHANGED <<answer, made, said>>,
           cred' \in Credentials \cup {None}, unverified' \in {0} \cup Gens,
           denied' \subseteq Gens, retired' \subseteq Gens,
           owner' \in {None, "run", "setup"}, lock' \in Procs \cup {None},
           ph \in {"off", "settle"} => c = None,
           ph \in Holding => c # None,
           ph \in Granted => c.gen \in said,
           p = "setup" => ph \notin {"settle", "pair", "ask", "walk", "yes"},
           p # "run" /\ answer = Absent => ph \in {"off", "settle"},
           unverified' = unverified \/ (unverified' \in said /\ answer # Absent),
           cred' # None =>
               \/ \E d \in {cred} \cup {proc[q].cred : q \in Procs} :
                     /\ d # None /\ cred'.gen = d.gen
                     /\ cred' = d \/ (d.gen \in said /\ answer # Absent),
           p # "setup" => cred' = cred \/ cred' = proc[p].cred
                          \/ (cred # None /\ cred'.gen = cred.gen) \/ cred' = None,
           \/ retired' = retired
           \/ /\ p = "setup" /\ retired' = retired \cup {made} /\ c = None
              /\ cred' # None => cred'.gen # made
              /\ \A q \in Procs \ {p} : proc[q].cred # None => proc[q].cred.gen # made
    PROVE  PairingInv'
  <1>. USE BoundsAssumption
  <1>0. "run" \in Procs /\ "setup" \in Procs
    BY DEF Procs
  <1>1. c \in Credentials \cup {None} /\ made \in Nat
    BY DEF PairingInv, TypeOK, ProcTypes, Gens
  <1>2. /\ proc' \in [Procs -> [ph : Phases, cred : Credentials \cup {None}]]
        /\ proc'[p].ph = ph /\ proc'[p].cred = c
        /\ \A q \in Procs \ {p} : proc'[q] = proc[q]
    BY <1>1, TurnTypes DEF PairingInv
  <1>4. TypeOK' /\ ProcTypes'
    <2>1. \A q \in Procs : proc'[q].cred \in Credentials \cup {None}
      BY <1>2
    <2>. QED BY <1>2, <2>1 DEF PairingInv, TypeOK, ProcTypes
  <1>5. PhaseInv'
    BY <1>0, <1>2 DEF PairingInv, PhaseInv, Holding
  <1>6. FreshInv'
    <2>1. SUFFICES ASSUME proc'["setup"].ph \in {"ask", "walk", "yes"}
                   PROVE  /\ New'.gen = made /\ answer # made
                          /\ cred' # None => cred'.gen # made
                          /\ \A q \in Procs \ {"setup"} :
                                proc'[q].cred # None => proc'[q].cred.gen # made
      BY DEF FreshInv
    <2>2. p # "setup" /\ proc'["setup"] = proc["setup"]
      BY <1>0, <1>2, <2>1
    <2>3. /\ New.gen = made /\ answer # made
          /\ cred # None => cred.gen # made
          /\ \A q \in Procs \ {"setup"} : proc[q].cred # None => proc[q].cred.gen # made
      BY <2>1, <2>2 DEF PairingInv, FreshInv
    <2>4. cred' # None => cred'.gen # made
      BY <2>2, <2>3
    <2>. QED BY <1>2, <2>2, <2>3, <2>4 DEF New
  <1>7. AbsentInv'
    BY <1>2 DEF PairingInv, AbsentInv
  <1>8. \A q \in Procs : Sound(proc[q].cred)'
    <2>1. \A q \in Procs : Sound(proc'[q].cred)
      BY <1>2 DEF PairingInv, SoundInv, Sound
    <2>2. ASSUME NEW q \in Procs, NEW d, d = proc'[q].cred
          PROVE  d # None => d.gen \in retired \/ d.gen \notin retired'
      BY <1>2, <2>2
    <2>3. ASSUME NEW q \in Procs
          PROVE  Sound(proc[q].cred)'
      <3>1. PICK d : d = proc'[q].cred
        OBVIOUS
      <3>2. Sound(d) /\ (d # None => d.gen \in retired \/ d.gen \notin retired')
        BY <2>1, <2>2, <3>1
      <3>3. Sound(d)'
        BY <3>2, SoundStep
      <3>. QED BY <3>1, <3>3 DEF Sound, IsConfirmed, NeedsAsking
    <2>. QED BY <2>3
  <1>9. Sound(cred)'
    <2>1. CASE cred' = None
      BY <2>1 DEF Sound
    <2>2. CASE cred' # None
      <3>1. PICK d \in {cred} \cup {proc[q].cred : q \in Procs} :
                   /\ d # None /\ cred'.gen = d.gen
                   /\ cred' = d \/ (d.gen \in said /\ answer # Absent)
        BY <2>2
      <3>2. Sound(d)
        BY <3>1 DEF PairingInv, SoundInv
      <3>3. d.gen <= made /\ d.gen \notin retired
        BY <3>1, <3>2 DEF Sound
      <3>4. d.gen \notin retired'
        BY <2>2, <3>1, <3>3
      <3>5. CASE cred' = d
        <4>1. PICK e : e = cred'
          OBVIOUS
        <4>2. Sound(e)'
          BY <3>2, <3>4, <3>5, <4>1, SoundStep
        <4>. QED BY <4>1, <4>2 DEF Sound, IsConfirmed, NeedsAsking
      <3>6. CASE d.gen \in said /\ answer # Absent
        BY <3>1, <3>3, <3>4, <3>6 DEF Sound
      <3>. QED BY <3>1, <3>5, <3>6
    <2>. QED BY <2>1, <2>2
  <1>10. SoundInv'
    <2>1. \A g \in retired' : g <= made
      BY <1>1 DEF PairingInv, SoundInv
    <2>2. \A q \in Procs : Sound(proc[q].cred)'
      BY <1>8
    <2>. QED BY <1>9, <2>1, <2>2 DEF PairingInv, SoundInv
  <1>11. SaidInv'
    BY <1>2 DEF PairingInv, SaidInv, Granted
  <1>. QED BY <1>4, <1>5, <1>6, <1>7, <1>10, <1>11 DEF PairingInv

\* What every step that writes a file may rely on.
LEMMA FileFacts ==
    ASSUME PairingInv
    PROVE  /\ "setup" \in Procs /\ "run" \in Procs
           /\ cred \in Credentials \cup {None} /\ unverified \in {0} \cup Gens
           /\ denied \subseteq Gens /\ retired \subseteq Gens /\ made \in Gens
           /\ owner \in {None, "run", "setup"} /\ lock \in Procs \cup {None}
           /\ \A p \in Procs : p # "run" /\ proc[p].ph \notin {"off", "settle"} =>
                 answer # Absent
           /\ \A p \in Procs : proc[p].ph \in Holding =>
                 proc[p].cred \in Credentials /\ proc[p].cred # None
           /\ \A p \in Procs : proc[p].ph \in Granted => proc[p].cred.gen \in said
  BY DEF PairingInv, TypeOK, ProcTypes, AbsentInv, PhaseInv, SaidInv, Procs, Holding,
         Granted

\* The stored pairing, or the new one of setup, is recorded as accepted.
LEMMA RecordStandingStep ==
    ASSUME PairingInv, NEW p \in Procs \ {"run"}, NEW c \in Credentials,
           proc[p].ph \in {"yes", "record"}, c.gen = proc[p].cred.gen,
           c = cred \/ (c = proc[p].cred /\ p = "setup"),
           RecordStanding(p, c), UNCHANGED <<answer, counts, history>>
    PROVE  PairingInv'
  <1>. USE BoundsAssumption, FileFacts
  <1>1. /\ answer # Absent /\ c.gen \in said /\ c # None
        /\ proc[p].cred # None
    BY DEF Holding, Granted
  <1>2. PICK res \in Results :
          /\ CASE c.id = "claimed" ->
                    /\ cred' = IF Landed(res) THEN Corrected(c) ELSE cred
                    /\ UNCHANGED unverified
               [] c.id = "none" ->
                    /\ unverified' = IF Landed(res) THEN c.gen ELSE unverified
                    /\ UNCHANGED cred
               [] c.id = "own" -> UNCHANGED <<cred, unverified>>
          /\ IF res = "ok" \/ c.id = "own"
             THEN /\ To(p, "answer")
                  /\ lock' = p
                  /\ UNCHANGED owner
             ELSE Leave(p)
    BY DEF RecordStanding
  <1>3. c.id \in {"claimed", "none", "own"} /\ c.gen \in Gens
    BY DEF Credentials, Ids
  <1>4. Corrected(c) \in Credentials /\ Corrected(c).gen = c.gen
    BY DEF Corrected, Credentials, Ids
  <1>5. /\ cred' = cred \/ cred' = Corrected(c)
        /\ unverified' = unverified \/ unverified' = c.gen
    <2>1. CASE c.id = "claimed"
      BY <1>2, <2>1
    <2>2. CASE c.id = "none"
      BY <1>2, <2>2
    <2>3. CASE c.id = "own"
      BY <1>2, <2>3
    <2>. QED BY <1>3, <2>1, <2>2, <2>3
  <1>6. \/ Turns(p, "answer", proc[p].cred) /\ lock' = p /\ UNCHANGED owner
        \/ Leave(p)
    BY <1>2, TurnForms DEF PairingInv
  <1>7. PICK ph \in {"answer", "off"}, d \in {None, proc[p].cred} :
          /\ Turns(p, ph, d) /\ (ph = "answer" <=> d = proc[p].cred)
          /\ owner' \in {None, "run", "setup"} /\ lock' \in Procs \cup {None}
    <2>1. CASE Leave(p)
      BY <1>1, <2>1, LeaveTypes
    <2>2. CASE Turns(p, "answer", proc[p].cred) /\ lock' = p /\ UNCHANGED owner
      BY <2>2
    <2>. QED BY <1>6, <2>1, <2>2
  <1>8. cred' # None =>
          /\ \E d2 \in {cred} \cup {proc[q].cred : q \in Procs} :
                /\ d2 # None /\ cred'.gen = d2.gen
                /\ cred' = d2 \/ (d2.gen \in said /\ answer # Absent)
          /\ p # "setup" => cred' = cred \/ (cred # None /\ cred'.gen = cred.gen)
    BY <1>1, <1>4, <1>5
  <1>9. ph \in Phases /\ (ph \in Granted => d.gen \in said) /\ (ph \in Holding => d # None)
        /\ (ph = "off" => d = None)
    BY <1>1, <1>7 DEF Phases, Holding, Granted
  <1>. QED BY <1>1, <1>3, <1>4, <1>5, <1>7, <1>8, <1>9, FileStep DEF history, counts

\* The steps of setup that write the credential file or retire the new pairing.
LEMMA SetupFileSteps ==
    ASSUME PairingInv, SetupNo \/ SetupSave \/ SetupRecord \/ SetupWalk
    PROVE  PairingInv'
  <1>. USE BoundsAssumption, FileFacts
  <1>1. proc["setup"].ph \in {"ask", "yes", "record", "walk"}
    BY DEF SetupNo, SetupSave, SetupRecord, SetupWalk
  <1>2. New \in Credentials /\ New # None /\ answer # Absent /\ New = proc["setup"].cred
    BY <1>1 DEF New, Holding
  <1>3. proc["setup"].ph \in {"ask", "yes", "walk"} =>
          /\ New.gen = made
          /\ cred # None => cred.gen # made
          /\ \A q \in Procs \ {"setup"} : proc[q].cred # None => proc[q].cred.gen # made
    BY DEF PairingInv, FreshInv
  <1>4. CASE SetupNo
    <2>1. Turns("setup", "off", None) /\ owner' \in {None, "run", "setup"}
          /\ lock' \in Procs \cup {None}
      BY <1>4, LeaveTypes DEF SetupNo
    <2>2. retired' = retired \cup {made} /\ UNCHANGED <<files, counts, said, denied>>
      BY <1>3, <1>4 DEF SetupNo, Retire
    <2>. QED BY <1>3, <1>4, <2>1, <2>2, FileStep
           DEF SetupNo, files, counts, Phases, Holding, Granted
  <1>5. CASE SetupSave
    <2>1. UNCHANGED <<answer, unverified, counts, history>> /\ cred' \in {cred, New}
      BY <1>5 DEF SetupSave
    <2>2. \/ Turns("setup", "record", New) /\ lock' = "setup" /\ UNCHANGED owner
          \/ Leave("setup")
      BY <1>2, <1>5, TurnForms DEF SetupSave, PairingInv
    <2>3. CASE Leave("setup")
      <3>1. Turns("setup", "off", None) /\ owner' \in {None, "run", "setup"}
            /\ lock' \in Procs \cup {None}
        BY <2>3, LeaveTypes
      <3>. QED BY <1>2, <2>1, <3>1, FileStep
             DEF counts, history, Phases, Holding, Granted
    <2>4. CASE Turns("setup", "record", New) /\ lock' = "setup" /\ UNCHANGED owner
      <3>1. New.gen \in said
        BY <1>2, <1>5 DEF SetupSave, Granted
      <3>. QED BY <1>2, <2>1, <2>4, <3>1, FileStep
             DEF counts, history, Phases, Holding, Granted
    <2>. QED BY <2>2, <2>3, <2>4
  <1>6. CASE SetupRecord
    BY <1>2, <1>6, RecordStandingStep DEF SetupRecord
  <1>7. CASE SetupWalk
    <2>1. Turns("setup", "off", None) /\ owner' \in {None, "run", "setup"}
          /\ lock' \in Procs \cup {None}
      BY <1>7, LeaveTypes DEF SetupWalk
    <2>2. UNCHANGED <<answer, unverified, counts, said, denied>>
      BY <1>7 DEF SetupWalk
    <2>3. CASE WalkMaySave
      <3>1. cred' \in {cred, New} /\ UNCHANGED retired
        BY <1>7, <2>3 DEF SetupWalk
      <3>. QED BY <1>2, <2>1, <2>2, <3>1, FileStep DEF counts, Phases, Holding, Granted
    <2>4. CASE ~WalkMaySave
      <3>1. retired' = retired \cup {made} /\ UNCHANGED cred
        BY <1>3, <1>7, <2>4 DEF SetupWalk, Retire
      <3>2. proc["setup"].ph = "walk"
        BY <1>7 DEF SetupWalk
      <3>. QED BY <1>3, <2>1, <2>2, <3>1, <3>2, FileStep
             DEF counts, Phases, Holding, Granted
    <2>. QED BY <2>3, <2>4
  <1>. QED BY <1>4, <1>5, <1>6, <1>7

\* The steps of confirm that write the credential file or the marker.
LEMMA ConfirmFileSteps ==
    ASSUME PairingInv, NEW p \in Confirms, ConfirmRecord(p) \/ ConfirmDelete(p)
    PROVE  PairingInv'
  <1>. USE BoundsAssumption, FileFacts
  <1>0. p \in Procs \ {"run"} /\ p # "setup"
    BY DEF Procs
  <1>1. CASE ConfirmRecord(p)
    <2>1. CASE StillShown(p)
      <3>1. cred \in Credentials /\ cred.gen = proc[p].cred.gen
        BY <2>1 DEF StillShown
      <3>2. RecordStanding(p, cred)
        BY <1>1, <2>1 DEF ConfirmRecord
      <3>. QED BY <1>0, <1>1, <3>1, <3>2, RecordStandingStep DEF ConfirmRecord
    <2>2. CASE ~StillShown(p)
      BY <1>0, <1>1, <2>2, LeaveTypes, ExitStep DEF ConfirmRecord, files, counts
    <2>. QED BY <2>1, <2>2
  <1>2. CASE ConfirmDelete(p)
    <2>1. Turns(p, "off", None)
      BY <1>0, <1>2, TurnForms DEF ConfirmDelete, PairingInv
    <2>2. /\ UNCHANGED <<answer, unverified, owner, lock, counts, said, retired>>
          /\ cred' \in {cred, None}
      BY <1>2 DEF ConfirmDelete
    <2>3. denied' \subseteq Gens
      BY <1>0, <1>2 DEF ConfirmDelete, Holding, Credentials
    <2>. QED BY <1>0, <2>1, <2>2, <2>3, FileStep DEF counts, Phases, Holding, Granted
  <1>. QED BY <1>1, <1>2

\* A session writes back the credential it was opened with.
LEMMA PersistStep ==
    ASSUME PairingInv, SessionPersist
    PROVE  PairingInv'
  <1>. USE BoundsAssumption, FileFacts
  <1>1. Turns("run", "session", proc["run"].cred)
    BY DEF SessionPersist, Turns, PairingInv, ProcTypes
  <1>2. /\ proc["run"].cred \in Credentials /\ proc["run"].cred # None
        /\ proc["run"].cred.gen \in said
    BY DEF SessionPersist, Holding, Granted
  <1>. QED BY <1>1, <1>2, FileStep
         DEF SessionPersist, counts, history, Phases, Holding, Granted

----------------------------------------------------------------------------
(* Steps that write the answer file *)

\* The answer becomes what the owner accepted or, from no file, what settling gives.
LEMMA AnswerStep ==
    ASSUME PairingInv, NEW p \in Procs, NEW ph \in Phases,
           NEW c \in {None, proc[p].cred}, Turns(p, ph, c),
           UNCHANGED <<cred, unverified, made, history>>,
           owner' \in {None, "run", "setup"}, lock' \in Procs \cup {None},
           ph \in {"off", "settle"} => c = None,
           ph \notin Holding,
           p = "setup" /\ ph \in {"settle", "pair"} => made <= MaxSetups,
           \/ answer # Absent /\ proc[p].ph = "answer" /\ answer' = Accepted(p)
           \/ answer = Absent /\ answer' = Settled
    PROVE  PairingInv'
  <1>. USE BoundsAssumption, FileFacts
  <1>0. answer # Absent =>
          /\ proc[p].cred \in Credentials /\ proc[p].cred # None
          /\ answer' = proc[p].cred.gen /\ proc[p].cred.gen \in said
    BY DEF Holding, Granted, Accepted
  <1>1. /\ proc' \in [Procs -> [ph : Phases, cred : Credentials \cup {None}]]
        /\ proc'[p].ph = ph /\ proc'[p].cred = c
        /\ \A q \in Procs \ {p} : proc'[q] = proc[q]
    <2>1. c \in Credentials \cup {None}
      BY DEF PairingInv, TypeOK
    <2>. QED BY <2>1, TurnTypes DEF PairingInv
  <1>2. /\ answer' \in Answers /\ answer' # Absent /\ answer' <= made
        /\ answer # Absent => answer' \in said
    <2>1. CASE answer # Absent
      <3>1. proc[p].cred.gen \in Gens /\ proc[p].cred.gen <= made
        BY <1>0, <2>1 DEF PairingInv, SoundInv, Sound, Credentials
      <3>. QED BY <1>0, <2>1, <3>1 DEF Answers, Absent, Gens
    <2>2. CASE answer = Absent /\ cred = None
      BY <2>2 DEF Settled, Answers, Absent, NoAnswer, Gens
    <2>3. CASE answer = Absent /\ cred # None
      <3>1. cred.gen \in Gens /\ cred.gen <= made
        BY <2>3 DEF PairingInv, SoundInv, Sound, Credentials
      <3>. QED BY <2>3, <3>1 DEF Settled, Answers, Absent, Gens
    <2>. QED BY <2>1, <2>2, <2>3
  <1>3. TypeOK' /\ ProcTypes'
    <2>1. \A q \in Procs : proc'[q].cred \in Credentials \cup {None}
      BY <1>1
    <2>. QED BY <1>1, <1>2, <2>1 DEF PairingInv, TypeOK, ProcTypes, history
  <1>4. PhaseInv'
    BY <1>1 DEF PairingInv, PhaseInv, Holding
  <1>5. FreshInv'
    <2>1. SUFFICES ASSUME proc'["setup"].ph \in {"ask", "walk", "yes"}
                   PROVE  /\ New'.gen = made /\ answer' # made
                          /\ cred # None => cred.gen # made
                          /\ \A q \in Procs \ {"setup"} :
                                proc'[q].cred # None => proc'[q].cred.gen # made
      BY DEF FreshInv
    <2>2. p # "setup" /\ proc'["setup"] = proc["setup"] /\ answer # Absent
      BY <1>1, <2>1 DEF Holding
    <2>3. /\ New.gen = made
          /\ cred # None => cred.gen # made
          /\ \A q \in Procs \ {"setup"} : proc[q].cred # None => proc[q].cred.gen # made
      BY <2>1, <2>2 DEF PairingInv, FreshInv
    <2>4. answer' # made
      BY <1>0, <2>2, <2>3
    <2>. QED BY <1>1, <2>2, <2>3, <2>4 DEF New
  <1>6. AbsentInv'
    BY <1>2 DEF AbsentInv
  <1>7. ASSUME NEW d \in Credentials \cup {None}, Sound(d)
        PROVE  Sound(d)'
    <2>1. SUFFICES ASSUME d # None, IsConfirmed(d)'
                   PROVE  d.gen \in said
      BY <1>2, <1>7 DEF Sound, history
    <2>2. answer' = d.gen /\ ~NeedsAsking(d)'
      BY <2>1 DEF IsConfirmed
    <2>3. CASE answer # Absent
      BY <1>2, <2>2, <2>3
    <2>4. CASE answer = Absent
      <3>1. unverified = 0 /\ made = 1
        BY <2>4 DEF PairingInv, AbsentInv
      <3>2. d.gen \in Gens /\ d.id \in Ids /\ d.gen <= made
        BY <1>7, <2>1 DEF Credentials, Sound
      <3>3. d.gen = 1
        BY <3>1, <3>2 DEF Gens
      <3>4. d.id = "own"
        BY <2>2, <3>1, <3>2, <3>3 DEF NeedsAsking, Ids
      <3>. QED BY <1>7, <2>1, <2>4, <3>3, <3>4 DEF Sound
    <2>. QED BY <2>3, <2>4
  <1>8. SoundInv'
    <2>1. Sound(cred)'
      <3>1. PICK d : d = cred
        OBVIOUS
      <3>2. Sound(d)'
        BY <1>7, <3>1 DEF PairingInv, SoundInv
      <3>. QED BY <3>1, <3>2 DEF Sound, IsConfirmed, NeedsAsking
    <2>2. ASSUME NEW q \in Procs
          PROVE  Sound(proc[q].cred)'
      <3>1. PICK d : d = proc'[q].cred
        OBVIOUS
      <3>2. d \in Credentials \cup {None} /\ Sound(d)
        BY <1>1, <3>1 DEF PairingInv, SoundInv, Sound
      <3>3. Sound(d)'
        BY <1>7, <3>2
      <3>. QED BY <3>1, <3>3 DEF Sound, IsConfirmed, NeedsAsking
    <2>. QED BY <1>2, <2>1, <2>2 DEF PairingInv, SoundInv, history
  <1>9. SaidInv'
    BY <1>1 DEF PairingInv, SaidInv, Holding, history
  <1>. QED BY <1>3, <1>4, <1>5, <1>6, <1>8, <1>9 DEF PairingInv

\* The answer is written at the end of a confirmation.
LEMMA RecordAnswerStep ==
    ASSUME PairingInv, NEW p \in Procs \ {"run"}, RecordAnswer(p)
    PROVE  PairingInv'
  <1>. USE BoundsAssumption, FileFacts
  <1>1. /\ Turns(p, "off", None)
        /\ owner' \in {None, "run", "setup"} /\ lock' \in Procs \cup {None}
    BY LeaveTypes DEF RecordAnswer
  <1>2. proc[p].ph = "answer" /\ answer # Absent /\ answer' \in {answer, Accepted(p)}
        /\ UNCHANGED <<cred, unverified, counts, history>>
    BY DEF RecordAnswer
  <1>3. CASE answer' = answer
    BY <1>1, <1>2, <1>3, ExitStep DEF files, counts
  <1>4. CASE answer' = Accepted(p)
    BY <1>1, <1>2, <1>4, AnswerStep DEF counts, Phases, Holding
  <1>. QED BY <1>2, <1>3, <1>4

\* The settle section: on to the next phase with an answer on disk, or without one
\* for a run, or out.
LEMMA SettleStep ==
    ASSUME PairingInv, NEW p \in Procs, NEW ph \in {"pair", "load"},
           p = "setup" <=> ph = "pair",
           SettleOrQuit(p, ph) \/ (p = "run" /\ SettleAnyway(p, ph))
    PROVE  PairingInv'
  <1>. USE BoundsAssumption, FileFacts
  <1>1. /\ proc[p].ph = "settle" /\ proc[p].cred = None
        /\ UNCHANGED <<cred, unverified, lock, counts, history>>
    BY DEF SettleOrQuit, SettleAnyway, Settle, PairingInv, PhaseInv
  <1>2. \/ Turns(p, ph, None) /\ UNCHANGED owner /\ (answer' # Absent \/ p = "run")
        \/ Turns(p, "off", None) /\ owner' \in {owner, None}
    <2>1. /\ \A h : To(p, h) => Turns(p, h, None)
          /\ Exit(p) => Turns(p, "off", None)
      BY <1>1, TurnForms DEF PairingInv
    <2>2. CASE SettleOrQuit(p, ph)
      <3>1. CASE AnswerLockFree /\ \E res \in Results :
                    /\ answer' = IF Landed(res) THEN Settled ELSE answer
                    /\ res = "ok" \/ answer # Absent
                    /\ To(p, ph) /\ UNCHANGED owner
        <4>1. Settled # Absent
          BY DEF Settled, Absent, NoAnswer, Credentials, Gens
        <4>. QED BY <2>1, <3>1, <4>1 DEF Landed, Results
      <3>2. CASE Exit(p) /\ owner' = IF owner = p THEN None ELSE owner
        BY <2>1, <3>2
      <3>. QED BY <2>2, <3>1, <3>2 DEF SettleOrQuit, Settle
    <2>3. CASE p = "run" /\ SettleAnyway(p, ph)
      BY <2>1, <2>3 DEF SettleAnyway, Settle
    <2>. QED BY <2>2, <2>3
  <1>3. answer' \in {answer, Settled}
    BY DEF SettleOrQuit, SettleAnyway, Settle
  <1>4. p = "setup" => made <= MaxSetups
    BY <1>1 DEF PairingInv, PhaseInv
  <1>5. lock' \in Procs \cup {None} /\ owner' \in {None, "run", "setup"}
        /\ made' = made /\ UNCHANGED <<cred, unverified, history>>
    BY <1>1, <1>2 DEF counts
  <1>6. PICK h \in {ph, "off"} :
          Turns(p, h, None) /\ (h # "off" => answer' # Absent \/ p = "run")
    BY <1>2
  <1>7. h \in Phases /\ h \notin Holding /\ h \notin Granted
    BY DEF Phases, Holding, Granted
  <1>8. CASE answer' = answer
    <2>1. said \subseteq Gens
      BY DEF PairingInv, TypeOK
    <2>. QED BY <1>1, <1>4, <1>5, <1>6, <1>7, <1>8, <2>1, ProcessStep
           DEF files, history, counts
  <1>9. CASE answer' # answer
    <2>1. answer = Absent /\ answer' = Settled
      BY <1>3, <1>9 DEF Settled
    <2>. QED BY <1>1, <1>4, <1>5, <1>6, <1>7, <2>1, AnswerStep DEF counts
  <1>. QED BY <1>8, <1>9

----------------------------------------------------------------------------
(* A new pairing *)

\* The pairing that setup makes is newer than every other one.
LEMMA SetupPairStep ==
    ASSUME PairingInv, SetupPair
    PROVE  PairingInv'
  <1>. USE BoundsAssumption, FileFacts
  <1>1. proc["setup"].ph = "pair" /\ UNCHANGED <<files, confirms, crashes, history>>
    BY DEF SetupPair
  <1>2. CASE Leave("setup") /\ UNCHANGED made
    BY <1>1, <1>2, LeaveTypes, ExitStep
  <1>3. CASE \E i \in Ids :
                /\ Turns("setup", "ask", [gen |-> made + 1, id |-> i])
                /\ made' = made + 1 /\ UNCHANGED <<owner, lock>>
    <2>1. PICK i \in Ids :
             /\ Turns("setup", "ask", [gen |-> made + 1, id |-> i])
             /\ made' = made + 1 /\ UNCHANGED <<owner, lock>>
      BY <1>3
    <2>2. PICK n \in Int : n = made + 1 /\ made' = n
      BY <2>1 DEF Gens
    <2>3. n \in Gens /\ made < n
      BY <1>1, <2>2 DEF PairingInv, PhaseInv, Gens
    <2>4. PICK c : c = [gen |-> n, id |-> i]
      OBVIOUS
    <2>5. c \in Credentials /\ c # None /\ c.gen = n
      BY <2>3, <2>4 DEF Credentials
    <2>6. Turns("setup", "ask", c)
      BY <2>1, <2>2, <2>4
    <2>7. /\ proc' \in [Procs -> [ph : Phases, cred : Credentials \cup {None}]]
          /\ proc'["setup"].ph = "ask" /\ proc'["setup"].cred = c
          /\ \A q \in Procs \ {"setup"} : proc'[q] = proc[q]
      BY <2>5, <2>6, TurnTypes DEF PairingInv, Phases
    <2>8. answer # Absent /\ answer <= made /\ answer # n
      BY <1>1, <2>3 DEF PairingInv, SoundInv, TypeOK, Answers, Absent, Damaged,
         NoAnswer, Gens
    <2>9. \A d \in Credentials \cup {None} : Sound(d) /\ d # None => d.gen # n
      BY <2>3 DEF Sound, Credentials, Gens
    <2>10. UNCHANGED <<cred, answer, unverified, said, denied, retired>>
      BY <1>1 DEF files, history
    <2>11. TypeOK' /\ ProcTypes'
      <3>1. \A q \in Procs : proc'[q].cred \in Credentials \cup {None}
        BY <2>7
      <3>. QED BY <2>1, <2>2, <2>3, <2>7, <2>10, <3>1 DEF PairingInv, TypeOK, ProcTypes
    <2>12. PhaseInv'
      BY <2>5, <2>7 DEF PairingInv, PhaseInv
    <2>13. FreshInv'
      <3>1. cred # None => cred.gen # n
        BY <2>9 DEF PairingInv, SoundInv
      <3>2. \A q \in Procs \ {"setup"} :
               proc'[q].cred # None => proc'[q].cred.gen # n
        BY <2>7, <2>9 DEF PairingInv, SoundInv, TypeOK
      <3>. QED BY <2>2, <2>5, <2>7, <2>8, <2>10, <3>1, <3>2 DEF FreshInv, New
    <2>14. AbsentInv'
      BY <2>8, <2>10 DEF AbsentInv
    <2>15. \A d \in Credentials \cup {None} : Sound(d) => Sound(d)'
      BY <2>2, <2>3, <2>8, <2>10 DEF Sound, IsConfirmed, NeedsAsking, Credentials, Gens
    <2>16. Sound(c)'
      <3>1. \A g \in retired : g < n
        BY <2>3 DEF PairingInv, SoundInv, Gens
      <3>2. n \notin retired
        BY <2>3, <3>1 DEF Gens
      <3>. QED BY <2>2, <2>3, <2>5, <2>8, <2>10, <3>2 DEF Sound, IsConfirmed, Gens
    <2>17. SoundInv'
      <3>1. Sound(cred)'
        <4>1. PICK d : d = cred
          OBVIOUS
        <4>2. Sound(d)'
          BY <2>15, <4>1 DEF PairingInv, SoundInv
        <4>. QED BY <2>10, <4>1, <4>2 DEF Sound, IsConfirmed, NeedsAsking
      <3>2. ASSUME NEW q \in Procs
            PROVE  Sound(proc[q].cred)'
        <4>1. PICK d : d = proc'[q].cred
          OBVIOUS
        <4>2. d = c \/ (d \in Credentials \cup {None} /\ Sound(d))
          BY <2>7, <4>1 DEF PairingInv, SoundInv, TypeOK
        <4>3. Sound(d)'
          BY <2>15, <2>16, <4>2
        <4>. QED BY <4>1, <4>3 DEF Sound, IsConfirmed, NeedsAsking
      <3>3. answer <= n /\ \A g \in retired : g <= n
        BY <2>3, <2>8 DEF PairingInv, SoundInv, TypeOK, Answers, Absent, Damaged,
           NoAnswer, Gens
      <3>. QED BY <2>2, <2>10, <3>1, <3>2, <3>3 DEF SoundInv
    <2>18. SaidInv'
      BY <2>7, <2>10 DEF PairingInv, SaidInv
    <2>. QED BY <2>11, <2>12, <2>13, <2>14, <2>17, <2>18 DEF PairingInv
  <1>. QED BY <1>2, <1>3 DEF SetupPair, Turns

----------------------------------------------------------------------------
(* Every step *)

\* No step leaves the invariant.
LEMMA NextInv ==
    ASSUME PairingInv, [Next]_vars
    PROVE  PairingInv'
  <1>. USE BoundsAssumption
  <1>0. "setup" \in Procs \ {"run"} /\ "run" \in Procs /\ Confirms \subseteq Procs \ {"run"}
    BY DEF Procs
  <1>1. CASE Setup
    <2>1. CASE SetupSettle
      BY <1>0, <2>1, SettleStep DEF SetupSettle
    <2>2. CASE RecordAnswer("setup")
      BY <1>0, <2>2, RecordAnswerStep
    <2>. QED BY <1>1, <2>1, <2>2, SetupSteps, SetupFileSteps, SetupPairStep DEF Setup
  <1>2. ASSUME NEW c \in Confirms, Confirm(c)
        PROVE  PairingInv'
    <2>1. CASE ConfirmSettle(c)
      <3>1. c \in Procs /\ c # "setup"
        BY <1>0
      <3>. QED BY <2>1, <3>1, SettleStep DEF ConfirmSettle
    <2>2. CASE RecordAnswer(c)
      BY <1>0, <2>2, RecordAnswerStep
    <2>. QED BY <1>2, <2>1, <2>2, ConfirmSteps, ConfirmFileSteps DEF Confirm
  <1>3. CASE Run
    <2>1. CASE RunSettle
      BY <1>0, <2>1, SettleStep DEF RunSettle
    <2>. QED BY <1>3, <2>1, RunSteps, PersistStep DEF Run, RunStep
  <1>4. ASSUME NEW p \in Procs, Crash(p)
        PROVE  PairingInv'
    BY <1>4, LeaveTypes, ExitStep DEF Crash
  <1>5. CASE UNCHANGED vars
    <2>1. UNCHANGED <<cred, answer, unverified, owner, lock, proc, made, said, denied,
                      retired>>
      BY <1>5 DEF vars, files, counts, history
    <2>2. TypeOK' /\ ProcTypes' /\ PhaseInv' /\ SaidInv'
      BY <2>1 DEF PairingInv, TypeOK, ProcTypes, PhaseInv, SaidInv
    <2>3. FreshInv' /\ AbsentInv'
      BY <2>1 DEF PairingInv, FreshInv, AbsentInv, New
    <2>4. SoundInv'
      BY <2>1 DEF PairingInv, SoundInv, Sound, IsConfirmed, NeedsAsking
    <2>. QED BY <2>2, <2>3, <2>4 DEF PairingInv
  <1>. QED BY <1>1, <1>2, <1>3, <1>4, <1>5 DEF Next

\* The invariant holds of the specification.
LEMMA SpecInv == Spec => []PairingInv
  BY InitInv, NextInv, PTL DEF Spec

----------------------------------------------------------------------------
(* The theorems *)

\* Which steps write the credential file.
LEMMA CredentialWriters ==
    ASSUME [Next]_vars, cred' # cred
    PROVE  \/ SetupSave \/ SetupRecord \/ SetupWalk \/ SessionPersist
           \/ \E c \in Confirms : ConfirmRecord(c) \/ ConfirmDelete(c)
  <1>1. CASE Setup
    BY <1>1 DEF Setup, SetupStart, SetupSettle, SettleOrQuit, Settle, SetupPair, SetupYes,
       SetupNo, SetupWalkedAway, RecordAnswer, SetupLockTimeout, files
  <1>2. ASSUME NEW c \in Confirms, Confirm(c)
        PROVE  ConfirmRecord(c) \/ ConfirmDelete(c)
    BY <1>2 DEF Confirm, ConfirmStart, ConfirmSettle, SettleOrQuit, Settle, ConfirmLoad,
       ConfirmCheck, ConfirmYes, ConfirmNo, ConfirmQuit, RecordAnswer, files
  <1>3. CASE Run
    BY <1>3 DEF Run, RunStart, RunStep, RunSettle, SettleAnyway, Settle, RunLoad, RunCheck,
       RunStop, files
  <1>4. ASSUME NEW p \in Procs, Crash(p)
        PROVE  FALSE
    BY <1>4 DEF Crash, files
  <1>5. CASE UNCHANGED vars
    BY <1>5 DEF vars, files
  <1>. QED BY <1>1, <1>2, <1>3, <1>4, <1>5 DEF Next

\* What the file holds after a pairing is recorded as accepted: what it held, or
\* the pairing recorded.
LEMMA RecordedFile ==
    ASSUME NEW p, NEW c \in Credentials, RecordStanding(p, c)
    PROVE  cred' = cred \/ (cred' \in Credentials /\ cred'.gen = c.gen)
  <1>1. Corrected(c) \in Credentials /\ Corrected(c).gen = c.gen
    BY DEF Corrected, Credentials, Ids
  <1>2. c.id \in {"claimed", "none", "own"}
    BY DEF Credentials, Ids
  <1>. QED BY <1>1, <1>2 DEF RecordStanding

\* One step of ConfirmedYieldsToOwner.
LEMMA YieldStep ==
    ASSUME PairingInv, [Next]_vars, IsConfirmed(cred),
           cred' = None \/ cred'.gen # cred.gen
    PROVE  IF cred' = None THEN cred.gen \in denied' ELSE cred'.gen \in said'
  <1>. USE BoundsAssumption, FileFacts
  <1>1. cred # None /\ cred' # cred
    BY DEF IsConfirmed
  <1>2. CASE SetupSave
    <2>1. cred' = New /\ proc["setup"].ph = "yes" /\ UNCHANGED history
      BY <1>1, <1>2 DEF SetupSave
    <2>. QED BY <2>1 DEF New, Holding, Granted, history
  <1>3. CASE SetupRecord
    <2>1. proc["setup"].ph = "record" /\ RecordStanding("setup", New) /\ UNCHANGED history
      BY <1>3 DEF SetupRecord
    <2>2. New \in Credentials /\ New # None /\ New.gen \in said
      BY <2>1 DEF New, Holding, Granted
    <2>. QED BY <1>1, <2>1, <2>2, RecordedFile DEF history
  <1>4. CASE SetupWalk
    BY <1>1, <1>4 DEF SetupWalk, WalkMaySave
  <1>5. CASE SessionPersist
    BY <1>1, <1>5 DEF SessionPersist, Holding, Granted, history
  <1>6. ASSUME NEW c \in Confirms, ConfirmRecord(c)
        PROVE  FALSE
    <2>1. cred \in Credentials /\ RecordStanding(c, cred)
      BY <1>1, <1>6 DEF ConfirmRecord
    <2>. QED BY <1>1, <2>1, RecordedFile
  <1>7. ASSUME NEW c \in Confirms, ConfirmDelete(c)
        PROVE  cred' = None /\ cred.gen \in denied'
    BY <1>1, <1>7 DEF ConfirmDelete, StillShown
  <1>. QED BY <1>1, <1>2, <1>3, <1>4, <1>5, <1>6, <1>7, CredentialWriters

\* SyncTask::run and Session in sync.rs: whatever the order of setups, confirms, kills
\* and failed writes, a session is open only with a pairing its owner accepted.
THEOREM SessionsAreAccepted == Spec => [](TypeOK /\ SendsOnlyAccepted)
  <1>1. ASSUME PairingInv
        PROVE  TypeOK /\ SendsOnlyAccepted
    BY <1>1, FileFacts DEF PairingInv, SendsOnlyAccepted, Session, Granted
  <1>. QED BY <1>1, SpecInv, PTL

\* retire_credential in setup: the file never holds a pairing that setup has asked the
\* journal to forget.
THEOREM RetiredIsGone == Spec => []RetiredNeverSaved
  <1>1. ASSUME PairingInv
        PROVE  RetiredNeverSaved
    BY <1>1 DEF PairingInv, SoundInv, Sound, RetiredNeverSaved
  <1>. QED BY <1>1, SpecInv, PTL

\* persist_credential, record_confirmation, delete_credential and the session's store:
\* each of them takes a confirmed pairing out of the file on the owner's word only.
THEOREM OwnerDecides == Spec => ConfirmedYieldsToOwner
  <1>1. ASSUME PairingInv, [Next]_vars
        PROVE  [IsConfirmed(cred) /\ (cred' = None \/ cred'.gen # cred.gen) =>
                  IF cred' = None THEN cred.gen \in denied' ELSE cred'.gen \in said']_vars
    BY <1>1, YieldStep
  <1>. QED BY <1>1, SpecInv, PTL DEF Spec, ConfirmedYieldsToOwner
=============================================================================
