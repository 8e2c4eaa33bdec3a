-------------------------- MODULE PostConnect_proofs --------------------------
(***************************************************************************)
(* Theorems about PostConnect, for any number of callers, triggers and     *)
(* dials: a lane runs the one pass its record tells of, a burst is active  *)
(* exactly while a pass runs, and work begets no work.                     *)
(***************************************************************************)
EXTENDS PostConnect, FiniteSetTheorems, TLAPS

----------------------------------------------------------------------------
(* The inductive invariant *)

\* A burst is active exactly while a lane runs a pass; a follow-up is asked for
\* behind a running pass only.
BurstInv ==
    /\ active <=> \E l \in Lanes : lane[l].inFlight
    /\ \A l \in Lanes : lane[l].followUp => lane[l].inFlight

\* The callers that may still start a burst: each was let in by a trigger of its own
\* or by a dial of its own that began while no burst was active.
Entitled == {c \in Callers : \/ caller[c].ph = "trigger"
                             \/ caller[c].ph = "dial" /\ ~caller[c].induced}

CreditInv ==
    /\ triggers \in Nat /\ quietDials \in Nat
    /\ bursts + Cardinality(Entitled) <= triggers + quietDials

CoordinatorInv == TypeOK /\ LaneOwnsItsPass /\ BurstInv /\ CreditInv

\* A burst is active exactly while one of its passes runs.
BurstIsWork == active <=> \E l \in Lanes : tasks[l] # {}

----------------------------------------------------------------------------
(* Starting passes *)

\* The record of a lane when n attempt numbers have been given out.
LaneRecord(n) == [passes : 0..2, inFlight : BOOLEAN, followUp : BOOLEAN, attempt : 0..n]

\* What StartPasses and the end of a pass keep of TypeOK.
LaneTypes ==
    /\ counter \in Nat
    /\ lane \in [Lanes -> LaneRecord(counter)]
    /\ tasks \in [Lanes -> SUBSET (1..counter)]

\* A set of lanes has at most as many members as attempt numbers are given out.
LEMMA LaneCount ==
    ASSUME NEW ls \in SUBSET Lanes
    PROVE  /\ Cardinality(ls) \in Nat
           /\ ls # {} => Cardinality(ls) >= 1
           /\ "access" \in ls /\ "metadata" \in ls => Cardinality(ls) = 2
  <1>1. Cardinality({}) = 0
    BY FS_EmptySet
  <1>2. Cardinality({"metadata"}) = 1 /\ Cardinality({"access"}) = 1
    BY FS_Singleton
  <1>3. Cardinality(Lanes) = 2
    <2>1. Lanes = {"metadata"} \cup {"access"}
      BY DEF Lanes
    <2>2. IsFiniteSet({"metadata"}) /\ "access" \notin {"metadata"}
      BY FS_Singleton
    <2>3. Cardinality({"metadata"} \cup {"access"}) = Cardinality({"metadata"}) + 1
      BY <2>2, FS_AddElement
    <2>. QED BY <1>2, <2>1, <2>3
  <1>4. ls \in {{}, {"metadata"}, {"access"}, Lanes}
    BY DEF Lanes
  <1>. QED BY <1>1, <1>2, <1>3, <1>4

\* StartPasses gives out numbers and leaves the lanes alone that it does not start.
LEMMA PassesStarted ==
    ASSUME counter \in Nat, NEW ls \in SUBSET Lanes, NEW from, StartPasses(ls, from)
    PROVE  /\ counter' \in Nat /\ counter' >= counter
           /\ lane' = [l \in Lanes |-> lane'[l]] /\ tasks' = [l \in Lanes |-> tasks'[l]]
           /\ \A l \in Lanes \ ls : lane'[l] = from[l] /\ tasks'[l] = tasks[l]
  <1>1. counter' = counter + Cardinality(ls)
    BY DEF StartPasses
  <1>2. counter' \in Nat /\ counter' >= counter
    BY <1>1, LaneCount
  <1>. QED BY <1>2 DEF StartPasses

\* StartPasses gives each of its lanes a new attempt number and a task of that number.
LEMMA PassStarted ==
    ASSUME counter \in Nat, NEW ls \in SUBSET Lanes, NEW from, StartPasses(ls, from),
           NEW l \in ls
    PROVE  \E n \in Nat : /\ n >= 1 /\ n <= counter'
                         /\ lane'[l] = Started(from[l], n)
                         /\ tasks'[l] = tasks[l] \cup {n}
  <1>. DEFINE n == counter + (IF l = "access" /\ "metadata" \in ls THEN 2 ELSE 1)
  <1>1. /\ lane'[l] = Started(from[l], n) /\ tasks'[l] = tasks[l] \cup {n}
        /\ counter' = counter + Cardinality(ls)
    BY DEF StartPasses
  <1>2. n \in Nat /\ n >= 1 /\ n <= counter + Cardinality(ls)
    <2>1. CASE l = "access" /\ "metadata" \in ls
      BY <2>1, LaneCount
    <2>2. CASE ~(l = "access" /\ "metadata" \in ls)
      BY <2>2, LaneCount
    <2>. QED BY <2>1, <2>2
  <1>. HIDE DEF n
  <1>. QED BY <1>1, <1>2

\* A lane's record stays one as more numbers are given out.
LEMMA LaneRecordsGrow ==
    ASSUME NEW j \in Nat, NEW k \in Nat, k >= j
    PROVE  LaneRecord(j) \subseteq LaneRecord(k)
  BY DEF LaneRecord

\* A started pass is in flight under its number.
LEMMA StartedRecord ==
    ASSUME NEW k \in Nat, NEW n \in 0..k, NEW j \in Nat, NEW s \in LaneRecord(j),
           s.passes < 2
    PROVE  /\ Started(s, n) \in LaneRecord(k)
           /\ Started(s, n).inFlight /\ Started(s, n).attempt = n
  <1>. USE DEF LaneRecord
  <1>1. PICK p \in 0..2 : p = s.passes + 1
    OBVIOUS
  <1>2. Started(s, n) = [s EXCEPT !.passes = p, !.inFlight = TRUE, !.attempt = n]
    BY <1>1 DEF Started
  <1>. QED BY <1>2

\* Passes start in lanes that run none, the other lanes keep theirs.
LEMMA LanesAfterStart ==
    ASSUME LaneTypes, LaneOwnsItsPass,
           NEW ls \in SUBSET Lanes, NEW from, StartPasses(ls, from),
           \A l \in Lanes : from[l] \in LaneRecord(counter),
           \A l \in ls : tasks[l] = {} /\ from[l].passes < 2,
           \A l \in Lanes \ ls : /\ from[l].inFlight = lane[l].inFlight
                                 /\ from[l].attempt = lane[l].attempt
    PROVE  /\ LaneTypes' /\ LaneOwnsItsPass'
           /\ \A l \in ls : lane'[l].inFlight
           /\ \A l \in Lanes \ ls : lane'[l] = from[l]
  <1>1. counter \in Nat
    BY DEF LaneTypes
  <1>2. counter' \in Nat /\ counter' >= counter
    BY <1>1, PassesStarted
  <1>3. \A l \in Lanes \ ls : lane'[l] = from[l] /\ tasks'[l] = tasks[l]
    BY <1>1, PassesStarted
  <1>4. ASSUME NEW l \in ls
        PROVE  /\ lane'[l] \in LaneRecord(counter') /\ lane'[l].inFlight
               /\ tasks'[l] \in SUBSET (1..counter') /\ tasks'[l] = {lane'[l].attempt}
    <2>1. PICK n \in Nat :
              /\ n >= 1 /\ n <= counter'
              /\ lane'[l] = Started(from[l], n) /\ tasks'[l] = tasks[l] \cup {n}
      BY <1>1, PassStarted
    <2>2. from[l] \in LaneRecord(counter) /\ from[l].passes < 2 /\ n \in 0..counter'
      BY <1>2, <2>1
    <2>3. /\ Started(from[l], n) \in LaneRecord(counter')
          /\ Started(from[l], n).inFlight /\ Started(from[l], n).attempt = n
      BY <1>1, <1>2, <2>2, StartedRecord
    <2>. QED BY <2>1, <2>3
  <1>5. ASSUME NEW l \in Lanes \ ls
        PROVE  /\ lane'[l] \in LaneRecord(counter')
               /\ tasks'[l] \in SUBSET (1..counter')
               /\ tasks'[l] = IF lane'[l].inFlight THEN {lane'[l].attempt} ELSE {}
    <2>1. LaneRecord(counter) \subseteq LaneRecord(counter')
      <3>1. PICK k \in Nat : counter' = k /\ k >= counter
        BY <1>2
      <3>. QED BY <1>1, <3>1, LaneRecordsGrow
    <2>2. tasks[l] \in SUBSET (1..counter) /\ from[l] \in LaneRecord(counter)
      BY DEF LaneTypes
    <2>3. tasks'[l] \in SUBSET (1..counter')
      BY <1>1, <1>2, <1>3, <2>2
    <2>4. tasks[l] = IF lane[l].inFlight THEN {lane[l].attempt} ELSE {}
      BY DEF LaneOwnsItsPass
    <2>. QED BY <1>3, <2>1, <2>2, <2>3, <2>4
  <1>6. lane' \in [Lanes -> LaneRecord(counter')] /\ tasks' \in [Lanes -> SUBSET (1..counter')]
    BY <1>1, <1>4, <1>5, PassesStarted
  <1>7. LaneOwnsItsPass'
    BY <1>4, <1>5 DEF LaneOwnsItsPass
  <1>. QED BY <1>2, <1>3, <1>4, <1>6, <1>7 DEF LaneTypes

\* trigger_external under the burst lock, as a whole.
LEMMA TriggerKeepsLanes ==
    ASSUME LaneTypes, LaneOwnsItsPass, BurstInv, active \in BOOLEAN, bursts \in Nat,
           StartOrRequest
    PROVE  /\ LaneTypes' /\ LaneOwnsItsPass' /\ BurstInv'
           /\ active' \in BOOLEAN /\ bursts' \in Nat /\ bursts' \in {bursts, bursts + 1}
  <1>1. CASE ~active
    <2>. DEFINE from == [l \in Lanes |-> NewLane]
    <2>1. StartPasses(Lanes, from) /\ active' = TRUE /\ bursts' = bursts + 1
      BY <1>1 DEF StartOrRequest
    <2>2. \A l \in Lanes : from[l] \in LaneRecord(counter) /\ from[l].passes < 2
      BY DEF NewLane, LaneRecord, LaneTypes
    <2>3. \A l \in Lanes : tasks[l] = {}
      BY <1>1 DEF BurstInv, LaneOwnsItsPass
    <2>. HIDE DEF from
    <2>4. LaneTypes' /\ LaneOwnsItsPass' /\ \A l \in Lanes : lane'[l].inFlight
      BY <2>1, <2>2, <2>3, LanesAfterStart
    <2>5. BurstInv'
      BY <2>1, <2>4 DEF BurstInv, Lanes
    <2>. QED BY <2>1, <2>4, <2>5
  <1>2. CASE active
    <2>. DEFINE ls == {l \in Lanes : StartsNow(lane[l])}
                from == [l \in Lanes |-> Requested(lane[l])]
    <2>1. StartPasses(ls, from) /\ UNCHANGED <<active, bursts>> /\ ls \in SUBSET Lanes
      BY <1>2 DEF StartOrRequest
    <2>2. ASSUME NEW l \in Lanes
          PROVE  /\ from[l] \in LaneRecord(counter) /\ from[l].passes = lane[l].passes
                 /\ from[l].inFlight = lane[l].inFlight
                 /\ from[l].attempt = lane[l].attempt
                 /\ from[l].followUp => from[l].inFlight
      <3>1. lane[l] \in LaneRecord(counter) /\ (lane[l].followUp => lane[l].inFlight)
        BY DEF LaneTypes, BurstInv
      <3>. QED BY <3>1 DEF Requested, LaneRecord
    <2>3. \A l \in ls : tasks[l] = {} /\ from[l].passes < 2
      BY <2>2 DEF StartsNow, LaneOwnsItsPass
    <2>. HIDE DEF from, ls
    <2>4. /\ LaneTypes' /\ LaneOwnsItsPass'
          /\ \A l \in ls : lane'[l].inFlight
          /\ \A l \in Lanes \ ls : lane'[l] = from[l]
      BY <2>1, <2>2, <2>3, LanesAfterStart
    <2>5. \A l \in Lanes : /\ lane'[l].followUp => lane'[l].inFlight
                           /\ lane[l].inFlight => lane'[l].inFlight
      BY <2>2, <2>4
    <2>6. BurstInv'
      BY <1>2, <2>1, <2>5 DEF BurstInv
    <2>. QED BY <2>1, <2>4, <2>6
  <1>. QED BY <1>1, <1>2

\* on_metadata_complete and on_access_complete: the pass that ends is the one its lane
\* runs, and the burst ends with the last of them.
LEMMA CompleteKeepsLanes ==
    ASSUME LaneTypes, LaneOwnsItsPass, BurstInv, active \in BOOLEAN,
           NEW l \in Lanes, Complete(l)
    PROVE  LaneTypes' /\ LaneOwnsItsPass' /\ BurstInv' /\ active' \in BOOLEAN
  <1>. DEFINE ended == [lane EXCEPT ![l].inFlight = FALSE, ![l].followUp = FALSE]
              next == [ended EXCEPT ![l] = Started(@, counter + 1)]
  <1>1. PICK n \in tasks[l] :
           LET gone == [tasks EXCEPT ![l] = @ \ {n}]
           IN IF lane[l].attempt # n
              THEN /\ tasks' = gone
                   /\ UNCHANGED <<active, bursts, lane, counter>>
              ELSE /\ IF FollowsUp(lane[l])
                      THEN /\ lane' = next
                           /\ counter' = counter + 1
                           /\ tasks' = [gone EXCEPT ![l] = @ \cup {counter + 1}]
                      ELSE lane' = ended /\ tasks' = gone /\ UNCHANGED counter
                   /\ active' = (active /\ ~Quiescent(lane'))
                   /\ UNCHANGED bursts
    BY DEF Complete
  <1>2. lane[l].inFlight /\ tasks[l] = {n} /\ lane[l].attempt = n
    BY DEF LaneOwnsItsPass
  <1>3. active /\ active' = ~Quiescent(lane')
    BY <1>1, <1>2 DEF BurstInv
  <1>4. /\ ended \in [Lanes -> LaneRecord(counter)]
        /\ ~ended[l].inFlight /\ ~ended[l].followUp /\ ended[l].passes = lane[l].passes
        /\ \A m \in Lanes \ {l} : ended[m] = lane[m]
    BY DEF LaneTypes, LaneRecord
  <1>. HIDE DEF ended
  <1>5. CASE FollowsUp(lane[l])
    <2>1. PICK k \in Nat : k = counter + 1
      BY DEF LaneTypes
    <2>2. /\ lane' = [ended EXCEPT ![l] = Started(ended[l], k)] /\ counter' = k
          /\ tasks' = [[tasks EXCEPT ![l] = @ \ {n}] EXCEPT ![l] = @ \cup {k}]
      BY <1>1, <1>2, <1>5, <2>1
    <2>3. tasks' = [tasks EXCEPT ![l] = {k}]
      BY <1>2, <2>2 DEF LaneTypes
    <2>4. /\ Started(ended[l], k) \in LaneRecord(k)
          /\ Started(ended[l], k).inFlight /\ Started(ended[l], k).attempt = k
      <3>1. ended[l] \in LaneRecord(counter) /\ ended[l].passes < 2 /\ counter \in Nat
        BY <1>4, <1>5 DEF FollowsUp, LaneTypes
      <3>. QED BY <2>1, <3>1, StartedRecord
    <2>5. LaneRecord(counter) \subseteq LaneRecord(k) /\ 1..counter \subseteq 1..k
      BY <2>1, LaneRecordsGrow DEF LaneTypes
    <2>6. LaneTypes'
      <3>1. lane' \in [Lanes -> LaneRecord(k)]
        BY <1>4, <2>2, <2>4, <2>5
      <3>2. tasks' \in [Lanes -> SUBSET (1..k)]
        BY <2>1, <2>3, <2>5 DEF LaneTypes
      <3>. QED BY <2>2, <3>1, <3>2 DEF LaneTypes
    <2>7. LaneOwnsItsPass'
      BY <1>4, <2>2, <2>3, <2>4 DEF LaneOwnsItsPass, LaneTypes
    <2>8. BurstInv'
      <3>1. lane'[l].inFlight
        BY <1>4, <2>2, <2>4
      <3>2. \A m \in Lanes : lane'[m].followUp => lane'[m].inFlight
        BY <1>4, <2>2, <3>1 DEF BurstInv
      <3>. QED BY <1>3, <3>1, <3>2 DEF BurstInv, Quiescent
    <2>. QED BY <1>3, <2>6, <2>7, <2>8
  <1>6. CASE ~FollowsUp(lane[l])
    <2>1. lane' = ended /\ tasks' = [tasks EXCEPT ![l] = {}] /\ UNCHANGED counter
      BY <1>1, <1>2, <1>6 DEF LaneTypes
    <2>2. LaneTypes'
      BY <1>4, <2>1 DEF LaneTypes
    <2>3. LaneOwnsItsPass'
      BY <1>4, <2>1 DEF LaneOwnsItsPass, LaneTypes
    <2>4. BurstInv'
      <3>1. \A m \in Lanes : lane'[m].followUp => lane'[m].inFlight
        BY <1>4, <2>1 DEF BurstInv
      <3>. QED BY <1>3, <3>1 DEF BurstInv, Quiescent
    <2>. QED BY <1>3, <2>2, <2>3, <2>4
  <1>. QED BY <1>5, <1>6

----------------------------------------------------------------------------
(* Callers *)

\* A step gives or takes the entitlement of one caller at most.
LEMMA EntitledChanges ==
    ASSUME NEW c \in Callers, \A d \in Callers \ {c} : caller'[d] = caller[d]
    PROVE  /\ Cardinality(Entitled) \in Nat /\ Cardinality(Entitled') \in Nat
           /\ Cardinality(Entitled') <= Cardinality(Entitled) + 1
           /\ c \in Entitled => Cardinality(Entitled') <= Cardinality(Entitled)
           /\ c \notin Entitled' => Cardinality(Entitled') <= Cardinality(Entitled)
           /\ c \in Entitled /\ c \notin Entitled' =>
                  Cardinality(Entitled') = Cardinality(Entitled) - 1
  <1>. DEFINE E == Entitled
              F == Entitled'
  <1>1. IsFiniteSet(E) /\ IsFiniteSet(F)
    BY BoundsAssumption, FS_Subset DEF Entitled
  <1>2. E \cup {c} = F \cup {c}
    BY DEF Entitled
  <1>. HIDE DEF E, F
  <1>3. Cardinality(E) \in Nat /\ Cardinality(F) \in Nat
    BY <1>1, FS_CardinalityType
  <1>4. /\ Cardinality(E \cup {c}) = IF c \in E THEN Cardinality(E) ELSE Cardinality(E) + 1
        /\ Cardinality(F \cup {c}) = IF c \in F THEN Cardinality(F) ELSE Cardinality(F) + 1
    BY <1>1, FS_AddElement
  <1>5. /\ Cardinality(F) <= Cardinality(E) + 1
        /\ c \in E => Cardinality(F) <= Cardinality(E)
        /\ c \notin F => Cardinality(F) <= Cardinality(E)
        /\ c \in E /\ c \notin F => Cardinality(F) = Cardinality(E) - 1
    BY <1>2, <1>3, <1>4
  <1>. QED BY <1>3, <1>5 DEF E, F

CallerTypes == caller \in [Callers -> [ph : {"idle", "trigger", "dial"}, induced : BOOLEAN]]

\* Every step keeps the types of the callers and the counts behind their entitlement.
LEMMA CallerStep ==
    ASSUME CallerTypes, CreditInv, bursts \in Nat, active \in BOOLEAN, [Next]_vars,
           StartOrRequest => bursts' \in {bursts, bursts + 1}
    PROVE  CallerTypes' /\ CreditInv'
  <1>. USE DEF CallerTypes, CreditInv, Resting
  <1>1. ASSUME NEW c \in Callers, TriggerExternal(c) PROVE CallerTypes' /\ CreditInv'
    <2>1. CallerTypes' /\ \A d \in Callers \ {c} : caller'[d] = caller[d]
      BY <1>1 DEF TriggerExternal, Becomes
    <2>2. Cardinality(Entitled') <= Cardinality(Entitled) + 1
      BY <2>1, EntitledChanges
    <2>3. /\ Cardinality(Entitled) \in Nat /\ Cardinality(Entitled') \in Nat
          /\ triggers' = triggers + 1 /\ UNCHANGED <<bursts, quietDials>>
      BY <1>1, <2>1, EntitledChanges DEF TriggerExternal, burst
    <2>. QED BY <2>1, <2>2, <2>3
  <1>2. ASSUME NEW c \in Callers, Trigger(c) PROVE CallerTypes' /\ CreditInv'
    <2>1. CallerTypes' /\ \A d \in Callers \ {c} : caller'[d] = caller[d]
      BY <1>2 DEF Trigger
    <2>2. c \in Entitled /\ c \notin Entitled'
      BY <1>2 DEF Trigger, Entitled
    <2>3. /\ Cardinality(Entitled) \in Nat
          /\ Cardinality(Entitled') = Cardinality(Entitled) - 1
      BY <2>1, <2>2, EntitledChanges
    <2>4. bursts' \in {bursts, bursts + 1} /\ UNCHANGED <<triggers, quietDials>>
      BY <1>2 DEF Trigger
    <2>. QED BY <2>1, <2>3, <2>4
  <1>3. ASSUME NEW c \in Callers, DialStart(c) PROVE CallerTypes' /\ CreditInv'
    <2>1. CallerTypes' /\ \A d \in Callers \ {c} : caller'[d] = caller[d]
      BY <1>3 DEF DialStart
    <2>2. /\ Cardinality(Entitled) \in Nat /\ Cardinality(Entitled') \in Nat
          /\ UNCHANGED <<bursts, triggers>>
      BY <1>3, <2>1, EntitledChanges DEF DialStart, burst
    <2>3. CASE active
      <3>1. c \notin Entitled' /\ UNCHANGED quietDials
        BY <1>3, <2>3 DEF DialStart, Entitled
      <3>. QED BY <2>1, <2>2, <3>1, EntitledChanges
    <2>4. CASE ~active
      <3>1. quietDials' = quietDials + 1
        BY <1>3, <2>4 DEF DialStart
      <3>2. Cardinality(Entitled') <= Cardinality(Entitled) + 1
        BY <2>1, EntitledChanges
      <3>. QED BY <2>1, <2>2, <3>1, <3>2
    <2>. QED BY <2>3, <2>4
  <1>4. ASSUME NEW c \in Callers, DialDone(c) PROVE CallerTypes' /\ CreditInv'
    <2>1. CallerTypes' /\ \A d \in Callers \ {c} : caller'[d] = caller[d]
      <3>1. CASE caller' = [caller EXCEPT ![c] = Resting]
        BY <3>1
      <3>2. CASE Becomes(c, "trigger")
        BY <3>2 DEF Becomes
      <3>. QED BY <1>4, <3>1, <3>2 DEF DialDone
    <2>2. c \in Entitled \/ c \notin Entitled'
      BY <1>4 DEF DialDone, Entitled, Notes
    <2>3. /\ Cardinality(Entitled) \in Nat /\ Cardinality(Entitled') \in Nat
          /\ UNCHANGED <<bursts, triggers, quietDials>>
      BY <1>4, <2>1, EntitledChanges DEF DialDone, burst
    <2>. QED BY <2>1, <2>2, <2>3, EntitledChanges
  <1>5. CASE (\E l \in Lanes : CompletePass(l)) \/ Shutdown \/ UNCHANGED vars
    <2>1. UNCHANGED <<caller, bursts, triggers, quietDials>>
      BY <1>5 DEF CompletePass, Complete, Shutdown, vars
    <2>. QED BY <2>1 DEF Entitled
  <1>. QED BY <1>1, <1>2, <1>3, <1>4, <1>5 DEF Next

----------------------------------------------------------------------------
(* The theorems *)

\* TypeOK, as the lemmas above use it.
LEMMA TypeParts ==
    TypeOK <=> /\ alive \in BOOLEAN /\ active \in BOOLEAN /\ bursts \in Nat
               /\ LaneTypes /\ CallerTypes
  BY DEF TypeOK, LaneTypes, LaneRecord, CallerTypes

\* The coordinator starts at rest.
LEMMA CoordinatorStarts == Init => CoordinatorInv
  <1>. SUFFICES ASSUME Init PROVE CoordinatorInv
    OBVIOUS
  <1>1. LaneTypes /\ LaneOwnsItsPass /\ BurstInv
    BY DEF Init, NewLane, LaneTypes, LaneRecord, LaneOwnsItsPass, BurstInv
  <1>2. CallerTypes /\ bursts \in Nat
    BY DEF Init, Resting, CallerTypes
  <1>3. alive \in BOOLEAN /\ active \in BOOLEAN
    BY DEF Init
  <1>4. CreditInv
    <2>1. Entitled = {}
      BY DEF Init, Resting, Entitled
    <2>. QED BY <2>1, FS_EmptySet DEF Init, CreditInv
  <1>. QED BY <1>1, <1>2, <1>3, <1>4, TypeParts DEF CoordinatorInv

\* Every step of a caller, a pass or the shutdown keeps the invariant.
LEMMA CoordinatorStep == CoordinatorInv /\ [Next]_vars => CoordinatorInv'
  <1>. SUFFICES ASSUME CoordinatorInv, [Next]_vars PROVE CoordinatorInv'
    OBVIOUS
  <1>0. /\ alive \in BOOLEAN /\ active \in BOOLEAN /\ bursts \in Nat
        /\ LaneTypes /\ CallerTypes /\ LaneOwnsItsPass /\ BurstInv /\ CreditInv
    BY TypeParts DEF CoordinatorInv
  <1>1. CallerTypes' /\ CreditInv'
    <2>1. StartOrRequest => bursts' \in {bursts, bursts + 1}
      BY DEF StartOrRequest
    <2>. QED BY <1>0, <2>1, CallerStep
  <1>2. /\ alive' \in BOOLEAN /\ active' \in BOOLEAN /\ bursts' \in Nat
        /\ LaneTypes' /\ LaneOwnsItsPass' /\ BurstInv'
    <2>1. ASSUME NEW c \in Callers, Trigger(c)
          PROVE  /\ alive' \in BOOLEAN /\ active' \in BOOLEAN /\ bursts' \in Nat
                 /\ LaneTypes' /\ LaneOwnsItsPass' /\ BurstInv'
      BY <1>0, <2>1, TriggerKeepsLanes DEF Trigger
    <2>2. ASSUME NEW l \in Lanes, CompletePass(l)
          PROVE  /\ alive' \in BOOLEAN /\ active' \in BOOLEAN /\ bursts' \in Nat
                 /\ LaneTypes' /\ LaneOwnsItsPass' /\ BurstInv'
      <3>1. Complete(l) /\ UNCHANGED <<alive, bursts>>
        BY <2>2 DEF CompletePass, Complete
      <3>. QED BY <1>0, <3>1, CompleteKeepsLanes
    <2>3. CASE Shutdown
      <3>1. alive' \in BOOLEAN
        BY <2>3 DEF Shutdown
      <3>2. /\ UNCHANGED <<active, bursts, counter, tasks>>
            /\ lane' = [l \in Lanes |-> [lane[l] EXCEPT !.followUp = FALSE]]
        BY <2>3 DEF Shutdown
      <3>3. \A l \in Lanes :
               /\ lane'[l] \in LaneRecord(counter) /\ ~lane'[l].followUp
               /\ lane'[l].inFlight = lane[l].inFlight
               /\ lane'[l].attempt = lane[l].attempt
        BY <1>0, <3>2 DEF LaneTypes, LaneRecord
      <3>4. LaneTypes'
        BY <1>0, <3>2, <3>3 DEF LaneTypes
      <3>5. LaneOwnsItsPass' /\ BurstInv'
        BY <1>0, <3>2, <3>3 DEF LaneOwnsItsPass, BurstInv
      <3>. QED BY <1>0, <3>1, <3>2, <3>4, <3>5
    <2>4. CASE \/ \E c \in Callers : TriggerExternal(c) \/ DialStart(c) \/ DialDone(c)
               \/ UNCHANGED vars
      <3>1. UNCHANGED <<alive, active, bursts, lane, counter, tasks>>
        BY <2>4 DEF TriggerExternal, DialStart, DialDone, burst, vars
      <3>. QED BY <1>0, <3>1 DEF LaneTypes, LaneOwnsItsPass, BurstInv
    <2>. QED BY <2>1, <2>2, <2>3, <2>4 DEF Next
  <1>. QED
    <2>1. TypeOK'
      BY <1>1, <1>2 DEF TypeOK, LaneTypes, LaneRecord, CallerTypes
    <2>. QED BY <1>1, <1>2, <2>1 DEF CoordinatorInv

\* PostConnectCoordinator: each lane runs exactly the pass its record tells of, never a
\* second one beside it nor one left over from an earlier burst.
THEOREM LanesOwnTheirPasses == Spec => [](TypeOK /\ LaneOwnsItsPass)
  <1>1. CoordinatorInv => TypeOK /\ LaneOwnsItsPass
    BY DEF CoordinatorInv
  <1>. QED BY <1>1, CoordinatorStarts, CoordinatorStep, PTL DEF Spec

\* The burst is active exactly while a pass runs: it neither outlives its passes, which
\* would keep every later trigger from starting one, nor ends before them.
THEOREM BurstsAreWork == Spec => []BurstIsWork
  <1>1. CoordinatorInv => BurstIsWork
    BY DEF CoordinatorInv, BurstInv, LaneOwnsItsPass, BurstIsWork
  <1>. QED BY <1>1, CoordinatorStarts, CoordinatorStep, PTL DEF Spec

\* dial_carrier: a burst comes from a trigger or from a dial that began while none was
\* active, so the dials that passes make start none, however late they complete.
THEOREM WorkBegetsNoWork == Spec => []NoManufacturedBursts
  <1>1. CoordinatorInv => NoManufacturedBursts
    <2>. SUFFICES ASSUME CoordinatorInv PROVE NoManufacturedBursts
      OBVIOUS
    <2>1. Cardinality(Entitled) \in Nat
      BY BoundsAssumption, FS_Subset, FS_CardinalityType DEF Entitled
    <2>. QED BY <2>1 DEF CoordinatorInv, CreditInv, TypeOK, NoManufacturedBursts
  <1>. QED BY <1>1, CoordinatorStarts, CoordinatorStep, PTL DEF Spec
=============================================================================
