--------------------------- MODULE Indicator_proofs ---------------------------
(***************************************************************************)
(* Theorems about Indicator, for any texts and lengths an owner may set and *)
(* any number of servers, runs, edits and failing commands: the owner's    *)
(* text is kept except by a write over a change it had not seen, and a     *)
(* clean stop takes back the mark, the room for it and the cell, unless a  *)
(* crash or the owner has parted the mark from its room.                   *)
(***************************************************************************)
EXTENDS Indicator, TLAPS

----------------------------------------------------------------------------
(* The inductive invariant *)

Known == [left : Lefts, len : Nat, cell : Cells]
Owns == [of : Nat, left : Lefts, len : Nat, wcell : Cells, owned : BOOLEAN]

\* The steps of an install before each of its writes has been made.
Reading == {"readLeft", "readLength", "readCell", "writeLeft"}
Installing == Reading \cup {"writeLength", "writeCell"}
Rolling == {"rollLength", "rollLeft"}

IndicatorTypes ==
    /\ server # None => server \in Servers
    /\ servers \in Nat /\ own \in Owns /\ own.left.marks = 0
    /\ known \in Known
    /\ owner \in [text : Texts, len : Nat]
    /\ pc \in Commands \cup Restoring \cup {"off", "loop", "restored"}
    /\ faults \in Nat
    /\ {installed, starting, widened, torn, blurred, unseen, touched} \subseteq BOOLEAN

\* Where the run is decides whether it is starting, has an ownership installed, owns the
\* cell, or has met a failure; no server has no room for a mark.
ControlInv ==
    /\ starting => pc \in Commands
    /\ (starting \/ pc \in Installing \cup Rolling \cup {"off"}) => ~installed
    /\ pc \in Restoring => installed
    /\ pc \in Rolling => faults > 0
    /\ pc = "writeUpdate" => own.owned
    /\ server = None => ~widened

\* The text the run will write is the text it last read or wrote.
TextInv ==
    /\ pc \in (Installing \ {"readLeft"}) \cup {"rollLength", "rollLeft", "putLeft"} =>
          own.left.text = known.left.text
    /\ OwnerTextKept

\* The run holds what it needs to take back an option it has written: the option is
\* written and the ownership is installed or about to be.
Holds(writes, restores) ==
    \/ pc \in writes \cup {"readUpdate", "writeUpdate"}
    \/ installed /\ pc \in {"identity", "loop"} \cup restores

\* Nothing is held yet: an earlier run may have left anything.
Unclaimed == pc \in {"off"} \cup Reading \/ (starting /\ pc = "identity")

\* A mark that nobody tampered with is the one this run will take back.
MarkInv ==
    \/ server.left.marks = 0 \/ touched \/ unseen \/ Unclaimed
    \/ /\ server.left = Written
       /\ Holds({"writeLength", "writeCell"}, {"restoreLeft", "putLeft"})

\* What a clean stop is not held to: a mark and its room torn apart, and the owner's
\* changes that cannot be told from a run's own writes.
Excused == torn \/ blurred \/ unseen

\* The length is the owner's, with or without the room for the mark; this run will
\* take back the room, from the length its owner has set.
LengthInv ==
    \/ Excused
    \/ /\ server.len = IF widened THEN owner.len + 1 ELSE owner.len
       /\ \/ ~widened \/ Unclaimed \/ pc = "writeLength"
          \/ /\ own.len = owner.len
             /\ Holds({"writeCell"}, {"restoreLeft", "putLeft", "restoreLength", "putLength"})

\* What an earlier run has left is whole: the room is there with the mark and not
\* without, and an install reads the owner's length off it.  A server that replaced
\* the run's own has nothing of a run.
LeftoverInv ==
    \/ Excused
    \/ /\ Leftover({"readLeft"}) => (server.left.marks > 0 <=> widened)
       /\ own.of \notin {0, server.id} => ~widened
       /\ pc = "readLength" /\ own.of = server.id => (AlreadyWidened <=> widened)
       /\ pc \in {"readCell", "writeLeft", "writeLength"} /\ own.of = server.id =>
             own.len = IF widened THEN owner.len ELSE known.len

\* The cell of a server is the one this run has written.
CellInv ==
    \/ server.cell = "absent" \/ Unclaimed \/ pc \in {"writeLength", "writeCell"}
    \/ own.owned /\ server.cell = own.wcell /\ Holds({}, Restoring)

\* A run without an ownership has no server; servers are told apart by their numbers.
ServerInv ==
    /\ server # None => server.id \in 1..servers
    /\ own.of <= servers
    /\ pc \in {"off", "loop", "identity"} /\ ~installed => own.of = 0
    /\ installed \/ pc \notin {"off", "loop", "identity", "restored"} => own.of # 0

\* A length is put back where the written one was read.
PutInv == pc = "putLength" => known.len = own.len + 1

CleanInv ==
    /\ ServerInv /\ PutInv
    /\ server # None /\ faults = 0 => MarkInv /\ LengthInv /\ LeftoverInv /\ CellInv

IndicatorInv == TypeOK /\ IndicatorTypes /\ ControlInv /\ TextInv /\ CleanInv

----------------------------------------------------------------------------
(* The initial states *)

\* Before the first server and the first run the invariant holds.
LEMMA InitInv == Init => IndicatorInv
  <1>. SUFFICES ASSUME Init PROVE IndicatorInv
    OBVIOUS
  <1>. USE ConstantsAssumption
  <1>1. NoOwn \in Owns /\ NoOwn.left \in Lefts /\ NoOwn.left.marks = 0
        /\ Unknown \in Known
        /\ Nobody \in [text : Texts, len : Nat]
    BY DEF NoOwn, Owns, Lefts, Cells, Plain, Unknown, Nobody, Known
  <1>2. TypeOK /\ IndicatorTypes
    BY <1>1 DEF Init, TypeOK, IndicatorTypes
  <1>3. ControlInv /\ TextInv
    BY DEF Init, ControlInv, TextInv, OwnerTextKept, Installing, Reading, Rolling, Restoring,
       Commands
  <1>4. CleanInv
    BY DEF Init, CleanInv, ServerInv, PutInv, NoOwn
  <1>. QED BY <1>2, <1>3, <1>4 DEF IndicatorInv

----------------------------------------------------------------------------
(* What one tmux command does *)

\* The flags of the history and of the run are Boolean, one by one.
LEMMA Flags ==
    ASSUME IndicatorInv
    PROVE  /\ installed \in BOOLEAN /\ starting \in BOOLEAN /\ widened \in BOOLEAN
           /\ torn \in BOOLEAN /\ blurred \in BOOLEAN
           /\ unseen \in BOOLEAN /\ touched \in BOOLEAN
           /\ known \in Known
  BY DEF IndicatorInv, IndicatorTypes

\* What is known after a command that read or wrote an option.
LEMMA LearnsForms ==
    ASSUME IndicatorInv, NEW v, NEW option \in {"left", "len", "cell"}, Learns(option, v)
    PROVE  /\ pc' \in Between => known' = Unknown
           /\ pc' \notin Between /\ option = "left" => known' = [known EXCEPT !.left = v]
           /\ pc' \notin Between /\ option = "len" => known' = [known EXCEPT !.len = v]
           /\ pc' \notin Between /\ option = "cell" => known' = [known EXCEPT !.cell = v]
  BY DEF Learns

\* What a read does besides.
LEMMA ReadForms ==
    ASSUME IndicatorInv, NEW option \in {"left", "len", "cell"}, Reads(option),
           server # None
    PROVE  /\ server \in Servers /\ Learns(option, server[option])
           /\ UNCHANGED <<server, servers, owner, widened, torn, blurred, unseen, touched,
                          faults, shown>>
  <1>1. server \in Servers
    BY DEF IndicatorInv, IndicatorTypes
  <1>2. Learns(option, server[option])
    BY DEF Reads
  <1>3. UNCHANGED <<server, servers, owner, widened, torn, blurred, unseen, touched, faults, shown>>
    BY DEF Reads, LoopUnchanged, linger, tmux
  <1>. QED BY <1>1, <1>2, <1>3

\* What a write tells the history of an install gone astray and of a mistaken restore.
LEMMA PutsFlags ==
    ASSUME IndicatorInv, NEW option, NEW v, Puts(option, v)
    PROVE  /\ torn' \in BOOLEAN /\ blurred' \in BOOLEAN
           /\ (torn' <=> torn \/ Strays) /\ (blurred' <=> blurred \/ Mistakes)
  BY Flags DEF Puts

\* A write of status-left.
LEMMA PutsLeft ==
    ASSUME IndicatorInv, NEW v \in Lefts, Puts("left", v), server # None
    PROVE  /\ server \in Servers /\ server' = [server EXCEPT !.left = v]
           /\ Learns("left", v)
           /\ unseen' = (unseen \/ server.left # known.left)
           /\ touched' = (touched /\ ~(v.marks > 0))
           /\ UNCHANGED <<servers, owner, widened, shown>>
  <1>1. unseen' = (unseen \/ server.left # known.left)
    BY Flags DEF Puts
  <1>2. touched' = (touched /\ ~(v.marks > 0))
    BY Flags DEF Puts
  <1>3. server' = [server EXCEPT !.left = v] /\ Learns("left", v)
        /\ UNCHANGED <<servers, owner, widened, shown>>
    BY DEF Puts, LoopUnchanged, linger
  <1>4. server \in Servers
    BY DEF IndicatorInv, IndicatorTypes
  <1>. QED BY <1>1, <1>2, <1>3, <1>4

\* A write of status-left-length.
LEMMA PutsLength ==
    ASSUME IndicatorInv, NEW v \in Nat, Puts("len", v), server # None
    PROVE  /\ server \in Servers /\ server' = [server EXCEPT !.len = v]
           /\ Learns("len", v)
           /\ unseen' = (unseen \/ server.len # known.len)
           /\ widened' = (v = own.len + 1)
           /\ UNCHANGED <<servers, owner, touched, shown>>
  <1>1. unseen' = (unseen \/ server.len # known.len)
    BY Flags DEF Puts
  <1>2. touched' = touched
    BY Flags DEF Puts
  <1>3. server' = [server EXCEPT !.len = v] /\ Learns("len", v)
        /\ UNCHANGED <<servers, owner, shown>>
    BY DEF Puts, LoopUnchanged, linger
  <1>4. widened' = (v = own.len + 1)
    BY DEF Puts
  <1>5. server \in Servers
    BY DEF IndicatorInv, IndicatorTypes
  <1>. QED BY <1>1, <1>2, <1>3, <1>4, <1>5

\* A write of the cell.
LEMMA PutsCell ==
    ASSUME IndicatorInv, NEW v \in Cells, Puts("cell", v), server # None
    PROVE  /\ server \in Servers /\ server' = [server EXCEPT !.cell = v]
           /\ Learns("cell", v)
           /\ UNCHANGED <<servers, owner, widened, unseen, touched, shown>>
  <1>1. unseen' = unseen
    BY Flags DEF Puts
  <1>2. touched' = touched
    BY Flags DEF Puts
  <1>3. server' = [server EXCEPT !.cell = v] /\ Learns("cell", v)
        /\ UNCHANGED <<servers, owner, widened, shown>>
    BY DEF Puts, LoopUnchanged, linger
  <1>4. server \in Servers
    BY DEF IndicatorInv, IndicatorTypes
  <1>. QED BY <1>1, <1>2, <1>3, <1>4

\* Where the run goes next; a start is over in the loop.
LEMMA GoesForms ==
    ASSUME IndicatorInv, NEW to, Goes(to)
    PROVE  pc' = to /\ starting' \in BOOLEAN
           /\ (to # "loop" => starting' = starting) /\ (to = "loop" => ~starting')
  <1>1. to # "loop" => starting' = starting
    BY Flags DEF Goes
  <1>2. to = "loop" => starting' = FALSE
    BY DEF Goes
  <1>. QED BY <1>1, <1>2, Flags DEF Goes

\* A step that neither writes an option nor changes the server keeps the types.
LEMMA ReadTypes ==
    ASSUME IndicatorInv,
           UNCHANGED <<server, servers, owner, widened, torn, blurred, unseen, touched, shown>>,
           installed' \in BOOLEAN, starting' \in BOOLEAN, working' \in BOOLEAN,
           known' \in Known, own' \in Owns, own'.left.marks = 0,
           faults' \in Nat,
           pc' \in Commands \cup Restoring \cup {"off", "loop", "restored"}
    PROVE  TypeOK' /\ IndicatorTypes'
  <1>1. TypeOK'
    BY DEF IndicatorInv, TypeOK
  <1>2. {installed', starting', widened', torn', blurred', unseen', touched'} \subseteq BOOLEAN
    BY Flags
  <1>. QED BY <1>1, <1>2 DEF IndicatorInv, IndicatorTypes

\* While the run keeps its ownership and does not rest without one, its server stays.
LEMMA RunningInv ==
    ASSUME IndicatorInv, installed \/ pc \notin {"off", "loop", "identity", "restored"},
           servers' = servers, own'.of = own.of,
           server' = None \/ (server # None /\ server'.id = server.id),
           pc' \notin {"off", "loop", "identity"} \/ installed'
    PROVE  ServerInv'
  BY DEF IndicatorInv, CleanInv, ServerInv

\* An ownership dropped: nothing has a server any more.
LEMMA DroppedInv ==
    ASSUME IndicatorInv, own' = NoOwn, installed' = FALSE, pc' \in {"off", "loop"},
           servers' = servers,
           server' = None \/ (server # None /\ server'.id = server.id)
    PROVE  ServerInv'
  BY DEF IndicatorInv, IndicatorTypes, CleanInv, ServerInv, NoOwn

----------------------------------------------------------------------------
(* The reads of an install *)

\* Reading status-left: the text that will be written is the text just read.
LEMMA ReadLeftStep ==
    ASSUME IndicatorInv, ReadLeft
    PROVE  IndicatorInv'
  <1>. USE DEF Commands, Restoring, Between, Installing, Reading, Rolling
  <1>1. /\ pc = "readLeft" /\ server # None /\ pc' = "readLength" /\ starting' = starting
        /\ ~installed /\ installed' = installed /\ UNCHANGED working
    BY GoesForms DEF ReadLeft, Asks, IndicatorInv, ControlInv
  <1>2. /\ server \in Servers /\ known' = [known EXCEPT !.left = server.left]
        /\ UNCHANGED <<server, servers, owner, widened, torn, blurred, unseen, touched,
                       faults, shown>>
    BY <1>1, ReadForms, LearnsForms DEF ReadLeft
  <1>3. own' = [own EXCEPT !.left = [server.left EXCEPT !.marks = 0]]
    BY DEF ReadLeft, normalize_status_left
  <1>4. own' \in Owns /\ own'.left.marks = 0 /\ own'.left.text = server.left.text
        /\ own'.len = own.len /\ own'.of = own.of
    BY <1>2, <1>3 DEF IndicatorInv, IndicatorTypes, Owns, Lefts, Servers
  <1>5. known' \in Known /\ known'.left = server.left
    BY <1>2, Flags DEF Known, Servers
  <1>6. TypeOK' /\ IndicatorTypes'
    BY <1>1, <1>2, <1>4, <1>5, Flags, ReadTypes DEF IndicatorInv, IndicatorTypes, TypeOK
  <1>7. ControlInv'
    BY <1>1, <1>2 DEF IndicatorInv, ControlInv
  <1>8. TextInv'
    BY <1>1, <1>2, <1>4, <1>5 DEF IndicatorInv, IndicatorTypes, TextInv, OwnerTextKept
  <1>9. ServerInv' /\ PutInv'
    BY <1>1, <1>2, <1>4, RunningInv DEF PutInv
  <1>10. faults' = 0 => MarkInv' /\ LengthInv' /\ CellInv'
    BY <1>1, <1>2 DEF IndicatorInv, CleanInv, MarkInv, LengthInv, CellInv, Unclaimed, Excused
  <1>11. faults' = 0 => LeftoverInv'
    BY <1>1, <1>2, <1>4, <1>5
       DEF IndicatorInv, CleanInv, LeftoverInv, Leftover, Excused, AlreadyWidened
  <1>. QED BY <1>1, <1>2, <1>6, <1>7, <1>8, <1>9, <1>10, <1>11 DEF IndicatorInv, CleanInv

\* Reading status-left-length: what an earlier run has left being whole, the length to
\* restore is the owner's.
LEMMA ReadLengthStep ==
    ASSUME IndicatorInv, ReadLength
    PROVE  IndicatorInv'
  <1>. USE DEF Commands, Restoring, Between, Installing, Reading, Rolling
  <1>1. /\ pc = "readLength" /\ server # None /\ pc' = "readCell" /\ starting' = starting
        /\ ~installed /\ installed' = installed /\ UNCHANGED working
    BY GoesForms DEF ReadLength, Asks, IndicatorInv, ControlInv
  <1>2. /\ server \in Servers /\ known' = [known EXCEPT !.len = server.len]
        /\ UNCHANGED <<server, servers, owner, widened, torn, blurred, unseen, touched, faults,
                       shown>>
    BY <1>1, ReadForms, LearnsForms DEF ReadLength
  <1>3. PICK m \in Nat : m = server.len
    BY <1>2 DEF Servers
  <1>4. PICK n \in Nat : /\ n = from_current(m)
                         /\ n = IF AlreadyWidened /\ m > 0 THEN m - 1 ELSE m
    <2>1. CASE AlreadyWidened /\ m > 0
      BY <2>1 DEF from_current
    <2>2. CASE ~(AlreadyWidened /\ m > 0)
      BY <2>2 DEF from_current
    <2>. QED BY <2>1, <2>2
  <1>5. own' \in Owns /\ own'.left = own.left /\ own'.len = n /\ own'.of = own.of
    <2>1. own' = [own EXCEPT !.len = n]
      BY <1>3, <1>4 DEF ReadLength
    <2>. QED BY <2>1 DEF IndicatorInv, IndicatorTypes, Owns, Lefts
  <1>6. known' \in Known /\ known'.left = known.left /\ known'.len = m
    BY <1>2, <1>3, Flags DEF Known
  <1>7. TypeOK' /\ IndicatorTypes'
    BY <1>1, <1>2, <1>5, <1>6, Flags, ReadTypes DEF IndicatorInv, IndicatorTypes, TypeOK
  <1>8. ControlInv'
    BY <1>1, <1>2 DEF IndicatorInv, ControlInv
  <1>9. TextInv'
    BY <1>1, <1>2, <1>5, <1>6 DEF IndicatorInv, TextInv, OwnerTextKept
  <1>10. ServerInv' /\ PutInv'
    BY <1>1, <1>2, <1>5, RunningInv DEF PutInv
  <1>11. Unclaimed'
    BY <1>1 DEF Unclaimed
  <1>12. faults' = 0 => LengthInv'
    BY <1>1, <1>2, <1>11 DEF IndicatorInv, CleanInv, LengthInv, Excused
  <1>13. faults' = 0 => LeftoverInv'
    <2>1. SUFFICES ASSUME faults = 0, ~Excused
                   PROVE  LeftoverInv'
      BY <1>2 DEF LeftoverInv, Excused
    <2>2. /\ m = IF widened THEN owner.len + 1 ELSE owner.len
          /\ own.of \notin {0, server.id} => ~widened
          /\ own.of # server.id => (server.left.marks > 0 <=> widened)
          /\ own.of = server.id => (AlreadyWidened <=> widened)
      BY <1>1, <1>3, <2>1
         DEF IndicatorInv, CleanInv, LengthInv, LeftoverInv, Leftover
    <2>3. owner.len \in Nat
      BY DEF IndicatorInv, IndicatorTypes
    <2>4. own.of = server.id => n = IF widened THEN owner.len ELSE m
      BY <1>4, <2>2, <2>3
    <2>. QED BY <1>1, <1>2, <1>5, <1>6, <2>2, <2>4 DEF LeftoverInv, Leftover
  <1>. QED BY <1>1, <1>2, <1>7, <1>8, <1>9, <1>10, <1>11, <1>12, <1>13
         DEF IndicatorInv, CleanInv, MarkInv, CellInv

\* Reading the cell, to learn that the option may be used.
LEMMA ReadCellStep ==
    ASSUME IndicatorInv, ReadCell
    PROVE  IndicatorInv'
  <1>. USE DEF Commands, Restoring, Between, Installing, Reading, Rolling
  <1>1. /\ pc = "readCell" /\ server # None /\ pc' = "writeLeft" /\ starting' = starting
        /\ ~installed /\ installed' = installed /\ UNCHANGED <<working, own>>
    BY GoesForms DEF ReadCell, Asks, IndicatorInv, ControlInv, indicator
  <1>2. /\ server \in Servers /\ known' = [known EXCEPT !.cell = server.cell]
        /\ UNCHANGED <<server, servers, owner, widened, torn, blurred, unseen, touched,
                       faults, shown>>
    BY <1>1, ReadForms, LearnsForms DEF ReadCell
  <1>3. known' \in Known /\ known'.left = known.left /\ known'.len = known.len
    BY <1>2, Flags DEF Known, Servers
  <1>4. TypeOK' /\ IndicatorTypes'
    BY <1>1, <1>2, <1>3, Flags, ReadTypes DEF IndicatorInv, IndicatorTypes, TypeOK
  <1>5. ControlInv'
    BY <1>1, <1>2 DEF IndicatorInv, ControlInv
  <1>6. TextInv'
    BY <1>1, <1>2, <1>3 DEF IndicatorInv, TextInv, OwnerTextKept
  <1>7. ServerInv' /\ PutInv'
    BY <1>1, <1>2, RunningInv DEF PutInv
  <1>8. faults' = 0 => MarkInv' /\ LengthInv' /\ CellInv'
    BY <1>1, <1>2 DEF IndicatorInv, CleanInv, MarkInv, LengthInv, CellInv, Unclaimed, Excused
  <1>9. faults' = 0 => LeftoverInv'
    BY <1>1, <1>2, <1>3 DEF IndicatorInv, CleanInv, LeftoverInv, Leftover, Excused
  <1>. QED BY <1>1, <1>2, <1>4, <1>5, <1>6, <1>7, <1>8, <1>9 DEF IndicatorInv, CleanInv

----------------------------------------------------------------------------
(* What a write keeps, whatever the run does next *)

\* A written option: the server keeps its types, its text is the owner's unless a
\* change went unseen, and an excuse stays one.
Kept ==
    /\ server' \in Servers /\ server'.id = server.id
    /\ known' \in Known
    /\ unseen' \in BOOLEAN /\ touched' \in BOOLEAN /\ widened' \in BOOLEAN
    /\ torn' \in BOOLEAN /\ blurred' \in BOOLEAN
    /\ (unseen => unseen') /\ (torn \/ Strays => torn') /\ (blurred \/ Mistakes => blurred')
    /\ UNCHANGED <<servers, owner, shown>>
    /\ OwnerTextKept'

\* Writing status-left with the text of own, which is the text last known.
LEMMA PutLeftKeeps ==
    ASSUME IndicatorInv, server # None, NEW v \in Lefts, Puts("left", v),
           v.text = own.left.text, own.left.text = known.left.text
    PROVE  /\ Kept /\ server' = [server EXCEPT !.left = v]
           /\ UNCHANGED widened /\ (touched => touched' \/ v.marks > 0)
           /\ ~unseen' => server.left = known.left
           /\ pc' \notin Between => known'.left = v /\ known'.len = known.len
  <1>1. /\ server \in Servers /\ server' = [server EXCEPT !.left = v]
        /\ Learns("left", v)
        /\ UNCHANGED <<servers, owner, widened, shown>>
    BY PutsLeft
  <1>2. unseen' \in BOOLEAN /\ (unseen => unseen') /\ (~unseen' => server.left = known.left)
    BY PutsLeft, Flags
  <1>3. touched' \in BOOLEAN /\ (touched => touched' \/ v.marks > 0)
    BY PutsLeft, Flags
  <1>4. server' \in Servers /\ server'.id = server.id /\ server'.left = v
        /\ server'.len = server.len
    BY <1>1 DEF Servers
  <1>5. known' \in Known /\ (pc' \notin Between => known'.left = v /\ known'.len = known.len)
    <2>1. Unknown \in Known
      BY ConstantsAssumption DEF Unknown, Known, NoOwn, Plain, Lefts, Cells
    <2>2. CASE pc' \in Between
      BY <1>1, <2>1, <2>2, LearnsForms
    <2>3. CASE pc' \notin Between
      BY <1>1, <2>3, LearnsForms, Flags DEF Known
    <2>. QED BY <2>2, <2>3
  <1>6. OwnerTextKept'
    BY <1>1, <1>2, <1>4 DEF IndicatorInv, TextInv, OwnerTextKept
  <1>7. widened' \in BOOLEAN
    BY <1>1, Flags
  <1>. QED BY <1>1, <1>2, <1>3, <1>4, <1>5, <1>6, <1>7, PutsFlags DEF Kept

\* Writing status-left-length, with the room for the mark or without.
LEMMA PutLengthKeeps ==
    ASSUME IndicatorInv, server # None, NEW v \in {own.len, own.len + 1}, Puts("len", v)
    PROVE  /\ Kept /\ server' = [server EXCEPT !.len = v]
           /\ UNCHANGED touched /\ (widened' <=> v = own.len + 1)
           /\ ~unseen' => server.len = known.len
           /\ pc' \notin Between => known'.left = known.left /\ known'.len = v
  <1>0. own.len \in Nat /\ v \in Nat
    BY DEF IndicatorInv, IndicatorTypes, Owns
  <1>1. /\ server \in Servers /\ server' = [server EXCEPT !.len = v]
        /\ Learns("len", v)
        /\ UNCHANGED <<servers, owner, touched, shown>>
    BY <1>0, PutsLength
  <1>2. unseen' \in BOOLEAN /\ (unseen => unseen') /\ (~unseen' => server.len = known.len)
    BY <1>0, PutsLength, Flags
  <1>3. widened' \in BOOLEAN /\ (widened' <=> v = own.len + 1)
    BY <1>0, PutsLength
  <1>4. server' \in Servers /\ server'.id = server.id /\ server'.left = server.left
        /\ server'.len = v
    BY <1>0, <1>1 DEF Servers
  <1>5. known' \in Known /\ (pc' \notin Between => known'.left = known.left /\ known'.len = v)
    <2>1. Unknown \in Known
      BY ConstantsAssumption DEF Unknown, Known, NoOwn, Plain, Lefts, Cells
    <2>2. CASE pc' \in Between
      BY <1>1, <2>1, <2>2, LearnsForms
    <2>3. CASE pc' \notin Between
      BY <1>0, <1>1, <2>3, LearnsForms, Flags DEF Known
    <2>. QED BY <2>2, <2>3
  <1>6. OwnerTextKept'
    BY <1>1, <1>2, <1>4 DEF IndicatorInv, TextInv, OwnerTextKept
  <1>7. touched' \in BOOLEAN
    BY <1>1, Flags
  <1>. QED BY <1>1, <1>2, <1>3, <1>4, <1>5, <1>6, <1>7, PutsFlags DEF Kept

\* Writing the cell.
LEMMA PutCellKeeps ==
    ASSUME IndicatorInv, server # None, NEW v \in Cells, Puts("cell", v)
    PROVE  /\ Kept /\ server' = [server EXCEPT !.cell = v]
           /\ UNCHANGED <<touched, widened, unseen>>
           /\ pc' \notin Between => known'.left = known.left /\ known'.len = known.len
  <1>1. /\ server \in Servers /\ server' = [server EXCEPT !.cell = v]
        /\ Learns("cell", v)
        /\ UNCHANGED <<servers, owner, widened, unseen, touched, shown>>
    BY PutsCell
  <1>2. server' \in Servers /\ server'.id = server.id /\ server'.left = server.left
        /\ server'.len = server.len
    BY <1>1 DEF Servers
  <1>3. known' \in Known
        /\ (pc' \notin Between => known'.left = known.left /\ known'.len = known.len)
    <2>1. Unknown \in Known
      BY ConstantsAssumption DEF Unknown, Known, NoOwn, Plain, Lefts, Cells
    <2>2. CASE pc' \in Between
      BY <1>1, <2>1, <2>2, LearnsForms
    <2>3. CASE pc' \notin Between
      BY <1>1, <2>3, LearnsForms, Flags DEF Known
    <2>. QED BY <2>2, <2>3
  <1>4. OwnerTextKept'
    BY <1>1, <1>2 DEF IndicatorInv, TextInv, OwnerTextKept
  <1>5. touched' \in BOOLEAN /\ widened' \in BOOLEAN
    BY <1>1, Flags
  <1>6. unseen' \in BOOLEAN /\ (unseen => unseen')
    BY <1>1, Flags
  <1>. QED BY <1>1, <1>2, <1>3, <1>4, <1>5, <1>6, PutsFlags DEF Kept

\* The types after a write.
LEMMA WriteTypes ==
    ASSUME IndicatorInv, Kept, installed' \in BOOLEAN, starting' \in BOOLEAN,
           working' \in BOOLEAN, own' \in Owns, own'.left.marks = 0, faults' \in Nat,
           pc' \in Commands \cup Restoring \cup {"off", "loop", "restored"}
    PROVE  TypeOK' /\ IndicatorTypes'
  <1>1. TypeOK'
    BY DEF Kept, IndicatorInv, TypeOK, Servers, Lefts
  <1>2. {installed', starting', widened', torn', blurred', unseen', touched'} \subseteq BOOLEAN
    BY DEF Kept
  <1>. QED BY <1>1, <1>2 DEF Kept, IndicatorInv, IndicatorTypes

\* What earlier runs have left stays whole as long as the run that is through with its
\* install writes nothing of it on another server.
LEMMA LeftoverKept ==
    ASSUME IndicatorInv, server # None, faults = 0, Excused => Excused',
           server'.id = server.id, own'.of = own.of,
           pc' \notin {"readLeft", "readLength", "readCell", "writeLeft", "writeLength"},
           own.of # server.id => /\ server'.left.marks > 0 <=> server.left.marks > 0
                                 /\ widened' <=> widened
    PROVE  LeftoverInv'
  BY DEF IndicatorInv, CleanInv, LeftoverInv, Leftover

----------------------------------------------------------------------------
(* The writes of an install and of its rollback *)

\* What is in own while the run has one.
LEMMA OwnForms ==
    ASSUME IndicatorInv
    PROVE  /\ own \in Owns /\ own.left.marks = 0 /\ own.left \in Lefts /\ own.len \in Nat
           /\ Written \in Lefts /\ Written.marks = 1 /\ Written.text = own.left.text
           /\ NoOwn \in Owns /\ NoOwn.left.marks = 0
  <1>1. own \in Owns /\ own.left.marks = 0
    BY DEF IndicatorInv, IndicatorTypes
  <1>2. NoOwn \in Owns /\ NoOwn.left.marks = 0
    BY ConstantsAssumption DEF NoOwn, Owns, Plain, Lefts, Cells
  <1>. QED BY <1>1, <1>2 DEF Owns, Lefts, Written

\* The mark goes in front of the text that was read.
LEMMA WriteLeftStep ==
    ASSUME IndicatorInv, WriteLeft
    PROVE  IndicatorInv'
  <1>. USE DEF Commands, Restoring, Between, Installing, Reading, Rolling
  <1>1. /\ pc = "writeLeft" /\ server # None /\ pc' = "writeLength" /\ starting' = starting
        /\ ~installed /\ installed' = installed /\ UNCHANGED <<working, own, faults>>
    BY GoesForms DEF WriteLeft, Asks, IndicatorInv, ControlInv, indicator, Writes
  <1>2. own.left.text = known.left.text
    BY <1>1 DEF IndicatorInv, TextInv
  <1>3. /\ Kept /\ server' = [server EXCEPT !.left = Written] /\ UNCHANGED widened
        /\ known'.left = Written /\ known'.len = known.len
    BY <1>1, <1>2, OwnForms, PutLeftKeeps DEF WriteLeft, Writes
  <1>4. /\ server'.left = Written /\ server'.len = server.len /\ server'.cell = server.cell
        /\ Written' = Written
    BY <1>1, <1>3 DEF IndicatorInv, IndicatorTypes, Servers, Written
  <1>5. TypeOK' /\ IndicatorTypes'
    BY <1>1, <1>3, Flags, WriteTypes DEF IndicatorInv, IndicatorTypes, TypeOK
  <1>6. ControlInv'
    <2>1. server' # None
      BY <1>3, ConstantsAssumption DEF Kept
    <2>. QED BY <1>1, <1>3, <2>1 DEF IndicatorInv, ControlInv
  <1>7. TextInv'
    BY <1>1, <1>2, <1>3, OwnForms DEF Kept, TextInv
  <1>8. ServerInv' /\ PutInv'
    BY <1>1, <1>3, RunningInv DEF Kept, PutInv
  <1>9. MarkInv'
    BY <1>1, <1>4 DEF MarkInv, Holds
  <1>10. faults' = 0 => LengthInv'
    <2>1. faults = 0 => Excused
             \/ server.len = IF widened THEN owner.len + 1 ELSE owner.len
      BY <1>1 DEF IndicatorInv, CleanInv, LengthInv
    <2>. QED BY <1>1, <1>3, <1>4, <2>1 DEF Kept, LengthInv, Excused
  <1>11. CellInv'
    BY <1>1 DEF CellInv
  <1>12. faults' = 0 => LeftoverInv'
    <2>1. SUFFICES ASSUME faults = 0, ~Excused'
                   PROVE  LeftoverInv'
      BY <1>1 DEF LeftoverInv
    <2>2. ~Excused /\ own.of = server.id
      BY <1>1, <1>3, <2>1 DEF Kept, Excused, Strays
    <2>3. own.len = IF widened THEN owner.len ELSE known.len
      BY <1>1, <2>1, <2>2 DEF IndicatorInv, CleanInv, LeftoverInv
    <2>. QED BY <1>1, <1>3, <2>2, <2>3 DEF Kept, LeftoverInv, Leftover
  <1>. QED BY <1>3, <1>5, <1>6, <1>7, <1>8, <1>9, <1>10, <1>11, <1>12
         DEF Kept, IndicatorInv, CleanInv

\* The room for the mark is made from the owner's length.
LEMMA WriteLengthStep ==
    ASSUME IndicatorInv, WriteLength
    PROVE  IndicatorInv'
  <1>. USE DEF Commands, Restoring, Between, Installing, Reading, Rolling
  <1>1. /\ pc = "writeLength" /\ server # None /\ pc' = "writeCell" /\ starting' = starting
        /\ ~installed /\ installed' = installed /\ UNCHANGED <<working, own, faults>>
    BY GoesForms DEF WriteLength, Asks, IndicatorInv, ControlInv, indicator, Writes
  <1>3. /\ Kept /\ server' = [server EXCEPT !.len = own.len + 1]
        /\ UNCHANGED touched /\ widened'
        /\ ~unseen' => server.len = known.len
        /\ known'.left = known.left /\ known'.len = own.len + 1
    BY <1>1, PutLengthKeeps DEF WriteLength, Writes
  <1>4. /\ server'.left = server.left /\ server'.len = own.len + 1
        /\ server'.cell = server.cell /\ Written' = Written
    BY <1>1, <1>3 DEF IndicatorInv, IndicatorTypes, Servers, Written
  <1>5. TypeOK' /\ IndicatorTypes'
    BY <1>1, <1>3, Flags, OwnForms, WriteTypes DEF IndicatorInv, IndicatorTypes, TypeOK
  <1>6. ControlInv'
    <2>1. server' # None
      BY <1>3, ConstantsAssumption DEF Kept
    <2>. QED BY <1>1, <1>3, <2>1 DEF IndicatorInv, ControlInv
  <1>7. TextInv'
    BY <1>1, <1>3 DEF Kept, IndicatorInv, TextInv
  <1>8. ServerInv' /\ PutInv'
    BY <1>1, <1>3, RunningInv DEF Kept, PutInv
  <1>9. faults' = 0 => MarkInv'
    <2>1. faults = 0 => server.left.marks = 0 \/ touched \/ unseen \/ server.left = Written
      BY <1>1 DEF IndicatorInv, CleanInv, MarkInv, Unclaimed
    <2>. QED BY <1>1, <1>3, <1>4, <2>1 DEF Kept, MarkInv, Holds
  <1>10. faults' = 0 => LengthInv'
    <2>1. SUFFICES ASSUME faults = 0, ~Excused'
                   PROVE  LengthInv'
      BY <1>1 DEF LengthInv
    <2>2. ~Excused /\ own.of = server.id /\ server.len = known.len
      BY <1>1, <1>3, <2>1 DEF Kept, Excused, Strays
    <2>3. server.len = IF widened THEN owner.len + 1 ELSE owner.len
      BY <1>1, <2>1, <2>2 DEF IndicatorInv, CleanInv, LengthInv
    <2>4. own.len = IF widened THEN owner.len ELSE known.len
      BY <1>1, <2>1, <2>2 DEF IndicatorInv, CleanInv, LeftoverInv
    <2>5. own.len = owner.len
      BY <2>2, <2>3, <2>4
    <2>. QED BY <1>1, <1>3, <1>4, <2>5 DEF Kept, LengthInv, Holds
  <1>11. CellInv'
    BY <1>1 DEF CellInv
  <1>12. faults' = 0 => LeftoverInv'
    BY <1>1, <1>3, LeftoverKept DEF Kept, LeftoverInv, Excused, Strays
  <1>. QED BY <1>3, <1>5, <1>6, <1>7, <1>8, <1>9, <1>10, <1>11, <1>12
         DEF Kept, IndicatorInv, CleanInv

\* The cell completes the ownership, which is installed at once unless an update follows.
LEMMA WriteCellStep ==
    ASSUME IndicatorInv, WriteCell
    PROVE  IndicatorInv'
  <1>. USE DEF Commands, Restoring, Between, Installing, Reading, Rolling
  <1>1. /\ pc = "writeCell" /\ server # None /\ ~installed /\ UNCHANGED <<working, faults>>
        /\ own' = [own EXCEPT !.wcell = "observing", !.owned = TRUE]
    BY DEF WriteCell, Asks, IndicatorInv, ControlInv, Writes
  <1>2. working \in BOOLEAN /\ installed' = ~working
    BY DEF IndicatorInv, TypeOK, WriteCell
  <1>3. /\ starting' \in BOOLEAN
        /\ \/ pc' = "readUpdate" /\ ~installed'
           \/ pc' = "loop" /\ ~starting' /\ installed'
    BY <1>2, GoesForms DEF WriteCell
  <1>5. /\ Kept /\ server' = [server EXCEPT !.cell = "observing"]
        /\ UNCHANGED <<touched, widened, unseen>>
    BY <1>1, PutCellKeeps DEF WriteCell, Writes, Cells
  <1>6. own' \in Owns /\ own'.left = own.left /\ own'.len = own.len /\ own'.of = own.of
        /\ own'.owned = TRUE /\ own'.wcell = "observing" /\ Written' = Written
    BY <1>1, OwnForms DEF Owns, Cells, Written
  <1>7. /\ server' # None /\ server'.left = server.left /\ server'.len = server.len
        /\ server'.cell = "observing"
    BY <1>1, <1>5, ConstantsAssumption DEF Kept, IndicatorInv, IndicatorTypes, Servers
  <1>8. TypeOK' /\ IndicatorTypes'
    BY <1>1, <1>2, <1>3, <1>5, <1>6, OwnForms, WriteTypes
       DEF IndicatorInv, IndicatorTypes, TypeOK
  <1>9. ControlInv'
    BY <1>1, <1>3, <1>7 DEF IndicatorInv, ControlInv
  <1>10. TextInv'
    BY <1>3, <1>5 DEF Kept, TextInv
  <1>11. ServerInv' /\ PutInv'
    BY <1>1, <1>3, <1>5, <1>6, RunningInv DEF Kept, PutInv
  <1>12. faults' = 0 => MarkInv'
    <2>1. faults = 0 => server.left.marks = 0 \/ touched \/ unseen \/ server.left = Written
      BY <1>1 DEF IndicatorInv, CleanInv, MarkInv, Unclaimed
    <2>. QED BY <1>1, <1>3, <1>5, <1>6, <1>7, <2>1 DEF MarkInv, Holds
  <1>13. faults' = 0 => LengthInv'
    <2>1. faults = 0 => \/ Excused
                        \/ /\ server.len = IF widened THEN owner.len + 1 ELSE owner.len
                           /\ ~widened \/ own.len = owner.len
      BY <1>1 DEF IndicatorInv, CleanInv, LengthInv, Unclaimed
    <2>. QED BY <1>1, <1>3, <1>5, <1>6, <1>7, <2>1 DEF Kept, LengthInv, Holds, Excused
  <1>14. CellInv'
    BY <1>3, <1>6, <1>7 DEF CellInv, Holds
  <1>15. faults' = 0 => LeftoverInv'
    BY <1>1, <1>3, <1>5, <1>6, <1>7, LeftoverKept DEF Kept, Excused
  <1>. QED BY <1>5, <1>8, <1>9, <1>10, <1>11, <1>12, <1>13, <1>14, <1>15
         DEF Kept, IndicatorInv, CleanInv

\* A rollback writes back what was read; there has been a failure by then.
LEMMA RollStep ==
    ASSUME IndicatorInv, RollLength \/ RollLeft
    PROVE  IndicatorInv'
  <1>. USE DEF Commands, Restoring, Between, Installing, Reading, Rolling
  <1>1. /\ pc \in Rolling /\ server # None /\ ~installed /\ faults > 0
        /\ UNCHANGED <<working, faults>>
    BY DEF RollLength, RollLeft, Asks, IndicatorInv, ControlInv, Writes, indicator
  <1>2. own.left.text = known.left.text
    BY <1>1 DEF IndicatorInv, TextInv
  <1>3. faults' # 0
    BY <1>1 DEF IndicatorInv, IndicatorTypes
  <1>4. CASE RollLength
    <2>1. /\ pc = "rollLength" /\ pc' = "rollLeft" /\ starting' = starting
          /\ installed' = installed /\ UNCHANGED own
      BY <1>4, GoesForms DEF RollLength, Asks, indicator
    <2>3. Kept /\ known'.left = known.left
      BY <1>1, <1>4, <2>1, PutLengthKeeps DEF RollLength, Writes
    <2>4. TypeOK' /\ IndicatorTypes'
      BY <1>1, <2>1, <2>3, Flags, OwnForms, WriteTypes
         DEF IndicatorInv, IndicatorTypes, TypeOK
    <2>5. ControlInv'
      BY <1>1, <2>1, <2>3, ConstantsAssumption DEF Kept, IndicatorInv, ControlInv
    <2>6. TextInv'
      BY <1>2, <2>1, <2>3 DEF Kept, TextInv
    <2>7. ServerInv' /\ PutInv'
      BY <1>1, <2>1, <2>3, RunningInv DEF Kept, PutInv
    <2>. QED BY <1>3, <2>3, <2>4, <2>5, <2>6, <2>7 DEF Kept, IndicatorInv, CleanInv
  <1>5. CASE RollLeft
    <2>1. /\ pc' \in {"off", "loop"} /\ starting' = FALSE
          /\ installed' = FALSE /\ own' = NoOwn
      BY <1>5 DEF RollLeft, Fails, Dropped
    <2>2. Kept
      BY <1>1, <1>2, <1>5, OwnForms, PutLeftKeeps DEF RollLeft, Writes
    <2>3. TypeOK' /\ IndicatorTypes'
      BY <1>1, <2>1, <2>2, OwnForms, WriteTypes DEF IndicatorInv, IndicatorTypes, TypeOK
    <2>4. ControlInv'
      BY <2>1, <2>2, ConstantsAssumption DEF Kept, ControlInv
    <2>5. TextInv'
      BY <2>1, <2>2 DEF Kept, TextInv
    <2>6. ServerInv' /\ PutInv'
      BY <1>1, <2>1, <2>2, DroppedInv DEF Kept, PutInv
    <2>. QED BY <1>3, <2>2, <2>3, <2>4, <2>5, <2>6 DEF Kept, IndicatorInv, CleanInv
  <1>. QED BY <1>4, <1>5

----------------------------------------------------------------------------
(* The update of the cell, and the identity of the server *)

\* Reading the cell tells whether it is still this run's.
LEMMA ReadUpdateStep ==
    ASSUME IndicatorInv, ReadUpdate
    PROVE  IndicatorInv'
  <1>. USE DEF Commands, Restoring, Between, Installing, Reading, Rolling
  <1>1. /\ pc = "readUpdate" /\ server # None /\ UNCHANGED working
        /\ own' = [own EXCEPT !.owned = server.cell = own.wcell]
    BY DEF ReadUpdate, Asks
  <1>2. /\ starting' \in BOOLEAN /\ installed' \in BOOLEAN
        /\ \/ pc' = "writeUpdate" /\ starting' = starting /\ installed' = installed
              /\ server.cell = own.wcell
           \/ pc' = "loop" /\ ~starting' /\ installed'
    BY GoesForms, Flags DEF ReadUpdate, Updated
  <1>3. /\ server \in Servers /\ Learns("cell", server.cell)
        /\ UNCHANGED <<server, servers, owner, widened, torn, blurred, unseen, touched,
                       faults, shown>>
    BY <1>1, ReadForms DEF ReadUpdate
  <1>4. own' \in Owns /\ own'.left = own.left /\ own'.len = own.len /\ own'.of = own.of
        /\ (own'.owned <=> server.cell = own.wcell) /\ own'.wcell = own.wcell
        /\ Written' = Written
    BY <1>1, OwnForms DEF Owns, Written
  <1>5. known' \in Known
    <2>1. Unknown \in Known /\ server.cell \in Cells
      BY <1>3, ConstantsAssumption DEF Unknown, Known, NoOwn, Plain, Lefts, Cells, Servers
    <2>. QED BY <1>3, <2>1, LearnsForms, Flags DEF Known
  <1>7. TypeOK' /\ IndicatorTypes'
    BY <1>1, <1>2, <1>3, <1>4, <1>5, Flags, OwnForms, ReadTypes
       DEF IndicatorInv, IndicatorTypes, TypeOK
  <1>8. ControlInv'
    BY <1>1, <1>2, <1>3, <1>4 DEF IndicatorInv, ControlInv
  <1>9. TextInv'
    BY <1>2, <1>3 DEF IndicatorInv, TextInv, OwnerTextKept
  <1>10. ServerInv' /\ PutInv'
    BY <1>1, <1>2, <1>3, <1>4, RunningInv DEF PutInv
  <1>11. faults' = 0 => MarkInv' /\ LengthInv'
    BY <1>1, <1>2, <1>3, <1>4
       DEF IndicatorInv, CleanInv, MarkInv, LengthInv, Unclaimed, Holds, Excused
  <1>12. faults' = 0 => CellInv'
    BY <1>1, <1>2, <1>3, <1>4 DEF IndicatorInv, CleanInv, CellInv, Unclaimed, Holds
  <1>13. faults' = 0 => LeftoverInv'
    BY <1>1, <1>2, <1>3, <1>4, LeftoverKept DEF Excused
  <1>. QED BY <1>1, <1>3, <1>7, <1>8, <1>9, <1>10, <1>11, <1>12, <1>13
         DEF IndicatorInv, CleanInv

\* Writing the cell that was still this run's.
LEMMA WriteUpdateStep ==
    ASSUME IndicatorInv, WriteUpdate
    PROVE  IndicatorInv'
  <1>. USE DEF Commands, Restoring, Between, Installing, Reading, Rolling
  <1>1. /\ pc = "writeUpdate" /\ server # None /\ UNCHANGED <<working, faults>>
        /\ own' = [own EXCEPT !.wcell = Cell] /\ own.owned
    BY DEF WriteUpdate, Asks, Writes, IndicatorInv, ControlInv
  <1>2. pc' = "loop" /\ ~starting' /\ starting' \in BOOLEAN /\ installed' = TRUE
    BY GoesForms DEF WriteUpdate, Updated
  <1>3. Cell \in Cells
    BY DEF Cell, Cells
  <1>4. /\ Kept /\ server' = [server EXCEPT !.cell = Cell]
        /\ UNCHANGED <<touched, widened, unseen>>
    BY <1>1, <1>3, PutCellKeeps DEF WriteUpdate, Writes
  <1>5. own' \in Owns /\ own'.left = own.left /\ own'.len = own.len /\ own'.of = own.of
        /\ own'.owned = own.owned /\ own'.wcell = Cell /\ Written' = Written
    BY <1>1, <1>3, OwnForms DEF Owns, Written
  <1>6. /\ server' # None /\ server'.left = server.left /\ server'.len = server.len
        /\ server'.cell = Cell
    BY <1>1, <1>3, <1>4, ConstantsAssumption DEF Kept, IndicatorInv, IndicatorTypes, Servers
  <1>7. TypeOK' /\ IndicatorTypes'
    BY <1>1, <1>2, <1>4, <1>5, OwnForms, WriteTypes DEF IndicatorInv, IndicatorTypes, TypeOK
  <1>8. ControlInv'
    BY <1>2, <1>6 DEF ControlInv
  <1>9. TextInv'
    BY <1>2, <1>4 DEF Kept, TextInv
  <1>10. ServerInv' /\ PutInv'
    BY <1>1, <1>2, <1>4, <1>5, RunningInv DEF Kept, PutInv
  <1>11. faults' = 0 => MarkInv'
    BY <1>1, <1>2, <1>4, <1>5, <1>6 DEF IndicatorInv, CleanInv, MarkInv, Unclaimed, Holds
  <1>12. faults' = 0 => LengthInv'
    BY <1>1, <1>2, <1>4, <1>5, <1>6
       DEF Kept, IndicatorInv, CleanInv, LengthInv, Unclaimed, Holds, Excused
  <1>13. CellInv'
    BY <1>1, <1>2, <1>5, <1>6 DEF CellInv, Holds
  <1>14. faults' = 0 => LeftoverInv'
    BY <1>1, <1>2, <1>4, <1>5, <1>6, LeftoverKept DEF Kept, Excused
  <1>. QED BY <1>4, <1>7, <1>8, <1>9, <1>10, <1>11, <1>12, <1>13, <1>14
         DEF Kept, IndicatorInv, CleanInv

\* A server that is not the one of the ownership gets an install of its own.
LEMMA ServerIdentityStep ==
    ASSUME IndicatorInv, ServerIdentity
    PROVE  IndicatorInv'
  <1>. USE DEF Commands, Restoring, Between, Installing, Reading, Rolling
  <1>1. /\ pc = "identity" /\ server # None /\ server \in Servers
        /\ UNCHANGED <<working, known>>
    BY DEF ServerIdentity, Asks, IndicatorInv, IndicatorTypes, history
  <1>2. UNCHANGED <<server, servers, owner, widened, torn, blurred, unseen, touched, faults,
                    shown>>
    BY DEF ServerIdentity, LoopUnchanged, linger, tmux, history
  <1>3. \/ /\ installed /\ pc' = "loop" /\ ~starting' /\ installed' = installed
           /\ own' = own /\ starting' \in BOOLEAN
        \/ /\ pc' = "readLeft" /\ starting' = starting /\ installed' = FALSE
           /\ own' = [NoOwn EXCEPT !.of = server.id]
           /\ ~installed \/ own.of # server.id
    BY GoesForms DEF ServerIdentity, Answered
  <1>4. [NoOwn EXCEPT !.of = server.id] \in Owns
        /\ [NoOwn EXCEPT !.of = server.id].left = NoOwn.left
        /\ [NoOwn EXCEPT !.of = server.id].of = server.id
    BY <1>1, OwnForms DEF Owns, Servers
  <1>5. own' \in Owns /\ own'.left.marks = 0
    BY <1>3, <1>4, OwnForms
  <1>6. installed' \in BOOLEAN /\ starting' \in BOOLEAN
    BY <1>3, Flags
  <1>7. TypeOK' /\ IndicatorTypes'
    BY <1>1, <1>2, <1>3, <1>5, <1>6, Flags, ReadTypes DEF IndicatorInv, IndicatorTypes, TypeOK
  <1>8. ControlInv'
    BY <1>1, <1>2, <1>3 DEF IndicatorInv, ControlInv
  <1>9. TextInv'
    BY <1>1, <1>2, <1>3 DEF IndicatorInv, TextInv, OwnerTextKept
  <1>10. ServerInv' /\ PutInv'
    <2>1. server.id \in 1..servers /\ servers \in Nat
      BY <1>1 DEF IndicatorInv, IndicatorTypes, CleanInv, ServerInv
    <2>2. CASE own' = own /\ installed /\ installed' = installed /\ pc' = "loop"
      BY <1>1, <1>2, <2>2, RunningInv DEF PutInv
    <2>3. CASE pc' = "readLeft" /\ own' = [NoOwn EXCEPT !.of = server.id]
               /\ installed' = FALSE
      <3>1. own'.of = server.id /\ server.id <= servers /\ server.id # 0
        BY <1>4, <2>1, <2>3
      <3>. QED BY <1>2, <2>1, <2>3, <3>1 DEF ServerInv, PutInv
    <2>. QED BY <1>3, <2>2, <2>3
  <1>11. faults' = 0 => MarkInv' /\ LengthInv' /\ CellInv'
    <2>1. CASE pc' = "readLeft"
      BY <1>1, <1>2, <2>1
         DEF IndicatorInv, CleanInv, MarkInv, LengthInv, CellInv, Unclaimed, Excused
    <2>2. CASE pc' # "readLeft"
      <3>1. ~starting /\ installed /\ own' = own /\ pc' = "loop" /\ installed'
            /\ Written' = Written
        BY <1>3, <2>2 DEF IndicatorInv, ControlInv, Written
      <3>. QED BY <1>1, <1>2, <3>1
             DEF IndicatorInv, CleanInv, MarkInv, LengthInv, CellInv, Unclaimed, Holds,
                 Excused
    <2>. QED BY <2>1, <2>2
  <1>12. faults' = 0 => LeftoverInv'
    <2>1. CASE pc' = "loop"
      BY <1>1, <1>2, <1>3, <2>1, LeftoverKept DEF Excused
    <2>2. CASE pc' # "loop"
      <3>1. own.of # server.id
        BY <1>1, <1>3, <2>2 DEF IndicatorInv, CleanInv, ServerInv
      <3>. QED BY <1>1, <1>2, <1>3, <1>4, <2>2, <3>1
             DEF IndicatorInv, CleanInv, LeftoverInv, Leftover, Excused
    <2>. QED BY <2>1, <2>2
  <1>. QED BY <1>1, <1>2, <1>7, <1>8, <1>9, <1>10, <1>11, <1>12 DEF IndicatorInv, CleanInv

----------------------------------------------------------------------------
(* The restore *)

\* What a read of the restore leaves as it was.
LEMMA RestoreReadForms ==
    ASSUME IndicatorInv, pc \in Restoring, NEW option \in {"left", "len", "cell"},
           server # None, Reads(option), UNCHANGED indicator,
           NEW to \in Restoring \cup {"restored"}, Goes(to)
    PROVE  /\ installed /\ installed' = installed /\ ~starting /\ ~starting' /\ pc' = to
           /\ UNCHANGED <<own, server, servers, owner, widened, torn, blurred, unseen, touched,
                          faults>>
           /\ known' \in Known /\ TypeOK' /\ IndicatorTypes' /\ ControlInv' /\ ServerInv'
           /\ faults = 0 => LeftoverInv'
  <1>. USE DEF Commands, Restoring, Between, Installing, Reading, Rolling
  <1>1. /\ installed /\ ~starting /\ installed' = installed /\ UNCHANGED <<own, working>>
    BY DEF IndicatorInv, ControlInv, indicator
  <1>2. pc' = to /\ starting' = starting
    BY GoesForms
  <1>3. /\ server \in Servers /\ Learns(option, server[option])
        /\ UNCHANGED <<server, servers, owner, widened, torn, blurred, unseen, touched,
                       faults, shown>>
    BY ReadForms
  <1>4. known' \in Known
    <2>1. Unknown \in Known
      BY ConstantsAssumption DEF Unknown, Known, NoOwn, Plain, Lefts, Cells
    <2>2. CASE option = "left"
      BY <1>3, <2>1, <2>2, LearnsForms, Flags DEF Known, Servers
    <2>3. CASE option = "len"
      BY <1>3, <2>1, <2>3, LearnsForms, Flags DEF Known, Servers
    <2>4. CASE option = "cell"
      BY <1>3, <2>1, <2>4, LearnsForms, Flags DEF Known, Servers
    <2>. QED BY <2>2, <2>3, <2>4
  <1>5. TypeOK' /\ IndicatorTypes'
    BY <1>1, <1>2, <1>3, <1>4, Flags, OwnForms, ReadTypes
       DEF IndicatorInv, IndicatorTypes, TypeOK
  <1>6. ControlInv'
    BY <1>1, <1>2, <1>3 DEF IndicatorInv, ControlInv
  <1>7. ServerInv'
    BY <1>1, <1>2, <1>3, RunningInv
  <1>8. faults = 0 => LeftoverInv'
    BY <1>1, <1>2, <1>3, LeftoverKept DEF Excused
  <1>. QED BY <1>1, <1>2, <1>3, <1>4, <1>5, <1>6, <1>7, <1>8

\* What is on the server in a restore, if nothing has gone wrong.
LEMMA RestoreForms ==
    ASSUME IndicatorInv, pc \in Restoring, server # None, faults = 0
    PROVE  /\ \/ server.left.marks = 0 \/ touched \/ unseen
              \/ server.left = Written /\ pc \in {"restoreLeft", "putLeft"}
           /\ \/ Excused
              \/ /\ server.len = IF widened THEN owner.len + 1 ELSE owner.len
                 /\ \/ ~widened
                    \/ /\ own.len = owner.len
                       /\ pc \in {"restoreLeft", "putLeft", "restoreLength", "putLength"}
           /\ server.cell = "absent" \/ (own.owned /\ server.cell = own.wcell)
  <1>. USE DEF Commands, Restoring, Between, Installing, Reading, Rolling
  <1>1. ~starting
    BY DEF IndicatorInv, ControlInv
  <1>. QED BY <1>1 DEF IndicatorInv, CleanInv, MarkInv, LengthInv, CellInv, Unclaimed, Holds

\* The restore reads each option before it writes it.
LEMMA RestoreReadStep ==
    ASSUME IndicatorInv,
           \/ RestoreRead("restoreLeft", "left", LeftIsOurs, "putLeft", "restoreLength")
           \/ RestoreRead("restoreLength", "len", LengthIsOurs, "putLength", AfterLength)
           \/ RestoreRead("restoreCell", "cell", server.cell = own.wcell, "putCell", "restored")
    PROVE  IndicatorInv'
  <1>. USE DEF Commands, Restoring, Between, Installing, Reading, Rolling
  <1>1. CASE RestoreRead("restoreLeft", "left", LeftIsOurs, "putLeft", "restoreLength")
    <2>1. /\ pc = "restoreLeft" /\ server # None /\ Reads("left")
          /\ UNCHANGED indicator
          /\ Goes(IF LeftIsOurs THEN "putLeft" ELSE "restoreLength")
      BY <1>1 DEF RestoreRead, Asks
    <2>2. /\ installed' /\ pc' = IF LeftIsOurs THEN "putLeft" ELSE "restoreLength"
          /\ UNCHANGED <<own, server, servers, owner, widened, torn, blurred, unseen, touched,
                         faults>>
          /\ TypeOK' /\ IndicatorTypes' /\ ControlInv' /\ ServerInv'
          /\ faults = 0 => LeftoverInv'
      BY <2>1, RestoreReadForms
    <2>3. known' = [known EXCEPT !.left = server.left]
      BY <2>1, <2>2, ReadForms, LearnsForms
    <2>4. TextInv'
      <3>1. pc' = "putLeft" => own'.left.text = known'.left.text
        BY <2>2, <2>3, OwnForms, Flags DEF LeftIsOurs, Known
      <3>2. OwnerTextKept'
        BY <2>2 DEF IndicatorInv, TextInv, OwnerTextKept
      <3>. QED BY <2>2, <3>1, <3>2 DEF TextInv
    <2>5. PutInv'
      BY <2>2 DEF PutInv
    <2>6. faults' = 0 => MarkInv' /\ LengthInv' /\ CellInv'
      BY <2>1, <2>2, RestoreForms DEF MarkInv, LengthInv, CellInv, Holds, Excused,
                                      LeftIsOurs, Written
    <2>. QED BY <2>2, <2>4, <2>5, <2>6 DEF IndicatorInv, CleanInv
  <1>2. CASE RestoreRead("restoreLength", "len", LengthIsOurs, "putLength", AfterLength)
    <2>1. /\ pc = "restoreLength" /\ server # None /\ Reads("len")
          /\ UNCHANGED indicator
          /\ Goes(IF LengthIsOurs THEN "putLength" ELSE AfterLength)
      BY <1>2 DEF RestoreRead, Asks
    <2>2. /\ installed' /\ pc' = IF LengthIsOurs THEN "putLength" ELSE AfterLength
          /\ UNCHANGED <<own, server, servers, owner, widened, torn, blurred, unseen, touched,
                         faults>>
          /\ TypeOK' /\ IndicatorTypes' /\ ControlInv' /\ ServerInv'
          /\ faults = 0 => LeftoverInv'
      BY <2>1, RestoreReadForms DEF AfterLength
    <2>3. pc' = "putLength" => known' = [known EXCEPT !.len = server.len]
      BY <2>1, <2>2, ReadForms, LearnsForms
    <2>4. TextInv'
      BY <2>2 DEF AfterLength, IndicatorInv, TextInv, OwnerTextKept
    <2>5. PutInv'
      <3>1. pc' = "putLength" => LengthIsOurs
        BY <2>2 DEF AfterLength
      <3>. QED BY <2>2, <2>3, <3>1, Flags DEF AfterLength, PutInv, LengthIsOurs, Known
    <2>6. faults' = 0 => MarkInv' /\ LengthInv'
      BY <2>1, <2>2, RestoreForms DEF MarkInv, LengthInv, Holds, Excused, LengthIsOurs, AfterLength
    <2>7. faults' = 0 => CellInv'
      BY <2>1, <2>2, RestoreForms DEF CellInv, Holds, AfterLength
    <2>. QED BY <2>2, <2>4, <2>5, <2>6, <2>7 DEF IndicatorInv, CleanInv
  <1>3. CASE RestoreRead("restoreCell", "cell", server.cell = own.wcell, "putCell", "restored")
    <2>1. /\ pc = "restoreCell" /\ server # None /\ Reads("cell")
          /\ UNCHANGED indicator
          /\ Goes(IF server.cell = own.wcell THEN "putCell" ELSE "restored")
      BY <1>3 DEF RestoreRead, Asks
    <2>2. /\ installed' /\ pc' = IF server.cell = own.wcell THEN "putCell" ELSE "restored"
          /\ UNCHANGED <<own, server, servers, owner, widened, torn, blurred, unseen, touched,
                         faults>>
          /\ TypeOK' /\ IndicatorTypes' /\ ControlInv' /\ ServerInv'
          /\ faults = 0 => LeftoverInv'
      BY <2>1, RestoreReadForms
    <2>3. TextInv' /\ PutInv'
      BY <2>2 DEF IndicatorInv, TextInv, OwnerTextKept, PutInv
    <2>4. faults' = 0 => MarkInv' /\ LengthInv' /\ CellInv'
      BY <2>1, <2>2, RestoreForms DEF MarkInv, LengthInv, CellInv, Holds, Excused
    <2>. QED BY <2>2, <2>3, <2>4 DEF IndicatorInv, CleanInv
  <1>. QED BY <1>1, <1>2, <1>3

\* The restore writes back what it recognized.
LEMMA RestoreWriteStep ==
    ASSUME IndicatorInv,
           \/ RestoreWrite("putLeft", "left", own.left, "restoreLength")
           \/ RestoreWrite("putLength", "len", own.len, AfterLength)
           \/ RestoreWrite("putCell", "cell", "absent", "restored")
    PROVE  IndicatorInv'
  <1>. USE DEF Commands, Restoring, Between, Installing, Reading, Rolling
  <1>0. PICK at \in {"putLeft", "putLength", "putCell"},
             to \in {"restoreLength", "restoreCell", "restored"} :
          /\ pc = at /\ server # None /\ Goes(to) /\ UNCHANGED <<indicator, faults>>
          /\ at = "putLeft" => to = "restoreLength" /\ Puts("left", own.left)
          /\ at = "putLength" => to = AfterLength /\ Puts("len", own.len)
          /\ at = "putCell" => to = "restored" /\ Puts("cell", "absent")
    BY DEF RestoreWrite, Asks, Writes, AfterLength
  <1>1. /\ installed /\ ~starting /\ pc' = to /\ starting' = starting
        /\ installed' = installed /\ UNCHANGED <<own, working>>
    BY <1>0, GoesForms DEF IndicatorInv, ControlInv, indicator
  <1>3. at = "putLeft" => own.left.text = known.left.text
    BY <1>0 DEF IndicatorInv, TextInv
  <1>4. Kept
    <2>1. CASE at = "putLeft"
      BY <1>0, <1>3, <2>1, OwnForms, PutLeftKeeps
    <2>2. CASE at = "putLength"
      BY <1>0, <2>2, PutLengthKeeps
    <2>3. CASE at = "putCell"
      BY <1>0, <2>3, PutCellKeeps DEF Cells
    <2>. QED BY <2>1, <2>2, <2>3
  <1>5. TypeOK' /\ IndicatorTypes'
    BY <1>0, <1>1, <1>4, Flags, OwnForms, WriteTypes DEF IndicatorInv, IndicatorTypes, TypeOK
  <1>6. ControlInv'
    BY <1>0, <1>1, <1>4, ConstantsAssumption DEF Kept, ControlInv
  <1>7. TextInv'
    BY <1>0, <1>1, <1>4 DEF Kept, TextInv
  <1>8. ServerInv' /\ PutInv'
    BY <1>0, <1>1, <1>4, RunningInv DEF Kept, PutInv
  <1>9. server \in Servers
    BY <1>0 DEF IndicatorInv, IndicatorTypes
  <1>10. ASSUME faults = 0
         PROVE  MarkInv' /\ LengthInv' /\ LeftoverInv' /\ CellInv'
    <2>0. /\ Excused => Excused'
          /\ Excused \/ (own.of # server.id => ~widened /\ server.left.marks = 0)
      <3>1. /\ own.of # 0 /\ server.left.marks \in Nat
        BY <1>1, <1>9 DEF IndicatorInv, CleanInv, ServerInv, Servers, Lefts
      <3>2. LeftoverInv
        BY <1>0, <1>10 DEF IndicatorInv, CleanInv
      <3>. QED BY <1>4, <3>1, <3>2 DEF Kept, Excused, LeftoverInv, Leftover
    <2>1. CASE at = "putLeft"
      <3>1. server' = [server EXCEPT !.left = own.left] /\ UNCHANGED widened
        BY <1>0, <1>3, <2>1, OwnForms, PutLeftKeeps
      <3>2. /\ server'.left = own.left /\ server'.len = server.len
            /\ server'.cell = server.cell
        BY <1>9, <3>1 DEF Servers
      <3>3. MarkInv'
        BY <3>2, OwnForms DEF MarkInv
      <3>4. LengthInv' /\ CellInv'
        BY <1>0, <1>1, <1>4, <1>10, <2>1, <3>1, <3>2, RestoreForms
           DEF Kept, LengthInv, CellInv, Holds, Excused
      <3>5. LeftoverInv'
        <4>1. CASE Excused
          BY <2>0, <4>1 DEF LeftoverInv
        <4>2. CASE ~Excused
          BY <1>0, <1>1, <1>4, <1>10, <2>0, <2>1, <3>1, <3>2, <4>2, OwnForms, LeftoverKept
             DEF Kept
        <4>. QED BY <4>1, <4>2
      <3>. QED BY <3>3, <3>4, <3>5
    <2>2. CASE at = "putLength"
      <3>1. /\ server' = [server EXCEPT !.len = own.len] /\ UNCHANGED touched
            /\ widened' <=> own.len = own.len + 1
            /\ ~unseen' => server.len = known.len
        BY <1>0, <2>2, PutLengthKeeps
      <3>2. /\ server'.left = server.left /\ server'.len = own.len
            /\ server'.cell = server.cell /\ ~widened' /\ widened' \in BOOLEAN
        BY <1>4, <1>9, <3>1, OwnForms DEF Kept, Servers
      <3>3. MarkInv'
        BY <1>0, <1>4, <1>10, <2>2, <3>1, <3>2, RestoreForms DEF Kept, MarkInv
      <3>4. LengthInv'
        <4>1. SUFFICES ASSUME ~Excused'
                       PROVE  own.len = owner.len
          BY <1>1, <1>4, <3>2 DEF Kept, LengthInv
        <4>2. server.len = own.len + 1
          BY <1>0, <2>2, <3>1, <4>1 DEF IndicatorInv, CleanInv, PutInv, Excused
        <4>3. ~Excused /\ widened
          BY <1>0, <1>4, <2>0, <2>2, <4>1, <4>2 DEF Kept, Excused, Mistakes
        <4>. QED BY <1>0, <1>10, <4>3, RestoreForms
      <3>5. CellInv'
        BY <1>0, <1>1, <1>10, <2>2, <3>2, RestoreForms DEF CellInv, Holds, AfterLength
      <3>6. LeftoverInv'
        <4>1. CASE Excused
          BY <2>0, <4>1 DEF LeftoverInv
        <4>2. CASE ~Excused
          BY <1>0, <1>1, <1>4, <1>10, <2>0, <2>2, <3>2, <4>2, LeftoverKept
             DEF Kept, AfterLength
        <4>. QED BY <4>1, <4>2
      <3>. QED BY <3>3, <3>4, <3>5, <3>6
    <2>3. CASE at = "putCell"
      <3>1. /\ server' = [server EXCEPT !.cell = "absent"]
            /\ UNCHANGED <<touched, widened, unseen>>
        BY <1>0, <2>3, PutCellKeeps DEF Cells
      <3>2. /\ server'.left = server.left /\ server'.len = server.len
            /\ server'.cell = "absent"
        BY <1>9, <3>1 DEF Servers
      <3>3. MarkInv' /\ LengthInv'
        BY <1>0, <1>4, <1>10, <2>3, <3>1, <3>2, RestoreForms
           DEF Kept, MarkInv, LengthInv, Excused
      <3>4. LeftoverInv'
        BY <1>0, <1>1, <1>4, <1>10, <2>0, <2>3, <3>1, <3>2, LeftoverKept DEF Kept
      <3>. QED BY <3>2, <3>3, <3>4 DEF CellInv
    <2>. QED BY <2>1, <2>2, <2>3
  <1>. QED BY <1>0, <1>4, <1>5, <1>6, <1>7, <1>8, <1>10 DEF Kept, IndicatorInv, CleanInv

----------------------------------------------------------------------------
(* A command that fails *)

\* A failed command that did nothing.
LEMMA UntoldForms ==
    ASSUME IndicatorInv, Untold
    PROVE  /\ UNCHANGED <<server, servers, owner, widened, torn, blurred, unseen, touched, shown>>
           /\ known' \in Known /\ (pc' \notin Between => known' = known)
           /\ OwnerTextKept'
  <1>1. UNCHANGED <<server, servers, owner, widened, torn, blurred, unseen, touched, shown>>
    BY DEF Untold, tmux, LoopUnchanged, linger
  <1>2. Unknown \in Known
    BY ConstantsAssumption DEF Unknown, Known, NoOwn, Plain, Lefts, Cells
  <1>3. known' = IF pc' \in Between THEN Unknown ELSE known
    BY DEF Untold
  <1>4. OwnerTextKept'
    BY <1>1 DEF IndicatorInv, TextInv, OwnerTextKept
  <1>. QED BY <1>1, <1>2, <1>3, <1>4, Flags

\* Going on with the restore.
LEMMA SkipsOnForms ==
    ASSUME IndicatorInv, pc \in Restoring, SkipsOn
    PROVE  /\ pc' \in {"restoreLength", "restoreCell", "restored"}
           /\ installed /\ ~starting /\ starting' = FALSE
  <1>. USE DEF Commands, Restoring, Between, Installing, Reading, Rolling
  <1>1. installed /\ ~starting /\ starting = FALSE
    BY Flags DEF IndicatorInv, ControlInv
  <1>2. PICK to : Goes(to) /\ to \in {"restoreLength", "restoreCell", "restored"}
    <2>1. CASE pc \in {"restoreLeft", "putLeft"}
      BY <2>1 DEF SkipsOn
    <2>2. CASE pc \in {"restoreLength", "putLength"}
      BY <2>2 DEF SkipsOn, AfterLength
    <2>3. CASE pc \in {"restoreCell", "putCell"}
      BY <2>3 DEF SkipsOn
    <2>. QED BY <2>1, <2>2, <2>3
  <1>. QED BY <1>1, <1>2, GoesForms

\* No server: an install is dropped, a rollback fails, a restore skips on.
LEMMA NoServerStep ==
    ASSUME IndicatorInv, NoServer
    PROVE  IndicatorInv'
  <1>. USE DEF Commands, Restoring, Between, Installing, Reading, Rolling
  <1>1. /\ UNCHANGED <<server, servers, owner, widened, torn, blurred, unseen, touched, shown>>
        /\ known' \in Known /\ (pc' \notin Between => known' = known)
        /\ OwnerTextKept'
    BY UntoldForms DEF NoServer
  <1>2. server = None /\ server' = None /\ ~widened' /\ UNCHANGED <<working, faults>>
    BY <1>1 DEF NoServer, IndicatorInv, ControlInv
  <1>3. \/ /\ pc' \in {"off", "loop"} /\ starting' = FALSE /\ installed' = FALSE /\ own' = NoOwn
        \/ /\ pc' \in {"restoreLength", "restoreCell", "restored"} /\ starting' = FALSE
           /\ installed /\ installed' = installed /\ own' = own
    <2>1. CASE pc \in {"rollLength", "rollLeft"} /\ Fails /\ Dropped
      BY <2>1 DEF Fails, Dropped
    <2>2. CASE pc \in Commands \ {"rollLength", "rollLeft"} /\ Goes("loop") /\ Dropped
      BY <2>2 DEF Goes, Dropped
    <2>3. CASE pc = "restoreLeft" /\ Goes("restored") /\ UNCHANGED <<installed, own>>
      BY <2>3, GoesForms, Flags DEF IndicatorInv, ControlInv
    <2>4. CASE pc \in Restoring \ {"restoreLeft"} /\ SkipsOn /\ UNCHANGED <<installed, own>>
      BY <2>4, SkipsOnForms
    <2>. QED BY <2>1, <2>2, <2>3, <2>4 DEF NoServer
  <1>4. own' \in Owns /\ own'.left.marks = 0
    BY <1>3, OwnForms
  <1>5. installed' \in BOOLEAN
    BY <1>3, Flags
  <1>6. TypeOK' /\ IndicatorTypes'
    BY <1>1, <1>2, <1>3, <1>4, <1>5, Flags, ReadTypes DEF IndicatorInv, IndicatorTypes, TypeOK
  <1>7. ControlInv'
    BY <1>2, <1>3 DEF ControlInv
  <1>8. TextInv'
    BY <1>1, <1>3 DEF TextInv
  <1>9. ServerInv' /\ PutInv'
    BY <1>1, <1>2, <1>3, RunningInv, DroppedInv DEF PutInv
  <1>. QED BY <1>1, <1>2, <1>6, <1>7, <1>8, <1>9 DEF IndicatorInv, CleanInv

\* A failed command that may have written its option.
LEMMA FaultForms ==
    ASSUME IndicatorInv, server # None, Given(pc) \/ Untold
    PROVE  /\ server' \in Servers /\ server'.id = server.id /\ known' \in Known
           /\ torn' \in BOOLEAN /\ blurred' \in BOOLEAN
           /\ unseen' \in BOOLEAN /\ touched' \in BOOLEAN /\ widened' \in BOOLEAN
           /\ UNCHANGED <<servers, owner, shown>>
           /\ OwnerTextKept'
           /\ pc' \notin Between /\ pc \in {"writeLength", "writeCell"} =>
                 known'.left = known.left
  <1>. USE DEF Commands, Restoring, Between, Installing, Reading, Rolling
  <1>1. CASE Untold
    BY <1>1, UntoldForms, Flags DEF IndicatorInv, IndicatorTypes
  <1>2. CASE Given(pc)
    <2>2. pc \in {"writeLeft", "rollLeft", "putLeft"} => own.left.text = known.left.text
      BY DEF IndicatorInv, TextInv
    <2>3. CASE pc = "writeLeft"
      <3>1. Puts("left", Written)
        BY <1>2, <2>3 DEF Given
      <3>. QED BY <2>2, <2>3, <3>1, OwnForms, PutLeftKeeps DEF Kept
    <2>4. CASE pc \in {"rollLeft", "putLeft"}
      <3>1. Puts("left", own.left)
        BY <1>2, <2>4 DEF Given
      <3>. QED BY <2>2, <2>4, <3>1, OwnForms, PutLeftKeeps DEF Kept
    <2>5. CASE pc = "writeLength"
      <3>1. Puts("len", own.len + 1)
        BY <1>2, <2>5 DEF Given
      <3>. QED BY <2>5, <3>1, PutLengthKeeps DEF Kept
    <2>6. CASE pc \in {"rollLength", "putLength"}
      <3>1. Puts("len", own.len)
        BY <1>2, <2>6 DEF Given
      <3>. QED BY <2>6, <3>1, PutLengthKeeps DEF Kept
    <2>7. CASE pc \in {"writeCell", "writeUpdate", "putCell"}
      <3>1. PICK v \in Cells : Puts("cell", v)
        BY <1>2, <2>7 DEF Given, Cells, Cell
      <3>. QED BY <2>7, <3>1, PutCellKeeps DEF Kept
    <2>8. pc \in {"writeLeft", "rollLeft", "putLeft", "writeLength", "rollLength", "putLength",
                  "writeCell", "writeUpdate", "putCell"}
      BY <1>2 DEF Given, IndicatorInv, TypeOK
    <2>. QED BY <2>3, <2>4, <2>5, <2>6, <2>7, <2>8
  <1>. QED BY <1>1, <1>2

\* Any other error.
LEMMA FaultStep ==
    ASSUME IndicatorInv, Fault
    PROVE  IndicatorInv'
  <1>. USE DEF Commands, Restoring, Between, Installing, Reading, Rolling
  <1>1. server # None /\ pc \in Commands \cup Restoring /\ UNCHANGED working
    BY DEF Fault
  <1>2. faults' \in Nat /\ faults' > 0
    BY DEF Fault, IndicatorInv, IndicatorTypes
  <1>3. /\ server' \in Servers /\ server'.id = server.id /\ known' \in Known
        /\ torn' \in BOOLEAN /\ blurred' \in BOOLEAN
        /\ unseen' \in BOOLEAN /\ touched' \in BOOLEAN /\ widened' \in BOOLEAN
        /\ UNCHANGED <<servers, owner, shown>>
        /\ OwnerTextKept'
        /\ pc' \notin Between /\ pc \in {"writeLength", "writeCell"} => known'.left = known.left
    BY <1>1, FaultForms DEF Fault
  <1>4. \/ /\ pc' \in {"restoreLength", "restoreCell", "restored"} /\ starting' = FALSE
           /\ installed /\ installed' = installed /\ own' = own
        \/ /\ pc \in {"writeLength", "writeCell"} /\ pc' \in {"rollLength", "rollLeft"}
           /\ starting' = starting /\ installed' = installed /\ ~installed /\ own' = own
        \/ /\ pc' \in {"off", "loop"} /\ starting' = FALSE
           /\ pc' = "off" => starting
           /\ \/ installed /\ installed' = installed /\ own' = own
              \/ installed' = FALSE /\ own' = NoOwn
    <2>1. CASE pc \in Restoring
      <3>1. SkipsOn /\ UNCHANGED <<installed, own>>
        BY <2>1 DEF Fault
      <3>. QED BY <2>1, <3>1, SkipsOnForms
    <2>2. CASE pc = "writeLength"
      <3>1. Goes("rollLeft") /\ UNCHANGED <<installed, own>>
        BY <2>2 DEF Fault
      <3>. QED BY <2>2, <3>1, GoesForms DEF IndicatorInv, ControlInv
    <2>3. CASE pc = "writeCell"
      <3>1. Goes("rollLength") /\ UNCHANGED <<installed, own>>
        BY <2>3 DEF Fault
      <3>. QED BY <2>3, <3>1, GoesForms DEF IndicatorInv, ControlInv
    <2>4. CASE pc \notin Restoring \cup {"writeLength", "writeCell"}
      <3>1. Fails /\ IF installed THEN UNCHANGED <<installed, own>> ELSE Dropped
        BY <2>4 DEF Fault
      <3>. QED BY <3>1 DEF Fails, Dropped
    <2>. QED BY <2>1, <2>2, <2>3, <2>4
  <1>5. own' \in Owns /\ own'.left.marks = 0
    BY <1>4, OwnForms
  <1>6. installed' \in BOOLEAN /\ starting' \in BOOLEAN
    BY <1>4, Flags
  <1>7. TypeOK' /\ IndicatorTypes'
    <2>1. TypeOK'
      BY <1>1, <1>3, <1>4, <1>6 DEF IndicatorInv, TypeOK
    <2>3. {installed', starting', widened', torn', blurred', unseen', touched'} \subseteq BOOLEAN
      BY <1>3, <1>6
    <2>4. pc' \in Commands \cup Restoring \cup {"off", "loop", "restored"}
      BY <1>4
    <2>5. servers' \in Nat /\ owner' \in [text : Texts, len : Nat]
      BY <1>3 DEF IndicatorInv, IndicatorTypes
    <2>. QED BY <1>2, <1>3, <1>5, <2>1, <2>3, <2>4, <2>5 DEF IndicatorTypes
  <1>8. ControlInv'
    <2>1. server' # None
      BY <1>3, ConstantsAssumption
    <2>2. starting => ~installed
      BY DEF IndicatorInv, ControlInv
    <2>. QED BY <1>2, <1>4, <2>1, <2>2 DEF ControlInv
  <1>9. TextInv'
    <2>1. pc \in {"writeLength", "writeCell"} => own.left.text = known.left.text
      BY DEF IndicatorInv, TextInv
    <2>. QED BY <1>3, <1>4, <2>1 DEF TextInv
  <1>10. ServerInv'
    <2>1. CASE installed /\ installed' = installed /\ own' = own
      BY <1>1, <1>3, <2>1, RunningInv
    <2>2. CASE pc \in {"writeLength", "writeCell"} /\ own' = own
               /\ pc' \in {"rollLength", "rollLeft"}
      BY <1>1, <1>3, <2>2, RunningInv
    <2>3. CASE pc' \in {"off", "loop"} /\ installed' = FALSE /\ own' = NoOwn
      BY <1>1, <1>3, <2>3, DroppedInv
    <2>. QED BY <1>4, <2>1, <2>2, <2>3
  <1>11. faults' # 0 /\ PutInv'
    BY <1>2, <1>4 DEF PutInv
  <1>. QED BY <1>3, <1>7, <1>8, <1>9, <1>10, <1>11 DEF IndicatorInv, CleanInv

\* A refused read of the cell gives the cell up.
LEMMA CellRefusedStep ==
    ASSUME IndicatorInv, CellRefused
    PROVE  IndicatorInv'
  <1>. USE DEF Commands, Restoring, Between, Installing, Reading, Rolling
  <1>1. pc = "readUpdate" /\ server # None /\ UNCHANGED working
    BY DEF CellRefused, Asks
  <1>2. pc' = "loop" /\ ~starting' /\ starting' \in BOOLEAN /\ installed' = TRUE
    BY GoesForms DEF CellRefused, Updated
  <1>3. faults' \in Nat /\ faults' > 0
    BY DEF CellRefused, IndicatorInv, IndicatorTypes
  <1>4. own' = [own EXCEPT !.owned = FALSE]
    BY DEF CellRefused
  <1>5. own' \in Owns /\ own'.left = own.left /\ own'.of = own.of
    BY <1>4, OwnForms DEF Owns
  <1>6. /\ UNCHANGED <<server, servers, owner, widened, torn, blurred, unseen, touched, shown>>
        /\ known' \in Known /\ OwnerTextKept'
    BY UntoldForms DEF CellRefused
  <1>7. TypeOK' /\ IndicatorTypes'
    BY <1>1, <1>2, <1>3, <1>5, <1>6, Flags, OwnForms, ReadTypes
       DEF IndicatorInv, IndicatorTypes, TypeOK
  <1>8. ControlInv'
    BY <1>1, <1>2, <1>6 DEF ControlInv
  <1>9. TextInv'
    BY <1>2, <1>6 DEF TextInv
  <1>10. ServerInv' /\ PutInv'
    BY <1>1, <1>2, <1>5, <1>6, RunningInv DEF PutInv
  <1>11. faults' # 0
    BY <1>3
  <1>. QED BY <1>6, <1>7, <1>8, <1>9, <1>10, <1>11 DEF IndicatorInv, CleanInv

----------------------------------------------------------------------------
(* The select, and the run *)

ActivityInv == activity \in {"working", "idle"}

\* Where the select goes from the loop.
LEMMA LoopMove ==
    ASSUME IndicatorInv, pc = "loop", starting' = FALSE,
           UNCHANGED <<server, servers, owner, widened, torn, blurred, unseen, touched, known,
                       installed, own, faults>>,
           working' \in BOOLEAN, shown' \in {None, "idle", "working"},
           pc' \in {"loop", "identity", "readUpdate", "restoreLeft", "restored"},
           pc' \in {"readUpdate", "restoreLeft"} => installed,
           pc' = "restored" => ~installed
    PROVE  IndicatorInv'
  <1>. USE DEF Commands, Restoring, Between, Installing, Reading, Rolling
  <1>1. ~starting
    BY DEF IndicatorInv, ControlInv
  <1>2. TypeOK'
    BY DEF IndicatorInv, TypeOK
  <1>3. IndicatorTypes'
    <2>1. installed' \in BOOLEAN /\ widened' \in BOOLEAN /\ torn' \in BOOLEAN
          /\ blurred' \in BOOLEAN
          /\ unseen' \in BOOLEAN /\ touched' \in BOOLEAN
      BY Flags
    <2>2. {installed', starting', widened', torn', blurred', unseen', touched'} \subseteq BOOLEAN
      BY <2>1
    <2>. QED BY <2>2 DEF IndicatorInv, IndicatorTypes
  <1>4. ControlInv'
    BY <1>1 DEF IndicatorInv, ControlInv
  <1>5. TextInv'
    BY DEF IndicatorInv, TextInv, OwnerTextKept
  <1>6. PutInv'
    BY DEF PutInv
  <1>7. ServerInv'
    BY DEF IndicatorInv, CleanInv, ServerInv
  <1>8. ASSUME server # None, faults = 0
        PROVE  MarkInv' /\ LengthInv' /\ LeftoverInv' /\ CellInv'
    <2>1. MarkInv /\ LengthInv /\ CellInv /\ ~Unclaimed
      BY <1>1, <1>8 DEF IndicatorInv, CleanInv, Unclaimed
    <2>2. MarkInv'
      BY <2>1 DEF MarkInv, Holds, Written
    <2>3. LengthInv'
      BY <2>1 DEF LengthInv, Holds, Excused
    <2>4. CellInv'
      BY <2>1 DEF CellInv, Holds
    <2>5. LeftoverInv'
      BY <1>8, LeftoverKept DEF Excused
    <2>. QED BY <2>2, <2>3, <2>4, <2>5
  <1>. QED BY <1>2, <1>3, <1>4, <1>5, <1>6, <1>7, <1>8 DEF IndicatorInv, CleanInv

\* The branches of the select.
LEMMA SelectStep ==
    ASSUME IndicatorInv, ActivityInv, Observe \/ LingerEnds \/ Refresh \/ Stop \/ SyncTask
    PROVE  IndicatorInv'
  <1>. USE DEF Commands, Restoring
  <1>1. pc = "loop" /\ starting = FALSE
    <2>1. pc = "loop"
      BY DEF Observe, LingerEnds, Refresh, Stop, SyncTask
    <2>. QED BY <2>1, Flags DEF IndicatorInv, ControlInv
  <1>2. working \in BOOLEAN /\ shown \in {None, "idle", "working"}
    BY DEF IndicatorInv, TypeOK
  <1>3. UNCHANGED <<server, servers, owner, widened, torn, blurred, unseen, touched, known,
                    installed, own, faults>>
    BY DEF Observe, LingerEnds, Refresh, Stop, SyncTask, SelectUnchanged, tmux, history,
       bounds, indicator
  <1>4. \A a \in {"working", "idle"} : ShowActivity(a) =>
           /\ working' \in BOOLEAN /\ starting' = FALSE
           /\ pc' \in {"loop", "readUpdate"} /\ (pc' = "readUpdate" => installed)
    BY <1>1 DEF ShowActivity, set_working, Goes
  <1>5. CASE Observe
    <2>1. CASE Lingers
      BY <1>1, <1>2, <1>3, <1>5, <2>1, LoopMove DEF Observe, control
    <2>2. CASE ~Lingers /\ shown = activity
      BY <1>1, <1>2, <1>3, <1>5, <2>2, LoopMove DEF Observe, control, ActivityInv
    <2>3. CASE ~Lingers /\ shown # activity
      BY <1>1, <1>2, <1>3, <1>4, <1>5, <2>3, LoopMove DEF Observe, ActivityInv
    <2>. QED BY <2>1, <2>2, <2>3
  <1>6. CASE LingerEnds
    BY <1>1, <1>2, <1>3, <1>4, <1>6, LoopMove DEF LingerEnds
  <1>7. CASE Refresh
    BY <1>1, <1>2, <1>3, <1>7, LoopMove DEF Refresh, Goes, linger
  <1>8. CASE Stop
    <2>1. pc' = (IF installed THEN "restoreLeft" ELSE "restored") /\ starting' = FALSE
          /\ working' = working /\ shown' = shown
      BY <1>1, <1>8 DEF Stop, Goes, linger
    <2>. QED BY <1>1, <1>2, <1>3, <2>1, LoopMove
  <1>9. CASE SyncTask
    BY <1>1, <1>2, <1>3, <1>9, LoopMove DEF SyncTask, control, indicator, linger
  <1>. QED BY <1>5, <1>6, <1>7, <1>8, <1>9

\* The start of a run, and its end: killed, or gone.
LEMMA RunStep ==
    ASSUME IndicatorInv, Start \/ Ends
    PROVE  IndicatorInv'
  <1>. USE DEF Commands, Restoring, Between, Installing, Reading, Rolling
  <1>1. /\ UNCHANGED <<server, servers, owner, widened, blurred, unseen, touched, faults>>
        /\ torn' \in BOOLEAN /\ (torn => torn')
    <2>1. CASE Start
      BY <2>1, Flags DEF Start, tmux, history
    <2>2. CASE Ends
      <3>1. UNCHANGED <<server, servers, owner, widened, blurred, unseen, touched, faults>>
        BY <2>2 DEF Ends, tmux, bounds
      <3>2. torn' = (torn \/ (server # None /\ (server.left.marks > 0) # widened))
        BY <2>2 DEF Ends
      <3>. QED BY <3>1, <3>2, Flags
    <2>. QED BY <2>1, <2>2
  <1>2. \/ /\ pc = "off" /\ pc' = "identity" /\ starting' = TRUE
           /\ installed' = installed /\ own' = own /\ known' = known
           /\ working' = working /\ shown' = shown /\ torn' = torn
        \/ /\ pc' = "off" /\ starting' = FALSE /\ installed' = FALSE /\ own' = NoOwn
           /\ known' = Unknown /\ working' = FALSE /\ shown' = None
           /\ server # None /\ ~torn' => (server.left.marks > 0 <=> widened)
    BY Flags DEF Start, Ends, Dropped, indicator, linger, history
  <1>3. Unknown \in Known
    BY ConstantsAssumption DEF Unknown, Known, NoOwn, Plain, Lefts, Cells
  <1>4. own' \in Owns /\ own'.left.marks = 0 /\ known' \in Known
    BY <1>2, <1>3, OwnForms, Flags
  <1>5. installed' \in BOOLEAN /\ starting' \in BOOLEAN /\ working' \in BOOLEAN
    BY <1>2, Flags DEF IndicatorInv, TypeOK
  <1>6. TypeOK'
    BY <1>1, <1>2, <1>5 DEF IndicatorInv, TypeOK
  <1>7. IndicatorTypes'
    <2>1. {installed', starting', widened', torn', blurred', unseen', touched'} \subseteq BOOLEAN
      BY <1>1, <1>5, Flags
    <2>. QED BY <1>1, <1>2, <1>4, <2>1 DEF IndicatorInv, IndicatorTypes
  <1>8. ControlInv'
    BY <1>1, <1>2 DEF IndicatorInv, ControlInv
  <1>9. TextInv'
    BY <1>1, <1>2 DEF IndicatorInv, TextInv, OwnerTextKept
  <1>10. PutInv'
    BY <1>2 DEF PutInv
  <1>11. ServerInv'
    <2>1. CASE pc' = "identity"
      BY <1>1, <1>2, <2>1 DEF IndicatorInv, CleanInv, ServerInv
    <2>2. CASE pc' = "off"
      BY <1>1, <1>2, <2>2, DroppedInv
    <2>. QED BY <1>2, <2>1, <2>2
  <1>12. Unclaimed'
    BY <1>2 DEF Unclaimed
  <1>13. server # None /\ faults = 0 => LengthInv'
    BY <1>1, <1>12 DEF IndicatorInv, CleanInv, LengthInv, Excused
  <1>14. server # None /\ faults = 0 => LeftoverInv'
    <2>1. CASE pc' = "identity"
      BY <1>1, <1>2, <2>1, LeftoverKept DEF Excused
    <2>2. CASE pc' = "off"
      BY <1>1, <1>2, <2>2 DEF NoOwn, LeftoverInv, Leftover, Excused
    <2>. QED BY <1>2, <2>1, <2>2
  <1>. QED BY <1>1, <1>6, <1>7, <1>8, <1>9, <1>10, <1>11, <1>12, <1>13, <1>14
         DEF IndicatorInv, CleanInv, MarkInv, CellInv

----------------------------------------------------------------------------
(* The server and its owner *)

\* What the run keeps for itself while tmux and its owner act.
RunKept == UNCHANGED <<pc, starting, installed, own, working, shown, known, faults>>

\* A new server has the configured options; with a server gone there is nothing to keep.
LEMMA ServerStep ==
    ASSUME IndicatorInv, ServerStarts \/ ServerExits
    PROVE  IndicatorInv'
  <1>. USE ConstantsAssumption
  <1>1. RunKept /\ UNCHANGED <<torn, blurred>>
    BY DEF RunKept, ServerStarts, ServerExits, control, indicator, linger, bounds
  <1>2. CASE ServerStarts
    <2>1. PICK n \in Nat : n = servers + 1 /\ servers' = n
            /\ server' = [id |-> n, left |-> Plain(ConfText), len |-> ConfLength,
                          cell |-> "absent"]
      BY <1>2 DEF ServerStarts, IndicatorInv, IndicatorTypes
    <2>2. /\ owner' = [text |-> ConfText, len |-> ConfLength] /\ server = None
          /\ UNCHANGED <<widened, unseen, touched>>
      BY <1>2 DEF ServerStarts
    <2>3. ~widened
      BY <2>2 DEF IndicatorInv, ControlInv
    <2>4. Plain(ConfText) \in Lefts /\ Plain(ConfText).marks = 0
          /\ Plain(ConfText).text = ConfText
      BY DEF Plain, Lefts
    <2>5. /\ server' \in Servers /\ server'.len = ConfLength /\ server'.left = Plain(ConfText)
          /\ server'.cell = "absent"
      BY <2>1, <2>4 DEF Servers, Cells
    <2>6. TypeOK'
      BY <1>1, <2>5 DEF RunKept, IndicatorInv, TypeOK
    <2>7. IndicatorTypes'
      <3>1. {installed', starting', widened', torn', blurred', unseen', touched'} \subseteq BOOLEAN
        BY <1>1, <2>2, Flags DEF RunKept
      <3>. QED BY <1>1, <2>1, <2>2, <2>5, <3>1 DEF RunKept, IndicatorInv, IndicatorTypes
    <2>8. ControlInv'
      BY <1>1, <2>5 DEF RunKept, IndicatorInv, ControlInv
    <2>9. TextInv'
      BY <1>1, <2>2, <2>4, <2>5 DEF RunKept, IndicatorInv, TextInv, OwnerTextKept
    <2>10. server'.id = n /\ own'.of < n /\ own.of \in Nat
      BY <1>1, <2>1 DEF RunKept, IndicatorInv, IndicatorTypes, Owns, CleanInv, ServerInv
    <2>11. ServerInv' /\ PutInv'
      BY <1>1, <2>1, <2>10
         DEF RunKept, IndicatorInv, IndicatorTypes, CleanInv, ServerInv, PutInv
    <2>14. LeftoverInv'
      BY <1>1, <2>2, <2>3, <2>4, <2>5, <2>10 DEF LeftoverInv, Leftover
    <2>12. MarkInv' /\ CellInv'
      BY <2>4, <2>5 DEF MarkInv, CellInv
    <2>13. LengthInv'
      BY <2>2, <2>3, <2>5 DEF LengthInv
    <2>. QED BY <2>6, <2>7, <2>8, <2>9, <2>11, <2>12, <2>13, <2>14 DEF IndicatorInv, CleanInv
  <1>3. CASE ServerExits
    <2>1. /\ server' = None /\ owner' = Nobody /\ widened' = FALSE /\ unseen' = FALSE
          /\ touched' = FALSE /\ servers' = servers
      BY <1>3 DEF ServerExits
    <2>2. Nobody \in [text : Texts, len : Nat]
      BY DEF Nobody
    <2>3. TypeOK'
      BY <1>1, <2>1 DEF RunKept, IndicatorInv, TypeOK
    <2>4. IndicatorTypes'
      <3>1. {installed', starting', widened', torn', blurred', unseen', touched'} \subseteq BOOLEAN
        BY <1>1, <2>1, Flags DEF RunKept
      <3>. QED BY <1>1, <2>1, <2>2, <3>1 DEF RunKept, IndicatorInv, IndicatorTypes
    <2>5. ControlInv'
      BY <1>1, <2>1 DEF RunKept, IndicatorInv, ControlInv
    <2>6. TextInv'
      BY <1>1, <2>1 DEF RunKept, IndicatorInv, TextInv, OwnerTextKept
    <2>7. ServerInv' /\ PutInv'
      BY <1>1, <2>1 DEF RunKept, IndicatorInv, CleanInv, ServerInv, PutInv
    <2>. QED BY <2>1, <2>3, <2>4, <2>5, <2>6, <2>7 DEF IndicatorInv, CleanInv
  <1>. QED BY <1>2, <1>3

\* The owner changes an option.
LEMMA EditStep ==
    ASSUME IndicatorInv,
           (\E t \in Texts : EditLeft(t)) \/ \E l \in Lengths : EditLength(l)
    PROVE  IndicatorInv'
  <1>. USE ConstantsAssumption
  <1>1. RunKept /\ server # None /\ servers' = servers /\ torn' = torn
    BY DEF RunKept, EditLeft, EditLength, control, indicator, linger
  <1>2. server \in Servers
    BY <1>1 DEF IndicatorInv, IndicatorTypes
  <1>3. CASE \E t \in Texts : EditLeft(t)
    <2>1. PICK t \in Texts : EditLeft(t)
      BY <1>3
    <2>2. PICK m \in {0, server.left.marks} :
             /\ server' = [server EXCEPT !.left = [marks |-> m, text |-> t]]
             /\ blurred' = (blurred \/ (Leftover({"readLeft"}) /\ m # server.left.marks))
      BY <2>1 DEF EditLeft
    <2>3. /\ owner' = [owner EXCEPT !.text = t] /\ touched' = TRUE
          /\ UNCHANGED <<widened, unseen>>
      BY <2>1 DEF EditLeft
    <2>4. [marks |-> m, text |-> t] \in Lefts
      BY <1>2 DEF Servers, Lefts
    <2>5. /\ server' \in Servers /\ server'.left.text = t /\ server'.left.marks = m
          /\ server'.len = server.len /\ server'.cell = server.cell /\ server'.id = server.id
      BY <1>2, <2>2, <2>4 DEF Servers
    <2>6. owner' \in [text : Texts, len : Nat] /\ owner'.text = t /\ owner'.len = owner.len
      BY <2>3 DEF IndicatorInv, IndicatorTypes
    <2>7. TypeOK'
      BY <1>1, <2>5 DEF RunKept, IndicatorInv, TypeOK
    <2>8. IndicatorTypes'
      <3>1. {installed', starting', widened', torn', blurred', unseen', touched'} \subseteq BOOLEAN
        BY <1>1, <2>2, <2>3, Flags DEF RunKept
      <3>. QED BY <1>1, <2>5, <2>6, <3>1 DEF RunKept, IndicatorInv, IndicatorTypes
    <2>9. ControlInv'
      BY <1>1, <2>5 DEF RunKept, IndicatorInv, ControlInv
    <2>10. TextInv'
      BY <1>1, <2>5, <2>6 DEF RunKept, IndicatorInv, TextInv, OwnerTextKept
    <2>12. ServerInv' /\ PutInv'
      BY <1>1, <2>5 DEF RunKept, IndicatorInv, CleanInv, ServerInv, PutInv
    <2>13. MarkInv'
      BY <2>3 DEF MarkInv
    <2>14. faults = 0 => LengthInv' /\ CellInv'
      BY <1>1, <2>2, <2>3, <2>5, <2>6
         DEF RunKept, IndicatorInv, CleanInv, LengthInv, CellInv, Unclaimed, Holds, Excused
    <2>15. faults = 0 => LeftoverInv'
      BY <1>1, <2>2, <2>3, <2>5, <2>6
         DEF RunKept, IndicatorInv, CleanInv, LeftoverInv, Leftover, Excused, AlreadyWidened
    <2>. QED BY <1>1, <2>7, <2>8, <2>9, <2>10, <2>12, <2>13, <2>14, <2>15
           DEF RunKept, IndicatorInv, CleanInv
  <1>4. CASE \E l \in Lengths : EditLength(l)
    <2>1. PICK l \in Lengths : EditLength(l)
      BY <1>4
    <2>2. /\ server' = [server EXCEPT !.len = l] /\ owner' = [owner EXCEPT !.len = l]
          /\ widened' = FALSE /\ UNCHANGED <<unseen, touched>>
          /\ blurred' = (blurred \/ (widened /\ Leftover({"readLeft", "readLength", "readCell",
                                                          "writeLeft", "writeLength"})))
      BY <2>1 DEF EditLength
    <2>3. /\ server' \in Servers /\ server'.len = l /\ server'.left = server.left
          /\ server'.cell = server.cell /\ server'.id = server.id
      BY <1>2, <2>2 DEF Servers
    <2>4. owner' \in [text : Texts, len : Nat] /\ owner'.len = l /\ owner'.text = owner.text
      BY <2>2 DEF IndicatorInv, IndicatorTypes
    <2>5. TypeOK'
      BY <1>1, <2>3 DEF RunKept, IndicatorInv, TypeOK
    <2>6. IndicatorTypes'
      <3>1. {installed', starting', widened', torn', blurred', unseen', touched'} \subseteq BOOLEAN
        BY <1>1, <2>2, Flags DEF RunKept
      <3>. QED BY <1>1, <2>3, <2>4, <3>1 DEF RunKept, IndicatorInv, IndicatorTypes
    <2>7. ControlInv'
      BY <1>1, <2>2 DEF RunKept, IndicatorInv, ControlInv
    <2>8. TextInv'
      BY <1>1, <2>2, <2>3, <2>4 DEF RunKept, IndicatorInv, TextInv, OwnerTextKept
    <2>9. LengthInv'
      BY <2>2, <2>3, <2>4 DEF LengthInv
    <2>10. ServerInv' /\ PutInv'
      BY <1>1, <2>3 DEF RunKept, IndicatorInv, CleanInv, ServerInv, PutInv
    <2>11. faults = 0 => MarkInv' /\ CellInv'
      BY <1>1, <2>2, <2>3
         DEF RunKept, IndicatorInv, CleanInv, MarkInv, CellInv, Unclaimed, Holds, Written
    <2>12. faults = 0 => LeftoverInv'
      BY <1>1, <2>2, <2>3, <2>4
         DEF RunKept, IndicatorInv, CleanInv, LeftoverInv, Leftover, Excused, AlreadyWidened
    <2>. QED BY <1>1, <2>5, <2>6, <2>7, <2>8, <2>9, <2>10, <2>11, <2>12
           DEF RunKept, IndicatorInv, CleanInv
  <1>. QED BY <1>3, <1>4

----------------------------------------------------------------------------
(* Every step *)

\* The activity is one of its two values.
LEMMA ActivityStep ==
    ASSUME ActivityInv, [Next]_vars
    PROVE  ActivityInv'
  <1>1. UNCHANGED activity => ActivityInv'
    BY DEF ActivityInv
  <1>2. UNCHANGED sync => UNCHANGED activity
    BY DEF sync
  <1>3. LoopUnchanged => UNCHANGED activity
    BY <1>2 DEF LoopUnchanged
  <1>4. \A option : (Reads(option) => UNCHANGED activity)
            /\ \A value : Puts(option, value) => UNCHANGED activity
    BY <1>3 DEF Reads, Puts
  <1>5. CASE Command \/ Fault \/ CellRefused
    <2>1. Given(pc) => UNCHANGED activity
      BY <1>4 DEF Given
    <2>2. Untold => UNCHANGED activity
      BY <1>3 DEF Untold
    <2>. QED BY <1>1, <1>3, <1>4, <1>5, <2>1, <2>2
           DEF Command, ServerIdentity, Install, ReadLeft, ReadLength, ReadCell, WriteLeft,
               WriteLength, WriteCell, RollLength, RollLeft, ReadUpdate, WriteUpdate,
               RestoreLeft, RestoreLength, RestoreCell, RestoreRead, RestoreWrite, Writes,
               NoServer, Fault, CellRefused
  <1>6. CASE Observe \/ LingerEnds \/ Refresh \/ Stop \/ Start
    BY <1>1, <1>2, <1>6 DEF Observe, LingerEnds, Refresh, Stop, Start, SelectUnchanged
  <1>7. CASE SyncTask \/ Ends
    BY <1>7 DEF SyncTask, Ends, ActivityInv
  <1>8. CASE ServerStarts \/ ServerExits \/ (\E t \in Texts : EditLeft(t))
             \/ \E l \in Lengths : EditLength(l)
    BY <1>1, <1>2, <1>8 DEF ServerStarts, ServerExits, EditLeft, EditLength
  <1>9. CASE UNCHANGED vars
    BY <1>1, <1>2, <1>9 DEF vars
  <1>. QED BY <1>5, <1>6, <1>7, <1>8, <1>9 DEF Next

\* No step leaves the invariant.
LEMMA NextInv ==
    ASSUME IndicatorInv, ActivityInv, [Next]_vars
    PROVE  IndicatorInv'
  <1>1. CASE Install
    BY <1>1, ReadLeftStep, ReadLengthStep, ReadCellStep, WriteLeftStep, WriteLengthStep,
       WriteCellStep DEF Install
  <1>2. CASE RestoreLeft \/ RestoreLength \/ RestoreCell
    BY <1>2, RestoreReadStep, RestoreWriteStep DEF RestoreLeft, RestoreLength, RestoreCell
  <1>3. CASE Command
    BY <1>1, <1>2, <1>3, ServerIdentityStep, RollStep, ReadUpdateStep, WriteUpdateStep,
       NoServerStep DEF Command
  <1>4. CASE UNCHANGED vars
    <2>1. UNCHANGED <<server, servers, pc, starting, installed, own, working, shown, owner,
                      widened, torn, blurred, unseen, touched, known, faults>>
      BY <1>4 DEF vars, tmux, control, indicator, linger, history, bounds
    <2>2. TypeOK' /\ ControlInv'
      BY <2>1 DEF IndicatorInv, TypeOK, ControlInv
    <2>3. IndicatorTypes'
      BY <2>1 DEF IndicatorInv, IndicatorTypes
    <2>4. TextInv' /\ ServerInv' /\ PutInv'
      BY <2>1 DEF IndicatorInv, TextInv, OwnerTextKept, CleanInv, ServerInv, PutInv
    <2>5. server # None /\ faults = 0 => MarkInv' /\ LengthInv' /\ LeftoverInv' /\ CellInv'
      BY <2>1 DEF IndicatorInv, CleanInv, MarkInv, LengthInv, LeftoverInv, Leftover, CellInv,
         Unclaimed, Holds, Written, Excused, AlreadyWidened
    <2>. QED BY <2>1, <2>2, <2>3, <2>4, <2>5 DEF IndicatorInv, CleanInv
  <1>. QED BY <1>3, <1>4, ServerStep, EditStep, SelectStep, RunStep, FaultStep,
             CellRefusedStep DEF Next

\* The invariant holds of the specification.
LEMMA SpecInv == IndicatorSpec => [](IndicatorInv /\ ActivityInv)
  <1>1. Init => IndicatorInv /\ ActivityInv
    BY InitInv DEF Init, ActivityInv
  <1>. QED BY <1>1, ActivityStep, NextInv, PTL DEF IndicatorSpec

----------------------------------------------------------------------------
(* The theorems *)

\* install_default, refresh, restore and the rollback of a failed install: on every
\* server, whatever crashes, fails or restarts in between, the text of status-left is
\* the owner's latest, unless a write went over a change made after its read.
THEOREM OwnersText == IndicatorSpec => []OwnerTextKept
  <1>1. IndicatorInv => OwnerTextKept
    BY DEF IndicatorInv, TextInv
  <1>. QED BY <1>1, SpecInv, PTL

\* LengthOwnership::from_current, normalize_status_left and restore: a run that stops
\* without a failing command puts the length back to the owner's and takes its mark and
\* its cell away, also after runs that were killed at work, for any lengths; except where
\* a run ended with the mark and not its room, or the room and not the mark (killed, or its
\* server replaced, between its writes of the two, or one of them edited), or the owner
\* changed what a run had left or was about to write over.
THEOREM CleanStop == IndicatorSpec => []WholeInstallTakenBack
  <1>1. IndicatorInv => WholeInstallTakenBack
    <2>1. SUFFICES ASSUME IndicatorInv, pc = "restored", server # None, faults = 0
                   PROVE  /\ server.left.marks = 0 \/ touched \/ unseen
                          /\ server.len = owner.len \/ torn \/ blurred \/ unseen
                          /\ server.cell = "absent"
      BY DEF WholeInstallTakenBack
    <2>2. ~Unclaimed
      BY <2>1 DEF Unclaimed, Reading
    <2>. QED BY <2>1, <2>2
           DEF IndicatorInv, CleanInv, MarkInv, LengthInv, CellInv, Holds, Restoring, Excused
  <1>. QED BY <1>1, SpecInv, PTL
=============================================================================
