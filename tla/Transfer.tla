------------------------------ MODULE Transfer ------------------------------
(***************************************************************************)
(* What the upload path promises, and nothing of how: the bytes of a       *)
(* segment pass from this computer to the paired journal, and the computer *)
(* lets go of a file only when the journal it is paired with at that       *)
(* instant stores the file, or has told that its owner removed it.         *)
(*                                                                         *)
(* Module Custody implements this with a directory, a ledger, inode checks *)
(* and restorations.                                                       *)
(***************************************************************************)
EXTENDS Integers

CONSTANTS Names, Bytes, Journals

VARIABLES
    local,    \* <<name, bytes>> kept on this computer
    held,     \* <<journal, name, bytes>> stored by a journal
    removed,  \* the journals whose owner removed the segment
    identity  \* the paired journal

vars == <<local, held, removed, identity>>

Init == local = {} /\ held = {} /\ removed = {} /\ identity = 1

(* A segment is finalized: it is there as a whole, and alone under its name. *)
Capture(S) ==
    /\ local = {} /\ S # {}
    /\ \A x, y \in S : x[1] = y[1] => x = y
    /\ local' = S
    /\ UNCHANGED <<held, removed, identity>>

(* The journal stores some of the files, under names and bytes they have.  *)
Store(S) ==
    /\ held' = held \union {<<identity, x[1], x[2]>> : x \in S}
    /\ UNCHANGED <<local, removed, identity>>

JournalRemoves ==
    /\ removed' = removed \union {identity}
    /\ UNCHANGED <<local, held, identity>>

InCustody(x) == <<identity, x[1], x[2]>> \in held \/ identity \in removed

Release(S) ==
    /\ \A x \in S : InCustody(x)
    /\ local' = local \ S
    /\ UNCHANGED <<held, removed, identity>>

Pair ==
    /\ identity' = identity + 1 /\ identity' \in Journals
    /\ UNCHANGED <<local, held, removed>>

Next ==
    \/ \E S \in SUBSET (Names \X Bytes) : Capture(S)
    \/ \E S \in SUBSET local : Store(S) \/ Release(S)
    \/ JournalRemoves \/ Pair

(* Whatever is captured leaves the computer in the end.                    *)
Spec == Init /\ [][Next]_vars /\ []<>(local = {})
=============================================================================
