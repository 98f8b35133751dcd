--------------------------- MODULE MCWorkDocument ---------------------------
(* Small instances of WorkDocument for TLC. *)
EXTENDS WorkDocument, TLC

CONSTANTS t1, m1, a1, a2, u1

\* a1 is made for the task, a2 for it or for the message, u1 for nobody.
MCOf == [a \in Attempt |-> IF a \in {a1, a2} THEN t1 ELSE Null]
MessageOf == [a \in Attempt |-> IF a = a1 THEN t1 ELSE m1]

\* One task with one attempt, and maybe a prompt typed by hand.
OneTask == [i \in Id |-> CASE i = t1 -> [list |-> {a1}, retry |-> Null, done |-> FALSE]
                           [] i = a1 -> "open"
                           [] OTHER  -> Null]
MCStart == {[i \in Id |-> IF i = m1 THEN NewOwner ELSE OneTask[i]]}
HandStart == {[i \in Id |-> IF i = u1 THEN "open" ELSE OneTask[i]]}

MCImports == {Absent}
LaneSymmetry == Permutations(Lane)
=============================================================================
