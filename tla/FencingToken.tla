---------------------------- MODULE FencingToken ----------------------------
(***************************************************************************)
(* What the Kernel's leases promise, without rows, clocks, slots or        *)
(* grants: a resource hands out increasing tokens, some of which are       *)
(* valid; tokens may lose their validity at any time, but a new one is     *)
(* valid beside an old one only if both are shared; and work is accepted   *)
(* only under a token that is valid when it is accepted.                   *)
(***************************************************************************)
EXTENDS Naturals

CONSTANT Resource

Mode == {"shared", "exclusive"}

VARIABLES
  counter,   \* the last token of each resource
  valid,     \* the valid tokens of each resource, with their modes
  accepted   \* the <<resource, token>> pairs work was accepted under

avars == <<counter, valid, accepted>>

AInit ==
  /\ counter  = [r \in Resource |-> 0]
  /\ valid    = [r \in Resource |-> {}]
  /\ accepted = {}

\* Tokens lapse, are given back or are revoked, several at once.
Lapse ==
  /\ \A r \in Resource : valid'[r] \subseteq valid[r]
  /\ UNCHANGED <<counter, accepted>>

\* One resource grants its next token; others may lose theirs in the same step.
Grant ==
  /\ UNCHANGED accepted
  /\ \E r \in Resource, m \in Mode :
       LET token == <<counter[r] + 1, m>>
       IN /\ counter' = [counter EXCEPT ![r] = @ + 1]
          /\ valid'[r] \subseteq valid[r] \cup {token}
          /\ token \in valid'[r]
          /\ \A other \in valid'[r] : other = token \/ (m = "shared" /\ other[2] = "shared")
          /\ \A q \in Resource \ {r} : valid'[q] \subseteq valid[q]

\* Work is accepted under a token that is valid and stays valid.
Accept ==
  /\ \A r \in Resource : valid'[r] \subseteq valid[r]
  /\ UNCHANGED counter
  /\ \E r \in Resource : \E token \in valid'[r] : accepted' = accepted \cup {<<r, token[1]>>}

ANext == Lapse \/ Grant \/ Accept

ASpec == AInit /\ [][ANext]_avars
=============================================================================
