--------------------------- MODULE DeliveryPromise ---------------------------
(***************************************************************************)
(* What prompt delivery promises: each prompt is typed under attempts that *)
(* are judged once and truthfully, and a prompt is attempted again only    *)
(* when every earlier attempt is known not to have been typed, or somebody *)
(* looked at the doubtful one and asked for it.                            *)
(***************************************************************************)
CONSTANTS Attempt, Prompt, Null

VARIABLES
  owner,    \* the prompt an attempt was made for, or Null
  typed,    \* the attempts whose prompt was submitted to the page
  verdict,  \* what is recorded of each attempt
  asked     \* attempts after which a human asked for another one

pvars == <<owner, typed, verdict, asked>>

PInit ==
  /\ owner   = [a \in Attempt |-> Null]
  /\ typed   = {}
  /\ verdict = [a \in Attempt |-> "open"]
  /\ asked   = {}

\* The verdicts that may follow one another; "failed" is the promise that the prompt
\* was not and will not be typed, "delivered" that it was.
Follows(old, new) ==
  \/ new = old
  \/ old = "open" /\ new \in {"failed", "delivered", "unknown", "replied"}
  \/ old = "delivered" /\ new \in {"unknown", "replied"}
  \/ old = "unknown" /\ new = "replied"

Attempted ==
  \E a \in Attempt, p \in Prompt :
    /\ owner[a] = Null
    /\ \A b \in Attempt : owner[b] = p => verdict[b] = "failed" \/ b \in asked
    /\ owner' = [owner EXCEPT ![a] = p]
    /\ UNCHANGED <<typed, verdict, asked>>

Typed ==
  \E a \in Attempt :
    /\ owner[a] # Null /\ a \notin typed /\ verdict[a] # "failed"
    /\ typed' = typed \cup {a}
    /\ UNCHANGED <<owner, verdict, asked>>

Judged ==
  /\ \A a \in Attempt :
       /\ Follows(verdict[a], verdict'[a])
       /\ verdict'[a] = "failed" => a \notin typed
       /\ verdict'[a] = "delivered" => a \in typed
  /\ UNCHANGED <<owner, typed, asked>>

\* A human asks again after an attempt that failed or is in doubt.
Asked ==
  \E a \in Attempt : /\ verdict[a] \in {"failed", "unknown"}
                     /\ asked' = asked \cup {a}
                     /\ UNCHANGED <<owner, typed, verdict>>

PNext == Attempted \/ Typed \/ Judged \/ Asked

PSpec == PInit /\ [][PNext]_pvars
=============================================================================
