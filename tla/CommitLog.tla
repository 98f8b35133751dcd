------------------------------ MODULE CommitLog ------------------------------
(***************************************************************************)
(* What a caller of the work document is promised, without revisions,      *)
(* receipts or transports: the document's versions form a log.  A request  *)
(* is written against the version its caller read; it enters the log at    *)
(* most once, directly after that version and with the document the caller *)
(* meant; "done" is said only of a request in the log, and "refused" only  *)
(* of one that is not and never will be.  A caller may also be left        *)
(* without an answer, or with one that says nothing.                       *)
(***************************************************************************)
EXTENDS Naturals, Sequences

CONSTANTS Caller

VARIABLES
  log,     \* the versions: the request each was written for (none: the Kernel's own), the document
  asked,   \* of each caller none or one request: its id, the version it read, the document it wants
  told     \* what each caller was told: "nothing" yet, "done", "refused" or "unknown"

cvars == <<log, asked, told>>

CInit ==
  /\ Len(log) = 1 /\ log[1].by = {}
  /\ asked = [c \in Caller |-> {}]
  /\ told  = [c \in Caller |-> "nothing"]

InLog(id, versions) == \E i \in 1 .. Len(versions) : id \in versions[i].by

Ask ==
  /\ \E c \in Caller :
       /\ asked[c] = {}
       /\ \E q \in asked'[c] : /\ q.base \in 1 .. Len(log)
                               /\ asked' = [asked EXCEPT ![c] = {q}]
  /\ UNCHANGED <<log, told>>

\* A request enters the log unless somebody was told that it would not.
Enter(q) ==
  /\ q.base = Len(log) /\ ~InLog(q.id, log)
  /\ \A k \in Caller : q \in asked[k] => told[k] # "refused"
  /\ log' = Append(log, [by |-> {q.id}, doc |-> q.want])

OwnWrite ==
  /\ Len(log') = Len(log) + 1 /\ log' = Append(log, log'[Len(log')])
  /\ log'[Len(log')].by = {}

Tell ==
  \E c \in Caller, verdict \in {"done", "refused", "unknown"} : \E q \in asked[c] :
    /\ told[c] = "nothing"
    /\ verdict = "done"    => InLog(q.id, log')
    /\ verdict = "refused" => ~InLog(q.id, log')
    /\ told' = [told EXCEPT ![c] = verdict]

Write == /\ (\E c \in Caller : \E q \in asked[c] : Enter(q)) \/ OwnWrite \/ UNCHANGED log
         /\ Tell \/ UNCHANGED told
         /\ UNCHANGED asked

CNext == Ask \/ Write

CSpec == CInit /\ [][CNext]_cvars
=============================================================================
