--------------------------- MODULE ChangeRequests ---------------------------
(***************************************************************************)
(* From verified work to the target branch: change requests and their      *)
(* supervisor reviews, the review pool, the merge queue and promotions     *)
(* (changeRequestAuthority.ts, reviewPoolAuthority.ts,                     *)
(* promotionAuthority.ts), each open to callers of its own, and the        *)
(* coordinator that drives all four for work of the organization           *)
(* (organizationWorkflowCoordinator.ts).                                   *)
(*                                                                         *)
(* Each authority decides in one transaction.  The coordinator calls them  *)
(* one after the other: gamd may stop between any two, and the target      *)
(* branch, which others push to, may move.  `coord` is the coordination    *)
(* under way and its next step.                                            *)
(*                                                                         *)
(* A commit is the set of changes it contains: its ancestors are its       *)
(* subsets, a merge is a union.  Abstracted: one change request per task;  *)
(* domains, risk and optional slots of a review; the worktree of the       *)
(* target; what configuring a reviewer takes; failures of git that are     *)
(* not conflicts.  Claims are verified as TaskWorkspace has it.  "Slip"    *)
(* marks a mistake that breaks one of the properties.                      *)
(***************************************************************************)
EXTENDS Naturals, FiniteSets

CONSTANTS
  Tasks,       \* tasks whose work is to be merged
  Agent, Slot, \* employees, and the AgentSlots they work in
  Seats,       \* who may have which at the beginning
  Dim,         \* dimensions a review request asks for; all are required
  HandKey,     \* idempotency keys of promotions requested by hand
  MaxHead,     \* bound on what is committed for one task
  MaxForeign,  \* bound on what others push to the target
  MaxMove,     \* bound on agents changing slots
  None

ChangeConstants ==
  /\ None \notin Tasks \cup Agent \cup Slot /\ HandKey \cap (Tasks \X Nat) = {}
  /\ \A s \in Seats : /\ s \in [Agent -> Slot \cup {None}]
                      /\ \A a, b \in Agent : s[a] = s[b] /\ a # b => s[a] = None
  /\ MaxHead \in Nat \ {0} /\ MaxForeign \in Nat /\ MaxMove \in Nat

ASSUME ChangeAssumption == ChangeConstants

VARIABLES
  target,    \* the commit the target branch is at
  branch,    \* per task: its base, how many commits follow, and who works on it
  verified,  \* per task: commits of verified claims
  seat,      \* organization_agents.runtime_slot_id
  moves,     \* how often an agent changed its slot
  cr,        \* change_requests
  latest,    \* per task: its latest supervisor review
  entry,     \* per task: its latest entry of the merge queue
  request,   \* review_requests, by task and revision
  reviewSlot, \* review_slots, by task, revision and dimension
  work,      \* organization_review_work_items, likewise; "created": the work item exists alone
  promo,     \* self_hosting_promotions, by idempotency key
  coord      \* the coordination under way

worldVars  == <<target, branch, verified, seat, moves>>
changeVars == <<cr, latest, entry>>
reviewVars == <<request, reviewSlot, work>>
crVars     == <<worldVars, changeVars, reviewVars, promo, coord>>

-----------------------------------------------------------------------------
Rev  == 1 .. MaxHead
Key  == (Tasks \X Rev) \cup HandKey

\* The n-th commit of a task, and what is in it.
At(t, n) == branch[t].base \cup {<<t, i>> : i \in 1 .. n}
Tip(t)   == branch[t].head

NoCR      == [status |-> "none", head |-> 0, rev |-> 0, base |-> {}]
NoReview  == [verdict |-> "none", head |-> 0]
NoEntry   == [status |-> "none", head |-> 0, base |-> {}, cand |-> {}]
NoRequest == [status |-> "none", head |-> 0]
NoSlot    == [state |-> "none", by |-> None]
NoPromo   == [status |-> "none", task |-> None, head |-> 0, cand |-> {}, parent |-> {}]
NoCoord   == [op |-> "idle", step |-> "-", task |-> None, rev |-> 0]

SlotState == {"none", "open", "claimed", "approved", "changes-requested", "rejected"}

ChangesTypeOK ==
  /\ \A t \in Tasks : Tip(t) \in 0 .. MaxHead /\ verified[t] \subseteq 1 .. Tip(t)
  /\ seat \in [Agent -> Slot \cup {None}]
  /\ \A t \in Tasks : /\ cr[t].status \in {"none", "open", "changes-requested", "approved", "queued", "integrated"}
                     /\ cr[t].head \in 0 .. Tip(t) /\ cr[t].rev \in 0 .. MaxHead
                     /\ latest[t].verdict \in {"none", "approve", "request-changes"}
                     /\ entry[t].status \in {"none", "queued", "validating", "integrated", "failed"}
  /\ \A t \in Tasks, r \in Rev :
       /\ request[t][r].status \in {"none", "open", "changes-requested", "rejected", "approved"}
       /\ \A d \in Dim : /\ reviewSlot[t][r][d].state \in SlotState
                         /\ reviewSlot[t][r][d].state = "none" <=> request[t][r].status = "none"
                         /\ reviewSlot[t][r][d].by = None <=> reviewSlot[t][r][d].state \in {"none", "open"}
                         /\ work[t][r][d] \in {"none", "created", "materialized", "claimed", "decided", "completed"}
  /\ \A k \in Key : promo[k].status \in {"none", "pending", "approved", "rejected", "promoted"}
  /\ coord.op \in {"idle", "handover", "promote"}

InitChanges ==
  /\ target = {} /\ moves = 0 /\ coord = NoCoord
  /\ branch = [t \in Tasks |-> [base |-> {}, head |-> 0, by |-> None, agent |-> None]]
  /\ verified = [t \in Tasks |-> {}]
  /\ seat \in Seats
  /\ cr = [t \in Tasks |-> NoCR] /\ latest = [t \in Tasks |-> NoReview] /\ entry = [t \in Tasks |-> NoEntry]
  /\ request = [t \in Tasks |-> [r \in Rev |-> NoRequest]]
  /\ reviewSlot = [t \in Tasks |-> [r \in Rev |-> [d \in Dim |-> NoSlot]]]
  /\ work = [t \in Tasks |-> [r \in Rev |-> [d \in Dim |-> "none"]]]
  /\ promo = [k \in Key |-> NoPromo]

-----------------------------------------------------------------------------
(* The world: agents at work, others who push, agents who change slots *)

StartWork(t, a) ==
  /\ branch[t].by = None /\ seat[a] # None
  /\ branch' = [branch EXCEPT ![t] = [base |-> target, head |-> 0, by |-> seat[a], agent |-> a]]
  /\ UNCHANGED <<target, verified, seat, moves, changeVars, reviewVars, promo, coord>>

Commits(t) ==
  /\ branch[t].by # None /\ Tip(t) < MaxHead
  /\ branch' = [branch EXCEPT ![t].head = @ + 1]
  /\ UNCHANGED <<target, verified, seat, moves, changeVars, reviewVars, promo, coord>>

ClaimVerified(t) ==
  /\ Tip(t) > 0 /\ verified' = [verified EXCEPT ![t] = @ \cup {Tip(t)}]
  /\ UNCHANGED <<target, branch, seat, moves, changeVars, reviewVars, promo, coord>>

OthersPush ==
  \E i \in 1 .. MaxForeign :
    /\ <<None, i>> \notin target /\ (i = 1 \/ <<None, i - 1>> \in target)
    /\ target' = target \cup {<<None, i>>}
    /\ UNCHANGED <<branch, verified, seat, moves, changeVars, reviewVars, promo, coord>>

\* An agent's runtime is released, and maybe another slot acquired.
Moves(a) ==
  /\ moves < MaxMove /\ moves' = moves + 1
  /\ \E s \in Slot \cup {None} : /\ s = None \/ \A b \in Agent : seat[b] # s
                                 /\ seat' = [seat EXCEPT ![a] = s]
  /\ UNCHANGED <<target, branch, verified, changeVars, reviewVars, promo, coord>>

-----------------------------------------------------------------------------
(* Change requests *)

\* A change is opened for the tip of its branch, at whose base the target still is.
TargetAtBase(t) == branch[t].base = target
Openable(t) == cr[t].status = "none" /\ Tip(t) \in verified[t] /\ TargetAtBase(t)

OpenChange(t) ==
  /\ Openable(t)
  /\ cr' = [cr EXCEPT ![t] = [status |-> "open", head |-> Tip(t), rev |-> 1, base |-> branch[t].base]]

\* Slip: a revision is accepted until the change is merged.
UpdateUntilMerged(t) ==
  /\ cr[t].status \notin {"none", "integrated"} /\ cr[t].head # Tip(t) /\ Tip(t) \in verified[t]
  /\ cr' = [cr EXCEPT ![t].head = Tip(t), ![t].rev = @ + 1, ![t].status = "open"]

UpdateChange(t) ==
  /\ cr[t].status \in {"open", "changes-requested"} /\ cr[t].head # Tip(t) /\ Tip(t) \in verified[t]
  /\ cr' = [cr EXCEPT ![t].head = Tip(t), ![t].rev = @ + 1, ![t].status = "open"]

\* The reviewer is a subject other than the author's slot.
ReviewChange(t, verdict) ==
  /\ cr[t].status = "open"
  /\ latest' = [latest EXCEPT ![t] = [verdict |-> verdict, head |-> cr[t].head]]
  /\ cr' = [cr EXCEPT ![t].status = IF verdict = "approve" THEN "approved" ELSE "changes-requested"]

Approved(t) == /\ cr[t].status = "approved" /\ cr[t].head \in verified[t]
               /\ latest[t] = [verdict |-> "approve", head |-> cr[t].head]

QueueChange(t) ==
  /\ Approved(t)
  /\ entry' = [entry EXCEPT ![t] = [NoEntry EXCEPT !.status = "queued", !.head = cr[t].head]]
  /\ cr' = [cr EXCEPT ![t].status = "queued"]

\* A candidate that only has to be fast-forwarded is the head itself; else the two are merged,
\* and may conflict.
Candidates(t) == LET head == At(t, entry[t].head) IN
                 IF target \subseteq head THEN {head} ELSE {target \cup head, None}

PrepareCandidate(t) ==
  /\ entry[t].status = "queued" /\ cr[t].status = "queued" /\ cr[t].head = entry[t].head
  /\ \E c \in Candidates(t) \cup {None} :
       IF c # None /\ cr[t].base \subseteq target
         THEN entry' = [entry EXCEPT ![t].status = "validating", ![t].base = target, ![t].cand = c] /\ UNCHANGED cr
         ELSE /\ entry' = [entry EXCEPT ![t].status = "failed"]
              /\ cr' = [cr EXCEPT ![t].status = "changes-requested"]

\* Slip: the entry is closed without a look at the target.
ObserveBlindly(t) ==
  /\ entry[t].status = "validating"
  /\ entry' = [entry EXCEPT ![t].status = "integrated"] /\ cr' = [cr EXCEPT ![t].status = "integrated"]

Integrated(t) == /\ entry[t].status = "validating"
                 /\ entry[t].cand \subseteq target \/ At(t, entry[t].head) \subseteq target

ObserveIntegration(t) ==
  /\ Integrated(t)
  /\ entry' = [entry EXCEPT ![t].status = "integrated"] /\ cr' = [cr EXCEPT ![t].status = "integrated"]

-----------------------------------------------------------------------------
(* Promotions *)

\* The claim was verified for exactly this commit.
VerifiedCommit(t, n, c) == n \in verified[t] /\ c = At(t, n)

Promotion(status, t, n, c, parent) == [status |-> status, task |-> t, head |-> n, cand |-> c, parent |-> parent]

Fits(c, parent) == target = parent /\ parent \subseteq c

\* The same key again must come with the same facts, and is the same promotion.
Requestable(k, t, n, c, parent) ==
  IF promo[k].status # "none"
    THEN promo[k] = Promotion(promo[k].status, t, n, c, parent)
    ELSE VerifiedCommit(t, n, c) /\ Fits(c, parent)

RequestPromotion(k, t, n, c, parent) ==
  /\ Requestable(k, t, n, c, parent)
  /\ promo' = IF promo[k].status # "none" THEN promo
              ELSE [promo EXCEPT ![k] = Promotion("pending", t, n, c, parent)]

DecidePromotion(k, decision) ==
  /\ promo[k].status = "pending"
  /\ decision = "approved" => VerifiedCommit(promo[k].task, promo[k].head, promo[k].cand)
  /\ promo' = [promo EXCEPT ![k].status = decision]

\* Slip: the ref is set without the value it is expected to have.
MoveRefAnyhow(k) ==
  /\ promo[k].status = "approved"
  /\ target' = promo[k].cand

\* git compares and sets the ref; a ref that is at the candidate already is left alone.
Movable(k) == promo[k].status = "approved" /\ target \in {promo[k].cand, promo[k].parent}

MoveRef(k) ==
  /\ Movable(k)
  /\ target' = promo[k].cand

\* Recorded after the ref was seen at the candidate.
MarkPromoted(k) == promo' = [promo EXCEPT ![k].status = "promoted"]

-----------------------------------------------------------------------------
(* The review pool *)

Free == coord.op = "idle"

\* Not the slot the work was done in.
Eligible(t, a) == seat[a] # branch[t].by

ClaimSlot(t, r, d, a) ==
  /\ Free /\ request[t][r].status = "open" /\ reviewSlot[t][r][d].state = "open" /\ Eligible(t, a)
  /\ reviewSlot' = [reviewSlot EXCEPT ![t][r][d] = [state |-> "claimed", by |-> a]]
  /\ work' = [work EXCEPT ![t][r][d] = IF @ = "materialized" THEN "claimed" ELSE @]
  /\ UNCHANGED <<worldVars, changeVars, request, promo, coord>>

\* Slip: the first approval is enough.
OutcomeOfFirst(slots) ==
  IF \E d \in Dim : slots[d].state = "rejected" THEN "rejected"
  ELSE IF \E d \in Dim : slots[d].state = "approved" THEN "approved" ELSE "open"

\* What the decisions make of the request.
Outcome(slots) ==
  LET States == {slots[d].state : d \in Dim} IN
  IF "rejected" \in States THEN "rejected"
  ELSE IF "changes-requested" \in States THEN "changes-requested"
  ELSE IF States = {"approved"} THEN "approved" ELSE "open"

\* The claiming agent decides; whether the request is still the current one is not asked.  An
\* approval that completes the request starts the coordinator.
DecideSlot(t, r, d, decision) ==
  /\ Free /\ reviewSlot[t][r][d].state = "claimed"
  /\ reviewSlot' = [reviewSlot EXCEPT ![t][r][d].state = decision]
  /\ work' = [work EXCEPT ![t][r][d] = IF @ \in {"materialized", "claimed"} THEN "decided" ELSE @]
  /\ request' = [request EXCEPT ![t][r].status = Outcome(reviewSlot'[t][r])]
  /\ coord' = IF request'[t][r].status = "approved"
               THEN [op |-> "promote", step |-> "review", task |-> t, rev |-> r] ELSE NoCoord
  /\ UNCHANGED <<worldVars, changeVars, promo>>

-----------------------------------------------------------------------------
(* The coordinator: verified work is handed over to review *)

\* After verification, and whenever gamd starts: for a target that is still at the work's base.
StartHandOver(t) ==
  /\ Free /\ verified[t] # {} /\ TargetAtBase(t)
  /\ coord' = [op |-> "handover", step |-> "change", task |-> t, rev |-> 0]
  /\ UNCHANGED <<worldVars, changeVars, reviewVars, promo>>

Then(s) == coord' = [coord EXCEPT !.step = s]
Coordinates(o, s) == coord.op = o /\ coord.step = s
GivesUp == coord' = NoCoord

HandOverChange ==
  LET t == coord.task IN
  /\ Coordinates("handover", "change")
  /\ IF cr[t].status # "none" THEN Then("request") /\ UNCHANGED cr
     ELSE IF Openable(t) THEN OpenChange(t) /\ Then("request")
     ELSE GivesUp /\ UNCHANGED cr
  /\ UNCHANGED <<worldVars, latest, entry, reviewVars, promo>>

HandOverRequest ==
  LET t == coord.task
      r == cr[t].rev IN
  /\ Coordinates("handover", "request")
  /\ IF cr[t].status \in {"open", "changes-requested", "approved"} /\ cr[t].head \in verified[t]
       THEN /\ coord' = [coord EXCEPT !.step = "work", !.rev = r]
            /\ IF request[t][r].status # "none" THEN UNCHANGED <<request, reviewSlot>>
               ELSE /\ request' = [request EXCEPT ![t][r] = [status |-> "open", head |-> cr[t].head]]
                    /\ reviewSlot' = [reviewSlot EXCEPT ![t][r] = [d \in Dim |-> [state |-> "open", by |-> None]]]
       ELSE GivesUp /\ UNCHANGED <<request, reviewSlot>>
  /\ UNCHANGED <<worldVars, changeVars, work, promo>>

\* For each open slot a work item of a reviewer, and then the binding of the two.  Where there is
\* a work item already, nothing is done.
HandOverWork ==
  LET t == coord.task
      r == coord.rev
      Missing == {d \in Dim : reviewSlot[t][r][d].state = "open" /\ work[t][r][d] = "none"} IN
  /\ Coordinates("handover", "work")
  /\ IF Missing = {} THEN GivesUp /\ UNCHANGED work
     ELSE \E d \in Missing : work' = [work EXCEPT ![t][r][d] = "created"] /\ Then("bind")
  /\ UNCHANGED <<worldVars, changeVars, request, reviewSlot, promo>>

HandOverBind ==
  LET t == coord.task
      r == coord.rev IN
  /\ Coordinates("handover", "bind")
  /\ \E d \in Dim : work[t][r][d] = "created" /\ work' = [work EXCEPT ![t][r][d] = "materialized"]
  /\ Then("work")
  /\ UNCHANGED <<worldVars, changeVars, request, reviewSlot, promo>>

-----------------------------------------------------------------------------
(* The coordinator: an approved review is carried through to the target *)

\* The approval is recorded for the head the change has now.
PromoteReview ==
  LET t == coord.task IN
  /\ Coordinates("promote", "review")
  /\ IF cr[t].status = "open" THEN ReviewChange(t, "approve") ELSE UNCHANGED <<cr, latest>>
  /\ Then("queue") /\ UNCHANGED <<worldVars, entry, reviewVars, promo>>

PromoteQueue ==
  LET t == coord.task IN
  /\ Coordinates("promote", "queue")
  /\ IF entry[t].status \in {"queued", "validating", "integrated"} THEN Then("prepare") /\ UNCHANGED <<cr, entry>>
     ELSE IF Approved(t) THEN QueueChange(t) /\ Then("prepare")
     ELSE GivesUp /\ UNCHANGED <<cr, entry>>
  /\ UNCHANGED <<worldVars, latest, reviewVars, promo>>

PromotePrepare ==
  LET t == coord.task IN
  /\ Coordinates("promote", "prepare")
  /\ IF entry[t].status = "queued"
       THEN /\ PrepareCandidate(t)
            /\ IF entry'[t].status = "validating" THEN Then("request") ELSE GivesUp
       ELSE UNCHANGED <<cr, entry>> /\ IF entry[t].status = "validating" THEN Then("request") ELSE GivesUp
  /\ UNCHANGED <<worldVars, latest, reviewVars, promo>>

PromoteRequest ==
  LET t == coord.task
      k == <<t, coord.rev>> IN
  /\ Coordinates("promote", "request")
  /\ IF Requestable(k, t, cr[t].head, entry[t].cand, entry[t].base)
       THEN RequestPromotion(k, t, cr[t].head, entry[t].cand, entry[t].base) /\ Then("decide")
       ELSE GivesUp /\ UNCHANGED promo
  /\ UNCHANGED <<worldVars, changeVars, reviewVars>>

PromoteDecide ==
  LET k == <<coord.task, coord.rev>> IN
  /\ Coordinates("promote", "decide")
  /\ IF promo[k].status = "pending" THEN DecidePromotion(k, "approved") ELSE UNCHANGED promo
  /\ Then("ref") /\ UNCHANGED <<worldVars, changeVars, reviewVars>>

PromoteRef ==
  LET k == <<coord.task, coord.rev>> IN
  /\ Coordinates("promote", "ref")
  /\ IF promo[k].status # "approved" THEN Then("observe") /\ UNCHANGED target
     ELSE IF Movable(k) THEN MoveRef(k) /\ Then("mark")
     ELSE GivesUp /\ UNCHANGED target
  /\ UNCHANGED <<branch, verified, seat, moves, changeVars, reviewVars, promo>>

PromoteMark ==
  /\ Coordinates("promote", "mark") /\ MarkPromoted(<<coord.task, coord.rev>>)
  /\ Then("observe") /\ UNCHANGED <<worldVars, changeVars, reviewVars>>

PromoteObserve ==
  LET t == coord.task IN
  /\ Coordinates("promote", "observe")
  /\ IF Integrated(t) THEN ObserveIntegration(t) /\ Then("complete")
                     ELSE GivesUp /\ UNCHANGED <<cr, entry>>
  /\ UNCHANGED <<worldVars, latest, reviewVars, promo>>

PromoteComplete ==
  LET t == coord.task
      r == coord.rev IN
  /\ Coordinates("promote", "complete")
  /\ work' = [work EXCEPT ![t][r] = [d \in Dim |-> IF @[d] = "decided" THEN "completed" ELSE @[d]]]
  /\ GivesUp /\ UNCHANGED <<worldVars, changeVars, request, reviewSlot, promo>>

\* gamd stops; nothing but the coordination under way is lost.
Interrupted == ~Free /\ GivesUp /\ UNCHANGED <<worldVars, changeVars, reviewVars, promo>>

-----------------------------------------------------------------------------
(* The same authorities, called by hand *)

ByHand(t) ==
  /\ Free
  /\ \/ OpenChange(t) /\ UNCHANGED <<latest, entry>>
     \/ UpdateChange(t) /\ UNCHANGED <<latest, entry>>
     \/ \E v \in {"approve", "request-changes"} : ReviewChange(t, v) /\ UNCHANGED entry
     \/ QueueChange(t) /\ UNCHANGED latest
     \/ PrepareCandidate(t) /\ UNCHANGED latest
     \/ ObserveIntegration(t) /\ UNCHANGED latest
  /\ UNCHANGED <<worldVars, reviewVars, promo, coord>>

PromotionByHand(k) ==
  /\ Free
  /\ \/ \E t \in Tasks, n \in 1 .. MaxHead :
          n <= Tip(t) /\ RequestPromotion(k, t, n, At(t, n), target) /\ UNCHANGED target
     \/ \E d \in {"approved", "rejected"} : DecidePromotion(k, d) /\ UNCHANGED target
     \/ MoveRef(k) /\ UNCHANGED promo
     \/ promo[k].status = "approved" /\ target = promo[k].cand /\ MarkPromoted(k) /\ UNCHANGED target
  /\ UNCHANGED <<branch, verified, seat, moves, changeVars, reviewVars, coord>>

WorldStep == \/ \E t \in Tasks : Commits(t) \/ ClaimVerified(t) \/ \E a \in Agent : StartWork(t, a)
             \/ OthersPush \/ \E a \in Agent : Moves(a)
ReviewStep == \E t \in Tasks, r \in Rev, d \in Dim :
                \/ \E a \in Agent : ClaimSlot(t, r, d, a)
                \/ \E x \in {"approved", "changes-requested", "rejected"} : DecideSlot(t, r, d, x)
HandOverStep == (\E t \in Tasks : StartHandOver(t)) \/ HandOverChange \/ HandOverRequest \/ HandOverWork \/ HandOverBind
PromoteStep == PromoteReview \/ PromoteQueue \/ PromotePrepare \/ PromoteRequest \/ PromoteDecide
               \/ PromoteRef \/ PromoteMark \/ PromoteObserve \/ PromoteComplete
HandStep == (\E t \in Tasks : ByHand(t)) \/ \E k \in HandKey : PromotionByHand(k)
ChangeNext == WorldStep \/ ReviewStep \/ HandOverStep \/ PromoteStep \/ HandStep \/ Interrupted

ChangeSpec == InitChanges /\ [][ChangeNext]_crVars

-----------------------------------------------------------------------------
(* Properties *)

\* What waits to be merged is the current head of its change request, and the latest review
\* approves exactly that.
QueueMatchesChange ==
  \A t \in Tasks : entry[t].status \in {"queued", "validating"} =>
    /\ cr[t].status = "queued" /\ cr[t].head = entry[t].head
    /\ latest[t] = [verdict |-> "approve", head |-> entry[t].head]

\* Nothing that reached the target is lost, whoever pushed it and whenever gamd stopped.
NothingIsLost == [][target \subseteq target']_crVars

\* Whatever of a task's work is in the target ends with a commit whose claim was verified.
OnlyVerifiedIsMerged ==
  \A t \in Tasks : LET In == {n \in 1 .. MaxHead : <<t, n>> \in target} IN
    In # {} => \E n \in In : n \in verified[t] /\ \A m \in In : m <= n

\* A promotion counted as done and a change counted as integrated are in the target.
RecordsAreTrue ==
  /\ \A k \in Key : promo[k].status = "promoted" => promo[k].cand \subseteq target
  /\ \A t \in Tasks : entry[t].status = "integrated" => At(t, entry[t].head) \subseteq target

\* A review request is approved by every one of its dimensions, and only an approved one is
\* promoted by the coordinator.
ApprovalsAreComplete ==
  \A t \in Tasks, r \in Rev :
    /\ request[t][r].status = "approved" => \A d \in Dim : reviewSlot[t][r][d].state = "approved"
    /\ promo[<<t, r>>].status # "none" => request[t][r].status = "approved"

\* The records of a change agree with each other and with the target branch: what waits to be
\* merged is the reviewed head, what counts as promoted or integrated is there, what is there was
\* verified, and every dimension approved it.
ChangesAreSound ==
  ChangesTypeOK /\ QueueMatchesChange /\ RecordsAreTrue /\ OnlyVerifiedIsMerged /\ ApprovalsAreComplete

\* What the coordinator promotes for a review request is the head that request was opened for.
PromotedWasReviewed ==
  \A t \in Tasks, r \in Rev : promo[<<t, r>>].status = "promoted" => promo[<<t, r>>].head = request[t][r].head

\* Nobody decides on work of their own.
AuthorsDoNotReview ==
  \A t \in Tasks, r \in Rev, d \in Dim : reviewSlot[t][r][d].by # None => reviewSlot[t][r][d].by # branch[t].agent
=============================================================================
