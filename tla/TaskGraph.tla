----------------------------- MODULE TaskGraph -----------------------------
(***************************************************************************)
(* The extension's graph of tasks: what state each task is in              *)
(* (taskGraph.ts), what a human may do to it (taskLifecycle.ts,            *)
(* reviewLoop.ts), which page each ready task is given (supervisor.ts),    *)
(* and how a plan is carried out while tasks change (taskDispatchRuntime.ts*)
(* and background.ts).                                                     *)
(*                                                                         *)
(* Tasks are numbered in the order of their creation; what a user enters   *)
(* for each is chosen to begin with.  An edit is one mutation of the work  *)
(* document; a planner reads the document once, plans, and sends each task *)
(* from what it read.                                                      *)
(*                                                                         *)
(* Abstracted: how a prompt is typed and its verdict found (PromptDelivery:*)
(* prepared, dispatched and acknowledged are one state here, open), the    *)
(* document's revisions (WorkDocument), roles and projects, of which only  *)
(* how well a page suits a task is left, texts, imports.                   *)
(***************************************************************************)
EXTENDS Naturals, Sequences, FiniteSets

CONSTANTS
  Tasks, Pages,    \* 1 .. n, and page numbers
  Shapes,       \* what users may enter: functions from Tasks to Input
  Run,          \* planners at work
  Hasty,        \* whether a revision is asked for before what is under way has ended
  MaxTries, MaxEnded, MaxRestarts, \* attempts and ended tasks, in all
  None

\* The score of a page that does not suit the task is 0.
Input == [kind: {"work", "review", "human"}, policy: STRING, deps: SUBSET Tasks,
          target: Tasks \cup {None}, rounds: Nat, score: [Pages -> Nat]]

Try == [state: {"open", "replied", "failed", "uncertain"}, reply: {"none", "good", "fail", "malformed"},
        tab: Pages, grounds: [Tasks -> Nat]]

TaskRow == [tries: Seq(Try), retry: Nat, revised: BOOLEAN, ended: {"no", "skipped", "cancelled"},
            machine: BOOLEAN, verdict: {"none", "approve", "reject"}, judged: [Tasks -> Nat]]

GraphConstants ==
  /\ IsFiniteSet(Tasks) /\ Tasks = 1 .. Cardinality(Tasks) /\ IsFiniteSet(Pages) /\ Pages \subseteq Nat
  /\ Hasty \in BOOLEAN /\ {MaxTries, MaxEnded, MaxRestarts} \subseteq Nat
  /\ \A g \in Shapes : \A t \in Tasks : g[t] \in Input
  /\ None \notin Pages \cup (Tasks \X Nat) \cup TaskRow

ASSUME GraphAssumption == GraphConstants

VARIABLES
  graph,   \* what is entered for each task
  task,    \* the tasks of the document with their attempts; None before creation
  newest,  \* per page: its last attempt, <<task, number>>, or None
  plan,    \* per planner: the sends it has decided on
  restarts

graphVars == <<graph, task, newest, plan, restarts>>

NoGrounds == [d \in Tasks |-> 0]
NewTask == [tries |-> <<>>, retry |-> 0, revised |-> FALSE, ended |-> "no", machine |-> FALSE,
            verdict |-> "none", judged |-> NoGrounds]
NoReply == "none"

Created == {t \in Tasks : task[t] # None}
Tries(t) == task[t].tries
Made == UNION {{t} \X DOMAIN Tries(t) : t \in Created}
Attempts == Cardinality(Made)
Newest(t) == Tries(t)[Len(Tries(t))]
IsReview(t) == graph[t].kind = "review"

GraphTypeOK ==
  /\ graph \in Shapes /\ restarts \in 0 .. MaxRestarts /\ Attempts <= MaxTries
  /\ task \in [Tasks -> TaskRow \cup {None}] /\ newest \in [Pages -> (Tasks \X Nat) \cup {None}]
  /\ \A t \in Created : /\ task[t].retry \in 0 .. Len(Tries(t))
                        /\ \A i \in DOMAIN Tries(t) : Tries(t)[i].state = "replied" <=> Tries(t)[i].reply # NoReply
  /\ \A p \in Pages : newest[p] # None => /\ newest[p][1] \in Created
                                         /\ newest[p][2] \in DOMAIN Tries(newest[p][1])
  /\ \A r \in Run : \A x \in plan[r] : x.task \in Created /\ x.tab \in Pages /\ x.at \in {"planned", "begun", "sending"}

InitGraph ==
  /\ graph \in Shapes /\ task = [t \in Tasks |-> None] /\ newest = [p \in Pages |-> None]
  /\ plan = [r \in Run |-> {}] /\ restarts = 0

-----------------------------------------------------------------------------
(* What state a task is in *)

\* The policy goes with the kind, and only a review has a target, which is a dependency, and rounds.
PolicyFits(t) ==
  LET x == graph[t] IN
  CASE x.kind = "work"   -> x.policy \in {"reply", "structured-result", "verified-claim"} /\ x.target = None
    [] x.kind = "review" -> x.policy = "review-pass" /\ x.target \in x.deps /\ x.rounds \in 1 .. 10
    [] x.kind = "human"  -> x.policy = "human-approval" /\ x.target = None

\* Dependencies exist, and no set of tasks waits for itself.
Valid(S) ==
  /\ \A t \in S : PolicyFits(t) /\ graph[t].deps \subseteq S
  /\ \A C \in (SUBSET S) \ {{}} : \E t \in C : graph[t].deps \cap C = {}

\* What an answer is worth: a claim is verified elsewhere.
ByPolicy(t) ==
  IF graph[t].policy = "verified-claim" THEN "running"
  ELSE CASE Newest(t).reply = "good"      -> "completed"
         [] Newest(t).reply = "fail"      -> "refused"
         [] Newest(t).reply = "malformed" -> "malformed"

\* What the last attempt says, by itself.
Evaluated(t) ==
  IF graph[t].policy = "verified-claim" /\ task[t].machine THEN "completed"
  ELSE IF Tries(t) = <<>> THEN "none"
  ELSE CASE Newest(t).state = "open"      -> "running"
         [] Newest(t).state = "failed"    -> "error"
         [] Newest(t).state = "uncertain" -> "uncertain"
         [] Newest(t).state = "replied"   -> ByPolicy(t)

\* Slip: one round too many.
ExhaustedLate(t) == IsReview(t) /\ Len(Tries(t)) > graph[t].rounds

Exhausted(t) == IsReview(t) /\ Len(Tries(t)) >= graph[t].rounds

Retryable(t) ==
  /\ Tries(t) # <<>>
  /\ CASE Newest(t).state \in {"failed", "uncertain"} -> ~Exhausted(t)
       [] Newest(t).state = "replied" -> /\ graph[t].policy \in {"structured-result", "review-pass"}
                                         /\ Evaluated(t) \in {"malformed", "refused"} /\ ~Exhausted(t)
       [] OTHER -> FALSE

\* A review has asked for another version of what the task last answered.
RevisionAsked(t) == graph[t].kind = "work" /\ Newest(t).state = "replied" /\ task[t].revised

RetryRequested(t) ==
  /\ Tries(t) # <<>> /\ task[t].retry = Len(Tries(t))
  /\ Retryable(t) \/ RevisionAsked(t)

Blockers == {"error", "attention", "blocked", "cancelled", "rejected"}

\* What a task shows that is not to be sent.
Shown(t) ==
  IF Evaluated(t) \notin {"uncertain", "refused", "malformed"} THEN Evaluated(t)
  ELSE IF Exhausted(t) THEN "error" ELSE "attention"

HumanSays(t) == CASE task[t].verdict = "approve" -> "completed"
                  [] task[t].verdict = "reject"  -> "rejected"
                  [] OTHER                       -> "waiting-human"

\* Slip: only what has failed is waited for.
UnlessBlocked(t, states) ==
  IF states \cap Blockers # {} THEN "blocked"
  ELSE IF graph[t].kind = "human" THEN HumanSays(t) ELSE "ready"

\* What a task shows that is to be sent or decided, by the states of its dependencies.
AfterDependencies(t, states) ==
  IF states \cap Blockers # {} THEN "blocked"
  ELSE IF ~(states \subseteq {"completed", "skipped"}) THEN "pending"
  ELSE IF graph[t].kind = "human" THEN HumanSays(t) ELSE "ready"

\* What a task shows, by the states of its dependencies.
Shows(t, states) ==
  IF task[t].ended # "no" THEN task[t].ended
  ELSE IF Evaluated(t) # "none" /\ ~RetryRequested(t) THEN Shown(t)
  ELSE AfterDependencies(t, states)

Status[t \in Created] == Shows(t, {Status[d] : d \in graph[t].deps})

-----------------------------------------------------------------------------
(* Edits *)

Edit(t, row) == task' = [task EXCEPT ![t] = row] /\ UNCHANGED <<graph, newest, plan, restarts>>

\* Numbered as they are created; what does not fit is refused.
CreateTask(t) ==
  /\ Created = 1 .. (t - 1) /\ Valid(Created \cup {t})
  /\ Edit(t, NewTask)

\* A failed review is to be followed by a revision instead.
RequestTaskRetry(t) ==
  /\ t \in Created /\ Retryable(t) /\ Evaluated(t) # "refused"
  /\ Edit(t, [task[t] EXCEPT !.retry = Len(Tries(t))])

\* The target gets another attempt, and after it the review; whether the review was of the target's
\* last answer is not asked.
RetryReviewLoop(t) ==
  LET target == graph[t].target IN
  /\ t \in Created /\ IsReview(t)
  /\ Tries(t) # <<>> /\ Newest(t).reply = "fail" /\ Len(Tries(t)) < graph[t].rounds
  /\ Tries(target) # <<>> /\ Newest(target).state = "replied"
  /\ Hasty \/ (Newest(t).grounds[target] = Len(Tries(target)) /\ \A x \in UNION {plan[r] : r \in Run} : x.task # t)
  /\ task' = [task EXCEPT ![t].retry = Len(Tries(t)),
                          ![target].retry = Len(Tries(target)), ![target].revised = TRUE]
  /\ UNCHANGED <<graph, newest, plan, restarts>>

Ended == {t \in Created : task[t].ended # "no"}

SkipTask(t) ==
  /\ t \in Created /\ Cardinality(Ended) < MaxEnded /\ Status[t] \notin {"running", "completed", "skipped", "cancelled", "rejected"}
  /\ Edit(t, [task[t] EXCEPT !.ended = "skipped"])

CancelTask(t) ==
  /\ t \in Created /\ Cardinality(Ended) < MaxEnded /\ Status[t] \notin {"completed", "skipped", "cancelled", "rejected"}
  /\ Edit(t, [task[t] EXCEPT !.ended = "cancelled"])

\* The attempts of its dependencies that an attempt or a decision goes by.
Grounds(t) == [d \in Tasks |-> IF d \in graph[t].deps THEN Len(Tries(d)) ELSE 0]

DecideHumanTask(t) ==
  /\ t \in Created /\ graph[t].kind = "human" /\ Status[t] = "waiting-human"
  /\ \E v \in {"approve", "reject"} : Edit(t, [task[t] EXCEPT !.verdict = v, !.judged = Grounds(t)])

\* The Kernel has verified a claim of the task.
CompleteVerifiedClaim(t) ==
  /\ t \in Created /\ graph[t].policy = "verified-claim" /\ ~task[t].machine /\ Tries(t) # <<>>
  /\ Edit(t, [task[t] EXCEPT !.machine = TRUE])

-----------------------------------------------------------------------------
(* The plan *)

\* Slip: an attempt that was acknowledged is as good as answered.
AllowsUnlessUncertain(t, p) ==
  newest[p] # None => LET try == Tries(newest[p][1])[newest[p][2]] IN
                      try.state = "uncertain" => newest[p] = <<t, task[t].retry>>

\* A page without an open attempt; one whose last is in doubt is only for that attempt's retry.
Allows(t, p) ==
  newest[p] # None => LET try == Tries(newest[p][1])[newest[p][2]] IN
                      /\ try.state # "open"
                      /\ try.state = "uncertain" => newest[p] = <<t, task[t].retry>>

Candidates(t, idle) == {p \in idle : Allows(t, p) /\ graph[t].score[p] > 0}

Ready == LET status == Status IN {t \in Created : status[t] = "ready"}

\* Slip: first come, first served.
ByAge(idle, t, u) == t < u

\* Who has fewest pages to choose from chooses first.
Before(idle, t, u) ==
  LET n(x) == Cardinality(Candidates(x, idle)) IN n(t) < n(u) \/ (n(t) = n(u) /\ t < u)

\* The best score; then the page that suits fewest; then the first.
Better(t, idle, p, q) ==
  LET score  == graph[t].score
      Suited(x) == Cardinality({u \in Ready : x \in Candidates(u, idle)}) IN
  \/ score[p] > score[q]
  \/ score[p] = score[q] /\ (Suited(p) < Suited(q) \/ (Suited(p) = Suited(q) /\ p < q))

\* The best of the pages that are left when a task has its turn, or None.
Turn(given, t, idle) ==
  LET free == Candidates(t, idle) \ {given[u] : u \in {v \in DOMAIN given : Before(idle, v, t)}} IN
  IF free = {} THEN given[t] = None
  ELSE given[t] \in free /\ \A q \in free \ {given[t]} : Better(t, idle, given[t], q)

\* What the ready tasks are given, each in its turn.
Plans(idle) == {given \in [Ready -> idle \cup {None}] : \A t \in DOMAIN given : Turn(given, t, idle)}

\* What distinguishes versions of a task, for one that is being sent.
RevisionKey(t) == <<t, [task[t] EXCEPT !.tries = Len(Tries(t)), !.judged = NoGrounds]>>

\* A planner reads tasks and pages, and decides.
RunReadyTasks(r) ==
  /\ plan[r] = {}
  /\ \E idle \in SUBSET Pages : \E given \in Plans(idle) :
       LET sends == {[task |-> t, tab |-> given[t], at |-> "planned", key |-> RevisionKey(t),
                      grounds |-> Grounds(t)] : t \in {u \in Ready : given[u] # None}} IN
       sends # {} /\ plan' = [plan EXCEPT ![r] = sends]
  /\ UNCHANGED <<graph, task, newest, restarts>>

-----------------------------------------------------------------------------
(* Carrying it out *)

Sends == UNION {plan[r] : r \in Run}
Goes(r, x, at) == plan' = [plan EXCEPT ![r] = (@ \ {x}) \cup {[x EXCEPT !.at = at]}]
Ends(r, x) == plan' = [plan EXCEPT ![r] = @ \ {x}]

\* All begin at once, but for those whose version of the task somebody else is sending.
Begin(r) ==
  /\ \E x \in plan[r] : x.at = "planned"
  /\ plan' = [plan EXCEPT ![r] =
       {[x EXCEPT !.at = "begun"] : x \in {y \in @ : ~\E z \in Sends : z.at # "planned" /\ z.key = y.key}}]
  /\ UNCHANGED <<graph, task, newest, restarts>>

\* No workspace, no page, no permit: no attempt.
NotSent(r, x) == x.at = "begun" /\ Ends(r, x) /\ UNCHANGED <<graph, task, newest, restarts>>

\* One attempt at a time on a page.  The task is as it is by now.
PrepareAttempt(r, x) ==
  /\ x.at = "begun" /\ ~\E y \in Sends : y.at = "sending" /\ y.tab = x.tab
  /\ Attempts < MaxTries
  /\ task' = [task EXCEPT ![x.task].tries =
                Append(@, [state |-> "open", reply |-> NoReply, tab |-> x.tab, grounds |-> x.grounds])]
  /\ newest' = [newest EXCEPT ![x.tab] = <<x.task, Len(Tries(x.task)) + 1>>]
  /\ Goes(r, x, "sending")
  /\ UNCHANGED <<graph, restarts>>

\* An answer that was seen is final.
Advanced(try, state) == IF try.state = "open" THEN [try EXCEPT !.state = state] ELSE try

Sent(r, x) ==
  /\ x.at = "sending" /\ Ends(r, x)
  /\ \E state \in {"open", "failed", "uncertain"} :
       task' = [task EXCEPT ![x.task].tries[newest[x.tab][2]] = Advanced(@, state)]
  /\ UNCHANGED <<graph, newest, restarts>>

\* What a task may be answered, as far as its policy looks at it.
Replies(t) == CASE graph[t].policy = "structured-result" -> {"good", "malformed"}
                [] graph[t].policy = "review-pass"       -> {"good", "fail", "malformed"}
                [] OTHER                                 -> {"good"}

\* An answer may come late, to an attempt given up as uncertain and to one that is not the last.
ReplyObserved(t, i) ==
  /\ t \in Created /\ i \in DOMAIN Tries(t) /\ Tries(t)[i].state \in {"open", "uncertain"}
  /\ \E x \in Replies(t) : Edit(t, [task[t] EXCEPT !.tries[i].state = "replied", !.tries[i].reply = x])

\* The worker starts again: its plans are gone, and what is open is judged by what the pages
\* still know.  Only what was being sent may not have been.
Restart ==
  LET opened == {a \in Created \X (1 .. MaxTries) : a[2] \in DOMAIN Tries(a[1]) /\ Tries(a[1])[a[2]].state = "open"}
      sent   == {newest[x.tab] : x \in {y \in Sends : y.at = "sending"}} IN
  /\ restarts < MaxRestarts /\ restarts' = restarts + 1
  /\ \E failed \in SUBSET (opened \cap sent) : \E uncertain \in SUBSET (opened \ failed) :
       LET Judged(t, i) == IF <<t, i>> \in failed THEN "failed" ELSE IF <<t, i>> \in uncertain THEN "uncertain"
                           ELSE Tries(t)[i].state
           TriesOf(t) == [i \in DOMAIN Tries(t) |-> [Tries(t)[i] EXCEPT !.state = Judged(t, i)]] IN
       task' = [t \in Tasks |-> IF t \in Created THEN [task[t] EXCEPT !.tries = TriesOf(t)] ELSE None]
  /\ plan' = [r \in Run |-> {}]
  /\ UNCHANGED <<graph, newest>>

Human(t) == \/ CreateTask(t) \/ RequestTaskRetry(t) \/ RetryReviewLoop(t)
            \/ SkipTask(t) \/ CancelTask(t) \/ DecideHumanTask(t)

Planner(r) == \/ RunReadyTasks(r) \/ Begin(r)
              \/ \E x \in plan[r] : NotSent(r, x) \/ PrepareAttempt(r, x) \/ Sent(r, x)

GraphNext == \/ \E t \in Tasks : \/ Human(t) \/ CompleteVerifiedClaim(t)
                                \/ \E i \in 1 .. MaxTries : ReplyObserved(t, i)
             \/ \E r \in Run : Planner(r)
             \/ Restart

GraphSpec == InitGraph /\ [][GraphNext]_graphVars

-----------------------------------------------------------------------------
(* Properties *)

Reviews == {t \in Created : IsReview(t)}
Answered(d, i) == i \in DOMAIN Tries(d) /\ Tries(d)[i].reply = "good"

\* A review is not asked for more often than it may have rounds, whatever is retried and however
\* late an answer comes.
RoundsAreBounded == \A t \in Reviews : Len(Tries(t)) <= graph[t].rounds

\* Whatever was ever sent for a task was sent on answers its dependencies had given and that were
\* accepted, or the dependency had been skipped, or it was for a human.
GroundsAreSound ==
  \A t \in Created : \A i \in DOMAIN Tries(t) : \A d \in graph[t].deps :
    \/ Answered(d, Tries(t)[i].grounds[d])
    \/ task[d].ended = "skipped"
    \/ graph[d].kind = "human" /\ task[d].verdict = "approve"
    \/ graph[d].policy = "verified-claim" /\ task[d].machine

\* A page has one prompt to answer at a time.
PagesAreSerial ==
  \A t \in Created : \A i \in DOMAIN Tries(t) : Tries(t)[i].state = "open" => newest[Tries(t)[i].tab] = <<t, i>>

\* A review that was passed was of the answer its target now goes by.
ReviewedIsCurrent ==
  \A t \in Reviews :
    LET d == graph[t].target IN
    Status[t] = "completed" /\ Status[d] = "completed" => Newest(t).grounds[d] = Len(Tries(d))

\* No page is given to two tasks or to one it does not suit, and who goes without does so because
\* all pages that suit it went to tasks that had no more to choose from.
PlanIsFair ==
  \A idle \in SUBSET Pages : \A given \in Plans(idle) : \A t \in Ready :
    LET Choice(u) == Candidates(u, idle) IN
    IF given[t] = None
      THEN \A p \in Choice(t) : \E u \in Ready : given[u] = p /\ Cardinality(Choice(u)) <= Cardinality(Choice(t))
      ELSE given[t] \in Choice(t) /\ \A u \in Ready \ {t} : given[u] # given[t]

\* Whatever pages are idle, there is one plan.
PlansAreDefinite == \A idle \in SUBSET Pages : Cardinality(Plans(idle)) = 1

\* Pages are given to tasks in one way and fairly, and answer one prompt at a time; a task is sent on
\* accepted answers only, and a review no more often than it has rounds.
TasksAreSound ==
  /\ GraphTypeOK /\ PlansAreDefinite /\ PlanIsFair /\ PagesAreSerial
  /\ GroundsAreSound /\ RoundsAreBounded

\* Refuted: a human's approval is of the answers its dependencies now go by.
ApprovalIsCurrent ==
  \A t \in Created : graph[t].kind = "human" /\ Status[t] = "completed" =>
    \A d \in graph[t].deps : Status[d] = "completed" => task[t].judged[d] = Len(Tries(d))

\* Refuted: after a failed review the next one is of another answer.
RefusedIsRevised ==
  \A t \in Reviews : \A i \in 2 .. Len(Tries(t)) :
    LET d == graph[t].target IN
    Tries(t)[i - 1].reply = "fail" /\ task[d].ended = "no" =>
      Tries(t)[i].grounds[d] > Tries(t)[i - 1].grounds[d]

\* Refuted: what the Kernel has verified is not sent again unless a review asks for it.
VerifiedIsDone ==
  [][\A t \in Created : task[t].machine /\ ~task[t].revised => task'[t].tries = task[t].tries]_graphVars
=============================================================================
