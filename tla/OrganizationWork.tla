-------------------------- MODULE OrganizationWork --------------------------
(***************************************************************************)
(* The organization's work, from a request to the task the extension will  *)
(* run: WorkIngressAuthority (requests, acceptance, cancellation, outcomes), *)
(* the missions and work items of OrganizationAuthority,                   *)
(* OrganizationExecutionBridge.materialize, and the two flows that drive   *)
(* all of them and the runtime acquisition of OrganizationRuntime in one   *)
(* synchronous call: AutonomousIntakeAuthority.submit and                  *)
(* OrganizationWorkflowCoordinator.materializeReviewSlot.                  *)
(*                                                                         *)
(* Each transaction of a flow is a step; gamd may stop between two of them, *)
(* and the same call may be made again.  A request is known by its         *)
(* idempotency key, and the acquisition an intake makes for agent a has    *)
(* the key a ("intake-runtime:<dri>:<project>").  Objectives, refs, titles, *)
(* members and events are left out; what a task's page does is a single    *)
(* external step (TaskEnds).                                               *)
(***************************************************************************)
EXTENDS OrganizationRuntime

CONSTANTS Req,          \* work requests
          ReviewSlot,   \* slots of the Review Pool that want a reviewer
          LeadRole, ReviewRole,
          MaxMissions, MaxItems,  \* bounds
          MaxMoves                \* bound: calls made outside the two flows

ASSUME IntakeKeys == Agent \subseteq Key /\ ReviewSlot \subseteq Key
                     /\ {LeadRole, ReviewRole} \subseteq Role
ASSUME RequestsAreNamed == Null \notin Req
ASSUME WorkBounds == {MaxMissions, MaxItems, MaxMoves} \subseteq Nat

VARIABLES requests,  \* work_requests: status and mission_id
          missions,  \* missions
          items,     \* organization_work_items
          outcomes,  \* the items with a work_outcomes row
          tasks,     \* manager_tasks projected from items: "open" or "ended"
          reviews,   \* per review slot: its work item, and whether typed binding exists
          flow,      \* the intake or review call gamd is executing
          moves      \* calls made so far outside the two flows

workVars == <<requests, missions, items, outcomes, tasks, reviews, flow>>
allVars == <<runtimeVars, workVars, moves>>

NoFlow == [kind |-> "none"]
MissionId == 1..Len(missions)
ItemId == 1..Len(items)
Ended == {"completed", "cancelled"}
MissionRow == [req : Req \cup {Null}, status : {"proposed", "active", "blocked"} \cup Ended,
               dri : Agent \cup {0}]
ItemRow == [mission : 1..MaxMissions, owner : Agent \cup {0}, needs : SUBSET (1..MaxItems),
            status : {"proposed", "ready", "active", "blocked"} \cup Ended]

WorkTypeOK ==
  /\ requests \in [Req -> [status : {"none", "received", "accepted", "rejected", "cancelled"},
                           mission : 0..MaxMissions]]
  /\ missions \in Seq(MissionRow) /\ Len(missions) <= MaxMissions
  /\ items \in Seq(ItemRow) /\ Len(items) <= MaxItems
  /\ outcomes \subseteq ItemId /\ DOMAIN tasks \subseteq ItemId
  /\ \A i \in DOMAIN tasks : tasks[i] \in {"open", "ended"}
  /\ reviews \in [ReviewSlot -> [item : 0..MaxItems, bound : BOOLEAN]]
  /\ flow = NoFlow \/ flow.kind \in {"intake", "review"}
  /\ moves \in 0..MaxMoves

InitWork ==
  /\ InitRuntime
  /\ requests = [r \in Req |-> [status |-> "none", mission |-> 0]]
  /\ missions = <<>> /\ items = <<>> /\ outcomes = {} /\ tasks = <<>>
  /\ reviews = [v \in ReviewSlot |-> [item |-> 0, bound |-> FALSE]]
  /\ flow = NoFlow /\ moves = 0

(* Nothing but the flow's own steps runs while a flow runs.                 *)
AtRest == running = Idle /\ flow = NoFlow
----------------------------------------------------------------------------
(* Requests (WorkIngressAuthority). *)

SetRequest(r, status) == requests' = [requests EXCEPT ![r].status = status]

SubmitRequest(r) ==
  /\ requests[r].status = "none" /\ SetRequest(r, "received")
  /\ UNCHANGED <<runtimeVars, missions, items, outcomes, tasks, reviews, flow>>

RejectRequest(r) ==
  /\ requests[r].status = "received" /\ SetRequest(r, "rejected")
  /\ UNCHANGED <<runtimeVars, missions, items, outcomes, tasks, reviews, flow>>

(* accept: the mission, its one work item and the request in a transaction. *)
Accepting(r, d) ==
  /\ Len(missions) < MaxMissions /\ Len(items) < MaxItems
  /\ missions' = Append(missions, [req |-> r, dri |-> d,
                          status |-> IF d = 0 THEN "proposed" ELSE "active"])
  /\ items' = Append(items, [mission |-> Len(missions) + 1, owner |-> d, needs |-> {},
                             status |-> IF d = 0 THEN "proposed" ELSE "ready"])
  /\ requests' = [requests EXCEPT ![r] = [status |-> "accepted", mission |-> Len(missions) + 1]]

Acceptable(r) == requests[r].status = "received"

AcceptRequest(r, d) ==
  /\ Acceptable(r) /\ d \in Registered \cup {0} /\ Accepting(r, d)
  /\ UNCHANGED <<runtimeVars, outcomes, tasks, reviews, flow>>

CancelledBy(row, m) == row.mission = m /\ row.status \notin Ended

(* cancel: the mission and its unfinished items go down with the request.   *)
CancelRequest(r) ==
  LET m == requests[r].mission IN
  /\ requests[r].status \in {"received", "accepted"} /\ SetRequest(r, "cancelled")
  /\ missions' = [x \in MissionId |-> IF x = m /\ missions[x].status \notin Ended
                                      THEN [missions[x] EXCEPT !.status = "cancelled"] ELSE missions[x]]
  /\ items' = [i \in ItemId |-> IF CancelledBy(items[i], m)
                                THEN [items[i] EXCEPT !.status = "cancelled"] ELSE items[i]]
  /\ UNCHANGED <<runtimeVars, outcomes, tasks, reviews, flow>>

ItemsOf(m) == {i \in ItemId : items[i].mission = m}

(* Slip: completing the last item does not look at the mission's status.    *)
MissionAfterAnyhow(m, i) ==
  IF \A j \in ItemsOf(m) \ {i} : items[j].status \in Ended THEN "completed" ELSE missions[m].status

(* The last item of a mission completes it, unless it was cancelled.        *)
MissionAfter(m, i) ==
  IF missions[m].status /= "cancelled" /\ \A j \in ItemsOf(m) \ {i} : items[j].status \in Ended
  THEN "completed" ELSE missions[m].status

(* completeWorkItem: by its owner or the mission's DRI, once.               *)
CompleteWorkItem(i, a) ==
  LET m == items[i].mission IN
  /\ i \notin outcomes /\ items[i].status /= "cancelled"
  /\ a \in {items[i].owner, missions[m].dri} \ {0}
  /\ items' = [items EXCEPT ![i].status = "completed"]
  /\ outcomes' = outcomes \cup {i}
  /\ missions' = [missions EXCEPT ![m].status = MissionAfter(m, i)]
  /\ UNCHANGED <<runtimeVars, requests, tasks, reviews, flow>>
----------------------------------------------------------------------------
(* Missions and work items (OrganizationAuthority). *)

CreateMission(d) ==
  /\ Len(missions) < MaxMissions /\ d \in Registered \cup {0}
  /\ missions' = Append(missions, [req |-> Null, status |-> "proposed", dri |-> d])
  /\ UNCHANGED <<runtimeVars, requests, items, outcomes, tasks, reviews, flow>>

AssignMissionDri(m, a) ==
  /\ missions[m].status \notin Ended /\ a \in Registered
  /\ missions' = [missions EXCEPT ![m].dri = a]
  /\ UNCHANGED <<runtimeVars, requests, items, outcomes, tasks, reviews, flow>>

SetMissionStatus(m, status) ==
  /\ missions[m].status \notin Ended \cup {status}
  /\ status = "active" => missions[m].dri /= 0
  /\ missions' = [missions EXCEPT ![m].status = status]
  /\ UNCHANGED <<runtimeVars, requests, items, outcomes, tasks, reviews, flow>>

(* Slip: work is added to a mission whatever has become of it.              *)
OpenAnyhow(m) == TRUE

OpenForWork(m) == missions[m].status \notin Ended

NewItem(m, o, needs) == [mission |-> m, owner |-> o, needs |-> needs, status |-> "proposed"]

CreateWorkItem(m, o, needs) ==
  /\ OpenForWork(m) /\ Len(items) < MaxItems
  /\ o \in Registered \cup {0} /\ needs \subseteq ItemsOf(m)
  /\ items' = Append(items, NewItem(m, o, needs))
  /\ UNCHANGED <<runtimeVars, requests, missions, outcomes, tasks, reviews, flow>>

AssignWorkOwner(i, a) ==
  /\ items[i].status \notin Ended /\ a \in Registered
  /\ items' = [items EXCEPT ![i].owner = a]
  /\ UNCHANGED <<runtimeVars, requests, missions, outcomes, tasks, reviews, flow>>

SetWorkStatus(i, status) ==
  LET o == items[i].owner IN
  /\ items[i].status \notin Ended \cup {status}
  /\ status = "active" => o /= 0 /\ desk[o] = "ready"
  /\ items' = [items EXCEPT ![i].status = status]
  /\ UNCHANGED <<runtimeVars, requests, missions, outcomes, tasks, reviews, flow>>

(* OrganizationExecutionBridge.materialize: everything it demands of the    *)
(* durable state, then appendTask, which keeps a task it already has.       *)
AcquiredSlot(a) ==
  LET K == {k \in LiveAsks(a) : asked[k].status = "acquired"} IN
  IF K = {} THEN 0 ELSE asked[CHOOSE k \in K : TRUE].slot

Projectable(i) ==
  LET o == items[i].owner
      m == missions[items[i].mission]
  IN
  /\ o /= 0 /\ items[i].status \in {"ready", "active"} /\ m.status \in {"active", "blocked"}
  /\ AcquiredSlot(o) /= 0 /\ desk[o] = "ready"
  /\ bound[o] = AcquiredSlot(o) /\ AcquiredSlot(o) \in ActiveSlots
  /\ items[i].needs \subseteq DOMAIN tasks

Projected(i) == [j \in DOMAIN tasks \cup {i} |-> IF j \in DOMAIN tasks THEN tasks[j] ELSE "open"]

ProjectExecution(i) ==
  /\ Projectable(i) /\ tasks' = Projected(i)
  /\ UNCHANGED <<runtimeVars, requests, missions, items, outcomes, reviews, flow>>

(* The extension finishes the task's conversation (external).               *)
TaskEnds(i) ==
  /\ i \in DOMAIN tasks /\ tasks[i] = "open"
  /\ tasks' = [tasks EXCEPT ![i] = "ended"]
  /\ UNCHANGED <<runtimeVars, requests, missions, items, outcomes, reviews, flow>>
----------------------------------------------------------------------------
(* The flows.  kind, step and agent say where the call is; an exception     *)
(* ends it (Raise) and leaves what its transactions have done.              *)

Raise == flow' = NoFlow /\ UNCHANGED <<runtimeVars, requests, missions, items, outcomes, tasks, reviews>>
FlowAt(kind, step) == flow /= NoFlow /\ flow.kind = kind /\ flow.step = step /\ running = Idle
Then(step) == flow' = [flow EXCEPT !.step = step]
WorkKept == UNCHANGED <<requests, missions, items, outcomes, tasks, reviews>>
MissionOf(r) == requests[r].mission

(* AutonomousIntakeAuthority.submit, new or replayed.                       *)
SubmitIntake(r) ==
  /\ requests[r].status \notin {"rejected", "cancelled"}
  /\ flow' = [kind |-> "intake", on |-> r, step |-> "agent", agent |-> 0]
  /\ IF requests[r].status = "none" THEN SetRequest(r, "received") ELSE UNCHANGED requests
  /\ UNCHANGED <<runtimeVars, missions, items, outcomes, tasks, reviews>>

(* materializeReviewSlot of slot v for mission m: nothing when its item     *)
(* exists, bound or not.                                                    *)
StartReview(v, m) ==
  /\ reviews[v].item = 0 /\ m \in MissionId
  /\ flow' = [kind |-> "review", on |-> v, mission |-> m, step |-> "agent", agent |-> 0]
  /\ UNCHANGED runtimeVars /\ WorkKept

(* ensureMissionLead and reviewerFor: the oldest agent without a runtime,   *)
(* else a new one.  The author reviewerFor leaves out is a slot's id, never *)
(* an agent's, so it leaves out nobody.                                     *)
Unoccupied == {a \in Registered : bound[a] = 0}
Unregistered == Agent \ Registered
Youngest(S) == CHOOSE a \in S : \A b \in S : a <= b

PickAgent ==
  LET dri == IF flow.kind = "intake" /\ requests[flow.on].status = "accepted"
             THEN missions[MissionOf(flow.on)].dri ELSE 0
      chosen(a) == flow' = [flow EXCEPT !.agent = a, !.step = "desk"]
  IN
  /\ flow /= NoFlow /\ flow.step = "agent"
  /\ \/ dri /= 0 /\ chosen(dri) /\ UNCHANGED runtimeVars
     \/ dri = 0 /\ Unoccupied /= {} /\ chosen(Youngest(Unoccupied)) /\ UNCHANGED runtimeVars
     \/ /\ dri = 0 /\ Unoccupied = {} /\ Unregistered /= {}
        /\ chosen(Youngest(Unregistered)) /\ RegisterAgent(Youngest(Unregistered))
  /\ WorkKept

(* configureWorkspace and configureReviewer                                 *)
PrepareDesk ==
  /\ flow /= NoFlow /\ flow.step = "desk"
  /\ \/ RequestAgentWorkspace(flow.agent) /\ UNCHANGED flow
     \/ ConfigureAgentWorkspace(flow.agent) /\ UNCHANGED flow
     \/ /\ desk[flow.agent] = "ready" /\ UNCHANGED runtimeVars
        /\ Then(IF flow.kind = "intake" THEN "accept" ELSE "runtime")
  /\ WorkKept

IntakeAccepts ==
  /\ FlowAt("intake", "accept") /\ Then("runtime")
  /\ IF Acceptable(flow.on) THEN Accepting(flow.on, flow.agent)
                            ELSE UNCHANGED <<requests, missions, items>>
  /\ UNCHANGED <<runtimeVars, outcomes, tasks, reviews>>

FlowKey == IF flow.kind = "intake" THEN flow.agent ELSE flow.on
FlowRole == IF flow.kind = "intake" THEN LeadRole ELSE ReviewRole

(* organizationRuntime.requestAndAcquire                                    *)
FlowRequests ==
  /\ flow /= NoFlow /\ flow.step = "runtime" /\ running = Idle
  /\ \/ RequestRuntime(FlowKey, flow.agent, FlowRole) /\ Then("acquire") /\ WorkKept
     \/ /\ asked[FlowKey] /= NoAsk /\ asked[FlowKey].agent = flow.agent
        /\ Then("acquire") /\ UNCHANGED runtimeVars /\ WorkKept
     \/ /\ IF asked[FlowKey] = NoAsk THEN LiveAsks(flow.agent) /= {}
                                     ELSE asked[FlowKey].agent /= flow.agent
        /\ Raise

FlowAcquires ==
  LET ask == asked[FlowKey] IN
  /\ flow /= NoFlow /\ flow.step = "acquire" /\ running = Idle
  /\ \/ StartAcquire(FlowKey) /\ Then("acquired") /\ WorkKept
     \/ /\ ask.status = "acquired" /\ bound[ask.agent] = ask.slot
        /\ Then("acquired") /\ UNCHANGED runtimeVars /\ WorkKept
     \/ /\ \/ ask.status \in {"failed", "released"}
           \/ ask.status = "acquired" /\ bound[ask.agent] /= ask.slot
        /\ Raise

(* Back from acquire: intake projects its item; the review first creates    *)
(* the item, whatever the acquisition came to.                              *)
IntakeProjects ==
  LET i == CHOOSE j \in ItemsOf(MissionOf(flow.on)) :
             \A o \in ItemsOf(MissionOf(flow.on)) : j <= o
  IN
  /\ FlowAt("intake", "acquired")
  /\ IF i \in DOMAIN tasks \/ ~Projectable(i) THEN Raise
     ELSE /\ tasks' = Projected(i) /\ flow' = NoFlow
          /\ UNCHANGED <<runtimeVars, requests, missions, items, outcomes, reviews>>

ReviewCreatesItem ==
  /\ FlowAt("review", "acquired")
  /\ IF ~OpenForWork(flow.mission) THEN Raise
     ELSE /\ Len(items) < MaxItems
          /\ items' = Append(items, NewItem(flow.mission, flow.agent, {}))
          /\ reviews' = [reviews EXCEPT ![flow.on].item = Len(items) + 1]
          /\ Then("ready")
          /\ UNCHANGED <<runtimeVars, requests, missions, outcomes, tasks>>

ReviewReady ==
  /\ FlowAt("review", "ready") /\ Then("project")
  /\ items' = [items EXCEPT ![reviews[flow.on].item].status = "ready"]
  /\ UNCHANGED <<runtimeVars, requests, missions, outcomes, tasks, reviews>>

ReviewProjects ==
  LET i == reviews[flow.on].item IN
  /\ FlowAt("review", "project")
  /\ IF ~Projectable(i) THEN Raise
     ELSE /\ tasks' = Projected(i) /\ Then("bind")
          /\ UNCHANGED <<runtimeVars, requests, missions, items, outcomes, reviews>>

ReviewBinds ==
  /\ FlowAt("review", "bind") /\ flow' = NoFlow
  /\ reviews' = [reviews EXCEPT ![flow.on].bound = TRUE]
  /\ UNCHANGED <<runtimeVars, requests, missions, items, outcomes, tasks>>

FlowCrash ==
  /\ flow /= NoFlow /\ faults < MaxFaults
  /\ flow' = NoFlow /\ running' = Idle /\ faults' = faults + 1
  /\ UNCHANGED <<slots, bound, desk, mind, asked>> /\ WorkKept
----------------------------------------------------------------------------
RequestOperation ==
  \/ \E r \in Req : SubmitRequest(r)
  \/ \E r \in Req, d \in Agent \cup {0} : AcceptRequest(r, d)
  \/ \E r \in Req : RejectRequest(r)
  \/ \E r \in Req : CancelRequest(r)
  \/ \E i \in ItemId, a \in Agent : CompleteWorkItem(i, a)

MissionOperation ==
  \/ \E d \in Agent \cup {0} : CreateMission(d)
  \/ \E m \in MissionId, a \in Agent : AssignMissionDri(m, a)
  \/ \E m \in MissionId, st \in {"active", "blocked", "completed", "cancelled"} : SetMissionStatus(m, st)
  \/ \E m \in MissionId, o \in Agent \cup {0}, n \in SUBSET ItemId : CreateWorkItem(m, o, n)
  \/ \E i \in ItemId, a \in Agent : AssignWorkOwner(i, a)
  \/ \E i \in ItemId, st \in {"ready", "active", "blocked", "completed", "cancelled"} : SetWorkStatus(i, st)
  \/ \E i \in ItemId : ProjectExecution(i)
  \/ \E i \in ItemId : TaskEnds(i)

FlowStep ==
  \/ PickAgent
  \/ PrepareDesk
  \/ IntakeAccepts
  \/ FlowRequests
  \/ FlowAcquires
  \/ IntakeProjects
  \/ ReviewCreatesItem
  \/ ReviewReady
  \/ ReviewProjects
  \/ ReviewBinds

Move == AtRest /\ moves < MaxMoves /\ moves' = moves + 1

WorkNext ==
  \/ Move /\ RequestOperation
  \/ Move /\ MissionOperation
  \/ Move /\ (SlotOperation \/ AgentOperation \/ LedgerOperation) /\ UNCHANGED workVars
  \/ AtRest /\ \E r \in Req : SubmitIntake(r) /\ UNCHANGED moves
  \/ AtRest /\ \E v \in ReviewSlot, m \in MissionId : StartReview(v, m) /\ UNCHANGED moves
  \/ RuntimeStep /\ UNCHANGED <<workVars, moves>>
  \/ FlowStep /\ UNCHANGED moves
  \/ flow = NoFlow /\ Crash /\ UNCHANGED <<workVars, moves>>
  \/ FlowCrash /\ UNCHANGED moves

WorkSpec == InitWork /\ [][WorkNext]_allVars
----------------------------------------------------------------------------
(* However often an intake is replayed, by hand or after a crash, and       *)
(* whoever accepts in between, a request has one mission and knows it.      *)
OneMissionPerRequest ==
  \A r \in Req :
    /\ {m \in MissionId : missions[m].req = r} = {requests[r].mission} \ {0}
    /\ requests[r].status = "accepted" => requests[r].mission /= 0

(* What has ended stays as it ended: a cancelled mission is not completed   *)
(* by an item that finishes late, nor is its item by an outcome.            *)
EndsAreFinal ==
  [][/\ \A m \in MissionId : missions[m].status \in Ended => missions'[m].status = missions[m].status
     /\ \A i \in ItemId : items[i].status \in Ended => items'[i].status = items[i].status]_allVars

(* A cancelled request leaves no work behind it: whatever was added to its  *)
(* mission before or after, by people or by a flow under way, has ended.    *)
CancelledLeavesNoWork ==
  \A r \in Req : requests[r].status = "cancelled" /\ requests[r].mission /= 0 =>
    /\ missions[requests[r].mission].status \in Ended
    /\ \A i \in ItemsOf(requests[r].mission) : items[i].status \in Ended

(* docs/ORGANIZATION_EXECUTION_INGRESS.md: "Dependencies were already       *)
(* materialized": no task waits for one that does not exist.                *)
TasksHaveTheirDependencies == \A i \in DOMAIN tasks : items[i].needs \subseteq DOMAIN tasks

(* A request has one mission and leaves no work when it is cancelled, and   *)
(* no task waits for work that was never made.                              *)
WorkIsSound ==
  WorkTypeOK /\ OneMissionPerRequest /\ CancelledLeavesNoWork /\ TasksHaveTheirDependencies
============================================================================
