------------------------ MODULE OrganizationRuntime ------------------------
(***************************************************************************)
(* How a persistent Organization Agent gets, keeps and gives back the      *)
(* AgentSlot it works through: OrganizationRuntimeAcquisitionAuthority,    *)
(* the agents, their workspaces and their bindings of OrganizationAuthority, *)
(* AgentContinuityAuthority, and the AgentSlot handlers of ControlPlane    *)
(* that read or write those bindings.                                      *)
(*                                                                         *)
(* gamd is single-threaded and its calls are synchronous, so nothing runs  *)
(* between the transactions of one acquire or release; but gamd may stop   *)
(* between any two of them (Crash), and "running" is the call that would   *)
(* then be torn.                                                           *)
(*                                                                         *)
(* One organization and one active project (createProject's minSlots is 0, *)
(* as intake creates it): a slot of another project differs from one of    *)
(* another role only in the message of the refusal.  The charter text, the *)
(* profiles' names and the events are left out; conversation rollovers are *)
(* ConversationRollover's.                                                 *)
(***************************************************************************)
EXTENDS Integers, Sequences, FiniteSets

CONSTANTS Agent,       \* organization agents: naturals, in order of registration
          Role,        \* roles of AgentSlots
          Key,         \* idempotency keys of acquisitions (and their records)
          Chat,        \* durable conversations
          MaxSlots,    \* the project's maxSlots
          MaxCreated,  \* bound: slots ever created
          MaxFaults,   \* bound: stops of gamd inside a call and lost workspaces
          Null

ASSUME AgentsAreOrdered == Agent \subseteq Nat \ {0} /\ Null \notin Role \cup Chat
ASSUME SlotBounds == {MaxSlots, MaxCreated, MaxFaults} \subseteq Nat

VARIABLES slots,    \* the agent_slots rows, oldest first
          bound,    \* organization_agents.runtime_slot_id (0: NULL)
          desk,     \* status of the agent's newest agent_workspaces row
          mind,     \* the agent's active organization_agent_conversations row
          asked,    \* organization_runtime_acquisitions by idempotency key
          running,  \* the acquire or release gamd is executing
          faults

runtimeVars == <<slots, bound, desk, mind, asked, running, faults>>

SlotId == 1..Len(slots)
SlotRow == [role : Role, status : {"idle", "assigned", "suspended", "retired"},
            desired : {"active", "suspended", "retired"},
            page : {"absent", "open"}, chat : Chat \cup {Null}]
NoMind == [chat |-> Null, slot |-> 0]
NoAsk == [status |-> "none"]
AskRow == [status : {"requested", "acquiring", "acquired", "released", "failed"},
           agent : Agent, role : Role, slot : 0..MaxCreated]
Idle == [step |-> "idle"]
Step(step, k, s) == [step |-> step, key |-> k, slot |-> s]

TypeOK ==
  /\ slots \in Seq(SlotRow) /\ Len(slots) <= MaxCreated
  /\ bound \in [Agent -> 0..MaxCreated]
  /\ desk \in [Agent -> {"none", "configuring", "ready", "error", "retired"}]
  /\ mind \in [Agent -> [chat : Chat \cup {Null}, slot : 0..MaxCreated]]
  /\ asked \in [Key -> AskRow \cup {NoAsk}]
  /\ \/ running = Idle
     \/ running \in [step : {"choose", "bind", "finish", "caught", "release"},
                     key : Key, slot : 0..MaxCreated]
  /\ faults \in 0..MaxFaults

InitRuntime ==
  /\ slots = <<>>
  /\ bound = [a \in Agent |-> 0]
  /\ desk = [a \in Agent |-> "none"]
  /\ mind = [a \in Agent |-> NoMind]
  /\ asked = [k \in Key |-> NoAsk]
  /\ running = Idle
  /\ faults = 0

Registered == {a \in Agent : desk[a] /= "none"}
BoundTo(s) == {a \in Agent : bound[a] = s}
ActiveSlots == {s \in SlotId : slots[s].desired = "active" /\ slots[s].status /= "retired"}
Live == {"requested", "acquiring", "acquired"}
LiveAsks(a) == {k \in Key : asked[k].status \in Live /\ asked[k].agent = a}
Held(c) == {s \in SlotId : slots[s].chat = c}
----------------------------------------------------------------------------
(* Agents and their workspaces (OrganizationAuthority). *)

RegisterAgent(a) ==
  /\ desk[a] = "none" /\ \A b \in Agent : b < a => desk[b] /= "none"
  /\ desk' = [desk EXCEPT ![a] = "configuring"]
  /\ UNCHANGED <<slots, bound, mind, asked, running, faults>>

SetDesk(a, status) ==
  /\ desk' = [desk EXCEPT ![a] = status]
  /\ UNCHANGED <<slots, bound, mind, asked, running>>

Kept == UNCHANGED faults
Lost == faults < MaxFaults /\ faults' = faults + 1

RequestAgentWorkspace(a) == desk[a] = "retired" /\ SetDesk(a, "configuring") /\ Kept
ConfigureAgentWorkspace(a) == desk[a] \in {"configuring", "error"} /\ SetDesk(a, "ready") /\ Kept
FailAgentWorkspace(a) == desk[a] \in {"configuring", "ready"} /\ SetDesk(a, "error") /\ Lost
(* Slip: retiring does not look whether the agent still works at the desk. *)
RetireOccupiedWorkspace(a) ==
  desk[a] \notin {"none", "retired"} /\ SetDesk(a, "retired") /\ Lost

RetireAgentWorkspace(a) ==
  desk[a] \notin {"none", "retired"} /\ bound[a] = 0 /\ SetDesk(a, "retired") /\ Lost
----------------------------------------------------------------------------
(* AgentSlots (ControlPlane). *)

SetSlot(s, row) ==
  /\ slots' = [slots EXCEPT ![s] = row]
  /\ UNCHANGED <<bound, desk, mind, asked, running, faults>>

CreateRefused(r) ==
  \/ Cardinality(ActiveSlots) >= MaxSlots
  \/ \E s \in ActiveSlots : slots[s].role = r

FreshSlot(r) == [role |-> r, status |-> "idle", desired |-> "active",
                 page |-> "absent", chat |-> Null]

CreateAgentSlot(r) ==
  /\ ~CreateRefused(r) /\ Len(slots) < MaxCreated
  /\ slots' = Append(slots, FreshSlot(r))
  /\ UNCHANGED <<bound, desk, mind, asked, running, faults>>

(* A slot whose page is gone stops at once, any other when its page goes. *)
Stop(row, status) ==
  IF row.page = "absent" THEN [row EXCEPT !.desired = status, !.status = status]
                         ELSE [row EXCEPT !.desired = status]

SuspendAgentSlot(s) ==
  slots[s].desired = "active" /\ SetSlot(s, Stop(slots[s], "suspended"))

RetireAgentSlot(s) ==
  /\ slots[s].desired /= "retired" \/ slots[s].status /= "retired"
  /\ SetSlot(s, Stop(slots[s], "retired"))

Resting(row) == IF row.chat = Null THEN "idle" ELSE "assigned"

ResumeAgentSlot(s) ==
  /\ slots[s].desired = "suspended" /\ Cardinality(ActiveSlots) < MaxSlots
  /\ SetSlot(s, [slots[s] EXCEPT !.desired = "active", !.status = Resting(slots[s])])

(* AgentContinuityAuthority.bind of chat c for the agent of slot s, its     *)
(* refusals and what it writes: the first conversation is the agent's for  *)
(* good, a known one only moves with the agent to its present slot.        *)
MindRefuses(a, c) ==
  \/ mind[a].chat \notin {Null, c}
  \/ \E b \in Agent \ {a} : mind[b].chat = c

MindAt(s, c) == [a \in Agent |-> IF bound[a] = s THEN [chat |-> c, slot |-> s] ELSE mind[a]]

(* reportAgentBrowser: the extension saw the slot's page open, showing c.   *)
PageOpened(s, c) ==
  LET row == slots[s] IN
  /\ row.desired = "active"
  /\ \A a \in BoundTo(s) : desk[a] = "ready"
  /\ c /= Null =>
       /\ row.chat \in {Null, c}
       /\ Held(c) \subseteq {s}
       /\ \A a \in BoundTo(s) : ~MindRefuses(a, c)
  /\ LET chat == IF c = Null THEN row.chat ELSE c IN
     slots' = [slots EXCEPT ![s] = [row EXCEPT !.page = "open", !.chat = chat,
                 !.status = IF chat = Null THEN "idle" ELSE "assigned"]]
  /\ mind' = IF c = Null THEN mind ELSE MindAt(s, c)
  /\ UNCHANGED <<bound, desk, asked, running, faults>>

(* reportAgentBrowser: the page is gone, and with it whatever the slot was  *)
(* waiting for to stop.  Refused too while the bound agent's desk is down.  *)
PageGone(s) ==
  /\ slots[s].page = "open"
  /\ \A a \in BoundTo(s) : desk[a] = "ready"
  /\ LET row == [slots[s] EXCEPT !.page = "absent"] IN
     SetSlot(s, IF row.desired = "active" THEN [row EXCEPT !.status = Resting(row)]
                                          ELSE [row EXCEPT !.status = row.desired])

(* bindAgentConversation: an operator gives the slot a conversation; the    *)
(* agent's own conversation may leave a slot nobody is bound to any more.   *)
BindRefused(s, c) ==
  \/ slots[s].desired /= "active" \/ slots[s].chat \notin {Null, c}
  \/ \E a \in BoundTo(s) : mind[a].chat \notin {Null, c}
  \/ /\ slots[s].chat = Null
     /\ \E o \in Held(c) : \/ slots[o].page /= "absent" \/ BoundTo(o) /= {}
                           \/ \A a \in BoundTo(s) : mind[a].chat /= c
  \/ \E a \in BoundTo(s) : MindRefuses(a, c)

BindAgentConversation(s, c) ==
  /\ ~BindRefused(s, c)
  /\ slots' = [o \in SlotId |->
       IF o = s THEN [slots[o] EXCEPT !.chat = c, !.status =
                        IF slots[o].chat = Null THEN "assigned" ELSE slots[o].status]
       ELSE IF slots[s].chat = Null /\ slots[o].chat = c
            THEN [slots[o] EXCEPT !.chat = Null, !.status =
                    IF slots[o].desired = "active" THEN "idle" ELSE slots[o].status]
       ELSE slots[o]]
  /\ mind' = MindAt(s, c)
  /\ UNCHANGED <<bound, desk, asked, running, faults>>
----------------------------------------------------------------------------
(* The acquisition ledger (OrganizationRuntimeAcquisitionAuthority). *)

SetAsk(k, row) == asked' = [asked EXCEPT ![k] = row]

RequestRuntime(k, a, r) ==
  /\ asked[k] = NoAsk /\ a \in Registered /\ LiveAsks(a) = {}
  /\ SetAsk(k, [status |-> "requested", agent |-> a, role |-> r, slot |-> 0])
  /\ UNCHANGED <<slots, bound, desk, mind, running, faults>>

(* The unique index on live acquisitions refuses a second one of the agent. *)
Retriable(k) == asked[k].status = "failed" /\ LiveAsks(asked[k].agent) = {}

RetryRuntime(k) ==
  /\ Retriable(k)
  /\ SetAsk(k, [asked[k] EXCEPT !.status = "requested"])
  /\ UNCHANGED <<slots, bound, desk, mind, running, faults>>

StartAcquire(k) ==
  /\ asked[k].status \in {"requested", "acquiring"}
  /\ SetAsk(k, [asked[k] EXCEPT !.status = "acquiring"])
  /\ running' = Step("choose", k, 0)
  /\ UNCHANGED <<slots, bound, desk, mind, faults>>

Goto(step, s) == running' = Step(step, running.key, s)

(* Slip: a slot that rests with a conversation is a candidate too.         *)
CandidatesAssigned(r) == {s \in ActiveSlots : /\ slots[s].role = r /\ slots[s].page = "absent"
                                              /\ BoundTo(s) = {}}

Candidates(r) == {s \in SlotId : /\ slots[s].role = r /\ slots[s].status = "idle"
                                 /\ slots[s].desired = "active" /\ slots[s].page = "absent"
                                 /\ BoundTo(s) = {}}
Oldest(S) == CHOOSE s \in S : \A t \in S : s <= t

(* The slot the agent is bound to already, the oldest free one of the role, *)
(* a new one, or no slot: each is a way the try block goes on.              *)
ChooseSlot ==
  LET ask == asked[running.key]
      own == bound[ask.agent]
  IN
  /\ running.step = "choose"
  /\ \/ /\ own /= 0
        /\ Goto(IF slots[own].role = ask.role /\ own \in ActiveSlots THEN "finish" ELSE "caught", own)
        /\ UNCHANGED slots
     \/ /\ own = 0 /\ Candidates(ask.role) /= {}
        /\ Goto("bind", Oldest(Candidates(ask.role)))
        /\ UNCHANGED slots
     \/ /\ own = 0 /\ Candidates(ask.role) = {} /\ CreateRefused(ask.role)
        /\ Goto("caught", 0)
        /\ UNCHANGED slots
     \/ /\ own = 0 /\ Candidates(ask.role) = {} /\ ~CreateRefused(ask.role)
        /\ Len(slots) < MaxCreated
        /\ slots' = Append(slots, FreshSlot(ask.role))
        /\ Goto("bind", Len(slots) + 1)
  /\ UNCHANGED <<bound, desk, mind, asked, faults>>

(* bindRuntimeSlot *)
BindingRefused(a, s) ==
  \/ desk[a] /= "ready"
  \/ mind[a].chat /= Null /\ slots[s].chat \notin {Null, mind[a].chat}
  \/ BoundTo(s) \ {a} /= {}

BindSlot ==
  LET a == asked[running.key].agent IN
  /\ running.step = "bind"
  /\ IF BindingRefused(a, running.slot)
     THEN Goto("caught", running.slot) /\ UNCHANGED <<bound, mind>>
     ELSE /\ bound' = [bound EXCEPT ![a] = running.slot]
          /\ mind' = [mind EXCEPT ![a].slot = IF mind[a].chat = Null THEN 0 ELSE running.slot]
          /\ Goto("finish", running.slot)
  /\ UNCHANGED <<slots, desk, asked, faults>>

(* The catch block: a binding that stands is an acquisition all the same.  *)
CatchFailure ==
  LET k == running.key IN
  /\ running.step = "caught"
  /\ IF running.slot /= 0 /\ bound[asked[k].agent] = running.slot
     THEN Goto("finish", running.slot) /\ UNCHANGED asked
     ELSE running' = Idle /\ SetAsk(k, [asked[k] EXCEPT !.status = "failed"])
  /\ UNCHANGED <<slots, bound, desk, mind, faults>>

(* What the triggers of organization_runtime_acquisitions let through.     *)
TriggersAllow(k, s) ==
  /\ slots[s].role = asked[k].role /\ slots[s].status /= "retired"
  /\ bound[asked[k].agent] = s

MarkAcquired ==
  LET k == running.key IN
  /\ running.step = "finish"
  /\ IF TriggersAllow(k, running.slot)
     THEN SetAsk(k, [asked[k] EXCEPT !.status = "acquired", !.slot = running.slot])
     ELSE UNCHANGED asked
  /\ running' = Idle
  /\ UNCHANGED <<slots, bound, desk, mind, faults>>

(* unbindRuntimeSlot, the first transaction of release.                    *)
ReleaseRefused(k) ==
  LET own == bound[asked[k].agent] IN
  \/ /\ own \notin {0, asked[k].slot}
     /\ asked[k].status /= "acquiring" \/ slots[own].role /= asked[k].role
  \/ own /= 0 /\ slots[own].page /= "absent"

StartRelease(k) ==
  LET a == asked[k].agent IN
  /\ asked[k].status \notin {"none", "released"} /\ ~ReleaseRefused(k)
  /\ bound' = [bound EXCEPT ![a] = 0]
  /\ mind' = [mind EXCEPT ![a].slot = IF @ = bound[a] THEN 0 ELSE @]
  /\ running' = Step("release", k, 0)
  /\ UNCHANGED <<slots, desk, asked, faults>>

MarkReleased ==
  /\ running.step = "release"
  /\ SetAsk(running.key, [asked[running.key] EXCEPT !.status = "released"])
  /\ running' = Idle
  /\ UNCHANGED <<slots, bound, desk, mind, faults>>

(* gamd stops between two transactions of the call.                        *)
Crash ==
  /\ running /= Idle /\ faults < MaxFaults
  /\ running' = Idle /\ faults' = faults + 1
  /\ UNCHANGED <<slots, bound, desk, mind, asked>>
----------------------------------------------------------------------------
SlotOperation ==
  \/ \E r \in Role : CreateAgentSlot(r)
  \/ \E s \in SlotId : SuspendAgentSlot(s)
  \/ \E s \in SlotId : RetireAgentSlot(s)
  \/ \E s \in SlotId : ResumeAgentSlot(s)
  \/ \E s \in SlotId, c \in Chat \cup {Null} : PageOpened(s, c)
  \/ \E s \in SlotId : PageGone(s)
  \/ \E s \in SlotId, c \in Chat : BindAgentConversation(s, c)

AgentOperation ==
  \/ \E a \in Agent : RegisterAgent(a)
  \/ \E a \in Agent : RequestAgentWorkspace(a)
  \/ \E a \in Agent : ConfigureAgentWorkspace(a)
  \/ \E a \in Agent : FailAgentWorkspace(a)
  \/ \E a \in Agent : RetireAgentWorkspace(a)

LedgerOperation ==
  \/ \E k \in Key, a \in Agent, r \in Role : RequestRuntime(k, a, r)
  \/ \E k \in Key : RetryRuntime(k)
  \/ \E k \in Key : StartAcquire(k)
  \/ \E k \in Key : StartRelease(k)

RuntimeStep == ChooseSlot \/ BindSlot \/ CatchFailure \/ MarkAcquired \/ MarkReleased

RuntimeNext ==
  \/ running = Idle /\ (SlotOperation \/ AgentOperation \/ LedgerOperation)
  \/ RuntimeStep
  \/ Crash

RuntimeSpec == InitRuntime /\ [][RuntimeNext]_runtimeVars
----------------------------------------------------------------------------
(* An acquired record and its agent agree about the slot, or a release was *)
(* cut short and the agent has none: the agent is never found working      *)
(* through a slot that its live acquisition does not name.                 *)
OneRuntimePerAgent ==
  \A a \in Agent :
    /\ Cardinality(LiveAsks(a)) <= 1
    /\ \A k \in LiveAsks(a) : asked[k].status = "acquired" => bound[a] \in {0, asked[k].slot}
    /\ bound[a] /= 0 => LiveAsks(a) /= {}

(* A slot serves one agent, and the conversation on it is that agent's: no  *)
(* order of acquisitions, releases, moved conversations, suspensions and    *)
(* crashes puts an agent in front of another agent's conversation.          *)
ConversationFollowsAgent ==
  /\ \A a, b \in Agent : bound[a] /= 0 /\ bound[a] = bound[b] => a = b
  /\ \A a \in Agent : bound[a] /= 0 => slots[bound[a]].chat \in {Null, mind[a].chat}
  /\ \A a, b \in Agent : mind[a].chat /= Null /\ mind[a].chat = mind[b].chat => a = b
  /\ \A a \in Agent : mind[a].slot \in {0, bound[a]}

(* An agent that has a runtime has a workspace: whatever happens to the     *)
(* workspace afterwards, it is not retired under the agent.                 *)
BoundAgentHasDesk == \A a \in Agent : bound[a] /= 0 => desk[a] \in {"ready", "error"}

(* An agent has at most one runtime, with the desk it needs, and no slot    *)
(* shows one agent the conversation of another, whatever else is going on.  *)
RuntimeIsSound == TypeOK /\ OneRuntimePerAgent /\ ConversationFollowsAgent /\ BoundAgentHasDesk

(* docs/company-governance.md: "Acquisition reuses a compatible idle slot   *)
(* or obtains capacity through the Kernel slot factory": it fails only for  *)
(* want of a workspace or of capacity.  The factory also refuses a second   *)
(* active slot of a role, so the second agent of a role never gets one.     *)
CapacityIsObtained ==
  [][\A k \in Key : asked[k].status = "acquiring" /\ asked'[k].status = "failed" =>
       desk[asked[k].agent] /= "ready" \/ Cardinality(ActiveSlots) >= MaxSlots]_runtimeVars

(* The refusal "Existing Agent runtime slot does not satisfy acquisition    *)
(* intent" keeps an agent from acquiring a slot that is not active.  The    *)
(* catch block marks it acquired after all.                                 *)
AcquiredSlotServes ==
  [][\A k \in Key : asked[k].status = "acquiring" /\ asked'[k].status = "acquired" =>
       asked'[k].slot \in ActiveSlots]_runtimeVars
============================================================================
