------------------------ MODULE ConversationRollover ------------------------
(***************************************************************************)
(* How an AgentSlot moves from one chat conversation to the next           *)
(* (conversationAuthority.ts, agentContinuityAuthority.ts and the handlers *)
(* of controlPlane.ts and organizationAuthority.ts that call them), and    *)
(* how the conversation of the Organization Agent that works through the   *)
(* slot follows it.                                                        *)
(*                                                                         *)
(* A slot has its bound conversation and a record of each it ever had; an  *)
(* Agent has records of its own, which survive the slot.  A rollover goes  *)
(* requested -> opening -> bootstrapping -> completed, or fails on the     *)
(* way; only when it has completed does the Agent's own record follow.     *)
(*                                                                         *)
(* An action is one RPC handler of the single-threaded Kernel, except that *)
(* completing a rollover is three commits, between which the process may   *)
(* stop (pending).  A handler that throws is no step.                      *)
(*                                                                         *)
(* Left out: the lifecycle of slots and projects and the ages of browser   *)
(* observations (a call they refuse is a call that does not happen), tabs  *)
(* and their leases (KernelFencing), how a reply comes to be observed      *)
(* (BrowserLedger), the text of checkpoints.  There is one project.        *)
(***************************************************************************)
EXTENDS Naturals, FiniteSets, FiniteSetsExt

CONSTANTS
  Slot, Agent, Key,  \* AgentSlots, Organization Agents, canonical conversation keys
  Rollover,          \* ids available to agent_rollovers
  Attempt,           \* ids of prompt.send operations
  MayFail,           \* whether an operator declares rollovers failed
  MayCrash,          \* whether the Kernel may stop between two commits
  Null

ASSUME SwitchAssumption == MayFail \in BOOLEAN /\ MayCrash \in BOOLEAN
ASSUME KeyAssumption == IsFiniteSet(Key)
ASSUME NullAssumption == Null \notin Slot \cup Agent \cup Key \cup Rollover \cup Attempt

VARIABLES
  slot,      \* agent_slots: conversation, generation, browser and rollover projection
  conv,      \* agent_conversations, by key; status "none" where there is no row
  roll,      \* agent_rollovers; status "none" before request
  replied,   \* browser_operations settled reply-observed: the slot of each, or Null
  runtime,   \* organization_agents.runtime_slot_id
  agentConv, \* organization_agent_conversations, by key
  pending    \* the rest of completeAgentConversationRollover, not yet carried out

kernelVars == <<slot, conv, roll, replied, runtime, agentConv, pending>>

-----------------------------------------------------------------------------
(* Rows *)

Phase == {"idle", "requested", "opening", "bootstrapping"}
Live  == Phase \ {"idle"}     \* the statuses activeRollover looks for

SlotRow == [ key: Key \cup {Null}, gen: Nat, browser: {"absent", "open"},
             phase: Phase, active: Rollover \cup {Null} ]
ConvRow == [ status: {"none", "active", "closed"}, slot: Slot \cup {Null}, gen: Nat,
             pred: Key \cup {Null} ]
RollRow == [ status: Live \cup {"none", "completed", "failed"}, slot: Slot \cup {Null},
             from: Key \cup {Null}, to: Key \cup {Null}, gen: Nat,
             attempt: Attempt \cup {Null} ]
AgentConvRow == [ status: {"none", "active", "closed"}, agent: Agent \cup {Null}, gen: Nat,
                  pred: Key \cup {Null}, slot: Slot \cup {Null} ]
PendingRow == [ step: {"none", "close", "open"}, agent: Agent \cup {Null},
                slot: Slot \cup {Null}, from: Key \cup {Null}, to: Key \cup {Null} ]

NoConv == [status |-> "none", slot |-> Null, gen |-> 0, pred |-> Null]
NoRoll == [ status |-> "none", slot |-> Null, from |-> Null, to |-> Null, gen |-> 0,
            attempt |-> Null ]
NoAgentConv == [status |-> "none", agent |-> Null, gen |-> 0, pred |-> Null, slot |-> Null]
NoPending == [step |-> "none", agent |-> Null, slot |-> Null, from |-> Null, to |-> Null]

TypeOK ==
  /\ slot \in [Slot -> SlotRow]
  /\ conv \in [Key -> ConvRow]
  /\ roll \in [Rollover -> RollRow]
  /\ replied \in [Attempt -> Slot \cup {Null}]
  /\ runtime \in [Agent -> Slot \cup {Null}]
  /\ agentConv \in [Key -> AgentConvRow]
  /\ pending \in PendingRow

Init ==
  /\ slot = [s \in Slot |-> [ key |-> Null, gen |-> 0, browser |-> "absent",
                              phase |-> "idle", active |-> Null ]]
  /\ conv = [k \in Key |-> NoConv]
  /\ roll = [r \in Rollover |-> NoRoll]
  /\ replied = [o \in Attempt |-> Null]
  /\ runtime = [a \in Agent |-> Null]
  /\ agentConv = [k \in Key |-> NoAgentConv]
  /\ pending = NoPending

\* The event loop runs one handler to its end before the next.
Ready == pending.step = "none"

-----------------------------------------------------------------------------
(* Conversations of a slot *)

\* UNIQUE(slot_id,generation): the row that stands in the way of a new one
Taken(rows, s, g) == \E k \in Key : rows[k].status # "none" /\ rows[k].slot = s /\ rows[k].gen = g

LiveRolls(s) == {r \in Rollover : roll[r].slot = s /\ roll[r].status \in Live}

FirstGen(s) == IF slot[s].gen > 0 THEN slot[s].gen ELSE 1

\* recordCanonical refuses another slot's conversation; inserting a new one needs
\* its generation to be free.
MayRecord(rows, s, k) ==
  IF rows[k].status # "none" THEN rows[k].slot = s ELSE ~Taken(rows, s, FirstGen(s))
Recorded(rows, s, k) ==
  IF rows[k].status # "none" THEN rows
  ELSE [rows EXCEPT ![k] = [status |-> "active", slot |-> s, gen |-> FirstGen(s), pred |-> Null]]
RecordedGen(rows, s, k) == IF rows[k].status # "none" THEN rows[k].gen ELSE FirstGen(s)

-----------------------------------------------------------------------------
(* Conversations of an Agent *)

OnSlot(s) == {a \in Agent : runtime[a] = s}     \* UNIQUE runtime_slot_id: at most one
ActiveKeys(a) == {k \in Key : agentConv[k].status = "active" /\ agentConv[k].agent = a}

LatestGen(a) == Max({0} \cup {agentConv[k].gen : k \in {k \in Key : agentConv[k].agent = a}})

\* No other Agent's active conversation runs on s.
FreeFor(a, s) ==
  \A k \in Key : agentConv[k].status = "active" /\ agentConv[k].slot = s => agentConv[k].agent = a

\* Slip: a closed conversation may be taken up again.
MayFollowAgain(a, k, s) ==
  agentConv[k].agent \in {a, Null} /\ ActiveKeys(a) \subseteq {k} /\ FreeFor(a, s)

\* agentContinuity.bind, on the slot the Agent has
MayFollow(a, k, s) ==
  /\ agentConv[k].agent \in {a, Null}
  /\ IF ActiveKeys(a) = {} THEN agentConv[k].status = "none" ELSE ActiveKeys(a) = {k}
  /\ FreeFor(a, s)
Followed(a, k, s, hint) ==
  IF ActiveKeys(a) # {} THEN [agentConv EXCEPT ![k].slot = s]
  ELSE [agentConv EXCEPT ![k] =
          [ status |-> "active", agent |-> a, pred |-> Null, slot |-> s,
            gen |-> IF hint > LatestGen(a) THEN hint ELSE LatestGen(a) + 1 ]]

\* The slot's Agent, if it has one, binds k as well.
AgentBinds(k, s, hint) ==
  /\ \A a \in OnSlot(s) : MayFollow(a, k, s)
  /\ agentConv' = IF OnSlot(s) = {} THEN agentConv
                  ELSE Followed(CHOOSE a \in OnSlot(s) : TRUE, k, s, hint)

-----------------------------------------------------------------------------
(* Runtime slots of Agents *)

\* organization.bindRuntimeSlot
BindRuntime(a, s) ==
  /\ Ready /\ runtime[a] \in {s, Null} /\ OnSlot(s) \subseteq {a}
  /\ slot[s].key # Null => ActiveKeys(a) \subseteq {slot[s].key}
  /\ ActiveKeys(a) # {} => FreeFor(a, s)
  /\ runtime' = [runtime EXCEPT ![a] = s]
  /\ agentConv' = [k \in Key |-> IF k \in ActiveKeys(a) THEN [agentConv[k] EXCEPT !.slot = s]
                                 ELSE agentConv[k]]
  /\ UNCHANGED <<slot, conv, roll, replied, pending>>

\* organization.unbindRuntimeSlot
UnbindRuntime(a) ==
  /\ Ready /\ runtime[a] # Null /\ slot[runtime[a]].browser = "absent"
  /\ runtime' = [runtime EXCEPT ![a] = Null]
  /\ agentConv' = [k \in Key |-> IF k \in ActiveKeys(a) /\ agentConv[k].slot = runtime[a]
                                 THEN [agentConv[k] EXCEPT !.slot = Null] ELSE agentConv[k]]
  /\ UNCHANGED <<slot, conv, roll, replied, pending>>

-----------------------------------------------------------------------------
(* Binding a conversation to a slot *)

Bound(s, k, g) == [slot EXCEPT ![s].key = k, ![s].gen = g]

\* bindAgentConversation, the slot already has the conversation or it is nobody's
BindConversation(s, k) ==
  /\ Ready /\ slot[s].phase = "idle"
  /\ \A a \in OnSlot(s) : ActiveKeys(a) \subseteq {k}
  /\ slot[s].key \in {k, Null}
  /\ \A c \in Slot \ {s} : slot[c].key # k
  /\ slot[s].key = Null => MayRecord(conv, s, k)
  /\ LET g == IF slot[s].key = Null THEN RecordedGen(conv, s, k) ELSE slot[s].gen
     IN /\ conv' = IF slot[s].key = Null THEN Recorded(conv, s, k) ELSE conv
        /\ slot' = Bound(s, k, g)
        /\ AgentBinds(k, s, g)
  /\ UNCHANGED <<roll, replied, runtime, pending>>

\* ... the Agent brings it along from the slot c it ran on before.
MoveConversation(s, c, k) ==
  /\ Ready /\ slot[s].phase = "idle" /\ slot[s].key = Null
  /\ c # s /\ slot[c].key = k /\ slot[c].browser = "absent"
  /\ OnSlot(c) = {} /\ \E a \in OnSlot(s) : ActiveKeys(a) = {k}
  /\ LET moves == conv[k].status = "active"
         rows  == IF moves THEN [conv EXCEPT ![k].slot = s] ELSE conv
     IN /\ moves => ~Taken(conv, s, conv[k].gen)
        /\ MayRecord(rows, s, k)
        /\ conv' = Recorded(rows, s, k)
        /\ slot' = [Bound(s, k, RecordedGen(rows, s, k)) EXCEPT ![c].key = Null]
        /\ AgentBinds(k, s, RecordedGen(rows, s, k))
  /\ UNCHANGED <<roll, replied, runtime, pending>>

\* acceptCanonical while a rollover is under way
MayAccept(s, k) ==
  \A r \in LiveRolls(s) : /\ roll[r].status \in {"opening", "bootstrapping"}
                          /\ roll[r].to \in {k, Null} /\ conv[k].slot \in {s, Null}

\* INSERT OR IGNORE: neither the key nor the generation may be there already.
Accepted(s, k, r) ==
  IF conv[k].status # "none" \/ Taken(conv, s, roll[r].gen) THEN conv
  ELSE [conv EXCEPT ![k] = [status |-> "active", slot |-> s, gen |-> roll[r].gen, pred |-> roll[r].from]]

Canonicalize(s, k) ==
  IF LiveRolls(s) = {}
  THEN /\ conv' = Recorded(conv, s, k)
       /\ slot' = [Bound(s, k, RecordedGen(conv, s, k)) EXCEPT ![s].browser = "open"]
       /\ UNCHANGED roll
  ELSE \E r \in LiveRolls(s) :
         /\ conv' = Accepted(s, k, r) /\ roll' = [roll EXCEPT ![r].to = k]
         /\ slot' = [Bound(s, k, roll[r].gen) EXCEPT ![s].browser = "open"]

\* The Agent stays with the conversation its slot is rolling away from.
Leaving(a, s) == \E r \in LiveRolls(s) : /\ roll[r].status \in {"opening", "bootstrapping"}
                                         /\ ActiveKeys(a) = {roll[r].from}

\* reportAgentBrowser, an open page that shows the conversation k
MayReport(s, k) ==
  /\ Ready
  /\ \A a \in OnSlot(s) : ActiveKeys(a) \subseteq {k} \/ Leaving(a, s)
  /\ slot[s].key \in {k, Null} /\ \A c \in Slot \ {s} : slot[c].key # k
  /\ slot[s].key = Null => IF LiveRolls(s) = {} THEN MayRecord(conv, s, k) ELSE MayAccept(s, k)
ReportConversation(s, k) ==
  /\ MayReport(s, k)
  /\ IF slot[s].key = Null THEN Canonicalize(s, k)
     ELSE slot' = [slot EXCEPT ![s].browser = "open"] /\ UNCHANGED <<conv, roll>>
  /\ IF \E a \in OnSlot(s) : ~(ActiveKeys(a) \subseteq {k}) THEN UNCHANGED agentConv
     ELSE AgentBinds(k, s, slot'[s].gen)
  /\ UNCHANGED <<replied, runtime, pending>>

\* reportAgentBrowser, without a conversation
ReportBrowser(s, b) ==
  /\ Ready /\ slot[s].browser # b
  /\ slot' = [slot EXCEPT ![s].browser = b]
  /\ UNCHANGED <<conv, roll, replied, runtime, agentConv, pending>>

-----------------------------------------------------------------------------
(* Rolling over *)

\* requestAgentConversationRollover
RequestRollover(s, r) ==
  /\ Ready /\ slot[s].key # Null /\ slot[s].phase = "idle" /\ slot[s].active = Null
  /\ LiveRolls(s) = {} /\ roll[r].status = "none"
  /\ MayRecord(conv, s, slot[s].key)
  /\ conv' = Recorded(conv, s, slot[s].key)
  /\ roll' = [roll EXCEPT ![r] =
                [ status |-> "requested", slot |-> s, from |-> slot[s].key, to |-> Null,
                  gen |-> RecordedGen(conv, s, slot[s].key) + 1, attempt |-> Null ]]
  /\ slot' = [slot EXCEPT ![s].phase = "requested", ![s].active = r]
  /\ UNCHANGED <<replied, runtime, agentConv, pending>>

\* status='closed' WHERE slot_id=? AND conversation_key=? AND status='active'
Closed(s, k) ==
  IF conv[k].status = "active" /\ conv[k].slot = s THEN [conv EXCEPT ![k].status = "closed"] ELSE conv

\* Slip: the slot keeps its conversation until the new one is there.
UnboundLater(s) == [slot EXCEPT ![s].phase = "opening"]

Unbound(s) == [slot EXCEPT ![s].key = Null, ![s].phase = "opening"]

\* beginAgentConversationRollover (never on a page that is generating)
MayBegin(s, r) ==
  /\ Ready /\ r \in LiveRolls(s) /\ roll[r].status = "requested"
  /\ slot[s].active = r /\ slot[s].phase = "requested"
BeginRollover(s, r) ==
  /\ MayBegin(s, r)
  /\ conv' = Closed(s, roll[r].from)
  /\ roll' = [roll EXCEPT ![r].status = "opening"]
  /\ slot' = Unbound(s)
  /\ UNCHANGED <<replied, runtime, agentConv, pending>>

\* markAgentRolloverBootstrap: the handoff was sent with attempt o.
MayMark(s, r, o) ==
  /\ Ready /\ r \in LiveRolls(s) /\ roll[r].status \in {"opening", "bootstrapping"}
  /\ roll[r].attempt \in {o, Null}
MarkBootstrap(s, r, o) ==
  /\ MayMark(s, r, o)
  /\ roll' = [roll EXCEPT ![r].status = "bootstrapping", ![r].attempt = o]
  /\ slot' = [slot EXCEPT ![s].phase = "bootstrapping"]
  /\ UNCHANGED <<conv, replied, runtime, agentConv, pending>>

\* browser.settleOperation(o, 'reply-observed') of an operation planned for s
ObserveReply(s, o) ==
  /\ Ready /\ replied[o] = Null
  /\ replied' = [replied EXCEPT ![o] = s]
  /\ UNCHANGED <<slot, conv, roll, runtime, agentConv, pending>>

\* Slip: any attempt that is named as the bootstrap will do.
ProvedUnread(s, r, o) == roll[r].attempt = o

\* The bootstrap attempt and its reply, from the Kernel's own ledger
Proved(s, r, o) == roll[r].attempt = o /\ replied[o] = s

\* Slip: the Agent is not told.
FollowingNever(s, r) == {}

\* agentContinuity.rollover will be called, and will not refuse or find it done.
Following(s, r) ==
  {a \in OnSlot(s) : /\ ActiveKeys(a) = {roll[r].from} /\ roll[r].from # roll[r].to
                     /\ agentConv[roll[r].to].status = "none"}

Idle(s) == [slot EXCEPT ![s].phase = "idle", ![s].active = Null]

\* completeAgentConversationRollover, up to its first commit
MayComplete(s, r, o) ==
  /\ Ready /\ r \in LiveRolls(s) /\ roll[r].status = "bootstrapping" /\ roll[r].to # Null
  /\ Proved(s, r, o)
CompleteRollover(s, r, o) ==
  /\ MayComplete(s, r, o)
  /\ roll' = [roll EXCEPT ![r].status = "completed"]
  /\ slot' = Idle(s)
  /\ pending' = IF Following(s, r) = {} THEN NoPending
                ELSE [ step |-> "close", slot |-> s, from |-> roll[r].from, to |-> roll[r].to,
                       agent |-> CHOOSE a \in Following(s, r) : TRUE ]
  /\ UNCHANGED <<conv, replied, runtime, agentConv>>

\* ... its second: the Agent's old conversation is closed,
CloseAgentConversation ==
  /\ pending.step = "close"
  /\ agentConv' = [agentConv EXCEPT ![pending.from].status = "closed", ![pending.from].slot = Null]
  /\ pending' = [pending EXCEPT !.step = "open"]
  /\ UNCHANGED <<slot, conv, roll, replied, runtime>>

Successor ==
  [ status |-> "active", agent |-> pending.agent, slot |-> pending.slot, pred |-> pending.from,
    gen |-> agentConv[pending.from].gen + 1 ]

\* ... its third: and the new one is recorded.
OpenAgentConversation ==
  /\ pending.step = "open"
  /\ agentConv' = [agentConv EXCEPT ![pending.to] = Successor]
  /\ pending' = NoPending
  /\ UNCHANGED <<slot, conv, roll, replied, runtime>>

\* gamd stops before the next commit, and is started again.
Crash ==
  /\ MayCrash /\ ~Ready
  /\ pending' = NoPending
  /\ UNCHANGED <<slot, conv, roll, replied, runtime, agentConv>>

\* failAgentConversationRollover
FailRollover(s, r) ==
  /\ MayFail /\ Ready /\ r \in LiveRolls(s)
  /\ roll' = [roll EXCEPT ![r].status = "failed"]
  /\ slot' = Idle(s)
  /\ UNCHANGED <<conv, replied, runtime, agentConv, pending>>

-----------------------------------------------------------------------------
SlotStep(s) ==
  \/ \E k \in Key : BindConversation(s, k) \/ ReportConversation(s, k)
  \/ \E c \in Slot, k \in Key : MoveConversation(s, c, k)
  \/ \E b \in {"absent", "open"} : ReportBrowser(s, b)
  \/ \E r \in Rollover : RequestRollover(s, r) \/ BeginRollover(s, r) \/ FailRollover(s, r)
  \/ \E r \in Rollover, o \in Attempt : MarkBootstrap(s, r, o) \/ CompleteRollover(s, r, o)
  \/ \E o \in Attempt : ObserveReply(s, o)

Next ==
  \/ \E s \in Slot : SlotStep(s)
  \/ \E a \in Agent : UnbindRuntime(a) \/ \E s \in Slot : BindRuntime(a, s)
  \/ CloseAgentConversation \/ OpenAgentConversation \/ Crash

Spec == Init /\ [][Next]_kernelVars

-----------------------------------------------------------------------------
(* Properties *)

\* The slot's own columns never disagree with the rollover ledger: a slot is in a
\* phase exactly when the rollover it names is, no other rollover of it is under way;
\* until the rollover begins the slot has no conversation but its source, from then on
\* none but the accepted destination (an Agent may take either along to another slot).
SlotFollowsLedger ==
  \A s \in Slot :
    /\ LiveRolls(s) = IF slot[s].active = Null THEN {} ELSE {slot[s].active}
    /\ slot[s].active = Null => slot[s].phase = "idle"
    /\ slot[s].active # Null => slot[s].phase = roll[slot[s].active].status
    /\ slot[s].phase = "requested" => slot[s].key \in {roll[slot[s].active].from, Null}
    /\ slot[s].phase \in {"opening", "bootstrapping"} =>
         slot[s].key \in {roll[slot[s].active].to, Null}

\* A conversation that is on record as a slot's active one is the one the slot is
\* bound to: rolling over, failing half-way and moving an Agent's conversation to
\* another slot leave no second conversation behind that still counts as active.
ActiveRecordIsBound ==
  \A k \in Key : conv[k].status = "active" => slot[conv[k].slot].key = k

\* The generations of an Agent's conversations form one chain: an active conversation
\* is the latest, there is only one, and each that names a predecessor took over from
\* that Agent's previous, closed one.
AgentLineage ==
  \A k \in Key : agentConv[k].status # "none" =>
    /\ agentConv[k].status = "active" => /\ agentConv[k].gen = LatestGen(agentConv[k].agent)
                                         /\ ActiveKeys(agentConv[k].agent) = {k}
    /\ agentConv[k].pred # Null =>
         /\ agentConv[agentConv[k].pred].agent = agentConv[k].agent
         /\ agentConv[agentConv[k].pred].status = "closed"
         /\ agentConv[k].gen = agentConv[agentConv[k].pred].gen + 1

\* An Agent leaves a conversation only after the slot it ran on proved that the
\* handoff was answered in a rollover away from it.
LeavesOnlyWithProof ==
  [][\A k \in Key : agentConv[k].status = "active" /\ agentConv'[k].status # "active" =>
       \E r \in Rollover : /\ roll[r].status = "completed" /\ roll[r].from = k /\ roll[r].to # k
                           /\ replied[roll[r].attempt] = roll[r].slot]_kernelVars

\* An Agent that had a conversation before remembers which: only its first
\* conversation has no predecessor.
LineageUnbroken ==
  \A k1, k2 \in Key :
    /\ agentConv[k1].agent # Null /\ agentConv[k2].agent = agentConv[k1].agent
    /\ agentConv[k1].gen < agentConv[k2].gen
    => agentConv[k2].pred # Null

\* The Agent on a slot that is not rolling over works in the slot's conversation.
Apart(a, s) ==
  /\ runtime[a] = s /\ slot[s].phase = "idle" /\ slot[s].key # Null
  /\ \E k \in ActiveKeys(a) : k # slot[s].key
AgentCatchesUp == \A a \in Agent, s \in Slot : Apart(a, s) ~> ~Apart(a, s)

\* The browser reports the pages it has, replies are observed, a bootstrap whose
\* reply was observed is completed: the extension repeats all of it while it runs.
Attended(s) ==
  /\ \A k \in Key : WF_kernelVars(ReportConversation(s, k))
  /\ \A r \in Rollover, o \in Attempt : WF_kernelVars(CompleteRollover(s, r, o))
FairSpec ==
  /\ Spec /\ \A s \in Slot : Attended(s)
  /\ WF_kernelVars(CloseAgentConversation) /\ WF_kernelVars(OpenAgentConversation)

=============================================================================
