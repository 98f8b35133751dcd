------------------------- MODULE OrganizationProofs -------------------------
(***************************************************************************)
(* Theorems about OrganizationRuntime and OrganizationWork for every value *)
(* of their constants.  The first half is about runtimes: no operation of  *)
(* slots, agents or the acquisition ledger, and no stop of gamd between    *)
(* two transactions, gives an agent two runtimes or another agent's        *)
(* conversation.  The second half is about the work that asks for them.    *)
(* Every step of the second model is one of the first, or leaves runtimes  *)
(* alone, so that the first half is used as it is.                         *)
(***************************************************************************)
EXTENDS OrganizationWork, FiniteSetTheorems, SequenceTheorems, WellFoundedInduction, TLAPS

(* Runtimes: the invariant *)

\* The ledger names one live acquisition per agent, and an agent that is bound has it.
LedgerAgrees ==
  /\ \A k, l \in Key : asked[k].status \in Live /\ asked[l].status \in Live
                         /\ asked[k].agent = asked[l].agent => k = l
  /\ \A k \in Key : asked[k].status = "acquired" => bound[asked[k].agent] \in {0, asked[k].slot}
  /\ \A a \in Agent : bound[a] # 0 =>
       bound[a] \in SlotId /\ \E k \in Key : asked[k].status \in Live /\ asked[k].agent = a

\* A slot that is idle shows no conversation, so whoever is bound to it may have any.
IdleIsEmpty == \A s \in SlotId : slots[s].status = "idle" => slots[s].chat = Null

\* What gamd knows between two transactions of an acquisition or release.
RunShape ==
  running # Idle =>
    LET k == running.key
        a == asked[k].agent
    IN
    /\ asked[k] # NoAsk
    /\ running.step # "release" => asked[k].status = "acquiring"
    /\ running.step = "bind" =>
         bound[a] = 0 /\ running.slot \in SlotId /\ slots[running.slot].chat = Null
    /\ running.step = "caught" => bound[a] \in {0, running.slot}
    /\ running.step = "finish" => running.slot # 0 /\ bound[a] = running.slot
    /\ running.step = "release" => bound[a] = 0

RInv == /\ TypeOK /\ LedgerAgrees /\ IdleIsEmpty /\ RunShape
        /\ ConversationFollowsAgent /\ BoundAgentHasDesk

-----------------------------------------------------------------------------
(* Work: the invariant *)

\* What the flow under way has made sure of.
IntakeShape ==
  /\ flow \in [kind : {"intake"}, on : Req, agent : Agent \cup {0},
               step : {"agent", "desk", "accept", "runtime", "acquire", "acquired"}]
  /\ requests[flow.on].status \in {"received", "accepted"}
  /\ flow.step \in {"runtime", "acquire", "acquired"} => requests[flow.on].status = "accepted"
ReviewShape ==
  /\ flow \in [kind : {"review"}, on : ReviewSlot, mission : MissionId, agent : Agent \cup {0},
               step : {"agent", "desk", "runtime", "acquire", "acquired", "ready", "project", "bind"}]
  /\ flow.step \in {"ready", "project", "bind"} => reviews[flow.on].item \in ItemId
  /\ flow.step = "ready" => items[reviews[flow.on].item].status = "proposed"
FlowShape ==
  flow # NoFlow => (IntakeShape \/ ReviewShape) /\ (flow.step # "agent" => flow.agent \in Agent)

\* A request that was accepted has a mission, the only one made for it, with work in it.
RequestShape(r) ==
  /\ requests[r].mission \in 0 .. Len(missions)
  /\ \A m \in MissionId : missions[m].req = r <=> requests[r].mission = m
  /\ requests[r].mission = 0 => requests[r].status # "accepted"
  /\ requests[r].mission # 0 =>
       /\ requests[r].status \in {"accepted", "cancelled"}
       /\ \E i \in ItemId : items[i].mission = requests[r].mission

WInv == /\ RInv /\ WorkTypeOK /\ FlowShape /\ (\A r \in Req : RequestShape(r))
        /\ (\A i \in ItemId : items[i].mission \in MissionId)
        /\ CancelledLeavesNoWork /\ TasksHaveTheirDependencies

-----------------------------------------------------------------------------
(* Sequences, and the least of some numbers *)

LEMMA RowSet ==
  ASSUME NEW S, NEW q \in Seq(S), NEW i \in 1 .. Len(q), NEW x \in S
  PROVE  /\ [q EXCEPT ![i] = x] \in Seq(S) /\ Len([q EXCEPT ![i] = x]) = Len(q)
         /\ [q EXCEPT ![i] = x][i] = x
         /\ \A j \in 1 .. Len(q) : j # i => [q EXCEPT ![i] = x][j] = q[j]
BY ExceptSeq

LEMMA RowAdded ==
  ASSUME NEW S, NEW q \in Seq(S), NEW x \in S
  PROVE  /\ Append(q, x) \in Seq(S) /\ Len(Append(q, x)) = Len(q) + 1
         /\ Append(q, x)[Len(q) + 1] = x
         /\ \A j \in 1 .. Len(q) : Append(q, x)[j] = q[j]
BY AppendProperties

LEMMA RowsMapped ==
  ASSUME NEW S, NEW n \in Nat, NEW f \in [1 .. n -> S]
  PROVE  f \in Seq(S) /\ Len(f) = n
OBVIOUS

\* A set of numbers that is not empty has a least one.
LEMMA LeastExists ==
  ASSUME NEW S \in SUBSET Nat, S # {}
  PROVE  \E x \in S : \A y \in S : x <= y
<1>1. IsWellFoundedOn({ss \in Nat \X Nat : ss[1] < ss[2]}, Nat)
  BY NatLessThanWellFounded DEF OpToRel
<1>2. PICK x \in S : \A y \in S : ~(<<y, x>> \in {ss \in Nat \X Nat : ss[1] < ss[2]})
  BY <1>1, WFMin
<1>3. \A y \in S : ~(y < x)
  BY <1>2
<1> QED
  BY <1>3

-----------------------------------------------------------------------------
(* AgentSlots: what an operation does to rows and conversations *)

LEMMA SlotsTyped ==
  ASSUME TypeOK
  PROVE  /\ slots \in Seq(SlotRow) /\ Len(slots) \in Nat /\ Len(slots) <= MaxCreated /\ MaxCreated \in Nat
         /\ \A s \in SlotId : slots[s] \in SlotRow /\ s \in Nat /\ s # 0 /\ s \in 0 .. MaxCreated
<1>1. slots \in Seq(SlotRow) /\ Len(slots) \in Nat /\ Len(slots) <= MaxCreated
  BY DEF TypeOK
<1>2. MaxCreated \in Nat
  BY SlotBounds
<1>3. \A s \in SlotId : slots[s] \in SlotRow
  BY <1>1, ElementOfSeq DEF SlotId
<1> QED
  BY <1>1, <1>2, <1>3 DEF SlotId

\* Nobody's conversation changes.
ChatsKept ==
  mind' = mind /\ (\A s \in SlotId : slots'[s].chat = slots[s].chat)

\* The agent of slot s has conversation c there, and no other slot gets one.
ChatMoved(s, c) ==
  /\ c # Null /\ mind' = MindAt(s, c) /\ \A a \in BoundTo(s) : ~MindRefuses(a, c)
  /\ slots'[s].chat = c
  /\ \A o \in SlotId : o # s => slots'[o].chat \in {Null, slots[o].chat}

SlotsMoved ==
  /\ slots' \in Seq(SlotRow) /\ Len(slots') <= MaxCreated /\ Len(slots) <= Len(slots')
  /\ IdleIsEmpty'
  /\ ChatsKept \/ \E s \in SlotId, c \in Chat : ChatMoved(s, c)
  /\ UNCHANGED <<bound, asked, running>>

LEMMA SetSlotMoves ==
  ASSUME TypeOK, IdleIsEmpty, NEW s \in SlotId, NEW row \in SlotRow, SetSlot(s, row),
         row.chat = slots[s].chat, row.status = "idle" => row.chat = Null
  PROVE  SlotsMoved
<1>1. /\ slots' \in Seq(SlotRow) /\ Len(slots') = Len(slots) /\ slots'[s] = row
      /\ \A j \in SlotId : j # s => slots'[j] = slots[j]
  BY SlotsTyped, RowSet DEF SetSlot, SlotId
<1>2. IdleIsEmpty'
  BY <1>1 DEF IdleIsEmpty, SlotId
<1>3. ChatsKept
  BY <1>1 DEF ChatsKept, SetSlot
<1> QED
  BY <1>1, <1>2, <1>3, SlotsTyped DEF SlotsMoved, SetSlot

LEMMA SlotAdded ==
  ASSUME TypeOK, IdleIsEmpty, NEW r \in Role, slots' = Append(slots, FreshSlot(r)), Len(slots) < MaxCreated
  PROVE  /\ slots' \in Seq(SlotRow) /\ Len(slots') = Len(slots) + 1 /\ Len(slots') <= MaxCreated
         /\ \A j \in SlotId : slots'[j] = slots[j]
         /\ slots'[Len(slots) + 1].chat = Null
         /\ IdleIsEmpty'
<1>1. FreshSlot(r) \in SlotRow /\ FreshSlot(r).chat = Null
  BY DEF FreshSlot, SlotRow
<1>2. /\ slots' \in Seq(SlotRow) /\ Len(slots') = Len(slots) + 1
      /\ slots'[Len(slots) + 1] = FreshSlot(r) /\ \A j \in SlotId : slots'[j] = slots[j]
  BY <1>1, SlotsTyped, RowAdded DEF SlotId
<1>3. IdleIsEmpty'
  <2> SUFFICES ASSUME NEW j \in 1 .. Len(slots'), slots'[j].status = "idle" PROVE slots'[j].chat = Null
    BY DEF IdleIsEmpty, SlotId
  <2>1. j \in SlotId \/ j = Len(slots) + 1
    BY <1>2, SlotsTyped DEF SlotId
  <2> QED
    BY <1>1, <1>2, <2>1 DEF IdleIsEmpty
<1>4. Len(slots') <= MaxCreated
  <2>1. Len(slots) \in Nat /\ MaxCreated \in Nat
    BY SlotsTyped
  <2> QED
    BY <2>1, <1>2
<1> QED
  BY <1>1, <1>2, <1>3, <1>4

LEMMA SlotOperationMoves ==
  ASSUME TypeOK, IdleIsEmpty, SlotOperation
  PROVE  SlotsMoved /\ UNCHANGED <<desk, faults>>
<1>n. Null \notin Chat
  BY AgentsAreOrdered
<1>1. ASSUME NEW r \in Role, CreateAgentSlot(r) PROVE SlotsMoved
  <2>1. slots' = Append(slots, FreshSlot(r)) /\ Len(slots) < MaxCreated /\ UNCHANGED <<bound, mind, asked, running>>
    BY <1>1 DEF CreateAgentSlot
  <2>2. /\ slots' \in Seq(SlotRow) /\ Len(slots') = Len(slots) + 1 /\ Len(slots') <= MaxCreated
        /\ \A j \in SlotId : slots'[j] = slots[j]
        /\ IdleIsEmpty'
    BY <2>1, SlotAdded
  <2>3. Len(slots) \in Nat
    BY SlotsTyped
  <2>4. ChatsKept
    BY <2>1, <2>2 DEF ChatsKept
  <2>5. Len(slots) <= Len(slots')
    BY <2>2, <2>3
  <2> QED
    BY <2>1, <2>2, <2>4, <2>5 DEF SlotsMoved
<1>2. ASSUME NEW s \in SlotId, NEW st \in {"suspended", "retired"}, SetSlot(s, Stop(slots[s], st)) PROVE SlotsMoved
  <2>1. slots[s] \in SlotRow
    BY SlotsTyped
  <2>2. /\ Stop(slots[s], st) \in SlotRow /\ Stop(slots[s], st).chat = slots[s].chat
        /\ Stop(slots[s], st).status \in {slots[s].status, st}
    BY <2>1 DEF Stop, SlotRow
  <2> QED
    BY <1>2, <2>2, SetSlotMoves DEF IdleIsEmpty
<1>3. ASSUME NEW s \in SlotId, ResumeAgentSlot(s) PROVE SlotsMoved
  <2> DEFINE row == [slots[s] EXCEPT !.desired = "active", !.status = Resting(slots[s])]
  <2>1. slots[s] \in SlotRow
    BY SlotsTyped
  <2>2. row \in SlotRow /\ row.chat = slots[s].chat /\ (row.status = "idle" => row.chat = Null)
    BY <2>1 DEF SlotRow, Resting
  <2>3. SetSlot(s, row)
    BY <1>3 DEF ResumeAgentSlot
  <2> HIDE DEF row
  <2> QED
    BY <2>2, <2>3, SetSlotMoves
<1>4. ASSUME NEW s \in SlotId, PageGone(s) PROVE SlotsMoved
  <2> DEFINE gone == [slots[s] EXCEPT !.page = "absent"]
             row == IF gone.desired = "active" THEN [gone EXCEPT !.status = Resting(gone)]
                                               ELSE [gone EXCEPT !.status = gone.desired]
  <2>1. slots[s] \in SlotRow
    BY SlotsTyped
  <2>2. row \in SlotRow /\ row.chat = slots[s].chat /\ (row.status = "idle" => row.chat = Null)
    BY <2>1 DEF SlotRow, Resting
  <2>3. SetSlot(s, row)
    BY <1>4 DEF PageGone
  <2> HIDE DEF row
  <2> QED
    BY <2>2, <2>3, SetSlotMoves
<1>5. ASSUME NEW s \in SlotId, NEW c \in Chat \cup {Null}, PageOpened(s, c) PROVE SlotsMoved
  <2> DEFINE chat == IF c = Null THEN slots[s].chat ELSE c
             row == [slots[s] EXCEPT !.page = "open", !.chat = chat,
                       !.status = IF chat = Null THEN "idle" ELSE "assigned"]
  <2>1. slots[s] \in SlotRow
    BY SlotsTyped
  <2>2. row \in SlotRow /\ row.chat = chat /\ (row.status = "idle" => row.chat = Null)
    BY <2>1 DEF SlotRow
  <2>3. slots' = [slots EXCEPT ![s] = row] /\ UNCHANGED <<bound, asked, running>>
    BY <1>5 DEF PageOpened
  <2>4. mind' = (IF c = Null THEN mind ELSE MindAt(s, c))
        /\ (c # Null => \A a \in BoundTo(s) : ~MindRefuses(a, c))
    BY <1>5 DEF PageOpened
  <2>5. chat = IF c = Null THEN slots[s].chat ELSE c
    OBVIOUS
  <2> HIDE DEF row, chat
  <2>6. /\ slots' \in Seq(SlotRow) /\ Len(slots') = Len(slots) /\ slots'[s] = row
        /\ \A j \in SlotId : j # s => slots'[j] = slots[j]
    BY <2>2, <2>3, SlotsTyped, RowSet DEF SlotId
  <2>7. IdleIsEmpty'
    BY <2>2, <2>6 DEF IdleIsEmpty, SlotId
  <2>8. ChatsKept \/ ChatMoved(s, c)
    BY <2>2, <2>4, <2>5, <2>6, <1>n DEF ChatsKept, ChatMoved
  <2> QED
    BY <2>3, <2>6, <2>7, <2>8, <2>4, <2>5, SlotsTyped, <1>n DEF SlotsMoved, ChatMoved
<1>6. ASSUME NEW s \in SlotId, NEW c \in Chat, BindAgentConversation(s, c) PROVE SlotsMoved
  <2>1. \A o \in SlotId : slots[o] \in SlotRow
    BY SlotsTyped
  <2> DEFINE row(o) ==
       IF o = s THEN [slots[o] EXCEPT !.chat = c, !.status =
                        IF slots[o].chat = Null THEN "assigned" ELSE slots[o].status]
       ELSE IF slots[s].chat = Null /\ slots[o].chat = c
            THEN [slots[o] EXCEPT !.chat = Null, !.status =
                    IF slots[o].desired = "active" THEN "idle" ELSE slots[o].status]
       ELSE slots[o]
  <2>2. slots' = [o \in SlotId |-> row(o)] /\ mind' = MindAt(s, c) /\ UNCHANGED <<bound, asked, running>>
        /\ \A a \in BoundTo(s) : ~MindRefuses(a, c)
    BY <1>6 DEF BindAgentConversation, BindRefused
  <2>3. ASSUME NEW o \in SlotId
        PROVE  /\ row(o) \in SlotRow /\ (row(o).status = "idle" => row(o).chat = Null)
               /\ (o = s => row(o).chat = c) /\ (o # s => row(o).chat \in {Null, slots[o].chat})
    BY <2>1, <2>3, <1>n DEF SlotRow, IdleIsEmpty
  <2> HIDE DEF row
  <2>4. slots' \in [1 .. Len(slots) -> SlotRow] /\ \A o \in SlotId : slots'[o] = row(o)
    BY <2>2, <2>3 DEF SlotId
  <2>5. slots' \in Seq(SlotRow) /\ Len(slots') = Len(slots)
    BY <2>4, SlotsTyped, RowsMapped
  <2>6. IdleIsEmpty'
    BY <2>3, <2>4, <2>5 DEF IdleIsEmpty, SlotId
  <2>7. ChatMoved(s, c)
    BY <2>2, <2>3, <2>4, <1>n DEF ChatMoved
  <2> QED
    BY <2>2, <2>5, <2>6, <2>7, SlotsTyped DEF SlotsMoved
<1>7. UNCHANGED <<desk, faults>>
  BY DEF SlotOperation, CreateAgentSlot, SuspendAgentSlot, RetireAgentSlot, ResumeAgentSlot, PageOpened,
         PageGone, BindAgentConversation, SetSlot
<1>8. ASSUME NEW s \in SlotId, SuspendAgentSlot(s) \/ RetireAgentSlot(s) PROVE SlotsMoved
  BY <1>2, <1>8 DEF SuspendAgentSlot, RetireAgentSlot
<1> QED
  BY <1>1, <1>3, <1>4, <1>5, <1>6, <1>7, <1>8 DEF SlotOperation

-----------------------------------------------------------------------------
(* Runtimes: every operation keeps the invariant *)

LEMMA AsksTyped ==
  ASSUME TypeOK, NEW k \in Key
  PROVE  /\ asked[k] \in AskRow \/ asked[k] = NoAsk
         /\ asked[k] = NoAsk <=> asked[k].status = "none"
         /\ asked[k].status # "none" => asked[k] \in AskRow /\ asked[k].agent \in Agent /\ asked[k].role \in Role
         /\ asked[k].status \in Live => asked[k] \in AskRow /\ asked[k].agent \in Agent
BY DEF TypeOK, AskRow, NoAsk, Live

LEMMA RunTyped ==
  ASSUME TypeOK, running # Idle
  PROVE  running.key \in Key /\ running.slot \in 0 .. MaxCreated
         /\ running = [step |-> running.step, key |-> running.key, slot |-> running.slot]
         /\ running.step \in {"choose", "bind", "finish", "caught", "release"}
BY DEF TypeOK

LEMMA SlotStepKeeps ==
  ASSUME RInv, running = Idle, SlotOperation
  PROVE  RInv'
<1>1. SlotsMoved /\ UNCHANGED <<desk, faults>>
  BY SlotOperationMoves DEF RInv
<1>a. TypeOK
  BY DEF RInv
<1>s. SlotId \subseteq SlotId' /\ slots' \in Seq(SlotRow) /\ Len(slots') <= MaxCreated
  <2>1. Len(slots) \in Nat /\ Len(slots') \in Nat /\ Len(slots) <= Len(slots')
    BY <1>1, <1>a, SlotsTyped DEF SlotsMoved
  <2> QED
    BY <1>1, <2>1 DEF SlotsMoved, SlotId
<1>u. UNCHANGED <<bound, asked, running, desk, faults>>
  BY <1>1 DEF SlotsMoved
<1>m. mind \in [Agent -> [chat : Chat \cup {Null}, slot : 0 .. MaxCreated]] /\ bound \in [Agent -> 0 .. MaxCreated]
  BY <1>a DEF TypeOK
<1>2. TypeOK'
  <2>1. mind' \in [Agent -> [chat : Chat \cup {Null}, slot : 0 .. MaxCreated]]
    <3>1. ASSUME NEW s \in SlotId, NEW c \in Chat, ChatMoved(s, c) PROVE mind' \in [Agent -> [chat : Chat \cup {Null}, slot : 0 .. MaxCreated]]
      <4>1. s \in 0 .. MaxCreated
        BY <1>a, SlotsTyped
      <4> QED
        BY <3>1, <4>1, <1>m DEF ChatMoved, MindAt
    <3> QED
      BY <1>1, <1>m, <3>1 DEF SlotsMoved, ChatsKept
  <2>2. /\ bound' \in [Agent -> 0..MaxCreated]
        /\ desk' \in [Agent -> {"none", "configuring", "ready", "error", "retired"}]
        /\ asked' \in [Key -> AskRow \cup {NoAsk}] /\ running' = Idle /\ faults' \in 0 .. MaxFaults
    BY <1>u, <1>a DEF TypeOK
  <2> QED
    BY <1>s, <2>1, <2>2 DEF TypeOK
<1>3. LedgerAgrees'
  <2>1. LedgerAgrees
    BY DEF RInv
  <2>2. UNCHANGED <<bound, asked>>
    BY <1>u
  <2> QED
    BY <1>s, <2>1, <2>2 DEF LedgerAgrees
<1>4. IdleIsEmpty' /\ RunShape'
  BY <1>1, <1>u DEF SlotsMoved, RunShape
<1>5. ConversationFollowsAgent'
  <2>1. /\ \A a, b \in Agent : bound[a] # 0 /\ bound[a] = bound[b] => a = b
        /\ \A a \in Agent : bound[a] # 0 => bound[a] \in SlotId /\ slots[bound[a]].chat \in {Null, mind[a].chat}
        /\ \A a, b \in Agent : mind[a].chat # Null /\ mind[a].chat = mind[b].chat => a = b
        /\ \A a \in Agent : mind[a].slot \in {0, bound[a]}
    BY DEF RInv, ConversationFollowsAgent, LedgerAgrees
  <2>2. CASE ChatsKept
    BY <2>1, <2>2, <1>u DEF ChatsKept, ConversationFollowsAgent
  <2>3. ASSUME NEW s \in SlotId, NEW c \in Chat, ChatMoved(s, c) PROVE ConversationFollowsAgent'
    <3>1. /\ c # Null /\ slots'[s].chat = c /\ s # 0
          /\ \A o \in SlotId : o # s => slots'[o].chat \in {Null, slots[o].chat}
      BY <2>3, <1>a, SlotsTyped DEF ChatMoved
    <3>2. \A a \in Agent : mind'[a] = IF bound[a] = s THEN [chat |-> c, slot |-> s] ELSE mind[a]
      BY <2>3 DEF ChatMoved, MindAt
    <3>3. \A a \in Agent : bound[a] = s => \A b \in Agent : b # a => mind[b].chat # c
      BY <2>3 DEF ChatMoved, BoundTo, MindRefuses
    <3>4. \A a \in Agent : bound[a] = s => mind'[a].chat = c /\ mind'[a].slot = s
      BY <3>2
    <3>5. \A a \in Agent : bound[a] # s => mind'[a] = mind[a]
      BY <3>2
    <3>6. \A a \in Agent : bound[a] # 0 => slots'[bound[a]].chat \in {Null, mind'[a].chat}
      BY <2>1, <3>1, <3>4, <3>5
    <3>7. \A a, b \in Agent : mind'[a].chat # Null /\ mind'[a].chat = mind'[b].chat => a = b
      BY <2>1, <3>1, <3>3, <3>4, <3>5
    <3>8. \A a \in Agent : mind'[a].slot \in {0, bound[a]}
      BY <2>1, <3>4, <3>5
    <3> QED
      BY <2>1, <3>6, <3>7, <3>8, <1>u DEF ConversationFollowsAgent
  <2> QED
    BY <1>1, <2>2, <2>3 DEF SlotsMoved
<1>6. BoundAgentHasDesk'
  BY <1>u DEF RInv, BoundAgentHasDesk
<1> QED
  BY <1>2, <1>3, <1>4, <1>5, <1>6 DEF RInv

\* What happens to a workspace concerns nobody who is bound, unless it fails.
LEMMA AgentStepKeeps ==
  ASSUME RInv, AgentOperation
  PROVE  RInv' /\ UNCHANGED <<slots, bound, mind, asked, running>>
<1>1. UNCHANGED <<slots, bound, mind, asked, running>>
  BY DEF AgentOperation, RegisterAgent, RequestAgentWorkspace, ConfigureAgentWorkspace, FailAgentWorkspace,
         RetireAgentWorkspace, SetDesk
<1>a. TypeOK /\ desk \in [Agent -> {"none", "configuring", "ready", "error", "retired"}]
      /\ faults \in 0 .. MaxFaults /\ MaxFaults \in Nat
  BY SlotBounds DEF RInv, TypeOK
<1>2. /\ desk' \in [Agent -> {"none", "configuring", "ready", "error", "retired"}]
      /\ faults' \in 0 .. MaxFaults
      /\ \A a \in Agent : bound[a] # 0 /\ desk[a] \in {"ready", "error"} => desk'[a] \in {"ready", "error"}
  BY <1>a DEF AgentOperation, RegisterAgent, RequestAgentWorkspace, ConfigureAgentWorkspace, FailAgentWorkspace,
         RetireAgentWorkspace, SetDesk, Lost, Kept
<1>3. TypeOK'
  BY <1>1, <1>2, <1>a DEF TypeOK
<1>4. BoundAgentHasDesk'
  BY <1>1, <1>2 DEF RInv, BoundAgentHasDesk
<1>5. LedgerAgrees' /\ IdleIsEmpty' /\ RunShape' /\ ConversationFollowsAgent'
  BY <1>1 DEF RInv, LedgerAgrees, IdleIsEmpty, RunShape, ConversationFollowsAgent, SlotId
<1> QED
  BY <1>1, <1>3, <1>4, <1>5 DEF RInv

\* The parts of the invariant that a step which leaves slots and bindings alone keeps
LEMMA BindingsKept ==
  ASSUME RInv, UNCHANGED <<slots, bound, desk, mind>>
  PROVE  IdleIsEmpty' /\ ConversationFollowsAgent' /\ BoundAgentHasDesk'
BY DEF RInv, IdleIsEmpty, ConversationFollowsAgent, BoundAgentHasDesk, SlotId

LEMMA NoLiveAsk ==
  ASSUME NEW a, LiveAsks(a) = {}, NEW k \in Key, asked[k].status \in Live
  PROVE  asked[k].agent # a
BY DEF LiveAsks

\* One acquisition comes to live, of an agent that had none.
LEMMA AskedAnew ==
  ASSUME RInv, running = Idle, NEW k \in Key, NEW row \in AskRow, SetAsk(k, row),
         asked[k].status \notin Live, row.status = "requested", LiveAsks(row.agent) = {},
         UNCHANGED <<slots, bound, desk, mind, running, faults>>
  PROVE  RInv'
<1>a. TypeOK /\ LedgerAgrees /\ asked \in [Key -> AskRow \cup {NoAsk}]
  BY DEF RInv, TypeOK
<1>1. asked' = [asked EXCEPT ![k] = row] /\ running' = Idle
  BY DEF SetAsk
<1>2. asked'[k] = row /\ \A l \in Key : l # k => asked'[l] = asked[l]
  BY <1>1, <1>a
<1>3. TypeOK'
  BY <1>1, <1>a DEF TypeOK
<1>4. LedgerAgrees'
  <2>1. \A l \in Key : asked[l].status \in Live => asked[l].agent # row.agent
    BY NoLiveAsk
  <2>2. \A l, m \in Key : asked'[l].status \in Live /\ asked'[m].status \in Live
                            /\ asked'[l].agent = asked'[m].agent => l = m
    BY <1>2, <1>a, <2>1 DEF LedgerAgrees
  <2>3. \A l \in Key : asked'[l].status = "acquired" => bound[asked'[l].agent] \in {0, asked'[l].slot}
    BY <1>2, <1>a DEF LedgerAgrees
  <2>4. \A b \in Agent : bound[b] # 0 => b # row.agent
    BY <2>1, <1>a DEF LedgerAgrees
  <2>5. ASSUME NEW b \in Agent, bound[b] # 0
        PROVE  bound[b] \in SlotId /\ \E l \in Key : asked'[l].status \in Live /\ asked'[l].agent = b
    <3>1. bound[b] \in SlotId /\ \E l \in Key : asked[l].status \in Live /\ asked[l].agent = b
      BY <2>5, <1>a DEF LedgerAgrees
    <3>2. PICK l \in Key : asked[l].status \in Live /\ asked[l].agent = b
      BY <3>1
    <3>3. asked'[l].status \in Live /\ asked'[l].agent = b
      <4>1. CASE l = k
        BY <4>1, <3>2
      <4> QED
        BY <4>1, <3>2, <1>2
    <3> QED
      BY <3>1, <3>3
  <2> QED
    BY <2>2, <2>3, <2>5 DEF LedgerAgrees, SlotId
<1>5. RunShape'
  BY <1>1 DEF RunShape
<1> QED
  BY <1>3, <1>4, <1>5, BindingsKept DEF RInv

LEMMA StartAcquireKeeps ==
  ASSUME RInv, NEW k \in Key, StartAcquire(k)
  PROVE  RInv'
<1>a. TypeOK /\ LedgerAgrees /\ asked \in [Key -> AskRow \cup {NoAsk}] /\ MaxCreated \in Nat
  BY SlotBounds DEF RInv, TypeOK
<1>b. asked[k] \in AskRow /\ asked[k].status \in {"requested", "acquiring"}
  BY <1>a, AsksTyped DEF StartAcquire
<1>1. /\ asked' = [asked EXCEPT ![k] = [asked[k] EXCEPT !.status = "acquiring"]]
      /\ running' = [step |-> "choose", key |-> k, slot |-> 0]
      /\ UNCHANGED <<slots, bound, desk, mind, faults>>
  BY DEF StartAcquire, SetAsk, Step
<1>2. /\ asked'[k] \in AskRow /\ asked'[k].status = "acquiring" /\ asked'[k].agent = asked[k].agent
      /\ \A l \in Key : l # k => asked'[l] = asked[l]
  BY <1>1, <1>a, <1>b DEF AskRow
<1>3. TypeOK'
  BY <1>1, <1>2, <1>a DEF TypeOK
<1>4. LedgerAgrees'
  <2>1. \A l \in Key : /\ asked'[l].status \in Live <=> asked[l].status \in Live
                       /\ asked'[l].status \in Live => asked'[l].agent = asked[l].agent
                       /\ asked'[l].status = "acquired" => asked'[l] = asked[l]
    BY <1>2, <1>b DEF Live
  <2> QED
    BY <2>1, <1>1, <1>a DEF LedgerAgrees, SlotId, Live
<1>5. RunShape'
  <2>1. running'.step = "choose" /\ running'.key = k
    BY <1>1
  <2>2. asked'[k] # NoAsk
    BY <1>2 DEF NoAsk
  <2> QED
    BY <2>1, <2>2, <1>2 DEF RunShape
<1> QED
  BY <1>1, <1>3, <1>4, <1>5, BindingsKept DEF RInv

LEMMA StartReleaseKeeps ==
  ASSUME RInv, NEW k \in Key, StartRelease(k)
  PROVE  RInv'
<1> DEFINE a == asked[k].agent
<1>a. /\ TypeOK /\ LedgerAgrees /\ MaxCreated \in Nat
      /\ bound \in [Agent -> 0 .. MaxCreated]
      /\ mind \in [Agent -> [chat : Chat \cup {Null}, slot : 0 .. MaxCreated]]
  BY SlotBounds DEF RInv, TypeOK
<1>b. a \in Agent /\ asked[k] # NoAsk
  BY <1>a, AsksTyped DEF StartRelease
<1>1. /\ bound' = [bound EXCEPT ![a] = 0]
      /\ mind' = [mind EXCEPT ![a].slot = IF mind[a].slot = bound[a] THEN 0 ELSE mind[a].slot]
      /\ running' = [step |-> "release", key |-> k, slot |-> 0]
      /\ UNCHANGED <<slots, desk, asked, faults>>
  BY DEF StartRelease, Step
<1> HIDE DEF a
<1>2. /\ bound'[a] = 0 /\ \A b \in Agent : b # a => bound'[b] = bound[b] /\ mind'[b] = mind[b]
      /\ mind'[a].chat = mind[a].chat
      /\ mind'[a].slot = IF mind[a].slot = bound[a] THEN 0 ELSE mind[a].slot
  BY <1>1, <1>a, <1>b
<1>3. TypeOK'
  <2>0. 0 \in 0 .. MaxCreated /\ bound \in [Agent -> 0 .. MaxCreated] /\ bound' = [bound EXCEPT ![a] = 0]
    BY <1>1, <1>a
  <2>1. bound' \in [Agent -> 0 .. MaxCreated]
    BY <2>0
  <2>2. mind' \in [Agent -> [chat : Chat \cup {Null}, slot : 0 .. MaxCreated]]
    BY <1>1, <1>a, <1>b
  <2> QED
    BY <1>1, <1>a, <2>1, <2>2 DEF TypeOK
<1>4. LedgerAgrees'
  <2>1. \A b \in Agent : bound'[b] \in {0, bound[b]}
    BY <1>2, <1>b
  <2>2. \A l \in Key : asked[l].status = "acquired" => asked[l].agent \in Agent
    BY <1>a, AsksTyped DEF Live
  <2> QED
    BY <1>1, <2>1, <2>2, <1>a DEF LedgerAgrees, SlotId
<1>5. RunShape'
  BY <1>1, <1>2, <1>b DEF RunShape, a
<1>6. ConversationFollowsAgent' /\ BoundAgentHasDesk' /\ IdleIsEmpty'
  <2>1. /\ \A b \in Agent : mind'[b].chat = mind[b].chat
        /\ \A b \in Agent : bound'[b] # 0 => bound'[b] = bound[b]
    BY <1>2, <1>b
  <2>2. \A b \in Agent : mind'[b].slot \in {0, bound'[b]}
    BY <1>2, <1>b DEF RInv, ConversationFollowsAgent
  <2> QED
    BY <1>1, <2>1, <2>2 DEF RInv, ConversationFollowsAgent, BoundAgentHasDesk, IdleIsEmpty, SlotId
<1> QED
  BY <1>3, <1>4, <1>5, <1>6 DEF RInv

LEMMA LedgerStepKeeps ==
  ASSUME RInv, running = Idle, LedgerOperation
  PROVE  RInv'
<1>a. TypeOK /\ asked \in [Key -> AskRow \cup {NoAsk}] /\ MaxCreated \in Nat
  BY SlotBounds DEF RInv, TypeOK
<1>1. ASSUME NEW k \in Key, NEW b \in Agent, NEW r \in Role, RequestRuntime(k, b, r) PROVE RInv'
  <2> DEFINE row == [status |-> "requested", agent |-> b, role |-> r, slot |-> 0]
  <2>1. row \in AskRow /\ row.status = "requested" /\ row.agent = b
    BY <1>a DEF AskRow
  <2>2. SetAsk(k, row) /\ LiveAsks(b) = {} /\ UNCHANGED <<slots, bound, desk, mind, running, faults>>
        /\ asked[k].status \notin Live
    BY <1>1 DEF RequestRuntime, NoAsk, Live
  <2> HIDE DEF row
  <2> QED
    BY <2>1, <2>2, AskedAnew
<1>2. ASSUME NEW k \in Key, RetryRuntime(k) PROVE RInv'
  <2> DEFINE row == [asked[k] EXCEPT !.status = "requested"]
  <2>0. asked[k] \in AskRow
    BY <1>2, <1>a, AsksTyped DEF RetryRuntime, Retriable
  <2>1. row \in AskRow /\ row.status = "requested" /\ row.agent = asked[k].agent
    BY <2>0 DEF AskRow
  <2>2. SetAsk(k, row) /\ LiveAsks(asked[k].agent) = {} /\ UNCHANGED <<slots, bound, desk, mind, running, faults>>
        /\ asked[k].status \notin Live
    BY <1>2 DEF RetryRuntime, Retriable, Live
  <2> HIDE DEF row
  <2> QED
    BY <2>1, <2>2, AskedAnew
<1> QED
  BY <1>1, <1>2, StartAcquireKeeps, StartReleaseKeeps DEF LedgerOperation

LEMMA OldestIsOne ==
  ASSUME NEW S \in SUBSET SlotId, S # {}
  PROVE  Oldest(S) \in S
<1>1. S \in SUBSET Nat
  BY DEF SlotId
<1>2. \E x \in S : \A y \in S : x <= y
  BY <1>1, LeastExists
<1> QED
  BY <1>2 DEF Oldest

LEMMA ChooseSlotKeeps ==
  ASSUME RInv, ChooseSlot
  PROVE  RInv'
<1> DEFINE k == running.key
           a == asked[k].agent
<1>a. /\ TypeOK /\ LedgerAgrees /\ IdleIsEmpty /\ MaxCreated \in Nat /\ bound \in [Agent -> 0 .. MaxCreated]
      /\ slots \in Seq(SlotRow) /\ Len(slots) \in Nat /\ Len(slots) <= MaxCreated
  BY SlotBounds, SlotsTyped DEF RInv, TypeOK
<1>b. running # Idle /\ running.step = "choose"
  BY DEF ChooseSlot, Idle
<1>c. k \in Key /\ asked[k] # NoAsk /\ asked[k].status = "acquiring" /\ a \in Agent /\ asked[k].role \in Role
  <2>1. k \in Key
    BY <1>a, <1>b, RunTyped
  <2>2. asked[k] # NoAsk /\ asked[k].status = "acquiring"
    BY <1>b DEF RInv, RunShape
  <2> QED
    BY <2>1, <2>2, <1>a, AsksTyped
<1>d. UNCHANGED <<bound, desk, mind, asked, faults>>
  BY DEF ChooseSlot
<1>e. ASSUME NEW step \in {"bind", "finish", "caught"}, NEW s \in 0 .. MaxCreated, Goto(step, s)
      PROVE  /\ running' \in [step : {"choose", "bind", "finish", "caught", "release"}, key : Key, slot : 0 .. MaxCreated]
             /\ running'.step = step /\ running'.key = k /\ running'.slot = s
  BY <1>c, <1>e DEF Goto, Step
\* A slot may be added on the way; the binding is made of what was chosen.
<1>f. ASSUME NEW step \in {"bind", "finish", "caught"}, NEW s \in 0 .. MaxCreated, Goto(step, s), UNCHANGED slots,
             step = "bind" => bound[a] = 0 /\ s \in SlotId /\ slots[s].chat = Null,
             step = "caught" => bound[a] \in {0, s},
             step = "finish" => s # 0 /\ bound[a] = s
      PROVE  RInv'
  <2>1. TypeOK'
    BY <1>a, <1>d, <1>e, <1>f DEF TypeOK
  <2>2. LedgerAgrees'
    BY <1>a, <1>d, <1>f DEF LedgerAgrees, SlotId
  <2>3. RunShape'
    <3>1. running'.step = step /\ running'.key = k /\ running'.slot = s
      BY <1>e, <1>f
    <3> QED
      BY <3>1, <1>c, <1>d, <1>f DEF RunShape, SlotId
  <2> QED
    BY <2>1, <2>2, <2>3, <1>d, <1>f, BindingsKept DEF RInv
<1>1. ASSUME bound[a] # 0,
             Goto(IF slots[bound[a]].role = asked[k].role /\ bound[a] \in ActiveSlots THEN "finish" ELSE "caught", bound[a]),
             UNCHANGED slots
      PROVE  RInv'
  <2>1. bound[a] \in 0 .. MaxCreated
    BY <1>a, <1>c
  <2>2. PICK step \in {"finish", "caught"} : Goto(step, bound[a])
    BY <1>1
  <2> QED
    BY <2>1, <2>2, <1>1, <1>f
<1>2. ASSUME bound[a] = 0, Candidates(asked[k].role) # {}, Goto("bind", Oldest(Candidates(asked[k].role))), UNCHANGED slots
      PROVE  RInv'
  <2>1. PICK s \in Candidates(asked[k].role) : s = Oldest(Candidates(asked[k].role))
    BY <1>2, OldestIsOne DEF Candidates
  <2>2. s \in SlotId /\ slots[s].chat = Null
    BY <2>1, <1>a DEF Candidates, IdleIsEmpty
  <2>3. s \in 0 .. MaxCreated
    BY <2>2, <1>a, SlotsTyped
  <2> QED
    BY <2>1, <2>2, <2>3, <1>2, <1>f
<1>3. ASSUME bound[a] = 0, Goto("caught", 0), UNCHANGED slots PROVE RInv'
  <2>1. 0 \in 0 .. MaxCreated
    BY <1>a
  <2> QED
    BY <2>1, <1>3, <1>f
<1>4. ASSUME bound[a] = 0, Len(slots) < MaxCreated, slots' = Append(slots, FreshSlot(asked[k].role)),
             Goto("bind", Len(slots) + 1)
      PROVE  RInv'
  <2>1. /\ slots' \in Seq(SlotRow) /\ Len(slots') = Len(slots) + 1 /\ Len(slots') <= MaxCreated
        /\ \A j \in SlotId : slots'[j] = slots[j]
        /\ slots'[Len(slots) + 1].chat = Null /\ IdleIsEmpty'
    BY <1>4, <1>a, <1>c, SlotAdded
  <2>2. Len(slots) + 1 \in 0 .. MaxCreated /\ Len(slots) + 1 \in 1 .. Len(slots') /\ SlotId \subseteq SlotId'
    <3>1. Len(slots) \in Nat /\ MaxCreated \in Nat /\ Len(slots) < MaxCreated /\ Len(slots') = Len(slots) + 1
      BY <2>1, <1>4, <1>a
    <3> QED
      BY <3>1 DEF SlotId
  <2>3. /\ running' \in [step : {"choose", "bind", "finish", "caught", "release"}, key : Key, slot : 0 .. MaxCreated]
        /\ running'.step = "bind" /\ running'.key = k /\ running'.slot = Len(slots) + 1
    BY <2>2, <1>4, <1>e
  <2>4. TypeOK'
    BY <2>1, <2>3, <1>a, <1>d DEF TypeOK
  <2>5. LedgerAgrees'
    BY <2>2, <1>a, <1>d DEF LedgerAgrees
  <2>6. RunShape'
    BY <2>1, <2>2, <2>3, <1>4, <1>c, <1>d DEF RunShape, SlotId
  <2>7. ConversationFollowsAgent' /\ BoundAgentHasDesk'
    BY <2>1, <1>a, <1>d DEF RInv, ConversationFollowsAgent, BoundAgentHasDesk, LedgerAgrees
  <2> QED
    BY <2>1, <2>4, <2>5, <2>6, <2>7 DEF RInv
<1> QED
  BY <1>1, <1>2, <1>3, <1>4 DEF ChooseSlot

LEMMA BindSlotKeeps ==
  ASSUME RInv, BindSlot
  PROVE  RInv'
<1> DEFINE k == running.key
           s == running.slot
           a == asked[k].agent
<1>a. /\ TypeOK /\ LedgerAgrees /\ bound \in [Agent -> 0 .. MaxCreated]
      /\ mind \in [Agent -> [chat : Chat \cup {Null}, slot : 0 .. MaxCreated]] /\ MaxCreated \in Nat
  BY SlotBounds DEF RInv, TypeOK
<1>b. running # Idle /\ running.step = "bind"
  BY DEF BindSlot, Idle
<1>c. k \in Key /\ s \in 0 .. MaxCreated
  BY <1>a, <1>b, RunTyped
<1>d. /\ asked[k] # NoAsk /\ asked[k].status = "acquiring"
      /\ bound[a] = 0 /\ s \in SlotId /\ slots[s].chat = Null
  BY <1>b DEF RInv, RunShape
<1>e. a \in Agent /\ s # 0
  BY <1>c, <1>d, <1>a, AsksTyped, SlotsTyped
<1>u. UNCHANGED <<slots, desk, asked, faults>>
  BY DEF BindSlot
<1>f. ASSUME NEW step \in {"finish", "caught"}, Goto(step, s)
      PROVE  /\ running' \in [step : {"choose", "bind", "finish", "caught", "release"}, key : Key, slot : 0 .. MaxCreated]
             /\ running'.step = step /\ running'.key = k /\ running'.slot = s
  BY <1>c, <1>f DEF Goto, Step
<1> HIDE DEF s, a, k
<1>1. ASSUME Goto("caught", s), UNCHANGED <<bound, mind>> PROVE RInv'
  <2>1. TypeOK'
    BY <1>1, <1>f, <1>u, <1>a DEF TypeOK
  <2>2. RunShape'
    BY <1>1, <1>f, <1>u, <1>d DEF RunShape, a
  <2>3. LedgerAgrees'
    BY <1>1, <1>u, <1>a DEF LedgerAgrees, SlotId
  <2> QED
    BY <2>1, <2>2, <2>3, <1>1, <1>u, BindingsKept DEF RInv
<1>2. ASSUME ~BindingRefused(a, s), bound' = [bound EXCEPT ![a] = s],
             mind' = [mind EXCEPT ![a].slot = IF mind[a].chat = Null THEN 0 ELSE s], Goto("finish", s)
      PROVE  RInv'
  <2>1. /\ bound'[a] = s /\ mind'[a].chat = mind[a].chat /\ mind'[a].slot \in {0, s}
        /\ \A b \in Agent : b # a => bound'[b] = bound[b] /\ mind'[b] = mind[b]
    BY <1>2, <1>a, <1>e
  <2>2. desk[a] = "ready" /\ \A b \in Agent : b # a => bound[b] # s
    BY <1>2 DEF BindingRefused, BoundTo
  <2>3. TypeOK'
    <3>1. bound' \in [Agent -> 0 .. MaxCreated]
      BY <1>2, <1>a, <1>c
    <3>2. mind' \in [Agent -> [chat : Chat \cup {Null}, slot : 0 .. MaxCreated]]
      BY <1>2, <1>a, <1>c, <1>e
    <3> QED
      BY <3>1, <3>2, <1>2, <1>f, <1>u, <1>a DEF TypeOK
  <2>4. LedgerAgrees'
    <3>1. asked[k].status \in Live /\ asked[k].agent = a
      BY <1>d DEF Live, a
    <3>2. \A l \in Key : asked[l].status = "acquired" => asked[l].agent # a
      BY <3>1, <1>c, <1>d, <1>a DEF LedgerAgrees, Live
    <3>3. \A l \in Key : asked[l].status = "acquired" => asked[l].agent \in Agent
      BY <1>a, AsksTyped DEF Live
    <3>4. \A l \in Key : asked[l].status = "acquired" => bound'[asked[l].agent] \in {0, asked[l].slot}
      BY <3>2, <3>3, <2>1, <1>a DEF LedgerAgrees
    <3>5. ASSUME NEW b \in Agent, bound'[b] # 0
          PROVE  bound'[b] \in SlotId /\ \E l \in Key : asked[l].status \in Live /\ asked[l].agent = b
      BY <3>1, <3>5, <2>1, <1>a, <1>c, <1>d DEF LedgerAgrees
    <3> QED
      BY <3>4, <3>5, <1>u, <1>a DEF LedgerAgrees, SlotId
  <2>5. RunShape'
    BY <2>1, <1>2, <1>f, <1>u, <1>d, <1>e DEF RunShape, a
  <2>6. ConversationFollowsAgent'
    <3>1. \A b, c \in Agent : bound'[b] # 0 /\ bound'[b] = bound'[c] => b = c
      BY <2>1, <2>2, <1>e DEF RInv, ConversationFollowsAgent
    <3>2. \A b \in Agent : bound'[b] # 0 => slots[bound'[b]].chat \in {Null, mind'[b].chat}
      BY <2>1, <1>d, <1>e DEF RInv, ConversationFollowsAgent
    <3>3. \A b \in Agent : mind'[b].chat = mind[b].chat
      BY <2>1, <1>e
    <3>4. \A b \in Agent : mind'[b].slot \in {0, bound'[b]}
      BY <2>1, <1>e DEF RInv, ConversationFollowsAgent
    <3> QED
      BY <3>1, <3>2, <3>3, <3>4, <1>u DEF RInv, ConversationFollowsAgent
  <2>7. BoundAgentHasDesk' /\ IdleIsEmpty'
    BY <2>1, <2>2, <1>e, <1>u DEF RInv, BoundAgentHasDesk, IdleIsEmpty, SlotId
  <2> QED
    BY <2>3, <2>4, <2>5, <2>6, <2>7 DEF RInv
<1> QED
  BY <1>1, <1>2 DEF BindSlot, a, s, k

LEMMA CatchFailureKeeps ==
  ASSUME RInv, CatchFailure
  PROVE  RInv'
<1> DEFINE k == running.key
           s == running.slot
           a == asked[k].agent
<1>a. /\ TypeOK /\ LedgerAgrees /\ asked \in [Key -> AskRow \cup {NoAsk}]
  BY DEF RInv, TypeOK
<1>b. running # Idle /\ running.step = "caught"
  BY DEF CatchFailure, Idle
<1>c. k \in Key /\ s \in 0 .. MaxCreated
  BY <1>a, <1>b, RunTyped
<1>d. asked[k] # NoAsk /\ asked[k].status = "acquiring" /\ bound[a] \in {0, s}
  BY <1>b DEF RInv, RunShape
<1>e. a \in Agent /\ asked[k] \in AskRow
  BY <1>c, <1>d, <1>a, AsksTyped DEF Live
<1>u. UNCHANGED <<slots, bound, desk, mind, faults>>
  BY DEF CatchFailure
<1>f. ASSUME Goto("finish", s)
      PROVE  /\ running' \in [step : {"choose", "bind", "finish", "caught", "release"}, key : Key, slot : 0 .. MaxCreated]
             /\ running'.step = "finish" /\ running'.key = k /\ running'.slot = s
  BY <1>c, <1>f DEF Goto, Step
<1> HIDE DEF s, a, k
<1>1. ASSUME s # 0, bound[a] = s, Goto("finish", s), UNCHANGED asked PROVE RInv'
  <2>1. TypeOK'
    BY <1>1, <1>f, <1>u, <1>a DEF TypeOK
  <2>2. RunShape'
    BY <1>1, <1>f, <1>u, <1>d DEF RunShape, a
  <2>3. LedgerAgrees'
    BY <1>1, <1>u, <1>a DEF LedgerAgrees, SlotId
  <2> QED
    BY <2>1, <2>2, <2>3, <1>u, BindingsKept DEF RInv
<1>2. ASSUME ~(s # 0 /\ bound[a] = s), running' = Idle, SetAsk(k, [asked[k] EXCEPT !.status = "failed"]) PROVE RInv'
  <2>1. bound[a] = 0
    BY <1>2, <1>d
  <2>2. /\ asked'[k] \in AskRow /\ asked'[k].status = "failed" /\ asked' \in [Key -> AskRow \cup {NoAsk}]
        /\ \A l \in Key : l # k => asked'[l] = asked[l]
    BY <1>2, <1>a, <1>c, <1>e DEF SetAsk, AskRow
  <2>3. TypeOK'
    BY <1>2, <2>2, <1>u, <1>a DEF TypeOK
  <2>4. RunShape'
    BY <1>2 DEF RunShape
  <2>5. LedgerAgrees'
    <3>1. \A l \in Key : asked'[l].status \in Live => l # k /\ asked'[l] = asked[l]
      BY <2>2 DEF Live
    <3>2. \A l \in Key : asked'[l].status = "acquired" => l # k /\ asked'[l] = asked[l]
      BY <2>2
    <3>3. \A l, m \in Key : asked'[l].status \in Live /\ asked'[m].status \in Live
                              /\ asked'[l].agent = asked'[m].agent => l = m
      BY <3>1, <1>a DEF LedgerAgrees
    <3>4. \A l \in Key : asked'[l].status = "acquired" => bound[asked'[l].agent] \in {0, asked'[l].slot}
      BY <3>2, <1>a DEF LedgerAgrees
    <3>5. ASSUME NEW b \in Agent, bound[b] # 0
          PROVE  bound[b] \in SlotId /\ \E l \in Key : asked'[l].status \in Live /\ asked'[l].agent = b
      <4>1. PICK l \in Key : asked[l].status \in Live /\ asked[l].agent = b
        BY <3>5, <1>a DEF LedgerAgrees
      <4>2. l # k
        BY <4>1, <2>1, <3>5 DEF a
      <4> QED
        BY <4>1, <4>2, <2>2, <3>5, <1>a DEF LedgerAgrees
    <3> QED
      BY <3>3, <3>4, <3>5, <1>u DEF LedgerAgrees, SlotId
  <2> QED
    BY <2>3, <2>4, <2>5, <1>u, BindingsKept DEF RInv
<1> QED
  BY <1>1, <1>2 DEF CatchFailure, a, s, k

\* A record that is finished names the slot of its agent, or nothing is bound.
LEMMA MarkedKeeps ==
  ASSUME RInv, running # Idle, running' = Idle, NEW row \in AskRow, SetAsk(running.key, row),
         row.agent = asked[running.key].agent,
         \/ /\ row.status = "acquired" /\ asked[running.key].status \in Live
            /\ bound[row.agent] = row.slot
         \/ row.status = "released" /\ bound[row.agent] = 0,
         UNCHANGED <<slots, bound, desk, mind, faults>>
  PROVE  RInv'
<1> DEFINE k == running.key
<1>a. /\ TypeOK /\ LedgerAgrees /\ asked \in [Key -> AskRow \cup {NoAsk}]
  BY DEF RInv, TypeOK
<1>c. k \in Key
  BY <1>a, RunTyped
<1>1. /\ asked'[k] = row /\ asked' \in [Key -> AskRow \cup {NoAsk}]
      /\ \A l \in Key : l # k => asked'[l] = asked[l]
  BY <1>a, <1>c DEF SetAsk
<1>r. row.agent = asked[k].agent /\ row.agent \in Agent
  BY DEF AskRow
<1>s. \/ row.status = "acquired" /\ asked[k].status \in Live /\ bound[row.agent] = row.slot
      \/ row.status = "released" /\ bound[row.agent] = 0
  OBVIOUS
<1> HIDE DEF k
<1>2. TypeOK'
  BY <1>1, <1>a DEF TypeOK
<1>3. RunShape'
  BY DEF RunShape
<1>4. LedgerAgrees'
  <2>1. \A l \in Key : asked'[l].status \in Live => asked[l].status \in Live /\ asked'[l].agent = asked[l].agent
    BY <1>1, <1>r, <1>s DEF Live
  <2>2. \A l, m \in Key : asked'[l].status \in Live /\ asked'[m].status \in Live
                            /\ asked'[l].agent = asked'[m].agent => l = m
    BY <2>1, <1>a DEF LedgerAgrees
  <2>3. \A l \in Key : asked'[l].status = "acquired" => bound[asked'[l].agent] \in {0, asked'[l].slot}
    BY <1>1, <1>s, <1>a DEF LedgerAgrees
  <2>4. ASSUME NEW b \in Agent, bound[b] # 0
        PROVE  bound[b] \in SlotId /\ \E l \in Key : asked'[l].status \in Live /\ asked'[l].agent = b
    <3>1. PICK l \in Key : asked[l].status \in Live /\ asked[l].agent = b
      BY <2>4, <1>a DEF LedgerAgrees
    <3>2. asked'[l].status \in Live /\ asked'[l].agent = b
      <4>1. CASE l = k
        <5>1. row.agent = b
          BY <4>1, <3>1, <1>r
        <5>2. row.status = "acquired"
          BY <5>1, <2>4, <1>s
        <5> QED
          BY <5>1, <5>2, <4>1, <1>1 DEF Live
      <4> QED
        BY <4>1, <3>1, <1>1
    <3> QED
      BY <3>2, <2>4, <1>a DEF LedgerAgrees
  <2> QED
    BY <2>2, <2>3, <2>4 DEF LedgerAgrees, SlotId
<1> QED
  BY <1>2, <1>3, <1>4, BindingsKept DEF RInv

LEMMA MarksKeep ==
  ASSUME RInv, MarkAcquired \/ MarkReleased
  PROVE  RInv'
<1> DEFINE k == running.key
<1>a. TypeOK /\ running # Idle
  BY DEF RInv, MarkAcquired, MarkReleased, Idle
<1>c. k \in Key /\ asked[k] # NoAsk /\ running.slot \in 0 .. MaxCreated
  BY <1>a, RunTyped DEF RInv, RunShape
<1>d. asked[k] \in AskRow
  BY <1>a, <1>c, AsksTyped
<1>1. CASE MarkAcquired
  <2>1. running.step = "finish" /\ running' = Idle /\ UNCHANGED <<slots, bound, desk, mind, faults>>
    BY <1>1 DEF MarkAcquired
  <2>2. bound[asked[k].agent] = running.slot /\ asked[k].status = "acquiring"
    BY <1>a, <2>1 DEF RInv, RunShape
  <2>3. CASE SetAsk(k, [asked[k] EXCEPT !.status = "acquired", !.slot = running.slot])
    <3> DEFINE row == [asked[k] EXCEPT !.status = "acquired", !.slot = running.slot]
    <3>1. row \in AskRow /\ row.status = "acquired" /\ row.agent = asked[k].agent /\ row.slot = running.slot
      BY <1>c, <1>d DEF AskRow
    <3>2. SetAsk(running.key, row) /\ row.agent = asked[running.key].agent
          /\ asked[running.key].status \in Live /\ bound[row.agent] = row.slot
      BY <2>2, <2>3, <3>1 DEF Live
    <3> HIDE DEF row
    <3> QED
      BY <3>1, <3>2, <2>1, <1>a, MarkedKeeps
  <2>4. CASE UNCHANGED asked
    <3>1. TypeOK'
      BY <2>1, <2>4, <1>a DEF TypeOK
    <3>2. LedgerAgrees' /\ RunShape'
      BY <2>1, <2>4 DEF RInv, LedgerAgrees, RunShape, SlotId
    <3> QED
      BY <3>1, <3>2, <2>1, BindingsKept DEF RInv
  <2> QED
    BY <1>1, <2>3, <2>4 DEF MarkAcquired
<1>2. CASE MarkReleased
  <2> DEFINE row == [asked[k] EXCEPT !.status = "released"]
  <2>1. row \in AskRow /\ row.status = "released" /\ row.agent = asked[k].agent
    BY <1>d DEF AskRow
  <2>2. SetAsk(running.key, row) /\ running' = Idle /\ UNCHANGED <<slots, bound, desk, mind, faults>>
    BY <1>2 DEF MarkReleased
  <2>3. bound[row.agent] = 0
    BY <1>2, <1>a, <2>1 DEF MarkReleased, RInv, RunShape
  <2>4. row.agent = asked[running.key].agent
    BY <2>1
  <2> HIDE DEF row
  <2> QED
    BY <2>1, <2>2, <2>3, <2>4, <1>a, MarkedKeeps
<1> QED
  BY <1>1, <1>2

\* gamd stops: the call it was executing is forgotten, the rows stay.
Stops == running' = Idle /\ faults' \in 0 .. MaxFaults /\ UNCHANGED <<slots, bound, desk, mind, asked>>

\* What the composed system may do to runtimes in one step.
RuntimeMoves ==
  \/ running = Idle /\ (SlotOperation \/ LedgerOperation)
  \/ AgentOperation
  \/ RuntimeStep
  \/ Stops
  \/ UNCHANGED runtimeVars

LEMMA StopsKeeps ==
  ASSUME RInv, Stops
  PROVE  RInv'
<1>1. TypeOK' /\ LedgerAgrees' /\ RunShape'
  BY DEF RInv, TypeOK, LedgerAgrees, RunShape, SlotId, Stops
<1> QED
  BY <1>1, BindingsKept DEF Stops, RInv

LEMMA RInvStep ==
  ASSUME RInv, RuntimeMoves
  PROVE  RInv'
<1>1. CASE UNCHANGED runtimeVars
  <2>1. UNCHANGED <<slots, bound, desk, mind, asked, running, faults>>
    BY <1>1 DEF runtimeVars
  <2>2. TypeOK' /\ LedgerAgrees' /\ RunShape'
    BY <2>1 DEF RInv, TypeOK, LedgerAgrees, RunShape, SlotId
  <2> QED
    BY <2>1, <2>2, BindingsKept DEF RInv
<1>2. CASE RuntimeStep
  BY <1>2, ChooseSlotKeeps, BindSlotKeeps, CatchFailureKeeps, MarksKeep DEF RuntimeStep
<1>3. CASE running = Idle /\ (SlotOperation \/ LedgerOperation)
  BY <1>3, SlotStepKeeps, LedgerStepKeeps
<1>4. CASE AgentOperation
  BY <1>4, AgentStepKeeps
<1>5. CASE Stops
  BY <1>5, StopsKeeps
<1> QED
  BY <1>1, <1>2, <1>3, <1>4, <1>5 DEF RuntimeMoves

LEMMA RuntimeNextMoves ==
  ASSUME TypeOK, [RuntimeNext]_runtimeVars
  PROVE  RuntimeMoves
<1>1. CASE Crash
  <2>1. faults \in 0 .. MaxFaults /\ MaxFaults \in Nat
    BY SlotBounds DEF TypeOK
  <2>2. faults < MaxFaults /\ faults' = faults + 1
    BY <1>1 DEF Crash
  <2>3. faults' \in 0 .. MaxFaults
    BY <2>1, <2>2
  <2>4. Stops
    BY <1>1, <2>3 DEF Crash, Stops
  <2> QED
    BY <2>4 DEF RuntimeMoves
<1> QED
  BY <1>1 DEF RuntimeNext, RuntimeMoves

LEMMA RInvInit ==
  ASSUME InitRuntime
  PROVE  RInv
<1>1. slots = <<>> /\ Len(slots) = 0 /\ SlotId = {}
  BY DEF InitRuntime, SlotId
<1>2. TypeOK
  <2>1. MaxCreated \in Nat /\ MaxFaults \in Nat /\ 0 \in 0 .. MaxCreated /\ 0 \in 0 .. MaxFaults
    BY SlotBounds
  <2>2. slots \in Seq(SlotRow)
    BY <1>1
  <2>3. Len(slots) <= MaxCreated
    BY <2>1, <1>1
  <2> QED
    BY <2>1, <2>2, <2>3 DEF TypeOK, InitRuntime, NoMind
<1>3. LedgerAgrees /\ RunShape
  BY DEF InitRuntime, LedgerAgrees, NoAsk, Live, RunShape
<1>4. IdleIsEmpty /\ ConversationFollowsAgent /\ BoundAgentHasDesk
  BY <1>1 DEF InitRuntime, IdleIsEmpty, ConversationFollowsAgent, BoundAgentHasDesk, NoMind
<1> QED
  BY <1>2, <1>3, <1>4 DEF RInv

\* The ledger agrees with the bindings, so no agent has two runtimes.
LEMMA RInvIsSound ==
  ASSUME RInv
  PROVE  RuntimeIsSound
<1>1. ASSUME NEW a \in Agent PROVE Cardinality(LiveAsks(a)) <= 1
  <2>1. CASE LiveAsks(a) = {}
    <3>1. Cardinality(LiveAsks(a)) = 0
      BY <2>1, FS_EmptySet
    <3> QED
      BY <3>1
  <2>2. CASE LiveAsks(a) # {}
    <3>1. PICK k \in LiveAsks(a) : TRUE
      BY <2>2
    <3>2. LiveAsks(a) = {k}
      BY <3>1 DEF RInv, LedgerAgrees, LiveAsks
    <3>3. Cardinality(LiveAsks(a)) = 1
      BY <3>2, FS_Singleton
    <3> QED
      BY <3>3
  <2> QED
    BY <2>1, <2>2
<1>2. ASSUME NEW a \in Agent
      PROVE  /\ \A k \in LiveAsks(a) : asked[k].status = "acquired" => bound[a] \in {0, asked[k].slot}
             /\ bound[a] # 0 => LiveAsks(a) # {}
  BY <1>2 DEF RInv, LedgerAgrees, LiveAsks
<1>3. OneRuntimePerAgent
  BY <1>1, <1>2 DEF OneRuntimePerAgent
<1> QED
  BY <1>3 DEF RInv, RuntimeIsSound

\* What an acquisition leaves between two of its transactions is known at
\* every moment: the record, the binding and the slot it was about to bind
\* agree (acquire and release of OrganizationRuntimeAcquisitionAuthority).
THEOREM RuntimeInvariant == RuntimeSpec => []RInv
<1>1. InitRuntime => RInv
  BY RInvInit
<1>2. RInv /\ [RuntimeNext]_runtimeVars => RInv'
  BY RuntimeNextMoves, RInvStep DEF RInv
<1> QED
  BY <1>1, <1>2, PTL DEF RuntimeSpec

\* An agent has at most one live acquisition and one runtime, which is that
\* acquisition's and has a workspace behind it; no slot shows an agent
\* another agent's conversation (the unique index on live acquisitions,
\* bindRuntimeSlot, the continuity authority and retireAgentWorkspace).
THEOREM RuntimesAreSound == RuntimeSpec => []RuntimeIsSound
<1>1. RInv => RuntimeIsSound
  BY RInvIsSound
<1> QED
  BY <1>1, RuntimeInvariant, PTL

-----------------------------------------------------------------------------
(* Work: every step is one of the runtimes', or leaves them alone *)

LEMMA YoungestIsOne ==
  ASSUME NEW S \in SUBSET Agent, S # {}
  PROVE  Youngest(S) \in S
<1>1. S \in SUBSET Nat
  BY AgentsAreOrdered
<1>2. \E x \in S : \A y \in S : x <= y
  BY <1>1, LeastExists
<1> QED
  BY <1>2 DEF Youngest

\* The acquisition a flow asks for is one the ledger knows how to name.
LEMMA FlowKeyTyped ==
  ASSUME FlowShape, flow # NoFlow, flow.step # "agent"
  PROVE  FlowKey \in Key /\ FlowRole \in Role /\ flow.agent \in Agent
BY IntakeKeys DEF FlowShape, IntakeShape, ReviewShape, FlowKey, FlowRole

LEMMA StoppedIsStopped ==
  ASSUME TypeOK, running' = Idle, faults < MaxFaults, faults' = faults + 1,
         UNCHANGED <<slots, bound, desk, mind, asked>>
  PROVE  Stops
<1>1. faults \in 0 .. MaxFaults /\ MaxFaults \in Nat
  BY SlotBounds DEF TypeOK
<1>2. faults' \in 0 .. MaxFaults
  BY <1>1
<1> QED
  BY <1>2 DEF Stops

LEMMA FlowStepMoves ==
  ASSUME FlowShape, FlowStep
  PROVE  RuntimeMoves
<1>1. CASE PickAgent
  <2>1. ASSUME Unregistered # {}, RegisterAgent(Youngest(Unregistered)) PROVE RuntimeMoves
    <3>1. Youngest(Unregistered) \in Agent
      BY <2>1, YoungestIsOne DEF Unregistered
    <3> QED
      BY <2>1, <3>1 DEF RuntimeMoves, AgentOperation
  <2>2. \/ UNCHANGED runtimeVars
        \/ Unregistered # {} /\ RegisterAgent(Youngest(Unregistered))
    BY <1>1 DEF PickAgent
  <2> QED
    BY <2>1, <2>2 DEF RuntimeMoves
<1>2. CASE PrepareDesk
  <2>1. flow.agent \in Agent
    BY <1>2, FlowKeyTyped DEF PrepareDesk
  <2>2. \/ UNCHANGED runtimeVars
        \/ RequestAgentWorkspace(flow.agent) \/ ConfigureAgentWorkspace(flow.agent)
    BY <1>2 DEF PrepareDesk
  <2> QED
    BY <2>1, <2>2 DEF RuntimeMoves, AgentOperation
<1>3. CASE FlowRequests
  <2>1. FlowKey \in Key /\ FlowRole \in Role /\ flow.agent \in Agent /\ running = Idle
    BY <1>3, FlowKeyTyped DEF FlowRequests
  <2>2. UNCHANGED runtimeVars \/ RequestRuntime(FlowKey, flow.agent, FlowRole)
    BY <1>3 DEF FlowRequests, Raise
  <2> QED
    BY <2>1, <2>2 DEF RuntimeMoves, LedgerOperation
<1>4. CASE FlowAcquires
  <2>1. FlowKey \in Key /\ running = Idle
    BY <1>4, FlowKeyTyped DEF FlowAcquires
  <2>2. UNCHANGED runtimeVars \/ StartAcquire(FlowKey)
    BY <1>4 DEF FlowAcquires, Raise
  <2> QED
    BY <2>1, <2>2 DEF RuntimeMoves, LedgerOperation
<1>5. CASE IntakeAccepts \/ IntakeProjects \/ ReviewCreatesItem \/ ReviewReady \/ ReviewProjects \/ ReviewBinds
  <2>1. UNCHANGED runtimeVars
    BY <1>5 DEF IntakeAccepts, IntakeProjects, ReviewCreatesItem, ReviewReady, ReviewProjects, ReviewBinds, Raise
  <2> QED
    BY <2>1 DEF RuntimeMoves
<1> QED
  BY <1>1, <1>2, <1>3, <1>4, <1>5 DEF FlowStep

LEMMA WorkNextMoves ==
  ASSUME TypeOK, FlowShape, [WorkNext]_allVars
  PROVE  RuntimeMoves
<1>1. CASE UNCHANGED allVars
  BY <1>1 DEF allVars, RuntimeMoves
<1>2. CASE Move /\ (RequestOperation \/ MissionOperation)
  <2>1. UNCHANGED runtimeVars
    BY <1>2 DEF RequestOperation, MissionOperation, SubmitRequest, AcceptRequest, RejectRequest, CancelRequest,
         CompleteWorkItem, CreateMission, AssignMissionDri, SetMissionStatus, CreateWorkItem, AssignWorkOwner,
         SetWorkStatus, ProjectExecution, TaskEnds
  <2> QED
    BY <2>1 DEF RuntimeMoves
<1>3. CASE Move /\ (SlotOperation \/ AgentOperation \/ LedgerOperation)
  BY <1>3 DEF Move, AtRest, RuntimeMoves
<1>4. CASE (\E r \in Req : SubmitIntake(r)) \/ (\E v \in ReviewSlot, m \in MissionId : StartReview(v, m))
  BY <1>4 DEF SubmitIntake, StartReview, RuntimeMoves
<1>5. CASE RuntimeStep
  BY <1>5 DEF RuntimeMoves
<1>6. CASE FlowStep
  BY <1>6, FlowStepMoves
<1>7. CASE Crash
  BY <1>7, StoppedIsStopped DEF Crash, RuntimeMoves
<1>8. CASE FlowCrash
  BY <1>8, StoppedIsStopped DEF FlowCrash, RuntimeMoves
<1> QED
  BY <1>1, <1>2, <1>3, <1>4, <1>5, <1>6, <1>7, <1>8 DEF WorkNext

-----------------------------------------------------------------------------
(* Work: what a step does to missions, items, tasks and requests *)

LEMMA WorkTyped ==
  ASSUME WorkTypeOK
  PROVE  /\ missions \in Seq(MissionRow) /\ Len(missions) \in Nat /\ Len(missions) <= MaxMissions
         /\ items \in Seq(ItemRow) /\ Len(items) \in Nat /\ Len(items) <= MaxItems
         /\ MaxMissions \in Nat /\ MaxItems \in Nat
         /\ \A m \in MissionId : missions[m] \in MissionRow /\ m \in 1 .. MaxMissions
         /\ \A i \in ItemId : items[i] \in ItemRow /\ i \in 1 .. MaxItems
<1>1. /\ missions \in Seq(MissionRow) /\ Len(missions) \in Nat /\ Len(missions) <= MaxMissions
      /\ items \in Seq(ItemRow) /\ Len(items) \in Nat /\ Len(items) <= MaxItems
  BY DEF WorkTypeOK
<1>2. MaxMissions \in Nat /\ MaxItems \in Nat
  BY WorkBounds
<1>3. \A m \in MissionId : missions[m] \in MissionRow
  BY <1>1, ElementOfSeq DEF MissionId
<1>4. \A i \in ItemId : items[i] \in ItemRow
  BY <1>1, ElementOfSeq DEF ItemId
<1> QED
  BY <1>1, <1>2, <1>3, <1>4 DEF MissionId, ItemId

\* Missions are added and never taken away, and what has ended stays so.
MissionsMove ==
  /\ missions' \in Seq(MissionRow) /\ Len(missions') <= MaxMissions /\ Len(missions) <= Len(missions')
  /\ \A m \in MissionId : missions'[m].req = missions[m].req
  /\ \A m \in MissionId : missions[m].status \in Ended => missions'[m].status = missions[m].status

\* So are items, for missions that have not ended.
ItemsMove ==
  /\ items' \in Seq(ItemRow) /\ Len(items') <= MaxItems /\ Len(items) <= Len(items')
  /\ \A i \in ItemId : items'[i].mission = items[i].mission /\ items'[i].needs = items[i].needs
  /\ \A i \in ItemId : items[i].status \in Ended => items'[i].status = items[i].status
  /\ \A i \in ItemId' \ ItemId :
       /\ items'[i].mission \in MissionId'
       /\ items'[i].mission \in MissionId => missions[items'[i].mission].status \notin Ended

LEMMA MissionsKept ==
  ASSUME WorkTypeOK, UNCHANGED missions
  PROVE  MissionsMove /\ MissionId' = MissionId
BY WorkTyped DEF MissionsMove, MissionId

LEMMA MissionSet ==
  ASSUME WorkTypeOK, NEW m \in MissionId, NEW row \in MissionRow, missions' = [missions EXCEPT ![m] = row],
         row.req = missions[m].req, missions[m].status \in Ended => row.status = missions[m].status
  PROVE  MissionsMove /\ MissionId' = MissionId
<1>1. /\ missions' \in Seq(MissionRow) /\ Len(missions') = Len(missions) /\ missions'[m] = row
      /\ \A j \in MissionId : j # m => missions'[j] = missions[j]
  BY WorkTyped, RowSet DEF MissionId
<1> QED
  BY <1>1, WorkTyped DEF MissionsMove, MissionId

LEMMA MissionAdded ==
  ASSUME WorkTypeOK, NEW row \in MissionRow, Len(missions) < MaxMissions, missions' = Append(missions, row)
  PROVE  /\ MissionsMove /\ MissionId' = MissionId \cup {Len(missions) + 1}
         /\ Len(missions) + 1 \notin MissionId /\ missions'[Len(missions) + 1] = row
<1>1. /\ missions' \in Seq(MissionRow) /\ Len(missions') = Len(missions) + 1
      /\ missions'[Len(missions) + 1] = row /\ \A j \in MissionId : missions'[j] = missions[j]
  BY WorkTyped, RowAdded DEF MissionId
<1>2. Len(missions) \in Nat /\ MaxMissions \in Nat
  BY WorkTyped
<1>3. Len(missions') <= MaxMissions /\ Len(missions) <= Len(missions')
  BY <1>1, <1>2
<1>4. MissionId' = MissionId \cup {Len(missions) + 1} /\ Len(missions) + 1 \notin MissionId
  BY <1>1, <1>2 DEF MissionId
<1> QED
  BY <1>1, <1>3, <1>4 DEF MissionsMove

LEMMA ItemsKept ==
  ASSUME WorkTypeOK, UNCHANGED items
  PROVE  ItemsMove /\ ItemId' = ItemId
BY WorkTyped DEF ItemsMove, ItemId

LEMMA ItemSet ==
  ASSUME WorkTypeOK, NEW i \in ItemId, NEW row \in ItemRow, items' = [items EXCEPT ![i] = row],
         row.mission = items[i].mission, row.needs = items[i].needs,
         items[i].status \in Ended => row.status = items[i].status
  PROVE  /\ ItemsMove /\ ItemId' = ItemId /\ items'[i] = row
         /\ \A j \in ItemId : j # i => items'[j] = items[j]
<1>1. /\ items' \in Seq(ItemRow) /\ Len(items') = Len(items) /\ items'[i] = row
      /\ \A j \in ItemId : j # i => items'[j] = items[j]
  BY WorkTyped, RowSet DEF ItemId
<1>2. ItemId' = ItemId
  BY <1>1 DEF ItemId
<1> QED
  BY <1>1, <1>2, WorkTyped DEF ItemsMove

LEMMA ItemAdded ==
  ASSUME WorkTypeOK, NEW row \in ItemRow, Len(items) < MaxItems, items' = Append(items, row),
         row.mission \in MissionId', row.mission \in MissionId => missions[row.mission].status \notin Ended
  PROVE  /\ ItemsMove /\ ItemId' = ItemId \cup {Len(items) + 1}
         /\ Len(items) + 1 \notin ItemId /\ items'[Len(items) + 1] = row
<1>1. /\ items' \in Seq(ItemRow) /\ Len(items') = Len(items) + 1
      /\ items'[Len(items) + 1] = row /\ \A j \in ItemId : items'[j] = items[j]
  BY WorkTyped, RowAdded DEF ItemId
<1>2. Len(items) \in Nat /\ MaxItems \in Nat
  BY WorkTyped
<1>3. Len(items') <= MaxItems /\ Len(items) <= Len(items')
  BY <1>1, <1>2
<1>4. ItemId' = ItemId \cup {Len(items) + 1} /\ Len(items) + 1 \notin ItemId
  BY <1>1, <1>2 DEF ItemId
<1> QED
  BY <1>1, <1>3, <1>4 DEF ItemsMove

\* A task is made after the tasks of what it needs, and never taken away.
TasksMove ==
  /\ DOMAIN tasks' \subseteq ItemId /\ DOMAIN tasks \subseteq DOMAIN tasks'
  /\ \A i \in DOMAIN tasks' : tasks'[i] \in {"open", "ended"}
  /\ \A i \in DOMAIN tasks' : i \in DOMAIN tasks \/ items[i].needs \subseteq DOMAIN tasks

LEMMA TasksKept ==
  ASSUME WorkTypeOK, UNCHANGED tasks
  PROVE  TasksMove
BY DEF WorkTypeOK, TasksMove

LEMMA TaskMade ==
  ASSUME WorkTypeOK, NEW i \in ItemId, Projectable(i), tasks' = Projected(i)
  PROVE  TasksMove
<1>1. DOMAIN tasks' = DOMAIN tasks \cup {i} /\ items[i].needs \subseteq DOMAIN tasks
  BY DEF Projected, Projectable
<1>2. \A j \in DOMAIN tasks' : tasks'[j] = IF j \in DOMAIN tasks THEN tasks[j] ELSE "open"
  BY DEF Projected
<1> QED
  BY <1>1, <1>2 DEF WorkTypeOK, TasksMove

LEMMA TaskEnded ==
  ASSUME WorkTypeOK, NEW i, TaskEnds(i)
  PROVE  TasksMove
<1>1. DOMAIN tasks' = DOMAIN tasks /\ \A j \in DOMAIN tasks : tasks'[j] \in {tasks[j], "ended"}
  BY DEF TaskEnds
<1> QED
  BY <1>1 DEF WorkTypeOK, TasksMove

\* A request stays as it is, is moved on before it has a mission, is
\* cancelled with its mission and work, or gets a mission with an item.
CancelledOut(r) ==
  /\ requests'[r].status = "cancelled" /\ requests[r].status \in {"received", "accepted"}
  /\ requests[r].mission \in MissionId => missions'[requests[r].mission].status \in Ended
  /\ \A i \in ItemId' : items'[i].mission = requests[r].mission => items'[i].status \in Ended
SameMission(r) ==
  /\ requests'[r].mission = requests[r].mission
  /\ \A m \in MissionId' \ MissionId : missions'[m].req # r
  /\ \/ requests'[r].status = requests[r].status
     \/ requests[r].mission = 0 /\ requests'[r].status \in {"received", "rejected"}
     \/ CancelledOut(r)
GetsMission(r) ==
  /\ requests[r].status = "received"
  /\ requests'[r] = [status |-> "accepted", mission |-> Len(missions) + 1]
  /\ MissionId' = MissionId \cup {Len(missions) + 1} /\ missions'[Len(missions) + 1].req = r
  /\ \E i \in ItemId' : items'[i].mission = Len(missions) + 1
RequestRow == [status : {"none", "received", "accepted", "rejected", "cancelled"}, mission : 0 .. MaxMissions]
RequestsMove ==
  /\ requests' \in [Req -> RequestRow]
  /\ \A r \in Req : SameMission(r) \/ GetsMission(r)

RestTyped ==
  /\ outcomes \subseteq ItemId /\ reviews \in [ReviewSlot -> [item : 0 .. MaxItems, bound : BOOLEAN]]
  /\ moves \in 0 .. MaxMoves

WorkMoves == MissionsMove /\ ItemsMove /\ TasksMove /\ RequestsMove /\ RestTyped'

\* All that the steps do to work keeps what is known of it.
LEMMA WorkMovesKeep ==
  ASSUME WInv, WorkMoves, RInv', FlowShape'
  PROVE  WInv'
<1>a. WorkTypeOK /\ (\A r \in Req : RequestShape(r)) /\ (\A i \in ItemId : items[i].mission \in MissionId)
      /\ CancelledLeavesNoWork /\ TasksHaveTheirDependencies
  BY DEF WInv
<1>b. MissionsMove /\ ItemsMove /\ TasksMove /\ RequestsMove /\ RestTyped'
  BY DEF WorkMoves
<1>n. Len(missions) \in Nat /\ Len(items) \in Nat /\ Len(missions') \in Nat /\ Len(items') \in Nat
  BY <1>a, <1>b, WorkTyped DEF MissionsMove, ItemsMove
<1>s. MissionId \subseteq MissionId' /\ ItemId \subseteq ItemId' /\ 0 \notin MissionId'
  BY <1>n, <1>b DEF MissionsMove, ItemsMove, MissionId, ItemId
<1>1. WorkTypeOK'
  <2>1. DOMAIN tasks' \subseteq ItemId' /\ \A i \in DOMAIN tasks' : tasks'[i] \in {"open", "ended"}
    BY <1>b, <1>s DEF TasksMove
  <2>2. flow' = NoFlow \/ flow'.kind \in {"intake", "review"}
    BY DEF FlowShape, IntakeShape, ReviewShape
  <2>3. requests' \in [Req -> [status : {"none", "received", "accepted", "rejected", "cancelled"},
                               mission : 0..MaxMissions]]
    BY <1>b DEF RequestsMove, RequestRow
  <2> QED
    BY <1>b, <2>1, <2>2, <2>3 DEF WorkTypeOK, MissionsMove, ItemsMove, RestTyped
<1>2. \A i \in ItemId' : items'[i].mission \in MissionId'
  BY <1>a, <1>b, <1>s DEF ItemsMove
<1>3. TasksHaveTheirDependencies'
  <2> SUFFICES ASSUME NEW i \in DOMAIN tasks' PROVE items'[i].needs \subseteq DOMAIN tasks'
    BY DEF TasksHaveTheirDependencies
  <2>1. i \in ItemId /\ items[i].needs \subseteq DOMAIN tasks /\ DOMAIN tasks \subseteq DOMAIN tasks'
    BY <1>a, <1>b DEF TasksMove, TasksHaveTheirDependencies
  <2> QED
    BY <2>1, <1>b DEF ItemsMove
<1>4. ASSUME NEW r \in Req, SameMission(r)
      PROVE  /\ RequestShape(r)'
             /\ requests'[r].status = "cancelled" /\ requests'[r].mission # 0 =>
                  /\ missions'[requests'[r].mission].status \in Ended
                  /\ \A i \in ItemId' : items'[i].mission = requests'[r].mission => items'[i].status \in Ended
  <2>1. RequestShape(r) /\ requests'[r].mission = requests[r].mission
    BY <1>a, <1>4 DEF SameMission
  <2>2. requests[r].mission \in 0 .. Len(missions')
    BY <2>1, <1>n, <1>b DEF RequestShape, MissionsMove
  <2>3. \A m \in MissionId' : missions'[m].req = r <=> requests[r].mission = m
    <3>1. \A m \in MissionId : missions'[m].req = r <=> requests[r].mission = m
      BY <2>1, <1>b DEF RequestShape, MissionsMove
    <3>2. requests[r].mission \in MissionId \cup {0}
      BY <2>1, <1>n DEF RequestShape, MissionId
    <3>3. \A m \in MissionId' \ MissionId : missions'[m].req # r /\ requests[r].mission # m
      BY <3>2, <1>4, <1>s DEF SameMission
    <3> QED
      BY <3>1, <3>3
  <2>4. requests[r].mission = 0 => requests'[r].status # "accepted"
    BY <2>1, <1>4 DEF SameMission, RequestShape, CancelledOut
  <2>5. requests[r].mission # 0 =>
          /\ requests'[r].status \in {"accepted", "cancelled"}
          /\ \E i \in ItemId' : items'[i].mission = requests[r].mission
    <3> SUFFICES ASSUME requests[r].mission # 0
                 PROVE  /\ requests'[r].status \in {"accepted", "cancelled"}
                        /\ \E i \in ItemId' : items'[i].mission = requests[r].mission
      OBVIOUS
    <3>1. PICK i \in ItemId : items[i].mission = requests[r].mission
      BY <2>1 DEF RequestShape
    <3>2. i \in ItemId' /\ items'[i].mission = requests[r].mission
      BY <3>1, <1>s, <1>b DEF ItemsMove
    <3>3. requests'[r].status \in {"accepted", "cancelled"}
      BY <2>1, <1>4 DEF RequestShape, SameMission, CancelledOut
    <3> QED
      BY <3>2, <3>3
  <2>6. RequestShape(r)'
    BY <2>1, <2>2, <2>3, <2>4, <2>5 DEF RequestShape
  <2>7. ASSUME requests'[r].status = "cancelled", requests'[r].mission # 0
        PROVE  /\ missions'[requests'[r].mission].status \in Ended
               /\ \A i \in ItemId' : items'[i].mission = requests'[r].mission => items'[i].status \in Ended
    <3> DEFINE m == requests[r].mission
    <3>1. m \in MissionId /\ m # 0 /\ requests'[r].mission = m
      BY <2>1, <2>7, <1>n DEF RequestShape, MissionId
    <3>2. CASE requests[r].status = "cancelled"
      <4>1. missions[m].status \in Ended /\ \A i \in ItemId : items[i].mission = m => items[i].status \in Ended
        BY <3>1, <3>2, <1>a DEF CancelledLeavesNoWork, ItemsOf
      <4>2. missions'[m].status \in Ended
        BY <3>1, <4>1, <1>b DEF MissionsMove
      <4>3. ASSUME NEW i \in ItemId', items'[i].mission = m PROVE items'[i].status \in Ended
        <5>1. i \in ItemId
          BY <4>1, <4>3, <3>1, <1>b DEF ItemsMove
        <5> QED
          BY <5>1, <4>1, <4>3, <1>b DEF ItemsMove
      <4> QED
        BY <3>1, <4>2, <4>3
    <3>3. CASE CancelledOut(r)
      BY <3>1, <3>3 DEF CancelledOut
    <3> QED
      BY <3>2, <3>3, <2>7, <1>4 DEF SameMission
  <2> QED
    BY <2>6, <2>7
<1>5. ASSUME NEW r \in Req, GetsMission(r)
      PROVE  /\ RequestShape(r)'
             /\ requests'[r].status # "cancelled"
  <2> DEFINE n == Len(missions) + 1
  <2>1. /\ RequestShape(r) /\ requests[r].status = "received"
        /\ requests'[r].status = "accepted" /\ requests'[r].mission = n
        /\ MissionId' = MissionId \cup {n} /\ missions'[n].req = r
        /\ \E i \in ItemId' : items'[i].mission = n
    BY <1>a, <1>5 DEF GetsMission
  <2>2. n \notin MissionId /\ n # 0 /\ n \in 0 .. Len(missions')
    <3>1. n \in MissionId'
      BY <2>1
    <3> QED
      BY <3>1, <1>n DEF MissionId
  <2>3. \A m \in MissionId : missions'[m].req # r
    BY <2>1, <1>b, <1>n DEF RequestShape, MissionsMove, MissionId
  <2> HIDE DEF n
  <2> QED
    BY <2>1, <2>2, <2>3 DEF RequestShape
<1>6. \A r \in Req : RequestShape(r)'
  BY <1>4, <1>5, <1>b DEF RequestsMove
<1>7. CancelledLeavesNoWork'
  <2> SUFFICES ASSUME NEW r \in Req, requests'[r].status = "cancelled", requests'[r].mission # 0
               PROVE  /\ missions'[requests'[r].mission].status \in Ended
                      /\ \A i \in ItemId' : items'[i].mission = requests'[r].mission => items'[i].status \in Ended
    BY DEF CancelledLeavesNoWork, ItemsOf
  <2> QED
    BY <1>4, <1>5, <1>b DEF RequestsMove
<1> QED
  BY <1>1, <1>2, <1>3, <1>6, <1>7 DEF WInv

LEMMA RequestsTyped ==
  ASSUME WorkTypeOK
  PROVE  requests \in [Req -> RequestRow]
BY DEF WorkTypeOK, RequestRow

LEMMA RequestsKept ==
  ASSUME WorkTypeOK, UNCHANGED requests, \A m \in MissionId' \ MissionId : missions'[m].req = Null
  PROVE  RequestsMove
BY RequestsTyped, RequestsAreNamed DEF RequestsMove, SameMission

LEMMA RequestSet ==
  ASSUME WInv, NEW r \in Req, NEW st \in {"received", "rejected"}, requests[r].status \in {"none", "received"},
         SetRequest(r, st), UNCHANGED missions
  PROVE  RequestsMove /\ requests'[r].status = st
<1>1. WorkTypeOK /\ RequestShape(r) /\ requests \in [Req -> RequestRow] /\ 0 \in 0 .. MaxMissions
  BY RequestsTyped, WorkTyped DEF WInv
<1>2. /\ requests' \in [Req -> RequestRow] /\ requests'[r].status = st
      /\ \A q \in Req : requests'[q].mission = requests[q].mission
      /\ \A q \in Req : q # r => requests'[q] = requests[q]
  BY <1>1 DEF SetRequest, RequestRow
<1>3. requests[r].mission = 0
  BY <1>1 DEF RequestShape
<1>4. MissionId' = MissionId
  BY DEF MissionId
<1> QED
  BY <1>2, <1>3, <1>4 DEF RequestsMove, SameMission

\* accept makes the mission, its item and the request's reference at once.
LEMMA AcceptingMoves ==
  ASSUME WInv, NEW r \in Req, NEW d \in Agent \cup {0}, Acceptable(r), Accepting(r, d)
  PROVE  MissionsMove /\ ItemsMove /\ RequestsMove /\ requests'[r].status = "accepted"
<1> DEFINE m == Len(missions) + 1
           mission == [req |-> r, dri |-> d, status |-> IF d = 0 THEN "proposed" ELSE "active"]
           item == [mission |-> m, owner |-> d, needs |-> {}, status |-> IF d = 0 THEN "proposed" ELSE "ready"]
<1>1. WorkTypeOK /\ requests \in [Req -> RequestRow] /\ requests[r].status = "received"
  BY RequestsTyped DEF WInv, Acceptable
<1>2. /\ Len(missions) < MaxMissions /\ Len(items) < MaxItems
      /\ missions' = Append(missions, mission) /\ items' = Append(items, item)
      /\ requests' = [requests EXCEPT ![r] = [status |-> "accepted", mission |-> m]]
  BY DEF Accepting
<1>3. m \in 1 .. MaxMissions /\ m \in 0 .. MaxMissions
  <2>1. Len(missions) \in Nat /\ MaxMissions \in Nat
    BY <1>1, WorkTyped
  <2> QED
    BY <2>1, <1>2
<1>4. mission \in MissionRow /\ mission.req = r /\ item \in ItemRow /\ item.mission = m
  BY <1>3 DEF MissionRow, ItemRow, Ended
<1>5. m = Len(missions) + 1
  OBVIOUS
<1> HIDE DEF mission, item, m
<1>6. /\ MissionsMove /\ MissionId' = MissionId \cup {m} /\ m \notin MissionId /\ missions'[m] = mission
  BY <1>1, <1>2, <1>4, <1>5, MissionAdded
<1>7. /\ ItemsMove /\ ItemId' = ItemId \cup {Len(items) + 1} /\ items'[Len(items) + 1] = item
  BY <1>1, <1>2, <1>4, <1>6, ItemAdded
<1>8. /\ requests' \in [Req -> RequestRow] /\ requests'[r] = [status |-> "accepted", mission |-> m]
      /\ \A q \in Req : q # r => requests'[q] = requests[q]
  BY <1>1, <1>2, <1>3 DEF RequestRow
<1>9. GetsMission(r)
  <2>1. \E i \in ItemId' : items'[i].mission = m
    BY <1>4, <1>7
  <2> QED
    BY <2>1, <1>1, <1>4, <1>5, <1>6, <1>8 DEF GetsMission
<1>10. ASSUME NEW q \in Req, q # r PROVE SameMission(q)
  BY <1>4, <1>6, <1>8, <1>10 DEF SameMission
<1> QED
  BY <1>6, <1>7, <1>8, <1>9, <1>10 DEF RequestsMove

\* cancel ends the mission and every item of it.
LEMMA CancelMoves ==
  ASSUME WInv, NEW r \in Req, CancelRequest(r)
  PROVE  MissionsMove /\ ItemsMove /\ RequestsMove /\ ItemId' = ItemId
<1> DEFINE m == requests[r].mission
           mrow(x) == IF x = m /\ missions[x].status \notin Ended
                      THEN [missions[x] EXCEPT !.status = "cancelled"] ELSE missions[x]
           irow(i) == IF CancelledBy(items[i], m) THEN [items[i] EXCEPT !.status = "cancelled"] ELSE items[i]
<1>1. WorkTypeOK /\ requests \in [Req -> RequestRow]
  BY RequestsTyped DEF WInv
<1>2. /\ missions' = [x \in MissionId |-> mrow(x)] /\ items' = [i \in ItemId |-> irow(i)]
      /\ SetRequest(r, "cancelled") /\ requests[r].status \in {"received", "accepted"}
  BY DEF CancelRequest
<1>3. ASSUME NEW x \in MissionId
      PROVE  /\ mrow(x) \in MissionRow /\ mrow(x).req = missions[x].req
             /\ missions[x].status \in Ended => mrow(x) = missions[x]
             /\ x = m => mrow(x).status \in Ended
  <2>1. missions[x] \in MissionRow
    BY <1>1, WorkTyped
  <2> QED
    BY <2>1 DEF MissionRow, Ended
<1>4. ASSUME NEW i \in ItemId
      PROVE  /\ irow(i) \in ItemRow /\ irow(i).mission = items[i].mission /\ irow(i).needs = items[i].needs
             /\ items[i].status \in Ended => irow(i) = items[i]
             /\ items[i].mission = m => irow(i).status \in Ended
  <2>1. items[i] \in ItemRow
    BY <1>1, WorkTyped
  <2> QED
    BY <2>1 DEF ItemRow, Ended, CancelledBy
<1> HIDE DEF mrow, irow
<1>5. /\ missions' \in [1 .. Len(missions) -> MissionRow] /\ \A x \in MissionId : missions'[x] = mrow(x)
      /\ items' \in [1 .. Len(items) -> ItemRow] /\ \A i \in ItemId : items'[i] = irow(i)
  BY <1>2, <1>3, <1>4 DEF MissionId, ItemId
<1>6. /\ missions' \in Seq(MissionRow) /\ Len(missions') = Len(missions)
      /\ items' \in Seq(ItemRow) /\ Len(items') = Len(items)
  BY <1>1, <1>5, WorkTyped, RowsMapped
<1>7. MissionId' = MissionId /\ ItemId' = ItemId
  BY <1>6 DEF MissionId, ItemId
<1>8. MissionsMove /\ ItemsMove
  <2>1. Len(missions') <= MaxMissions /\ Len(missions) <= Len(missions')
        /\ Len(items') <= MaxItems /\ Len(items) <= Len(items')
    BY <1>1, <1>6, WorkTyped
  <2> QED
    BY <2>1, <1>3, <1>4, <1>5, <1>6, <1>7 DEF MissionsMove, ItemsMove
<1>9. /\ requests' \in [Req -> RequestRow] /\ requests'[r].status = "cancelled"
      /\ \A q \in Req : requests'[q].mission = requests[q].mission
      /\ \A q \in Req : q # r => requests'[q] = requests[q]
  BY <1>1, <1>2 DEF SetRequest, RequestRow
<1>10. CancelledOut(r)
  BY <1>2, <1>3, <1>4, <1>5, <1>7, <1>9 DEF CancelledOut
<1>11. \A q \in Req : SameMission(q)
  BY <1>7, <1>9, <1>10 DEF SameMission
<1> QED
  BY <1>7, <1>8, <1>9, <1>11 DEF RequestsMove

-----------------------------------------------------------------------------
(* Work: every step is one of those moves *)

LEMMA RestKept ==
  ASSUME WorkTypeOK, ItemsMove, UNCHANGED <<outcomes, reviews>>, moves' \in 0 .. MaxMoves
  PROVE  RestTyped'
<1>1. ItemId \subseteq ItemId'
  BY WorkTyped DEF ItemsMove, ItemId
<1> QED
  BY <1>1 DEF RestTyped, WorkTypeOK

LEMMA RequestOperationMoves ==
  ASSUME WInv, RequestOperation, moves' \in 0 .. MaxMoves
  PROVE  WorkMoves
<1>a. WorkTypeOK /\ TypeOK
  BY DEF WInv, RInv
<1>1. ASSUME NEW r \in Req, SubmitRequest(r) \/ RejectRequest(r) PROVE WorkMoves
  <2>1. UNCHANGED <<missions, items, outcomes, tasks, reviews>>
    BY <1>1 DEF SubmitRequest, RejectRequest
  <2>2. PICK st \in {"received", "rejected"} : SetRequest(r, st)
    BY <1>1 DEF SubmitRequest, RejectRequest
  <2>3. requests[r].status \in {"none", "received"}
    BY <1>1 DEF SubmitRequest, RejectRequest
  <2> QED
    BY <2>1, <2>2, <2>3, <1>a, MissionsKept, ItemsKept, TasksKept, RequestSet, RestKept DEF WorkMoves
<1>2. ASSUME NEW r \in Req, NEW d \in Agent \cup {0}, AcceptRequest(r, d) PROVE WorkMoves
  <2>1. Acceptable(r) /\ Accepting(r, d) /\ UNCHANGED <<outcomes, tasks, reviews>>
    BY <1>2 DEF AcceptRequest
  <2> QED
    BY <2>1, <1>a, AcceptingMoves, TasksKept, RestKept DEF WorkMoves
<1>3. ASSUME NEW r \in Req, CancelRequest(r) PROVE WorkMoves
  <2>1. UNCHANGED <<outcomes, tasks, reviews>>
    BY <1>3 DEF CancelRequest
  <2> QED
    BY <2>1, <1>3, <1>a, CancelMoves, TasksKept, RestKept DEF WorkMoves
<1>4. ASSUME NEW i \in ItemId, NEW b \in Agent, CompleteWorkItem(i, b) PROVE WorkMoves
  <2> DEFINE m == items[i].mission
             mrow == [missions[m] EXCEPT !.status = MissionAfter(m, i)]
             irow == [items[i] EXCEPT !.status = "completed"]
  <2>1. m \in MissionId
    BY <1>4 DEF WInv
  <2>2. items[i] \in ItemRow /\ missions[m] \in MissionRow
    BY <1>a, <2>1, WorkTyped
  <2>3. /\ items[i].status # "cancelled" /\ items' = [items EXCEPT ![i] = irow]
        /\ missions' = [missions EXCEPT ![m] = mrow] /\ outcomes' = outcomes \cup {i}
        /\ UNCHANGED <<requests, tasks, reviews>>
    BY <1>4 DEF CompleteWorkItem
  <2>4. irow \in ItemRow /\ irow.mission = items[i].mission /\ irow.needs = items[i].needs
        /\ (items[i].status \in Ended => irow.status = items[i].status)
    BY <2>2, <2>3 DEF ItemRow, Ended
  <2>5. MissionAfter(m, i) \in {missions[m].status, "completed"}
        /\ (missions[m].status = "cancelled" => MissionAfter(m, i) = "cancelled")
    BY DEF MissionAfter
  <2>6. mrow \in MissionRow /\ mrow.req = missions[m].req
        /\ (missions[m].status \in Ended => mrow.status = missions[m].status)
    BY <2>2, <2>5 DEF MissionRow, Ended
  <2> HIDE DEF m, mrow, irow
  <2>7. MissionsMove /\ MissionId' = MissionId /\ ItemsMove /\ ItemId' = ItemId
    BY <2>1, <2>3, <2>4, <2>6, <1>a, MissionSet, ItemSet
  <2>8. RestTyped'
    BY <2>3, <2>7, <1>a DEF RestTyped, WorkTypeOK
  <2> QED
    BY <2>3, <2>7, <2>8, <1>a, TasksKept, RequestsKept DEF WorkMoves
<1> QED
  BY <1>1, <1>2, <1>3, <1>4 DEF RequestOperation

LEMMA MissionOperationMoves ==
  ASSUME WInv, MissionOperation, moves' \in 0 .. MaxMoves
  PROVE  WorkMoves
<1>a. WorkTypeOK /\ TypeOK /\ Registered \subseteq Agent
  BY DEF WInv, RInv, Registered
<1>1. ASSUME NEW d \in Agent \cup {0}, CreateMission(d) PROVE WorkMoves
  <2> DEFINE row == [req |-> Null, status |-> "proposed", dri |-> d]
  <2>1. Len(missions) < MaxMissions /\ missions' = Append(missions, row)
        /\ UNCHANGED <<requests, items, outcomes, tasks, reviews>>
    BY <1>1 DEF CreateMission
  <2>2. row \in MissionRow /\ row.req = Null
    BY DEF MissionRow
  <2> HIDE DEF row
  <2>3. MissionsMove /\ \A m \in MissionId' \ MissionId : missions'[m].req = Null
    BY <2>1, <2>2, <1>a, MissionAdded
  <2> QED
    BY <2>1, <2>3, <1>a, ItemsKept, TasksKept, RequestsKept, RestKept DEF WorkMoves
<1>2. ASSUME NEW m \in MissionId, NEW row \in MissionRow, missions' = [missions EXCEPT ![m] = row],
             row.req = missions[m].req, missions[m].status \notin Ended,
             UNCHANGED <<requests, items, outcomes, tasks, reviews>>
      PROVE  WorkMoves
  <2>1. MissionsMove /\ MissionId' = MissionId
    BY <1>2, <1>a, MissionSet
  <2> QED
    BY <2>1, <1>2, <1>a, ItemsKept, TasksKept, RequestsKept, RestKept DEF WorkMoves
<1>3. ASSUME NEW m \in MissionId, NEW b \in Agent, AssignMissionDri(m, b) PROVE WorkMoves
  <2> DEFINE row == [missions[m] EXCEPT !.dri = b]
  <2>1. missions[m] \in MissionRow
    BY <1>a, WorkTyped
  <2>2. row \in MissionRow /\ row.req = missions[m].req
    BY <2>1 DEF MissionRow
  <2>3. missions' = [missions EXCEPT ![m] = row] /\ missions[m].status \notin Ended
        /\ UNCHANGED <<requests, items, outcomes, tasks, reviews>>
    BY <1>3 DEF AssignMissionDri
  <2> HIDE DEF row
  <2> QED
    BY <2>2, <2>3, <1>2
<1>4. ASSUME NEW m \in MissionId, NEW st \in {"active", "blocked", "completed", "cancelled"}, SetMissionStatus(m, st)
      PROVE  WorkMoves
  <2> DEFINE row == [missions[m] EXCEPT !.status = st]
  <2>1. missions[m] \in MissionRow
    BY <1>a, WorkTyped
  <2>2. row \in MissionRow /\ row.req = missions[m].req
    BY <2>1 DEF MissionRow, Ended
  <2>3. missions' = [missions EXCEPT ![m] = row] /\ missions[m].status \notin Ended
        /\ UNCHANGED <<requests, items, outcomes, tasks, reviews>>
    BY <1>4 DEF SetMissionStatus
  <2> HIDE DEF row
  <2> QED
    BY <2>2, <2>3, <1>2
<1>5. ASSUME NEW m \in MissionId, NEW o \in Agent \cup {0}, NEW n \in SUBSET ItemId, CreateWorkItem(m, o, n)
      PROVE  WorkMoves
  <2>1. /\ OpenForWork(m) /\ Len(items) < MaxItems /\ items' = Append(items, NewItem(m, o, n))
        /\ UNCHANGED <<requests, missions, outcomes, tasks, reviews>>
    BY <1>5 DEF CreateWorkItem
  <2>2. NewItem(m, o, n) \in ItemRow /\ NewItem(m, o, n).mission = m
    <3>1. m \in 1 .. MaxMissions /\ n \in SUBSET (1 .. MaxItems)
      BY <1>a, WorkTyped
    <3> QED
      BY <3>1 DEF ItemRow, NewItem
  <2>3. MissionsMove /\ MissionId' = MissionId
    BY <2>1, <1>a, MissionsKept
  <2>4. ItemsMove
    BY <2>1, <2>2, <2>3, <1>a, ItemAdded DEF OpenForWork
  <2> QED
    BY <2>1, <2>3, <2>4, <1>a, TasksKept, RequestsKept, RestKept DEF WorkMoves
<1>6. ASSUME NEW i \in ItemId, NEW row \in ItemRow, items' = [items EXCEPT ![i] = row],
             row.mission = items[i].mission, row.needs = items[i].needs, items[i].status \notin Ended,
             UNCHANGED <<requests, missions, outcomes, tasks, reviews>>
      PROVE  WorkMoves
  <2>1. ItemsMove
    BY <1>6, <1>a, ItemSet
  <2> QED
    BY <2>1, <1>6, <1>a, MissionsKept, TasksKept, RequestsKept, RestKept DEF WorkMoves
<1>7. ASSUME NEW i \in ItemId, NEW b \in Agent, AssignWorkOwner(i, b) PROVE WorkMoves
  <2> DEFINE row == [items[i] EXCEPT !.owner = b]
  <2>1. items[i] \in ItemRow
    BY <1>a, WorkTyped
  <2>2. row \in ItemRow /\ row.mission = items[i].mission /\ row.needs = items[i].needs
    BY <2>1 DEF ItemRow
  <2>3. items' = [items EXCEPT ![i] = row] /\ items[i].status \notin Ended
        /\ UNCHANGED <<requests, missions, outcomes, tasks, reviews>>
    BY <1>7 DEF AssignWorkOwner
  <2> HIDE DEF row
  <2> QED
    BY <2>2, <2>3, <1>6
<1>8. ASSUME NEW i \in ItemId, NEW st \in {"ready", "active", "blocked", "completed", "cancelled"}, SetWorkStatus(i, st)
      PROVE  WorkMoves
  <2> DEFINE row == [items[i] EXCEPT !.status = st]
  <2>1. items[i] \in ItemRow
    BY <1>a, WorkTyped
  <2>2. row \in ItemRow /\ row.mission = items[i].mission /\ row.needs = items[i].needs
    BY <2>1 DEF ItemRow, Ended
  <2>3. items' = [items EXCEPT ![i] = row] /\ items[i].status \notin Ended
        /\ UNCHANGED <<requests, missions, outcomes, tasks, reviews>>
    BY <1>8 DEF SetWorkStatus
  <2> HIDE DEF row
  <2> QED
    BY <2>2, <2>3, <1>6
<1>9. ASSUME NEW i \in ItemId, ProjectExecution(i) \/ TaskEnds(i) PROVE WorkMoves
  <2>1. TasksMove
    BY <1>9, <1>a, TaskMade, TaskEnded DEF ProjectExecution
  <2>2. UNCHANGED <<requests, missions, items, outcomes, reviews>>
    BY <1>9 DEF ProjectExecution, TaskEnds
  <2> QED
    BY <2>1, <2>2, <1>a, MissionsKept, ItemsKept, RequestsKept, RestKept DEF WorkMoves
<1> QED
  BY <1>1, <1>3, <1>4, <1>5, <1>7, <1>8, <1>9 DEF MissionOperation

-----------------------------------------------------------------------------
(* Work: the flows *)

LEMMA WorkSame ==
  ASSUME WInv, UNCHANGED <<requests, missions, items, outcomes, tasks, reviews>>, moves' \in 0 .. MaxMoves
  PROVE  WorkMoves
<1>1. WorkTypeOK
  BY DEF WInv
<1> QED
  BY <1>1, MissionsKept, ItemsKept, TasksKept, RequestsKept, RestKept DEF WorkMoves

LEMMA NoFlowHasShape ==
  ASSUME flow' = NoFlow
  PROVE  FlowShape'
BY DEF FlowShape

LEMMA FlowKinds ==
  ASSUME FlowShape, flow # NoFlow
  PROVE  /\ flow.kind = "intake" => IntakeShape
         /\ flow.kind = "review" => ReviewShape
         /\ flow.kind \in {"intake", "review"}
         /\ flow.step # "agent" => flow.agent \in Agent
BY DEF FlowShape, IntakeShape, ReviewShape

\* A flow goes on to a step that needs nothing new.
LEMMA FlowGoesOn ==
  ASSUME WInv, flow # NoFlow, NEW b \in Agent, NEW st \in {"desk", "accept", "runtime", "acquire", "acquired"},
         flow' = [flow EXCEPT !.agent = b, !.step = st],
         UNCHANGED <<requests, missions, items, reviews>>,
         flow.kind = "review" => st # "accept",
         flow.kind = "intake" /\ st \in {"runtime", "acquire", "acquired"} => requests[flow.on].status = "accepted"
  PROVE  FlowShape'
<1>1. FlowShape
  BY DEF WInv
<1>2. CASE flow.kind = "intake"
  <2>1. IntakeShape
    BY <1>1, <1>2, FlowKinds
  <2>2. /\ flow' \in [kind : {"intake"}, on : Req, agent : Agent \cup {0},
                      step : {"agent", "desk", "accept", "runtime", "acquire", "acquired"}]
        /\ flow'.on = flow.on /\ flow'.step = st /\ flow'.agent = b
    BY <2>1 DEF IntakeShape
  <2> QED
    BY <2>1, <2>2, <1>2 DEF FlowShape, IntakeShape
<1>3. CASE flow.kind = "review"
  <2>1. ReviewShape
    BY <1>1, <1>3, FlowKinds
  <2>2. /\ flow' \in [kind : {"review"}, on : ReviewSlot, mission : MissionId, agent : Agent \cup {0},
                      step : {"agent", "desk", "runtime", "acquire", "acquired", "ready", "project", "bind"}]
        /\ flow'.step = st /\ flow'.agent = b
    BY <2>1, <1>3 DEF ReviewShape
  <2> QED
    BY <2>1, <2>2 DEF FlowShape, ReviewShape, MissionId
<1> QED
  BY <1>1, <1>2, <1>3, FlowKinds

\* The same, when the flow keeps its agent.
LEMMA FlowStepsOn ==
  ASSUME WInv, flow # NoFlow, flow.step # "agent", NEW st \in {"desk", "accept", "runtime", "acquire", "acquired"},
         Then(st), UNCHANGED <<requests, missions, items, reviews>>,
         flow.kind = "review" => st # "accept",
         flow.kind = "intake" /\ st \in {"runtime", "acquire", "acquired"} => requests[flow.on].status = "accepted"
  PROVE  FlowShape'
<1>1. FlowShape /\ flow.agent \in Agent
  BY FlowKinds DEF WInv
<1>2. flow' = [flow EXCEPT !.agent = flow.agent, !.step = st]
  BY <1>1 DEF Then, FlowShape, IntakeShape, ReviewShape
<1> QED
  BY <1>1, <1>2, FlowGoesOn

LEMMA StartsHaveShape ==
  ASSUME WInv, (\E r \in Req : SubmitIntake(r)) \/ (\E v \in ReviewSlot, m \in MissionId : StartReview(v, m)),
         UNCHANGED moves
  PROVE  WorkMoves /\ FlowShape'
<1>a. WorkTypeOK /\ moves' \in 0 .. MaxMoves /\ requests \in [Req -> RequestRow]
  BY RequestsTyped DEF WInv, WorkTypeOK
<1>1. ASSUME NEW r \in Req, SubmitIntake(r) PROVE WorkMoves /\ FlowShape'
  <2>1. /\ requests[r].status \notin {"rejected", "cancelled"}
        /\ flow' = [kind |-> "intake", on |-> r, step |-> "agent", agent |-> 0]
        /\ UNCHANGED <<missions, items, outcomes, tasks, reviews>>
        /\ IF requests[r].status = "none" THEN SetRequest(r, "received") ELSE UNCHANGED requests
    BY <1>1 DEF SubmitIntake
  <2>2. RequestsMove /\ requests'[r].status \in {"received", "accepted"}
    <3>1. CASE requests[r].status = "none"
      BY <3>1, <2>1, RequestSet
    <3>2. CASE requests[r].status # "none"
      <4>1. requests' = requests /\ MissionId' = MissionId
        BY <3>2, <2>1 DEF MissionId
      <4>2. RequestsMove
        BY <4>1, <1>a, RequestsKept
      <4>3. requests[r].status \in {"received", "accepted"}
        BY <3>2, <2>1, <1>a DEF RequestRow
      <4> QED
        BY <4>1, <4>2, <4>3
    <3> QED
      BY <3>1, <3>2
  <2>3. WorkMoves
    BY <2>1, <2>2, <1>a, MissionsKept, ItemsKept, TasksKept, RestKept DEF WorkMoves
  <2>4. IntakeShape' /\ flow'.step = "agent"
    BY <2>1, <2>2 DEF IntakeShape
  <2> QED
    BY <2>3, <2>4 DEF FlowShape
<1>2. ASSUME NEW v \in ReviewSlot, NEW m \in MissionId, StartReview(v, m) PROVE WorkMoves /\ FlowShape'
  <2>1. /\ UNCHANGED <<requests, missions, items, outcomes, tasks, reviews>>
        /\ flow' = [kind |-> "review", on |-> v, mission |-> m, step |-> "agent", agent |-> 0]
    BY <1>2 DEF StartReview, WorkKept
  <2>2. ReviewShape' /\ flow'.step = "agent"
    BY <2>1 DEF ReviewShape, MissionId
  <2> QED
    BY <2>1, <2>2, <1>a, WorkSame DEF FlowShape
<1> QED
  BY <1>1, <1>2

LEMMA PickAgentKeeps ==
  ASSUME WInv, PickAgent, UNCHANGED moves
  PROVE  WorkMoves /\ FlowShape'
<1>a. WorkTypeOK /\ moves' \in 0 .. MaxMoves /\ FlowShape
  BY DEF WInv, WorkTypeOK
<1>b. flow # NoFlow /\ flow.step = "agent" /\ UNCHANGED <<requests, missions, items, outcomes, tasks, reviews>>
  BY DEF PickAgent, WorkKept
<1>1. PICK b \in Agent : flow' = [flow EXCEPT !.agent = b, !.step = "desk"]
  <2> DEFINE lead == missions[MissionOf(flow.on)].dri
  <2>1. \/ /\ flow.kind = "intake" /\ requests[flow.on].status = "accepted" /\ lead # 0
           /\ flow' = [flow EXCEPT !.agent = lead, !.step = "desk"]
        \/ Unoccupied # {} /\ flow' = [flow EXCEPT !.agent = Youngest(Unoccupied), !.step = "desk"]
        \/ Unregistered # {} /\ flow' = [flow EXCEPT !.agent = Youngest(Unregistered), !.step = "desk"]
    BY DEF PickAgent
  <2>2. ASSUME flow.kind = "intake", requests[flow.on].status = "accepted", lead # 0 PROVE lead \in Agent
    <3>1. flow.on \in Req /\ RequestShape(flow.on)
      BY <2>2, <1>a, <1>b, FlowKinds DEF WInv, IntakeShape
    <3>2. requests[flow.on].mission \in MissionId
      <4>1. Len(missions) \in Nat /\ requests[flow.on].mission \in 0 .. Len(missions) /\ requests[flow.on].mission # 0
        BY <3>1, <2>2, <1>a, WorkTyped DEF RequestShape
      <4> QED
        BY <4>1 DEF MissionId
    <3>3. missions[requests[flow.on].mission] \in MissionRow
      BY <3>2, <1>a, WorkTyped
    <3> QED
      BY <3>3, <2>2 DEF MissionRow, MissionOf
  <2>3. Unoccupied # {} => Youngest(Unoccupied) \in Agent
    BY YoungestIsOne DEF Unoccupied, Registered
  <2>4. Unregistered # {} => Youngest(Unregistered) \in Agent
    BY YoungestIsOne DEF Unregistered
  <2> HIDE DEF lead
  <2> QED
    BY <2>1, <2>2, <2>3, <2>4
<1>2. FlowShape'
  BY <1>1, <1>b, FlowGoesOn
<1> QED
  BY <1>2, <1>a, <1>b, WorkSame

\* The steps that prepare the desk and the runtime leave work alone.
LEMMA AcquisitionStepsKeep ==
  ASSUME WInv, PrepareDesk \/ FlowRequests \/ FlowAcquires, UNCHANGED moves
  PROVE  WorkMoves /\ FlowShape'
<1>a. WorkTypeOK /\ moves' \in 0 .. MaxMoves /\ FlowShape
  BY DEF WInv, WorkTypeOK
<1>b. flow # NoFlow /\ flow.step \in {"desk", "runtime", "acquire"}
      /\ UNCHANGED <<requests, missions, items, outcomes, tasks, reviews>>
  BY DEF PrepareDesk, FlowRequests, FlowAcquires, WorkKept, Raise
<1>c. flow.kind = "intake" /\ flow.step \in {"runtime", "acquire"} => requests[flow.on].status = "accepted"
  BY <1>a, <1>b, FlowKinds DEF IntakeShape
<1>1. ASSUME flow' = NoFlow PROVE FlowShape'
  BY <1>1, NoFlowHasShape
<1>2. ASSUME UNCHANGED flow PROVE FlowShape'
  BY <1>2, <1>a, <1>b DEF FlowShape, IntakeShape, ReviewShape, MissionId, ItemId
<1>3. ASSUME NEW st \in {"accept", "runtime", "acquire", "acquired"}, Then(st),
             flow.kind = "review" => st # "accept",
             flow.kind = "intake" /\ st \in {"runtime", "acquire", "acquired"} => requests[flow.on].status = "accepted"
      PROVE  FlowShape'
  BY <1>3, <1>b, FlowStepsOn
<1>4. \/ flow' = NoFlow \/ UNCHANGED flow
      \/ flow.step = "desk" /\ Then(IF flow.kind = "intake" THEN "accept" ELSE "runtime")
      \/ flow.step \in {"runtime", "acquire"} /\ (Then("acquire") \/ Then("acquired"))
  BY DEF PrepareDesk, FlowRequests, FlowAcquires, Raise
<1>5. ASSUME flow.step = "desk", Then(IF flow.kind = "intake" THEN "accept" ELSE "runtime") PROVE FlowShape'
  <2>1. CASE flow.kind = "intake"
    BY <2>1, <1>3, <1>5
  <2>2. CASE flow.kind # "intake"
    BY <2>2, <1>3, <1>5
  <2> QED
    BY <2>1, <2>2
<1>6. ASSUME flow.step \in {"runtime", "acquire"}, Then("acquire") \/ Then("acquired") PROVE FlowShape'
  BY <1>3, <1>6, <1>c
<1>7. FlowShape'
  BY <1>1, <1>2, <1>4, <1>5, <1>6
<1> QED
  BY <1>7, <1>a, <1>b, WorkSame

LEMMA IntakeAcceptsKeeps ==
  ASSUME WInv, IntakeAccepts, UNCHANGED moves
  PROVE  WorkMoves /\ FlowShape'
<1>a. WorkTypeOK /\ moves' \in 0 .. MaxMoves /\ FlowShape
  BY DEF WInv, WorkTypeOK
<1>b. /\ flow # NoFlow /\ flow.kind = "intake" /\ flow.step = "accept" /\ flow' = [flow EXCEPT !.step = "runtime"]
      /\ UNCHANGED <<outcomes, tasks, reviews>>
  BY DEF IntakeAccepts, FlowAt, Then
<1>c. IntakeShape /\ flow.agent \in Agent
  BY <1>a, <1>b, FlowKinds
<1>1. /\ MissionsMove /\ ItemsMove /\ RequestsMove /\ requests'[flow.on].status = "accepted"
  <2>1. CASE Acceptable(flow.on)
    <3>1. Accepting(flow.on, flow.agent) /\ flow.on \in Req
      BY <2>1, <1>c DEF IntakeAccepts, IntakeShape
    <3> QED
      BY <2>1, <3>1, <1>c, AcceptingMoves
  <2>2. CASE ~Acceptable(flow.on)
    <3>1. UNCHANGED <<requests, missions, items>> /\ requests[flow.on].status = "accepted"
      BY <2>2, <1>c DEF IntakeAccepts, Acceptable, IntakeShape
    <3> QED
      BY <3>1, <1>a, MissionsKept, ItemsKept, RequestsKept
  <2> QED
    BY <2>1, <2>2
<1>2. FlowShape'
  <2>1. /\ flow' \in [kind : {"intake"}, on : Req, agent : Agent \cup {0},
                      step : {"agent", "desk", "accept", "runtime", "acquire", "acquired"}]
        /\ flow'.on = flow.on /\ flow'.agent = flow.agent /\ flow'.step = "runtime"
    BY <1>b, <1>c DEF IntakeShape
  <2> QED
    BY <2>1, <1>1, <1>c DEF FlowShape, IntakeShape
<1> QED
  BY <1>1, <1>2, <1>a, <1>b, TasksKept, RestKept DEF WorkMoves

LEMMA IntakeProjectsKeeps ==
  ASSUME WInv, IntakeProjects, UNCHANGED moves
  PROVE  WorkMoves /\ FlowShape'
<1> DEFINE m == MissionOf(flow.on)
           i == CHOOSE j \in ItemsOf(m) : \A o \in ItemsOf(m) : j <= o
<1>a. WorkTypeOK /\ moves' \in 0 .. MaxMoves /\ FlowShape
  BY DEF WInv, WorkTypeOK
<1>b. flow # NoFlow /\ flow.kind = "intake" /\ flow.step = "acquired"
  BY DEF IntakeProjects, FlowAt
<1>1. i \in ItemId
  <2>1. flow.on \in Req /\ requests[flow.on].status = "accepted" /\ RequestShape(flow.on)
    BY <1>a, <1>b, FlowKinds DEF IntakeShape, WInv
  <2>2. ItemsOf(m) # {}
    BY <2>1 DEF RequestShape, ItemsOf, MissionOf
  <2>3. ItemsOf(m) \in SUBSET Nat
    BY DEF ItemsOf, ItemId
  <2>4. \E x \in ItemsOf(m) : \A y \in ItemsOf(m) : x <= y
    BY <2>2, <2>3, LeastExists
  <2>5. i \in ItemsOf(m)
    BY <2>4
  <2> QED
    BY <2>5 DEF ItemsOf
<1>2. \/ Raise
      \/ /\ Projectable(i) /\ tasks' = Projected(i) /\ flow' = NoFlow
         /\ UNCHANGED <<requests, missions, items, outcomes, reviews>>
  BY DEF IntakeProjects
<1> HIDE DEF i
<1>3. ASSUME Raise PROVE WorkMoves /\ FlowShape'
  BY <1>3, <1>a, WorkSame, NoFlowHasShape DEF Raise
<1>4. ASSUME Projectable(i), tasks' = Projected(i), flow' = NoFlow,
             UNCHANGED <<requests, missions, items, outcomes, reviews>>
      PROVE  WorkMoves /\ FlowShape'
  BY <1>4, <1>1, <1>a, TaskMade, MissionsKept, ItemsKept, RequestsKept, RestKept, NoFlowHasShape DEF WorkMoves
<1> QED
  BY <1>2, <1>3, <1>4

\* The steps of a review from its item on
LEMMA ReviewGoesOn ==
  ASSUME WInv, flow # NoFlow, flow.kind = "review", flow.step # "agent",
         NEW st \in {"ready", "project", "bind"}, Then(st), UNCHANGED missions,
         reviews'[flow.on].item \in ItemId',
         st = "ready" => items'[reviews'[flow.on].item].status = "proposed"
  PROVE  FlowShape'
<1>1. ReviewShape /\ flow.agent \in Agent
  BY FlowKinds DEF WInv
<1>2. /\ flow' \in [kind : {"review"}, on : ReviewSlot, mission : MissionId, agent : Agent \cup {0},
                    step : {"agent", "desk", "runtime", "acquire", "acquired", "ready", "project", "bind"}]
      /\ flow'.on = flow.on /\ flow'.agent = flow.agent /\ flow'.step = st
  BY <1>1 DEF ReviewShape, Then
<1> QED
  BY <1>1, <1>2 DEF FlowShape, ReviewShape, MissionId

LEMMA ReviewCreatesItemKeeps ==
  ASSUME WInv, ReviewCreatesItem, UNCHANGED moves
  PROVE  WorkMoves /\ FlowShape'
<1> DEFINE v == flow.on
           row == NewItem(flow.mission, flow.agent, {})
           n == Len(items) + 1
<1>a. WorkTypeOK /\ moves' \in 0 .. MaxMoves /\ FlowShape
  BY DEF WInv, WorkTypeOK
<1>b. flow # NoFlow /\ flow.kind = "review" /\ flow.step = "acquired"
  BY DEF ReviewCreatesItem, FlowAt
<1>c. v \in ReviewSlot /\ flow.mission \in MissionId /\ flow.agent \in Agent
  BY <1>a, <1>b, FlowKinds DEF ReviewShape
<1>1. ASSUME Raise PROVE WorkMoves /\ FlowShape'
  BY <1>1, <1>a, WorkSame, NoFlowHasShape DEF Raise
<1>2. ASSUME OpenForWork(flow.mission), Len(items) < MaxItems, items' = Append(items, row),
             reviews' = [reviews EXCEPT ![v].item = n], Then("ready"),
             UNCHANGED <<requests, missions, outcomes, tasks>>
      PROVE  WorkMoves /\ FlowShape'
  <2>1. row \in ItemRow /\ row.mission = flow.mission /\ row.status = "proposed"
    <3>1. flow.mission \in 1 .. MaxMissions
      BY <1>a, <1>c, WorkTyped
    <3> QED
      BY <3>1, <1>c DEF ItemRow, NewItem
  <2>2. MissionsMove /\ MissionId' = MissionId
    BY <1>2, <1>a, MissionsKept
  <2>3. n = Len(items) + 1 /\ missions[flow.mission].status \notin Ended
    BY <1>2 DEF OpenForWork
  <2>4. n \in 0 .. MaxItems
    <3>1. Len(items) \in Nat /\ MaxItems \in Nat /\ Len(items) < MaxItems
      BY <1>2, <1>a, WorkTyped
    <3> QED
      BY <3>1
  <2> HIDE DEF row, n, v
  <2>5. ItemsMove /\ ItemId' = ItemId \cup {n} /\ items'[n] = row
    BY <1>2, <1>a, <1>c, <2>1, <2>2, <2>3, ItemAdded
  <2>6. reviews' \in [ReviewSlot -> [item : 0 .. MaxItems, bound : BOOLEAN]] /\ reviews'[v].item = n
    <3>1. reviews \in [ReviewSlot -> [item : 0 .. MaxItems, bound : BOOLEAN]]
      BY <1>a DEF WorkTypeOK
    <3> QED
      BY <3>1, <1>2, <1>c, <2>4
  <2>7. RestTyped'
    BY <1>2, <1>a, <2>5, <2>6 DEF RestTyped, WorkTypeOK
  <2>8. FlowShape'
    <3>1. reviews'[flow.on].item \in ItemId' /\ items'[reviews'[flow.on].item].status = "proposed"
      BY <2>1, <2>5, <2>6 DEF v
    <3>2. flow.step # "agent" /\ Then("ready") /\ UNCHANGED missions
      BY <1>2, <1>b
    <3> QED
      BY <1>b, <3>1, <3>2, ReviewGoesOn
  <2> QED
    BY <1>2, <1>a, <2>2, <2>5, <2>7, <2>8, TasksKept, RequestsKept DEF WorkMoves
<1> QED
  BY <1>1, <1>2 DEF ReviewCreatesItem

LEMMA ReviewReadyKeeps ==
  ASSUME WInv, ReviewReady, UNCHANGED moves
  PROVE  WorkMoves /\ FlowShape'
<1> DEFINE i == reviews[flow.on].item
           row == [items[i] EXCEPT !.status = "ready"]
<1>a. WorkTypeOK /\ moves' \in 0 .. MaxMoves /\ FlowShape
  BY DEF WInv, WorkTypeOK
<1>b. /\ flow # NoFlow /\ flow.kind = "review" /\ flow.step = "ready" /\ Then("project")
      /\ items' = [items EXCEPT ![i] = row] /\ UNCHANGED <<requests, missions, outcomes, tasks, reviews>>
  BY DEF ReviewReady, FlowAt
<1>c. i \in ItemId /\ items[i].status = "proposed"
  BY <1>a, <1>b, FlowKinds DEF ReviewShape
<1>1. row \in ItemRow /\ row.mission = items[i].mission /\ row.needs = items[i].needs
      /\ items[i].status \notin Ended
  <2>1. items[i] \in ItemRow
    BY <1>a, <1>c, WorkTyped
  <2> QED
    BY <2>1, <1>c DEF ItemRow, Ended
<1>d. i = reviews[flow.on].item
  OBVIOUS
<1> HIDE DEF row, i
<1>2. ItemsMove /\ ItemId' = ItemId
  BY <1>1, <1>a, <1>b, <1>c, ItemSet
<1>3. FlowShape'
  BY <1>2, <1>b, <1>c, <1>d, ReviewGoesOn
<1> QED
  BY <1>2, <1>3, <1>a, <1>b, MissionsKept, TasksKept, RequestsKept, RestKept DEF WorkMoves

LEMMA ReviewProjectsKeeps ==
  ASSUME WInv, ReviewProjects, UNCHANGED moves
  PROVE  WorkMoves /\ FlowShape'
<1> DEFINE i == reviews[flow.on].item
<1>a. WorkTypeOK /\ moves' \in 0 .. MaxMoves /\ FlowShape
  BY DEF WInv, WorkTypeOK
<1>b. flow # NoFlow /\ flow.kind = "review" /\ flow.step = "project"
  BY DEF ReviewProjects, FlowAt
<1>c. i \in ItemId
  BY <1>a, <1>b, FlowKinds DEF ReviewShape
<1>1. ASSUME Raise PROVE WorkMoves /\ FlowShape'
  BY <1>1, <1>a, WorkSame, NoFlowHasShape DEF Raise
<1>2. ASSUME Projectable(i), tasks' = Projected(i), Then("bind"),
             UNCHANGED <<requests, missions, items, outcomes, reviews>>
      PROVE  WorkMoves /\ FlowShape'
  <2>1. ItemsMove /\ ItemId' = ItemId
    BY <1>2, <1>a, ItemsKept
  <2>2. FlowShape'
    BY <1>2, <1>b, <1>c, <2>1, ReviewGoesOn
  <2> HIDE DEF i
  <2> QED
    BY <1>2, <1>a, <1>c, <2>1, <2>2, TaskMade, MissionsKept, RequestsKept, RestKept DEF WorkMoves
<1> QED
  BY <1>1, <1>2 DEF ReviewProjects

LEMMA ReviewBindsKeeps ==
  ASSUME WInv, ReviewBinds, UNCHANGED moves
  PROVE  WorkMoves /\ FlowShape'
<1>a. WorkTypeOK /\ moves' \in 0 .. MaxMoves /\ reviews \in [ReviewSlot -> [item : 0 .. MaxItems, bound : BOOLEAN]]
  BY DEF WInv, WorkTypeOK
<1>b. /\ flow' = NoFlow /\ reviews' = [reviews EXCEPT ![flow.on].bound = TRUE]
      /\ UNCHANGED <<requests, missions, items, outcomes, tasks>>
  BY DEF ReviewBinds
<1>1. reviews' \in [ReviewSlot -> [item : 0 .. MaxItems, bound : BOOLEAN]]
  BY <1>a, <1>b
<1>2. RestTyped'
  BY <1>1, <1>a, <1>b DEF RestTyped, WorkTypeOK, ItemId
<1> QED
  BY <1>2, <1>a, <1>b, MissionsKept, ItemsKept, TasksKept, RequestsKept, NoFlowHasShape DEF WorkMoves

-----------------------------------------------------------------------------
(* Work: the theorems *)

LEMMA OutsideFlows ==
  ASSUME WInv, UNCHANGED <<workVars, moves>>
  PROVE  WorkMoves /\ FlowShape'
<1>1. UNCHANGED <<requests, missions, items, outcomes, tasks, reviews, flow>> /\ moves' \in 0 .. MaxMoves
  BY DEF workVars, WInv, WorkTypeOK
<1>2. FlowShape'
  BY <1>1 DEF WInv, FlowShape, IntakeShape, ReviewShape, MissionId, ItemId
<1> QED
  BY <1>1, <1>2, WorkSame

LEMMA WorkStep ==
  ASSUME WInv, [WorkNext]_allVars
  PROVE  WorkMoves /\ FlowShape'
<1>a. moves \in 0 .. MaxMoves /\ MaxMoves \in Nat
  BY WorkBounds DEF WInv, WorkTypeOK
<1>1. CASE UNCHANGED allVars
  BY <1>1, OutsideFlows DEF allVars
<1>2. ASSUME Move PROVE moves' \in 0 .. MaxMoves /\ flow = NoFlow
  <2>1. moves < MaxMoves /\ moves' = moves + 1 /\ flow = NoFlow
    BY <1>2 DEF Move, AtRest
  <2> QED
    BY <2>1, <1>a
<1>3. CASE Move /\ (RequestOperation \/ MissionOperation)
  <2>1. UNCHANGED flow
    BY <1>3 DEF RequestOperation, MissionOperation, SubmitRequest, AcceptRequest, RejectRequest, CancelRequest,
         CompleteWorkItem, CreateMission, AssignMissionDri, SetMissionStatus, CreateWorkItem, AssignWorkOwner,
         SetWorkStatus, ProjectExecution, TaskEnds
  <2>2. FlowShape'
    BY <2>1, <1>2, <1>3, NoFlowHasShape
  <2> QED
    BY <2>2, <1>2, <1>3, RequestOperationMoves, MissionOperationMoves
<1>4. CASE Move /\ UNCHANGED workVars
  <2>1. UNCHANGED <<requests, missions, items, outcomes, tasks, reviews, flow>>
    BY <1>4 DEF workVars
  <2> QED
    BY <2>1, <1>2, <1>4, WorkSame, NoFlowHasShape
<1>5. CASE /\ (\E r \in Req : SubmitIntake(r)) \/ (\E v \in ReviewSlot, m \in MissionId : StartReview(v, m))
           /\ UNCHANGED moves
  BY <1>5, StartsHaveShape
<1>6. CASE FlowStep /\ UNCHANGED moves
  BY <1>6, PickAgentKeeps, AcquisitionStepsKeep, IntakeAcceptsKeeps, IntakeProjectsKeeps, ReviewCreatesItemKeeps,
     ReviewReadyKeeps, ReviewProjectsKeeps, ReviewBindsKeeps DEF FlowStep
<1>7. CASE UNCHANGED <<workVars, moves>>
  BY <1>7, OutsideFlows
<1>8. CASE FlowCrash /\ UNCHANGED moves
  BY <1>8, <1>a, WorkSame, NoFlowHasShape DEF FlowCrash, WorkKept
<1> QED
  BY <1>1, <1>3, <1>4, <1>5, <1>6, <1>7, <1>8 DEF WorkNext

LEMMA WInvStep ==
  ASSUME WInv, [WorkNext]_allVars
  PROVE  WInv'
<1>1. RInv'
  BY WorkNextMoves, RInvStep DEF WInv, RInv
<1> QED
  BY <1>1, WorkStep, WorkMovesKeep

LEMMA WInvInit ==
  ASSUME InitWork
  PROVE  WInv
<1>1. RInv
  BY RInvInit DEF InitWork
<1>2. /\ requests = [r \in Req |-> [status |-> "none", mission |-> 0]]
      /\ missions = <<>> /\ items = <<>> /\ outcomes = {} /\ tasks = <<>>
      /\ reviews = [v \in ReviewSlot |-> [item |-> 0, bound |-> FALSE]]
      /\ flow = NoFlow /\ moves = 0
  BY DEF InitWork
<1>3. Len(missions) = 0 /\ Len(items) = 0 /\ MissionId = {} /\ ItemId = {} /\ DOMAIN tasks = {}
  BY <1>2 DEF MissionId, ItemId
<1>4. MaxMissions \in Nat /\ MaxItems \in Nat /\ MaxMoves \in Nat
  BY WorkBounds
<1>5. WorkTypeOK
  <2>1. missions \in Seq(MissionRow) /\ items \in Seq(ItemRow) /\ Len(missions) <= MaxMissions /\ Len(items) <= MaxItems
    BY <1>2, <1>3, <1>4
  <2>2. 0 \in 0 .. MaxMissions /\ 0 \in 0 .. MaxItems /\ 0 \in 0 .. MaxMoves
    BY <1>4
  <2> QED
    BY <1>2, <1>3, <2>1, <2>2 DEF WorkTypeOK
<1>6. \A r \in Req : RequestShape(r)
  BY <1>2, <1>3 DEF RequestShape
<1>7. FlowShape /\ CancelledLeavesNoWork /\ TasksHaveTheirDependencies
  BY <1>2, <1>3 DEF FlowShape, CancelledLeavesNoWork, TasksHaveTheirDependencies
<1> QED
  BY <1>1, <1>3, <1>5, <1>6, <1>7 DEF WInv

LEMMA WInvIsSound ==
  ASSUME WInv
  PROVE  WorkIsSound
<1>1. OneMissionPerRequest
  <2> SUFFICES ASSUME NEW r \in Req
               PROVE  /\ {m \in MissionId : missions[m].req = r} = {requests[r].mission} \ {0}
                      /\ requests[r].status = "accepted" => requests[r].mission # 0
    BY DEF OneMissionPerRequest
  <2>1. RequestShape(r) /\ Len(missions) \in Nat
    BY WorkTyped DEF WInv
  <2>2. requests[r].mission \in MissionId \cup {0} /\ 0 \notin MissionId
    BY <2>1 DEF RequestShape, MissionId
  <2> QED
    BY <2>1, <2>2 DEF RequestShape
<1> QED
  BY <1>1 DEF WInv, WorkIsSound

\* What is known of requests, missions, items and tasks, and of the flow under
\* way, at every moment between two transactions (WorkIngressAuthority,
\* AutonomousIntakeAuthority and OrganizationWorkflowCoordinator).
THEOREM WorkInvariant == WorkSpec => []WInv
<1>1. InitWork => WInv
  BY WInvInit
<1>2. WInv /\ [WorkNext]_allVars => WInv'
  BY WInvStep
<1> QED
  BY <1>1, <1>2, PTL DEF WorkSpec

\* However often an intake or an acceptance is repeated, or cut short, a
\* request has one mission; cancelling it leaves no unfinished work, whatever
\* is done to its mission before or after; and no task exists before the
\* tasks of what it needs (accept, cancel and materialize).
THEOREM WorkStaysSound == WorkSpec => []WorkIsSound
<1>1. WInv => WorkIsSound
  BY WInvIsSound
<1> QED
  BY <1>1, WorkInvariant, PTL

\* Driven by intakes and reviews too, every step that touches an agent's
\* runtime is one of OrganizationRuntime's, so that runtimes stay sound.
THEOREM RuntimesAreSoundUnderWork == WorkSpec => []RuntimeIsSound
<1>1. WInv => RuntimeIsSound
  BY RInvIsSound DEF WInv
<1> QED
  BY <1>1, WorkInvariant, PTL

\* A mission or an item that is completed or cancelled stays as it ended: no
\* outcome, assignment, late completion or flow under way reopens it or turns
\* the one end into the other (completeWorkItem and the status setters).
THEOREM EndsStayFinal == WorkSpec => EndsAreFinal
<1> DEFINE Final == /\ \A m \in MissionId : missions[m].status \in Ended => missions'[m].status = missions[m].status
                    /\ \A i \in ItemId : items[i].status \in Ended => items'[i].status = items[i].status
<1>1. WInv /\ [WorkNext]_allVars => [Final]_allVars
  BY WorkStep DEF WorkMoves, MissionsMove, ItemsMove
<1>2. EndsAreFinal <=> [][Final]_allVars
  BY DEF EndsAreFinal
<1> HIDE DEF Final
<1> QED
  BY <1>1, <1>2, WorkInvariant, PTL DEF WorkSpec

=============================================================================
