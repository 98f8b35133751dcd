--------------------- MODULE ConversationRolloverProofs ---------------------
(***************************************************************************)
(* Proofs about ConversationRollover: the slot and the rollover ledger     *)
(* agree, no second conversation record stays active, and an Agent leaves  *)
(* a conversation only on the proof that its successor took over.          *)
(***************************************************************************)
EXTENDS ConversationRollover, FiniteSetTheorems, WellFoundedInduction, TLAPS

-----------------------------------------------------------------------------
(* The steps *)

RolloverStep(s, r) ==
  \/ RequestRollover(s, r) \/ BeginRollover(s, r) \/ FailRollover(s, r)
  \/ \E o \in Attempt : MarkBootstrap(s, r, o) \/ CompleteRollover(s, r, o)

LEMMA StepCases ==
  ASSUME [Next]_kernelVars
  PROVE  \/ \E s \in Slot, k \in Key : BindConversation(s, k) \/ ReportConversation(s, k)
         \/ \E s, c \in Slot, k \in Key : MoveConversation(s, c, k)
         \/ \E s \in Slot, b \in {"absent", "open"} : ReportBrowser(s, b)
         \/ \E s \in Slot, r \in Rollover : RolloverStep(s, r)
         \/ \E s \in Slot, o \in Attempt : ObserveReply(s, o)
         \/ \E a \in Agent, s \in Slot : BindRuntime(a, s)
         \/ \E a \in Agent : UnbindRuntime(a)
         \/ CloseAgentConversation \/ OpenAgentConversation \/ Crash \/ UNCHANGED kernelVars
BY DEF Next, SlotStep, RolloverStep

-----------------------------------------------------------------------------
(* The greatest of finitely many numbers *)

\* A non-empty finite set of naturals has a greatest element, and Max is it.
LEMMA MaxOfFinite ==
  ASSUME NEW S \in SUBSET Nat, IsFiniteSet(S), S # {}
  PROVE  Max(S) \in S /\ \A x \in S : x <= Max(S)
<1> DEFINE From(y) == {x \in S : x >= y}
           Tails == {From(y) : y \in S}
<1>1. Tails \subseteq FiniteSubsetsOf(S) /\ Tails # {}
  <2>1. FiniteSubsetsOf(S) = SUBSET S
    BY FS_FiniteSubsetsOfFinite
  <2>2. Tails \subseteq SUBSET S
    OBVIOUS
  <2>3. Tails # {}
    OBVIOUS
  <2> QED
    BY <2>1, <2>2, <2>3
<1>2. IsWellFoundedOn(StrictSubsetOrdering(S), FiniteSubsetsOf(S))
  BY FS_StrictSubsetOrderingWellFounded
<1>3. PICK T \in Tails : \A U \in Tails : ~(<<U, T>> \in StrictSubsetOrdering(S))
  BY <1>1, <1>2, WFMin
<1>4. PICK y \in S : T = From(y)
  OBVIOUS
<1>5. \A x \in S : x <= y
  <2> SUFFICES ASSUME NEW x \in S, x > y PROVE FALSE
    OBVIOUS
  <2>0. x \in Nat /\ y \in Nat
    OBVIOUS
  <2>1. From(x) \in Tails /\ From(x) \subseteq T /\ y \in T /\ y \notin From(x)
    <3>1. From(x) \in Tails
      OBVIOUS
    <3>2. y \in T /\ y \notin From(x)
      BY <1>4, <2>0
    <3>3. From(x) \subseteq T
      <4> SUFFICES ASSUME NEW z \in S, z >= x PROVE z >= y
        BY <1>4
      <4> z \in Nat
        OBVIOUS
      <4> QED
        BY <2>0
    <3> QED
      BY <3>1, <3>2, <3>3
  <2>2. <<From(x), T>> \in StrictSubsetOrdering(S)
    BY <2>1 DEF StrictSubsetOrdering
  <2> QED
    BY <1>3, <2>1, <2>2
<1>6. \A x \in S : y >= x
  BY <1>5
<1> QED
  BY <1>6 DEF Max

-----------------------------------------------------------------------------
(* What the helpers on slots do to the columns *)

LEMMA BoundSlots ==
  ASSUME TypeOK, NEW s \in Slot, NEW k \in Key \cup {Null}, NEW g \in Nat
  PROVE  /\ Bound(s, k, g) \in [Slot -> SlotRow]
         /\ \A c \in Slot : /\ Bound(s, k, g)[c].key = IF c = s THEN k ELSE slot[c].key
                            /\ Bound(s, k, g)[c].phase = slot[c].phase
                            /\ Bound(s, k, g)[c].active = slot[c].active
<1>1. slot[s] \in SlotRow
  BY DEF TypeOK
<1>2. [slot[s] EXCEPT !.key = k, !.gen = g] \in SlotRow
  BY <1>1 DEF SlotRow
<1>3. \A c \in Slot : Bound(s, k, g)[c] = IF c = s THEN [slot[s] EXCEPT !.key = k, !.gen = g] ELSE slot[c]
  BY DEF Bound, TypeOK
<1>4. /\ [slot[s] EXCEPT !.key = k, !.gen = g].key = k
      /\ [slot[s] EXCEPT !.key = k, !.gen = g].phase = slot[s].phase
      /\ [slot[s] EXCEPT !.key = k, !.gen = g].active = slot[s].active
  BY <1>1 DEF SlotRow
<1> QED
  BY <1>2, <1>3, <1>4 DEF Bound, TypeOK

LEMMA BrowserSlots ==
  ASSUME NEW rows \in [Slot -> SlotRow], NEW s \in Slot, NEW b \in {"absent", "open"}
  PROVE  /\ [rows EXCEPT ![s].browser = b] \in [Slot -> SlotRow]
         /\ \A c \in Slot : /\ [rows EXCEPT ![s].browser = b][c].key = rows[c].key
                            /\ [rows EXCEPT ![s].browser = b][c].phase = rows[c].phase
                            /\ [rows EXCEPT ![s].browser = b][c].active = rows[c].active
                            /\ [rows EXCEPT ![s].browser = b][c].gen = rows[c].gen
BY DEF SlotRow

LEMMA UnboundSlots ==
  ASSUME TypeOK, NEW s \in Slot
  PROVE  /\ Unbound(s) \in [Slot -> SlotRow]
         /\ \A c \in Slot : /\ Unbound(s)[c].key = IF c = s THEN Null ELSE slot[c].key
                            /\ Unbound(s)[c].phase = IF c = s THEN "opening" ELSE slot[c].phase
                            /\ Unbound(s)[c].active = slot[c].active
<1>1. slot[s] \in SlotRow
  BY DEF TypeOK
<1>2. [slot[s] EXCEPT !.key = Null, !.phase = "opening"] \in SlotRow
  BY <1>1 DEF SlotRow, Phase
<1>3. \A c \in Slot : Unbound(s)[c] = IF c = s THEN [slot[s] EXCEPT !.key = Null, !.phase = "opening"]
                                      ELSE slot[c]
  BY DEF Unbound, TypeOK
<1>4. /\ [slot[s] EXCEPT !.key = Null, !.phase = "opening"].key = Null
      /\ [slot[s] EXCEPT !.key = Null, !.phase = "opening"].phase = "opening"
      /\ [slot[s] EXCEPT !.key = Null, !.phase = "opening"].active = slot[s].active
  BY <1>1 DEF SlotRow
<1> QED
  BY <1>2, <1>3, <1>4 DEF Unbound, TypeOK

\* Requesting and ending a rollover
WithRollover(s, p, r) == [slot EXCEPT ![s].phase = p, ![s].active = r]

LEMMA PhaseSlots ==
  ASSUME TypeOK, NEW s \in Slot, NEW p \in Phase, NEW r \in Rollover \cup {Null}
  PROVE  /\ WithRollover(s, p, r) \in [Slot -> SlotRow]
         /\ \A c \in Slot : /\ WithRollover(s, p, r)[c].key = slot[c].key
                            /\ WithRollover(s, p, r)[c].phase = IF c = s THEN p ELSE slot[c].phase
                            /\ WithRollover(s, p, r)[c].active = IF c = s THEN r ELSE slot[c].active
<1>1. slot[s] \in SlotRow
  BY DEF TypeOK
<1>2. [slot[s] EXCEPT !.phase = p, !.active = r] \in SlotRow
  BY <1>1 DEF SlotRow
<1>3. \A c \in Slot : WithRollover(s, p, r)[c] =
                       IF c = s THEN [slot[s] EXCEPT !.phase = p, !.active = r] ELSE slot[c]
  BY DEF WithRollover, TypeOK
<1>4. /\ [slot[s] EXCEPT !.phase = p, !.active = r].key = slot[s].key
      /\ [slot[s] EXCEPT !.phase = p, !.active = r].phase = p
      /\ [slot[s] EXCEPT !.phase = p, !.active = r].active = r
  BY <1>1 DEF SlotRow
<1> QED
  BY <1>2, <1>3, <1>4 DEF WithRollover, TypeOK

-----------------------------------------------------------------------------
(* ... and those on conversations *)

LEMMA RecordedRows ==
  ASSUME TypeOK, NEW rows \in [Key -> ConvRow], NEW s \in Slot, NEW k \in Key
  PROVE  /\ Recorded(rows, s, k) \in [Key -> ConvRow] /\ RecordedGen(rows, s, k) \in Nat
         /\ FirstGen(s) \in Nat
<1>1. FirstGen(s) \in Nat
  BY DEF FirstGen, TypeOK, SlotRow
<1> QED
  BY <1>1 DEF Recorded, RecordedGen, ConvRow

LEMMA ClosedRows ==
  ASSUME TypeOK, NEW s \in Slot, NEW k
  PROVE  /\ Closed(s, k) \in [Key -> ConvRow]
         /\ \A x \in Key : Closed(s, k)[x] = IF x = k /\ conv[x].status = "active" /\ conv[x].slot = s
                                            THEN [conv[x] EXCEPT !.status = "closed"] ELSE conv[x]
<1>1. \A x \in Key : [conv[x] EXCEPT !.status = "closed"] \in ConvRow /\ conv[x] \in ConvRow
  BY DEF TypeOK, ConvRow
<1>2. DOMAIN Closed(s, k) = Key /\ Closed(s, k) = [x \in Key |-> Closed(s, k)[x]]
  BY DEF Closed, TypeOK
<1>3. \A x \in Key : Closed(s, k)[x] = IF x = k /\ conv[x].status = "active" /\ conv[x].slot = s
                                      THEN [conv[x] EXCEPT !.status = "closed"] ELSE conv[x]
  BY DEF Closed, TypeOK
<1> QED
  BY <1>1, <1>2, <1>3

\* The generations of an Agent are bounded by the latest, which is one of them.
LEMMA LatestOfAgent ==
  ASSUME TypeOK, NEW a \in Agent
  PROVE  /\ LatestGen(a) \in Nat
         /\ \A k \in Key : agentConv[k].agent = a => agentConv[k].gen <= LatestGen(a)
         /\ LatestGen(a) > 0 => \E k \in Key : agentConv[k].agent = a /\ agentConv[k].gen = LatestGen(a)
<1> DEFINE mine == {k \in Key : agentConv[k].agent = a}
           gens == {agentConv[k].gen : k \in mine}
<1>1. gens \subseteq Nat
  BY DEF TypeOK, AgentConvRow
<1>2. IsFiniteSet(gens)
  <2>1. IsFiniteSet(mine)
    BY KeyAssumption, FS_Subset
  <2>2. [k \in mine |-> agentConv[k].gen] \in Surjection(mine, gens)
    BY DEF Surjection
  <2> QED
    BY <2>1, <2>2, FS_Surjection
<1>3. IsFiniteSet({0} \cup gens)
  BY <1>2, FS_Singleton, FS_Union
<1> DEFINE all == {0} \cup gens
<1>4. all \in SUBSET Nat /\ IsFiniteSet(all) /\ all # {}
  BY <1>1, <1>3
<1>5. LatestGen(a) = Max(all)
  BY DEF LatestGen
<1>6. Max(all) \in all /\ \A x \in all : x <= Max(all)
  <2> HIDE DEF all
  <2> QED
    BY <1>4, MaxOfFinite
<1>7. \A k \in mine : agentConv[k].gen \in all
  OBVIOUS
<1>8. \A x \in all : x = 0 \/ \E k \in mine : agentConv[k].gen = x
  OBVIOUS
<1> HIDE DEF all
<1>9. LatestGen(a) \in Nat
  BY <1>4, <1>5, <1>6
<1>10. \A k \in mine : agentConv[k].gen <= LatestGen(a)
  BY <1>5, <1>6, <1>7
<1>11. LatestGen(a) > 0 => \E k \in mine : agentConv[k].gen = LatestGen(a)
  BY <1>5, <1>6, <1>8, <1>9
<1> QED
  BY <1>9, <1>10, <1>11

LEMMA FollowedRows ==
  ASSUME TypeOK, NEW a \in Agent, NEW k \in Key, NEW s \in Slot, NEW hint \in Nat
  PROVE  Followed(a, k, s, hint) \in [Key -> AgentConvRow]
<1>1. [agentConv[k] EXCEPT !.slot = s] \in AgentConvRow
  BY DEF TypeOK, AgentConvRow
<1>2. LatestGen(a) \in Nat
  BY LatestOfAgent
<1> QED
  BY <1>1, <1>2 DEF Followed, TypeOK, AgentConvRow

-----------------------------------------------------------------------------
(* Types *)

LEMMA InitTyped == Init => TypeOK
BY DEF Init, TypeOK, SlotRow, ConvRow, RollRow, AgentConvRow, PendingRow, NoConv, NoRoll, NoAgentConv,
       NoPending, Phase, Live

\* Binding k for the Agent on s keeps the Agents' conversations well formed.
LEMMA AgentBindsTyped ==
  ASSUME TypeOK, NEW k \in Key, NEW s \in Slot, NEW hint \in Nat, AgentBinds(k, s, hint)
  PROVE  agentConv' \in [Key -> AgentConvRow]
<1>1. CASE OnSlot(s) = {}
  BY <1>1 DEF AgentBinds, TypeOK
<1>2. CASE OnSlot(s) # {}
  <2>1. (CHOOSE a \in OnSlot(s) : TRUE) \in Agent
    BY <1>2 DEF OnSlot
  <2> QED
    BY <1>2, <2>1, FollowedRows DEF AgentBinds
<1> QED
  BY <1>1, <1>2

LEMMA RuntimeTyped ==
  ASSUME TypeOK,
         \/ \E a \in Agent, s \in Slot : BindRuntime(a, s)
         \/ \E a \in Agent : UnbindRuntime(a)
  PROVE  TypeOK'
<1>1. ASSUME NEW a \in Agent, NEW s \in Slot, BindRuntime(a, s) PROVE TypeOK'
  <2>1. \A k \in Key : [agentConv[k] EXCEPT !.slot = s] \in AgentConvRow
    BY DEF TypeOK, AgentConvRow
  <2>2. agentConv' \in [Key -> AgentConvRow]
    BY <1>1, <2>1 DEF BindRuntime, TypeOK
  <2> QED
    BY <1>1, <2>2 DEF BindRuntime, TypeOK
<1>2. ASSUME NEW a \in Agent, UnbindRuntime(a) PROVE TypeOK'
  <2>1. \A k \in Key : [agentConv[k] EXCEPT !.slot = Null] \in AgentConvRow
    BY DEF TypeOK, AgentConvRow
  <2>2. agentConv' \in [Key -> AgentConvRow]
    BY <1>2, <2>1 DEF UnbindRuntime, TypeOK
  <2> QED
    BY <1>2, <2>2 DEF UnbindRuntime, TypeOK
<1> QED
  BY <1>1, <1>2

LEMMA BindTyped ==
  ASSUME TypeOK, NEW s \in Slot, NEW k \in Key, BindConversation(s, k)
  PROVE  TypeOK'
<1> DEFINE g == IF slot[s].key = Null THEN RecordedGen(conv, s, k) ELSE slot[s].gen
<1>1. conv \in [Key -> ConvRow] /\ slot[s].gen \in Nat
  BY DEF TypeOK, SlotRow
<1>2. g \in Nat
  BY <1>1, RecordedRows
<1>3. conv' \in [Key -> ConvRow]
  BY <1>1, RecordedRows DEF BindConversation
<1>4. slot' \in [Slot -> SlotRow]
  BY <1>2, BoundSlots DEF BindConversation
<1>5. agentConv' \in [Key -> AgentConvRow]
  BY <1>2, AgentBindsTyped DEF BindConversation
<1> QED
  BY <1>3, <1>4, <1>5 DEF BindConversation, TypeOK

LEMMA MoveTyped ==
  ASSUME TypeOK, NEW s \in Slot, NEW c \in Slot, NEW k \in Key, MoveConversation(s, c, k)
  PROVE  TypeOK'
<1> DEFINE rows == IF conv[k].status = "active" THEN [conv EXCEPT ![k].slot = s] ELSE conv
           g == RecordedGen(rows, s, k)
<1>1. rows \in [Key -> ConvRow]
  BY DEF TypeOK, ConvRow
<1>2. Recorded(rows, s, k) \in [Key -> ConvRow] /\ g \in Nat
  BY <1>1, RecordedRows
<1>3. conv' = Recorded(rows, s, k)
  BY DEF MoveConversation
<1>4. slot' = [Bound(s, k, g) EXCEPT ![c].key = Null]
  BY DEF MoveConversation
<1>5. Bound(s, k, g) \in [Slot -> SlotRow]
  BY <1>2, BoundSlots
<1>6. [Bound(s, k, g) EXCEPT ![c].key = Null] \in [Slot -> SlotRow]
  <2> DEFINE bound == Bound(s, k, g)
  <2>1. bound[c] \in SlotRow
    BY <1>5
  <2>2. [bound[c] EXCEPT !.key = Null] \in SlotRow
    <3> HIDE DEF bound
    <3> QED BY <2>1 DEF SlotRow
  <2> HIDE DEF bound
  <2> QED BY <1>5, <2>2 DEF bound
<1>7. AgentBinds(k, s, g)
  BY DEF MoveConversation
<1>8. agentConv' \in [Key -> AgentConvRow]
  BY <1>2, <1>7, AgentBindsTyped
<1>9. UNCHANGED <<roll, replied, runtime, pending>>
  BY DEF MoveConversation
<1> QED
  BY <1>2, <1>3, <1>4, <1>6, <1>8, <1>9 DEF TypeOK

LEMMA ReportTyped ==
  ASSUME TypeOK, NEW s \in Slot, NEW k \in Key, ReportConversation(s, k)
  PROVE  TypeOK'
<1>1. /\ conv' \in [Key -> ConvRow] /\ slot' \in [Slot -> SlotRow]
      /\ roll' \in [Rollover -> RollRow]
  <2>1. CASE slot[s].key # Null
    <3>1. slot' = [slot EXCEPT ![s].browser = "open"] /\ UNCHANGED <<conv, roll>>
      BY <2>1 DEF ReportConversation
    <3>2. slot \in [Slot -> SlotRow]
      BY DEF TypeOK
    <3> QED
      BY <3>1, <3>2, BrowserSlots DEF TypeOK
  <2>2. CASE slot[s].key = Null /\ LiveRolls(s) = {}
    <3>1. conv' = Recorded(conv, s, k) /\ UNCHANGED roll
      BY <2>2 DEF ReportConversation, Canonicalize
    <3>2. slot' = [Bound(s, k, RecordedGen(conv, s, k)) EXCEPT ![s].browser = "open"]
      BY <2>2 DEF ReportConversation, Canonicalize
    <3>3. conv \in [Key -> ConvRow] /\ roll \in [Rollover -> RollRow]
      BY DEF TypeOK
    <3>4. Recorded(conv, s, k) \in [Key -> ConvRow] /\ RecordedGen(conv, s, k) \in Nat
      BY <3>3, RecordedRows
    <3>5. Bound(s, k, RecordedGen(conv, s, k)) \in [Slot -> SlotRow]
      BY <3>4, BoundSlots
    <3> QED
      BY <3>1, <3>2, <3>3, <3>4, <3>5, BrowserSlots
  <2>3. CASE slot[s].key = Null /\ LiveRolls(s) # {}
    <3>1. PICK r \in LiveRolls(s) : /\ conv' = Accepted(s, k, r)
                                   /\ roll' = [roll EXCEPT ![r].to = k]
                                   /\ slot' = [Bound(s, k, roll[r].gen) EXCEPT ![s].browser = "open"]
      BY <2>3 DEF ReportConversation, Canonicalize
    <3>2. r \in Rollover /\ roll[r] \in RollRow
      BY DEF LiveRolls, TypeOK
    <3>3. roll[r].gen \in Nat /\ roll[r].from \in Key \cup {Null}
      BY <3>2 DEF RollRow
    <3>4. [roll[r] EXCEPT !.to = k] \in RollRow
      BY <3>2 DEF RollRow
    <3>5. roll' \in [Rollover -> RollRow]
      BY <3>1, <3>2, <3>4 DEF TypeOK
    <3>6. conv' \in [Key -> ConvRow]
      BY <3>1, <3>3 DEF Accepted, TypeOK, ConvRow
    <3>7. Bound(s, k, roll[r].gen) \in [Slot -> SlotRow]
      BY <3>3, BoundSlots
    <3> QED
      BY <3>1, <3>5, <3>6, <3>7, BrowserSlots
  <2> QED
    BY <2>1, <2>2, <2>3
<1>2. agentConv' \in [Key -> AgentConvRow]
  <2>1. slot'[s].gen \in Nat
    BY <1>1 DEF SlotRow
  <2> QED
    BY <2>1, AgentBindsTyped DEF ReportConversation, TypeOK
<1> QED
  BY <1>1, <1>2 DEF ReportConversation, TypeOK

LEMMA RolloverTyped ==
  ASSUME TypeOK, NEW s \in Slot, NEW r \in Rollover, RolloverStep(s, r)
  PROVE  TypeOK'
<1> USE DEF TypeOK
<1>1. roll[r] \in RollRow /\ slot[s] \in SlotRow
  OBVIOUS
<1>2. CASE RequestRollover(s, r)
  <2>1. slot[s].key \in Key
    BY <1>1, <1>2 DEF RequestRollover, SlotRow
  <2>2. /\ Recorded(conv, s, slot[s].key) \in [Key -> ConvRow]
        /\ RecordedGen(conv, s, slot[s].key) \in Nat
    BY <2>1, RecordedRows
  <2>3. [ status |-> "requested", slot |-> s, from |-> slot[s].key, to |-> Null,
          gen |-> RecordedGen(conv, s, slot[s].key) + 1, attempt |-> Null ] \in RollRow
    BY <2>1, <2>2 DEF RollRow, Live, Phase
  <2>4. WithRollover(s, "requested", r) \in [Slot -> SlotRow]
    BY PhaseSlots DEF Phase
  <2> QED
    BY <1>2, <2>2, <2>3, <2>4 DEF RequestRollover, WithRollover
<1>3. CASE BeginRollover(s, r)
  <2>1. [roll[r] EXCEPT !.status = "opening"] \in RollRow
    BY <1>1 DEF RollRow, Live, Phase
  <2>2. Closed(s, roll[r].from) \in [Key -> ConvRow]
    BY ClosedRows
  <2> QED
    BY <1>3, <2>1, <2>2, UnboundSlots DEF BeginRollover
<1>4. CASE FailRollover(s, r)
  <2>1. [roll[r] EXCEPT !.status = "failed"] \in RollRow
    BY <1>1 DEF RollRow
  <2>2. Idle(s) \in [Slot -> SlotRow]
    <3>1. WithRollover(s, "idle", Null) \in [Slot -> SlotRow]
      BY PhaseSlots DEF Phase
    <3> QED
      BY <3>1 DEF Idle, WithRollover
  <2> QED
    BY <1>4, <2>1, <2>2 DEF FailRollover
<1>5. ASSUME NEW o \in Attempt, MarkBootstrap(s, r, o) PROVE TypeOK'
  <2>1. [roll[r] EXCEPT !.status = "bootstrapping", !.attempt = o] \in RollRow
    BY <1>1 DEF RollRow, Live, Phase
  <2>2. roll' = [roll EXCEPT ![r] = [roll[r] EXCEPT !.status = "bootstrapping", !.attempt = o]]
    BY <1>5 DEF MarkBootstrap
  <2>3. [slot[s] EXCEPT !.phase = "bootstrapping"] \in SlotRow
    BY <1>1 DEF SlotRow, Phase
  <2> QED
    BY <1>5, <2>1, <2>2, <2>3 DEF MarkBootstrap
<1>6. ASSUME NEW o \in Attempt, CompleteRollover(s, r, o) PROVE TypeOK'
  <2>1. [roll[r] EXCEPT !.status = "completed"] \in RollRow
    BY <1>1 DEF RollRow
  <2>2. Idle(s) \in [Slot -> SlotRow]
    <3>1. WithRollover(s, "idle", Null) \in [Slot -> SlotRow]
      BY PhaseSlots DEF Phase
    <3> QED
      BY <3>1 DEF Idle, WithRollover
  <2>3. roll[r].from \in Key \cup {Null} /\ roll[r].to \in Key \cup {Null}
    BY <1>1 DEF RollRow
  <2>4. pending' \in PendingRow
    <3>1. CASE Following(s, r) = {}
      BY <1>6, <3>1 DEF CompleteRollover, NoPending, PendingRow
    <3>2. CASE Following(s, r) # {}
      <4>1. (CHOOSE a \in Following(s, r) : TRUE) \in Agent
        BY <3>2 DEF Following, OnSlot
      <4> QED
        BY <1>6, <2>3, <3>2, <4>1 DEF CompleteRollover, PendingRow
    <3> QED
      BY <3>1, <3>2
  <2> QED
    BY <1>6, <2>1, <2>2, <2>4 DEF CompleteRollover
<1> QED
  BY <1>2, <1>3, <1>4, <1>5, <1>6 DEF RolloverStep

\* What the second and third commits of a completion find
PendingNamed ==
  pending.step # "none" => /\ pending.agent \in Agent /\ pending.slot \in Slot
                           /\ pending.from \in Key /\ pending.to \in Key

LEMMA TypeStep ==
  ASSUME TypeOK, PendingNamed, [Next]_kernelVars
  PROVE  TypeOK'
<1>1. ASSUME NEW s \in Slot, NEW b \in {"absent", "open"}, ReportBrowser(s, b) PROVE TypeOK'
  <2>1. slot \in [Slot -> SlotRow]
    BY DEF TypeOK
  <2> QED
    BY <1>1, <2>1, BrowserSlots DEF ReportBrowser, TypeOK
<1>2. ASSUME NEW s \in Slot, NEW o \in Attempt, ObserveReply(s, o) PROVE TypeOK'
  BY <1>2 DEF ObserveReply, TypeOK
<1>3. ASSUME CloseAgentConversation PROVE TypeOK'
  <2>1. [agentConv[pending.from] EXCEPT !.status = "closed", !.slot = Null] \in AgentConvRow
    <3>1. agentConv[pending.from] \in AgentConvRow
      BY <1>3 DEF CloseAgentConversation, PendingNamed, TypeOK
    <3> QED
      BY <3>1 DEF AgentConvRow
  <2>2. agentConv' = [agentConv EXCEPT ![pending.from] =
                        [agentConv[pending.from] EXCEPT !.status = "closed", !.slot = Null]]
    BY <1>3 DEF CloseAgentConversation
  <2>3. [pending EXCEPT !.step = "open"] \in PendingRow
    BY DEF TypeOK, PendingRow
  <2> QED
    BY <1>3, <2>1, <2>2, <2>3 DEF CloseAgentConversation, TypeOK
<1>4. ASSUME OpenAgentConversation PROVE TypeOK'
  <2>1. Successor \in AgentConvRow
    <3>1. /\ pending.agent \in Agent /\ pending.slot \in Slot /\ pending.from \in Key
      BY <1>4 DEF OpenAgentConversation, PendingNamed
    <3>2. agentConv[pending.from].gen + 1 \in Nat
      BY <3>1 DEF TypeOK, AgentConvRow
    <3> DEFINE g == agentConv[pending.from].gen + 1
    <3> HIDE DEF g
    <3>3. g \in Nat
      BY <3>2 DEF g
    <3>4. Successor = [ status |-> "active", agent |-> pending.agent, slot |-> pending.slot,
                        pred |-> pending.from, gen |-> g ]
      BY DEF Successor, g
    <3> QED
      BY <3>1, <3>3, <3>4 DEF AgentConvRow
  <2> QED
    BY <1>4, <2>1 DEF OpenAgentConversation, TypeOK, NoPending, PendingRow
<1>5. CASE Crash
  BY <1>5 DEF Crash, TypeOK, NoPending, PendingRow
<1>6. CASE UNCHANGED kernelVars
  BY <1>6 DEF kernelVars, TypeOK
<1> QED
  BY <1>1, <1>2, <1>3, <1>4, <1>5, <1>6, RuntimeTyped, BindTyped, MoveTyped, ReportTyped, RolloverTyped,
     StepCases

-----------------------------------------------------------------------------
(* The slot and its rollover *)

\* SlotFollowsLedger for one slot, with membership instead of the set of live rollovers
SlotAgrees(s) ==
  /\ \A r \in Rollover : roll[r].slot = s /\ roll[r].status \in Live <=> r = slot[s].active
  /\ slot[s].active = Null => slot[s].phase = "idle"
  /\ slot[s].active # Null => slot[s].phase = roll[slot[s].active].status
  /\ slot[s].phase = "requested" => slot[s].key \in {roll[slot[s].active].from, Null}
  /\ slot[s].phase \in {"opening", "bootstrapping"} => slot[s].key \in {roll[slot[s].active].to, Null}

LEMMA AgreementPointwise ==
  TypeOK => (SlotFollowsLedger <=> \A s \in Slot : SlotAgrees(s))
<1> SUFFICES ASSUME TypeOK, NEW s \in Slot
             PROVE  LiveRolls(s) = (IF slot[s].active = Null THEN {} ELSE {slot[s].active})
                    <=> \A r \in Rollover : roll[r].slot = s /\ roll[r].status \in Live <=> r = slot[s].active
  BY DEF SlotFollowsLedger, SlotAgrees
<1>1. slot[s].active \in Rollover \cup {Null} /\ Null \notin Rollover
  BY NullAssumption DEF TypeOK, SlotRow
<1> QED
  BY <1>1 DEF LiveRolls

\* A slot is not affected by what happens to another slot's rollover.
LEMMA OtherSlotAgrees ==
  ASSUME TypeOK, NEW c \in Slot, NEW r \in Rollover, SlotAgrees(c),
         \A x \in Rollover \ {r} : roll'[x] = roll[x],
         ~(roll[r].slot = c /\ roll[r].status \in Live), ~(roll'[r].slot = c /\ roll'[r].status \in Live),
         slot'[c].key = slot[c].key, slot'[c].phase = slot[c].phase, slot'[c].active = slot[c].active
  PROVE  SlotAgrees(c)'
<1>1. slot[c].active # r
  BY DEF SlotAgrees
<1>2. slot[c].active \in Rollover \cup {Null} /\ Null \notin Rollover
  BY NullAssumption DEF TypeOK, SlotRow
<1>3. slot[c].phase = "idle" \/ slot[c].active \in Rollover \ {r}
  BY <1>1, <1>2 DEF SlotAgrees
<1>4. \A x \in Rollover : roll'[x].slot = c /\ roll'[x].status \in Live <=> x = slot'[c].active
  BY <1>1 DEF SlotAgrees
<1>5. slot[c].active # Null => roll'[slot[c].active] = roll[slot[c].active]
  BY <1>1, <1>2
<1> QED
  BY <1>3, <1>4, <1>5 DEF SlotAgrees

\* Nor by a change of its conversation while it is not rolling over.
LEMMA RebindingAgrees ==
  ASSUME TypeOK, NEW c \in Slot, SlotAgrees(c), roll' = roll,
         slot'[c].phase = slot[c].phase, slot'[c].active = slot[c].active,
         slot'[c].key \in {slot[c].key, Null} \/ slot[c].phase = "idle"
  PROVE  SlotAgrees(c)'
BY DEF SlotAgrees

Agreement == \A s \in Slot : SlotAgrees(s)

\* The steps that leave every rollover as it is
LEMMA BindAgrees ==
  ASSUME TypeOK, Agreement, NEW s \in Slot, NEW k \in Key, BindConversation(s, k)
  PROVE  Agreement'
<1> DEFINE g == IF slot[s].key = Null THEN RecordedGen(conv, s, k) ELSE slot[s].gen
<1>1. conv \in [Key -> ConvRow] /\ slot[s].gen \in Nat
  BY DEF TypeOK, SlotRow
<1>2. g \in Nat
  BY <1>1, RecordedRows
<1>3. slot' = Bound(s, k, g) /\ slot[s].phase = "idle" /\ roll' = roll
  BY DEF BindConversation
<1> QED
  BY <1>2, <1>3, BoundSlots, RebindingAgrees DEF Agreement

LEMMA MoveAgrees ==
  ASSUME TypeOK, Agreement, NEW s \in Slot, NEW c \in Slot, NEW k \in Key, MoveConversation(s, c, k)
  PROVE  Agreement'
<1> DEFINE rows == IF conv[k].status = "active" THEN [conv EXCEPT ![k].slot = s] ELSE conv
           g == RecordedGen(rows, s, k)
<1>1. rows \in [Key -> ConvRow]
  BY DEF TypeOK, ConvRow
<1>2. g \in Nat
  BY <1>1, RecordedRows
<1>3. /\ slot' = [Bound(s, k, g) EXCEPT ![c].key = Null]
      /\ slot[s].phase = "idle" /\ c # s /\ roll' = roll
  BY DEF MoveConversation
<1>4. Bound(s, k, g) \in [Slot -> SlotRow]
  BY <1>2, BoundSlots
<1>5. \A x \in Slot : /\ slot'[x].key = IF x = c THEN Null ELSE Bound(s, k, g)[x].key
                      /\ slot'[x].phase = Bound(s, k, g)[x].phase
                      /\ slot'[x].active = Bound(s, k, g)[x].active
  BY <1>3, <1>4 DEF SlotRow
<1> HIDE DEF g
<1>6. \A x \in Slot : /\ slot'[x].key = IF x = c THEN Null ELSE IF x = s THEN k ELSE slot[x].key
                      /\ slot'[x].phase = slot[x].phase /\ slot'[x].active = slot[x].active
  BY <1>2, <1>5, BoundSlots
<1> QED
  BY <1>3, <1>6, RebindingAgrees DEF Agreement

LEMMA ReportAgrees ==
  ASSUME TypeOK, Agreement, NEW s \in Slot, NEW k \in Key, ReportConversation(s, k)
  PROVE  Agreement'
<1>1. CASE slot[s].key # Null
  <2>1. slot' = [slot EXCEPT ![s].browser = "open"] /\ roll' = roll
    BY <1>1 DEF ReportConversation
  <2>2. slot \in [Slot -> SlotRow]
    BY DEF TypeOK
  <2> QED
    BY <2>1, <2>2, BrowserSlots, RebindingAgrees DEF Agreement
<1>2. CASE slot[s].key = Null /\ LiveRolls(s) = {}
  <2> DEFINE rows == Bound(s, k, RecordedGen(conv, s, k))
  <2>1. slot' = [rows EXCEPT ![s].browser = "open"] /\ roll' = roll
    BY <1>2 DEF ReportConversation, Canonicalize
  <2>2. RecordedGen(conv, s, k) \in Nat
    BY RecordedRows DEF TypeOK
  <2>3. rows \in [Slot -> SlotRow]
    BY <2>2, BoundSlots
  <2>4. slot[s].phase = "idle"
    <3>1. slot[s].active \in Rollover \cup {Null}
      BY DEF TypeOK, SlotRow
    <3> QED
      BY <1>2, <3>1 DEF Agreement, SlotAgrees, LiveRolls
  <2>5. \A c \in Slot : /\ slot'[c].key = rows[c].key /\ slot'[c].phase = rows[c].phase
                        /\ slot'[c].active = rows[c].active
    BY <2>1, <2>3, BrowserSlots
  <2> QED
    BY <2>1, <2>2, <2>4, <2>5, BoundSlots, RebindingAgrees DEF Agreement
<1>3. CASE slot[s].key = Null /\ LiveRolls(s) # {}
  <2>1. PICK r \in LiveRolls(s) : /\ roll' = [roll EXCEPT ![r].to = k]
                                 /\ slot' = [Bound(s, k, roll[r].gen) EXCEPT ![s].browser = "open"]
    BY <1>3 DEF ReportConversation, Canonicalize
  <2> DEFINE rows == Bound(s, k, roll[r].gen)
  <2>2. r \in Rollover /\ roll[r].slot = s /\ roll[r].status \in Live /\ roll[r] \in RollRow
    BY DEF LiveRolls, TypeOK
  <2>3. roll[r].gen \in Nat
    BY <2>2 DEF RollRow
  <2>4. rows \in [Slot -> SlotRow]
    BY <2>3, BoundSlots
  <2>5. \A c \in Slot : /\ slot'[c].key = IF c = s THEN k ELSE slot[c].key
                        /\ slot'[c].phase = slot[c].phase /\ slot'[c].active = slot[c].active
    BY <2>1, <2>3, <2>4, BoundSlots, BrowserSlots
  <2>6. /\ \A x \in Rollover \ {r} : roll'[x] = roll[x]
        /\ roll'[r].slot = s /\ roll'[r].status = roll[r].status /\ roll'[r].to = k
    BY <2>1, <2>2 DEF TypeOK, RollRow
  <2>7. roll[r].status \in {"opening", "bootstrapping"}
    BY <1>3 DEF ReportConversation, MayReport, MayAccept
  <2>8. SlotAgrees(s)'
    <3>1. slot[s].active = r /\ slot[s].phase = roll[r].status
      BY <2>2, NullAssumption DEF Agreement, SlotAgrees
    <3>2. \A x \in Rollover : roll'[x].slot = s /\ roll'[x].status \in Live <=> x = r
      BY <2>2, <2>6, <3>1 DEF Agreement, SlotAgrees
    <3> QED
      BY <2>2, <2>5, <2>6, <2>7, <3>1, <3>2, NullAssumption DEF SlotAgrees
  <2>9. \A c \in Slot \ {s} : SlotAgrees(c)'
    BY <2>2, <2>5, <2>6, OtherSlotAgrees DEF Agreement
  <2> QED
    BY <2>8, <2>9 DEF Agreement
<1> QED
  BY <1>1, <1>2, <1>3

\* The steps of a rollover
LEMMA RolloverAgrees ==
  ASSUME TypeOK, Agreement, NEW s \in Slot, NEW r \in Rollover, RolloverStep(s, r)
  PROVE  Agreement'
<1>1. /\ r # Null /\ slot[s].active \in Rollover \cup {Null} /\ Null \notin Rollover
      /\ roll[r] \in RollRow /\ SlotAgrees(s)
  BY NullAssumption DEF TypeOK, SlotRow, Agreement
<1>2. \/ roll[r].status = "none"
      \/ roll[r].slot = s /\ roll[r].status \in Live /\ slot[s].active = r /\ slot[s].phase = roll[r].status
  BY <1>1 DEF RolloverStep, RequestRollover, BeginRollover, MayBegin, FailRollover, MarkBootstrap, MayMark,
       CompleteRollover, MayComplete, LiveRolls, SlotAgrees
<1>3. \A x \in Rollover \ {r} : roll'[x] = roll[x]
  BY DEF RolloverStep, RequestRollover, BeginRollover, FailRollover, MarkBootstrap, CompleteRollover, TypeOK
<1>4. roll'[r].slot = s
  BY <1>1, <1>2 DEF RolloverStep, RequestRollover, BeginRollover, MayBegin, FailRollover, MarkBootstrap, MayMark, CompleteRollover,
       MayComplete, LiveRolls, TypeOK, RollRow
<1>5. \A c \in Slot \ {s} : /\ slot'[c].key = slot[c].key /\ slot'[c].phase = slot[c].phase
                             /\ slot'[c].active = slot[c].active
  BY DEF RolloverStep, RequestRollover, BeginRollover, Unbound, FailRollover, Idle, MarkBootstrap, CompleteRollover, TypeOK
<1>6. \A c \in Slot \ {s} : SlotAgrees(c)'
  <2>1. "none" \notin Live
    BY DEF Live, Phase
  <2> QED
    BY <1>2, <1>3, <1>4, <1>5, <2>1, OtherSlotAgrees DEF Agreement
<1>7. SlotAgrees(s)'
  <2>1. CASE RequestRollover(s, r)
    <3>1. roll'[r].status = "requested" /\ roll'[r].from = slot[s].key
      BY <2>1 DEF RequestRollover, TypeOK
    <3>2. slot' = WithRollover(s, "requested", r)
      BY <2>1 DEF RequestRollover, WithRollover
    <3>3. slot'[s].phase = "requested" /\ slot'[s].active = r /\ slot'[s].key = slot[s].key
      BY <3>2, PhaseSlots DEF Phase
    <3>4. \A x \in Rollover : roll'[x].slot = s /\ roll'[x].status \in Live <=> x = r
      BY <1>3, <1>4, <2>1, <3>1 DEF RequestRollover, LiveRolls, Live, Phase
    <3> QED
      BY <1>1, <3>1, <3>3, <3>4 DEF SlotAgrees
  <2>2. CASE BeginRollover(s, r)
    <3>1. roll'[r].status = "opening" /\ slot[s].active = r
      BY <2>2 DEF BeginRollover, MayBegin, TypeOK, RollRow
    <3>2. slot'[s].phase = "opening" /\ slot'[s].active = r /\ slot'[s].key = Null
      BY <2>2, <3>1, UnboundSlots DEF BeginRollover
    <3>3. \A x \in Rollover : roll'[x].slot = s /\ roll'[x].status \in Live <=> x = r
      BY <1>1, <1>3, <1>4, <3>1 DEF SlotAgrees, Live, Phase
    <3> QED
      BY <1>1, <3>1, <3>2, <3>3 DEF SlotAgrees
  <2>3. ASSUME NEW o \in Attempt, MarkBootstrap(s, r, o) PROVE SlotAgrees(s)'
    <3>1. /\ roll[r].status \in {"opening", "bootstrapping"} /\ roll[r].slot = s
          /\ slot[s].active = r /\ slot[s].phase = roll[r].status
      BY <1>1, <2>3 DEF MarkBootstrap, MayMark, LiveRolls, SlotAgrees
    <3>2. roll'[r] = [roll[r] EXCEPT !.status = "bootstrapping", !.attempt = o]
      BY <2>3 DEF MarkBootstrap, TypeOK
    <3>3. roll'[r].status = "bootstrapping" /\ roll'[r].to = roll[r].to
      BY <1>1, <3>2 DEF RollRow
    <3>4. slot'[s] = [slot[s] EXCEPT !.phase = "bootstrapping"]
      BY <2>3 DEF MarkBootstrap, TypeOK
    <3>5. slot'[s].phase = "bootstrapping" /\ slot'[s].active = r /\ slot'[s].key = slot[s].key
      BY <3>1, <3>4 DEF TypeOK, SlotRow
    <3>6. \A x \in Rollover : roll'[x].slot = s /\ roll'[x].status \in Live <=> x = r
      BY <1>1, <1>3, <1>4, <3>1, <3>3 DEF SlotAgrees, Live, Phase
    <3>7. slot[s].key \in {roll[r].to, Null}
      BY <1>1, <3>1 DEF SlotAgrees
    <3> QED
      BY <1>1, <3>3, <3>5, <3>6, <3>7 DEF SlotAgrees
  <2>4. CASE FailRollover(s, r) \/ \E o \in Attempt : CompleteRollover(s, r, o)
    <3>1. slot[s].active = r /\ roll'[r].status \in {"failed", "completed"} /\ slot' = Idle(s)
      BY <1>1, <2>4 DEF FailRollover, CompleteRollover, MayComplete, LiveRolls, SlotAgrees, TypeOK, RollRow
    <3>2. slot'[s].phase = "idle" /\ slot'[s].active = Null
      <4>1. slot' = WithRollover(s, "idle", Null)
        BY <3>1 DEF Idle, WithRollover
      <4> QED
        BY <4>1, PhaseSlots DEF Phase
    <3>3. \A x \in Rollover : ~(roll'[x].slot = s /\ roll'[x].status \in Live)
      BY <1>1, <1>3, <3>1 DEF SlotAgrees, Live, Phase
    <3> QED
      BY <1>1, <3>2, <3>3 DEF SlotAgrees
  <2> QED
    BY <2>1, <2>2, <2>3, <2>4 DEF RolloverStep
<1> QED
  BY <1>6, <1>7 DEF Agreement

LEMMA AgreementStep ==
  ASSUME TypeOK, Agreement, [Next]_kernelVars
  PROVE  Agreement'
<1>1. ASSUME NEW s \in Slot, NEW b \in {"absent", "open"}, ReportBrowser(s, b) PROVE Agreement'
  <2>1. slot \in [Slot -> SlotRow] /\ slot' = [slot EXCEPT ![s].browser = b] /\ roll' = roll
    BY <1>1 DEF ReportBrowser, TypeOK
  <2> QED
    BY <2>1, BrowserSlots, RebindingAgrees DEF Agreement
<1>2. CASE slot' = slot /\ roll' = roll
  BY <1>2, RebindingAgrees DEF Agreement
<1>3. \/ \E s \in Slot, k \in Key : BindConversation(s, k) \/ ReportConversation(s, k)
      \/ \E s, c \in Slot, k \in Key : MoveConversation(s, c, k)
      \/ \E s \in Slot, b \in {"absent", "open"} : ReportBrowser(s, b)
      \/ \E s \in Slot, r \in Rollover : RolloverStep(s, r)
      \/ slot' = slot /\ roll' = roll
  BY StepCases DEF ObserveReply, BindRuntime, UnbindRuntime, CloseAgentConversation, OpenAgentConversation,
       Crash, kernelVars
<1> QED
  BY <1>1, <1>2, <1>3, BindAgrees, ReportAgrees, MoveAgrees, RolloverAgrees

-----------------------------------------------------------------------------
(* The active record of a slot *)

\* ActiveRecordIsBound, and that a record belongs to a slot
Records == /\ ActiveRecordIsBound
           /\ \A k \in Key : conv[k].status # "none" => conv[k].slot \in Slot

\* Recording a conversation for a slot without one, or leaving the records alone
LEMMA RecordedBound ==
  ASSUME TypeOK, Records, NEW rows \in [Key -> ConvRow], NEW s \in Slot, NEW k \in Key, MayRecord(rows, s, k)
  PROVE  /\ \A x \in Key \ {k} : Recorded(rows, s, k)[x] = rows[x]
         /\ Recorded(rows, s, k)[k].slot = s
         /\ Recorded(rows, s, k)[k].status # "none"
BY DEF Recorded, MayRecord

LEMMA RecordsKept ==
  ASSUME TypeOK, Records, NEW s \in Slot, NEW k \in Key, slot[s].key = Null,
         \A x \in Key \ {k} : conv'[x] = conv[x],
         conv'[k] = conv[k] \/ conv'[k].slot = s, conv'[k].status = "active" => conv'[k].slot \in {s, conv[k].slot},
         \A c \in Slot : slot'[c].key = IF c = s THEN k ELSE slot[c].key
  PROVE  Records'
<1>1. \A x \in Key : x # Null
  BY NullAssumption
<1>2. \A x \in Key : conv[x].status = "active" => conv[x].slot # s
  BY <1>1 DEF Records, ActiveRecordIsBound
<1> QED
  BY <1>1, <1>2 DEF Records, ActiveRecordIsBound

LEMMA BindKeepsRecords ==
  ASSUME TypeOK, Records, NEW s \in Slot, NEW k \in Key, BindConversation(s, k)
  PROVE  Records'
<1>1. conv \in [Key -> ConvRow] /\ slot[s].gen \in Nat
  BY DEF TypeOK, SlotRow
<1>2. CASE slot[s].key = Null
  <2>1. /\ MayRecord(conv, s, k) /\ conv' = Recorded(conv, s, k)
        /\ slot' = Bound(s, k, RecordedGen(conv, s, k))
    BY <1>2 DEF BindConversation
  <2>2. RecordedGen(conv, s, k) \in Nat
    BY <1>1, RecordedRows
  <2>3. \A c \in Slot : slot'[c].key = IF c = s THEN k ELSE slot[c].key
    BY <2>1, <2>2, BoundSlots
  <2>4. /\ \A x \in Key \ {k} : conv'[x] = conv[x]
        /\ conv'[k].slot = s
    BY <1>1, <2>1, RecordedBound
  <2> QED
    BY <1>2, <2>3, <2>4, RecordsKept
<1>3. CASE slot[s].key # Null
  <2>1. conv' = conv /\ slot[s].key = k /\ slot' = Bound(s, k, slot[s].gen)
    BY <1>3 DEF BindConversation
  <2>2. \A c \in Slot : slot'[c].key = slot[c].key
    BY <1>1, <2>1, BoundSlots
  <2> QED
    BY <2>1, <2>2 DEF Records, ActiveRecordIsBound
<1> QED
  BY <1>2, <1>3

LEMMA MoveKeepsRecords ==
  ASSUME TypeOK, Records, NEW s \in Slot, NEW c \in Slot, NEW k \in Key, MoveConversation(s, c, k)
  PROVE  Records'
<1> DEFINE rows == IF conv[k].status = "active" THEN [conv EXCEPT ![k].slot = s] ELSE conv
           g == RecordedGen(rows, s, k)
<1>1. rows \in [Key -> ConvRow]
  BY DEF TypeOK, ConvRow
<1>2. g \in Nat
  BY <1>1, RecordedRows
<1>3. /\ slot' = [Bound(s, k, g) EXCEPT ![c].key = Null] /\ c # s
      /\ slot[s].key = Null /\ slot[c].key = k /\ k # Null
  BY NullAssumption DEF MoveConversation
<1>4. MayRecord(rows, s, k) /\ conv' = Recorded(rows, s, k)
  BY DEF MoveConversation
<1>5. Bound(s, k, g) \in [Slot -> SlotRow]
  BY <1>2, BoundSlots
<1>6. \A x \in Slot : slot'[x].key = IF x = c THEN Null ELSE Bound(s, k, g)[x].key
  BY <1>3, <1>5 DEF SlotRow
<1>7. \A x \in Key \ {k} : rows[x] = conv[x]
  BY DEF TypeOK
<1> HIDE DEF rows, g
<1>8. \A x \in Slot : slot'[x].key = IF x = c THEN Null ELSE IF x = s THEN k ELSE slot[x].key
  BY <1>2, <1>6, BoundSlots
<1>9. /\ \A x \in Key \ {k} : conv'[x] = conv[x]
      /\ conv'[k].slot = s
  BY <1>1, <1>4, <1>7, RecordedBound
<1>10. \A x \in Key \ {k} : conv[x].status = "active" => conv[x].slot \notin {c, s}
  BY <1>3, NullAssumption DEF Records, ActiveRecordIsBound
<1> QED
  BY <1>3, <1>8, <1>9, <1>10 DEF Records, ActiveRecordIsBound

LEMMA ReportKeepsRecords ==
  ASSUME TypeOK, Agreement, Records, NEW s \in Slot, NEW k \in Key, ReportConversation(s, k)
  PROVE  Records'
<1>0. conv \in [Key -> ConvRow] /\ slot \in [Slot -> SlotRow]
  BY DEF TypeOK
<1>1. CASE slot[s].key # Null
  <2>1. slot' = [slot EXCEPT ![s].browser = "open"] /\ conv' = conv
    BY <1>1 DEF ReportConversation
  <2>2. \A c \in Slot : slot'[c].key = slot[c].key
    BY <1>0, <2>1, BrowserSlots
  <2> QED
    BY <2>1, <2>2 DEF Records, ActiveRecordIsBound
<1>2. CASE slot[s].key = Null /\ LiveRolls(s) = {}
  <2> DEFINE rows == Bound(s, k, RecordedGen(conv, s, k))
  <2>1. /\ slot' = [rows EXCEPT ![s].browser = "open"] /\ conv' = Recorded(conv, s, k)
        /\ MayRecord(conv, s, k)
    BY <1>2 DEF ReportConversation, MayReport, Canonicalize
  <2>2. RecordedGen(conv, s, k) \in Nat
    BY <1>0, RecordedRows
  <2>3. rows \in [Slot -> SlotRow]
    BY <2>2, BoundSlots
  <2>4. \A c \in Slot : slot'[c].key = IF c = s THEN k ELSE slot[c].key
    BY <2>1, <2>2, <2>3, BoundSlots, BrowserSlots
  <2>5. /\ \A x \in Key \ {k} : conv'[x] = conv[x]
        /\ conv'[k].slot = s
    BY <1>0, <2>1, RecordedBound
  <2> QED
    BY <1>2, <2>4, <2>5, RecordsKept
<1>3. CASE slot[s].key = Null /\ LiveRolls(s) # {}
  <2>1. PICK r \in LiveRolls(s) : /\ conv' = Accepted(s, k, r)
                                 /\ slot' = [Bound(s, k, roll[r].gen) EXCEPT ![s].browser = "open"]
    BY <1>3 DEF ReportConversation, Canonicalize
  <2>2. roll[r].gen \in Nat
    BY DEF LiveRolls, TypeOK, RollRow
  <2>3. Bound(s, k, roll[r].gen) \in [Slot -> SlotRow]
    BY <2>2, BoundSlots
  <2>4. \A c \in Slot : slot'[c].key = IF c = s THEN k ELSE slot[c].key
    BY <2>1, <2>2, <2>3, BoundSlots, BrowserSlots
  <2>5. /\ \A x \in Key \ {k} : conv'[x] = conv[x]
        /\ conv'[k] = conv[k] \/ conv'[k].slot = s
    BY <1>0, <2>1 DEF Accepted
  <2> QED
    BY <1>3, <2>4, <2>5, RecordsKept
<1> QED
  BY <1>1, <1>2, <1>3

LEMMA RolloverKeepsRecords ==
  ASSUME TypeOK, Agreement, Records, NEW s \in Slot, NEW r \in Rollover,
         RequestRollover(s, r) \/ BeginRollover(s, r)
  PROVE  Records'
<1>0. conv \in [Key -> ConvRow] /\ SlotAgrees(s) /\ Null \notin Rollover /\ Null \notin Key
  BY NullAssumption DEF TypeOK, Agreement
<1>1. CASE RequestRollover(s, r)
  <2> DEFINE k == slot[s].key
  <2>1. /\ k \in Key /\ MayRecord(conv, s, k) /\ conv' = Recorded(conv, s, k)
        /\ slot' = WithRollover(s, "requested", r)
    BY <1>1 DEF RequestRollover, WithRollover, TypeOK, SlotRow
  <2>2. \A c \in Slot : slot'[c].key = slot[c].key
    BY <2>1, PhaseSlots DEF Phase
  <2>3. /\ \A x \in Key \ {k} : conv'[x] = conv[x]
        /\ conv'[k].slot = s
    BY <1>0, <2>1, RecordedBound
  <2> QED
    BY <2>1, <2>2, <2>3 DEF Records, ActiveRecordIsBound
<1>2. CASE BeginRollover(s, r)
  <2> DEFINE k == roll[r].from
  <2>1. conv' = Closed(s, k) /\ slot' = Unbound(s)
    BY <1>2 DEF BeginRollover
  <2>2. slot[s].key \in {k, Null}
    BY <1>0, <1>2 DEF BeginRollover, MayBegin, SlotAgrees
  <2>3. \A c \in Slot : slot'[c].key = IF c = s THEN Null ELSE slot[c].key
    BY <2>1, UnboundSlots
  <2>4. \A x \in Key : /\ conv'[x].slot = conv[x].slot
                       /\ conv'[x].status = "active" => conv[x].status = "active"
                       /\ conv'[x].status # "none" => conv[x].status # "none"
                       /\ x = k /\ conv[x].slot = s => conv'[x].status # "active"
    <3> SUFFICES ASSUME NEW x \in Key
                 PROVE  /\ conv'[x].slot = conv[x].slot
                        /\ conv'[x].status = "active" => conv[x].status = "active"
                        /\ conv'[x].status # "none" => conv[x].status # "none"
                        /\ x = k /\ conv[x].slot = s => conv'[x].status # "active"
      OBVIOUS
    <3>1. conv[x] \in ConvRow
      BY <1>0
    <3>2. conv'[x] = IF x = k /\ conv[x].status = "active" /\ conv[x].slot = s
                     THEN [conv[x] EXCEPT !.status = "closed"] ELSE conv[x]
      BY <2>1, ClosedRows
    <3>3. conv[x].status \in {"none", "active", "closed"}
      BY <3>1 DEF ConvRow
    <3>4. CASE x = k /\ conv[x].status = "active" /\ conv[x].slot = s
      BY <3>1, <3>2, <3>4 DEF ConvRow
    <3>5. CASE ~(x = k /\ conv[x].status = "active" /\ conv[x].slot = s)
      BY <3>2, <3>3, <3>5
    <3> QED
      BY <3>4, <3>5
  <2>5. \A x \in Key : conv'[x].status = "active" => conv[x].slot # s /\ slot[conv[x].slot].key = x
    <3> SUFFICES ASSUME NEW x \in Key, conv'[x].status = "active"
                 PROVE  conv[x].slot # s /\ slot[conv[x].slot].key = x
      OBVIOUS
    <3>1. slot[conv[x].slot].key = x
      BY <2>4 DEF Records, ActiveRecordIsBound
    <3> QED
      BY <1>0, <2>2, <2>4, <3>1
  <2> QED
    BY <2>3, <2>4, <2>5 DEF Records, ActiveRecordIsBound
<1> QED
  BY <1>1, <1>2

LEMMA RecordsStep ==
  ASSUME TypeOK, Agreement, Records, [Next]_kernelVars
  PROVE  Records'
<1>0. slot \in [Slot -> SlotRow]
  BY DEF TypeOK
<1>1. CASE conv' = conv /\ \A c \in Slot : slot'[c].key = slot[c].key
  BY <1>1 DEF Records, ActiveRecordIsBound
<1>2. ASSUME NEW s \in Slot, NEW b \in {"absent", "open"}, ReportBrowser(s, b) PROVE Records'
  <2>1. slot' = [slot EXCEPT ![s].browser = b] /\ conv' = conv
    BY <1>2 DEF ReportBrowser
  <2>2. \A c \in Slot : slot'[c].key = slot[c].key
    BY <1>0, <2>1, BrowserSlots
  <2> QED
    BY <1>1, <2>1, <2>2
<1>3. ASSUME NEW s \in Slot, NEW r \in Rollover,
             FailRollover(s, r) \/ \E o \in Attempt : CompleteRollover(s, r, o)
      PROVE  Records'
  <2>1. slot' = WithRollover(s, "idle", Null) /\ conv' = conv
    BY <1>3 DEF FailRollover, CompleteRollover, Idle, WithRollover
  <2>2. \A c \in Slot : slot'[c].key = slot[c].key
    BY <2>1, PhaseSlots DEF Phase
  <2> QED
    BY <1>1, <2>1, <2>2
<1>4. ASSUME NEW s \in Slot, NEW r \in Rollover, NEW o \in Attempt, MarkBootstrap(s, r, o) PROVE Records'
  <2>1. slot' = [slot EXCEPT ![s].phase = "bootstrapping"] /\ conv' = conv
    BY <1>4 DEF MarkBootstrap
  <2>2. \A c \in Slot : slot'[c].key = slot[c].key
    BY <1>0, <2>1 DEF SlotRow
  <2> QED
    BY <1>1, <2>1, <2>2
<1>5. CASE conv' = conv /\ slot' = slot
  BY <1>1, <1>5
<1>6. \/ \E s \in Slot, k \in Key : BindConversation(s, k) \/ ReportConversation(s, k)
      \/ \E s, c \in Slot, k \in Key : MoveConversation(s, c, k)
      \/ \E s \in Slot, b \in {"absent", "open"} : ReportBrowser(s, b)
      \/ \E s \in Slot, r \in Rollover : RolloverStep(s, r)
      \/ conv' = conv /\ slot' = slot
  BY StepCases DEF ObserveReply, BindRuntime, UnbindRuntime, CloseAgentConversation, OpenAgentConversation,
       Crash, kernelVars
<1> QED
  BY <1>2, <1>3, <1>4, <1>5, <1>6, BindKeepsRecords, MoveKeepsRecords, ReportKeepsRecords, RolloverKeepsRecords
     DEF RolloverStep

-----------------------------------------------------------------------------
(* The proof behind a completion *)

\* A completion that is not finished yet was proved by an answered bootstrap.
PendingProved ==
  pending.step # "none" =>
    \E r \in Rollover : /\ roll[r].status = "completed"
                        /\ roll[r].from = pending.from /\ roll[r].to = pending.to
                        /\ pending.from # pending.to /\ roll[r].slot \in Slot
                        /\ replied[roll[r].attempt] = roll[r].slot

\* Completed rollovers and observed replies are never touched again.
LEMMA CompletedStays ==
  ASSUME TypeOK, [Next]_kernelVars, NEW r \in Rollover, roll[r].status = "completed",
         roll[r].slot \in Slot, replied[roll[r].attempt] = roll[r].slot
  PROVE  roll'[r] = roll[r] /\ replied'[roll[r].attempt] = replied[roll[r].attempt]
<1>1. r \notin UNION {LiveRolls(s) : s \in Slot}
  BY DEF LiveRolls, Live, Phase
<1>2. roll'[r] = roll[r]
  <2>1. \A s \in Slot, k \in Key : ReportConversation(s, k) => roll'[r] = roll[r]
    BY <1>1 DEF ReportConversation, Canonicalize, TypeOK
  <2>2. \A s \in Slot, x \in Rollover : RolloverStep(s, x) => roll'[r] = roll[r]
    BY <1>1 DEF RolloverStep, RequestRollover, BeginRollover, MayBegin, FailRollover, MarkBootstrap, MayMark,
         CompleteRollover, MayComplete, TypeOK
  <2>3. \A s \in Slot, k \in Key : BindConversation(s, k) => roll' = roll
    BY DEF BindConversation
  <2>4. \A s, c \in Slot, k \in Key : MoveConversation(s, c, k) => roll' = roll
    BY DEF MoveConversation
  <2> QED
    BY <2>1, <2>2, <2>3, <2>4, StepCases DEF ReportBrowser, ObserveReply, BindRuntime, UnbindRuntime,
       CloseAgentConversation, OpenAgentConversation, Crash, kernelVars
<1>3. replied'[roll[r].attempt] = replied[roll[r].attempt]
  <2>1. \A s \in Slot, o \in Attempt : ObserveReply(s, o) => replied'[roll[r].attempt] = replied[roll[r].attempt]
    BY NullAssumption DEF ObserveReply, TypeOK
  <2>2. \A s \in Slot, k \in Key : BindConversation(s, k) \/ ReportConversation(s, k) => replied' = replied
    BY DEF BindConversation, ReportConversation
  <2>3. \A s, c \in Slot, k \in Key : MoveConversation(s, c, k) => replied' = replied
    BY DEF MoveConversation
  <2>4. \A s \in Slot, x \in Rollover : RolloverStep(s, x) => replied' = replied
    BY DEF RolloverStep, RequestRollover, BeginRollover, FailRollover, MarkBootstrap, CompleteRollover
  <2> QED
    BY <2>1, <2>2, <2>3, <2>4, StepCases DEF ReportBrowser, BindRuntime, UnbindRuntime,
       CloseAgentConversation, OpenAgentConversation, Crash, kernelVars
<1> QED
  BY <1>2, <1>3

\* What the later commits of a completion rely on
Pending == PendingNamed /\ PendingProved

LEMMA PendingStep ==
  ASSUME TypeOK, Pending, [Next]_kernelVars
  PROVE  Pending'
<1>1. ASSUME NEW s \in Slot, NEW r \in Rollover, NEW o \in Attempt, CompleteRollover(s, r, o), pending'.step # "none"
      PROVE  Pending'
  <2>1. Following(s, r) # {}
    BY <1>1 DEF CompleteRollover, NoPending
  <2>2. PICK a \in Following(s, r) : a = CHOOSE x \in Following(s, r) : TRUE
    BY <2>1
  <2>3. pending' = [step |-> "close", slot |-> s, from |-> roll[r].from, to |-> roll[r].to, agent |-> a]
    BY <1>1, <2>1, <2>2 DEF CompleteRollover
  <2>4. a \in Agent /\ ActiveKeys(a) = {roll[r].from} /\ roll[r].from # roll[r].to
    BY DEF Following, OnSlot
  <2>5. roll[r].from \in Key
    BY <2>4 DEF ActiveKeys
  <2>6. roll[r] \in RollRow
    BY DEF TypeOK
  <2>7. roll[r].to \in Key /\ roll[r].slot = s /\ roll[r].attempt = o /\ replied[o] = s
    BY <1>1, <2>6 DEF CompleteRollover, MayComplete, Proved, LiveRolls, RollRow
  <2>8. roll'[r] = [roll[r] EXCEPT !.status = "completed"] /\ replied' = replied
    BY <1>1 DEF CompleteRollover, TypeOK
  <2>9. /\ roll'[r].status = "completed" /\ roll'[r].from = roll[r].from /\ roll'[r].to = roll[r].to
        /\ roll'[r].attempt = o /\ roll'[r].slot = s
    BY <2>6, <2>7, <2>8 DEF RollRow
  <2> QED
    BY <2>3, <2>4, <2>5, <2>7, <2>8, <2>9 DEF Pending, PendingNamed, PendingProved
<1>2. ASSUME pending'.step # "none" => /\ pending.step # "none" /\ pending'.agent = pending.agent
                                       /\ pending'.slot = pending.slot /\ pending'.from = pending.from
                                       /\ pending'.to = pending.to
      PROVE  Pending'
  <2> SUFFICES ASSUME pending'.step # "none" PROVE Pending'
    BY DEF Pending, PendingNamed, PendingProved
  <2>1. PICK r \in Rollover : /\ roll[r].status = "completed"
                             /\ roll[r].from = pending.from /\ roll[r].to = pending.to
                             /\ pending.from # pending.to /\ roll[r].slot \in Slot
                             /\ replied[roll[r].attempt] = roll[r].slot
    BY <1>2 DEF Pending, PendingProved
  <2>2. roll'[r] = roll[r] /\ replied'[roll[r].attempt] = replied[roll[r].attempt]
    BY <2>1, CompletedStays
  <2> QED
    BY <1>2, <2>1, <2>2 DEF Pending, PendingNamed, PendingProved
<1>3. ASSUME CloseAgentConversation PROVE Pending'
  <2>1. /\ pending'.agent = pending.agent /\ pending'.slot = pending.slot
        /\ pending'.from = pending.from /\ pending'.to = pending.to
    BY <1>3 DEF CloseAgentConversation, TypeOK, PendingRow
  <2> QED
    BY <1>2, <1>3, <2>1 DEF CloseAgentConversation
<1>4. CASE pending' = NoPending \/ pending' = pending
  BY <1>2, <1>4 DEF NoPending
<1>5. CASE pending'.step = "none"
  BY <1>2, <1>5
<1>6. \/ \E s \in Slot, r \in Rollover, o \in Attempt : CompleteRollover(s, r, o)
      \/ CloseAgentConversation
      \/ pending' = NoPending \/ pending' = pending
  <2>1. \A s \in Slot, k \in Key : BindConversation(s, k) \/ ReportConversation(s, k) => pending' = pending
    BY DEF BindConversation, ReportConversation
  <2>2. \A s, c \in Slot, k \in Key : MoveConversation(s, c, k) => pending' = pending
    BY DEF MoveConversation
  <2>3. \A s \in Slot, r \in Rollover :
          RolloverStep(s, r) => pending' = pending \/ \E o \in Attempt : CompleteRollover(s, r, o)
    BY DEF RolloverStep, RequestRollover, BeginRollover, FailRollover, MarkBootstrap
  <2>4. \A s \in Slot, o \in Attempt : ObserveReply(s, o) => pending' = pending
    BY DEF ObserveReply
  <2>5. \A a \in Agent, s \in Slot : BindRuntime(a, s) => pending' = pending
    BY DEF BindRuntime
  <2> QED
    BY <2>1, <2>2, <2>3, <2>4, <2>5, StepCases
       DEF ReportBrowser, UnbindRuntime, OpenAgentConversation, Crash, kernelVars
<1> QED
  BY <1>1, <1>3, <1>4, <1>5, <1>6

-----------------------------------------------------------------------------
(* The conversations of an Agent *)

\* Every other conversation of k's Agent is older.
Newest(k) == \A x \in Key : agentConv[x].agent = agentConv[k].agent => agentConv[x].gen <= agentConv[k].gen

Owned == \A k \in Key : IF agentConv[k].status = "none" THEN agentConv[k].agent = Null
                         ELSE agentConv[k].agent \in Agent

ActiveIsNewest ==
  \A k \in Key : agentConv[k].status = "active" =>
    /\ Newest(k)
    /\ \A x \in Key : agentConv[x].status = "active" /\ agentConv[x].agent = agentConv[k].agent => x = k

TakesOver ==
  \A k \in Key : agentConv[k].status # "none" /\ agentConv[k].pred # Null =>
    LET p == agentConv[k].pred
    IN /\ agentConv[p].agent = agentConv[k].agent /\ agentConv[p].status = "closed"
       /\ agentConv[k].gen = agentConv[p].gen + 1

\* Where a completion that is not finished has left the two conversations
Halfway ==
  pending.step # "none" =>
    /\ agentConv[pending.to].status = "none" /\ agentConv[pending.from].agent = pending.agent
    /\ Newest(pending.from)
    /\ IF pending.step = "close" THEN agentConv[pending.from].status = "active"
       ELSE /\ agentConv[pending.from].status = "closed"
            /\ \A x \in Key : agentConv[x].status = "active" => agentConv[x].agent # pending.agent

Lineage == Owned /\ ActiveIsNewest /\ TakesOver /\ Halfway

LEMMA LineageIsChain == TypeOK /\ Lineage => AgentLineage
<1> SUFFICES ASSUME TypeOK, Lineage, NEW k \in Key, agentConv[k].status = "active"
             PROVE  /\ agentConv[k].gen = LatestGen(agentConv[k].agent)
                    /\ ActiveKeys(agentConv[k].agent) = {k}
  BY DEF AgentLineage, Lineage, TakesOver
<1> DEFINE a == agentConv[k].agent
<1>1. a \in Agent
  BY DEF Lineage, Owned
<1>2. agentConv[k].gen \in Nat
  BY DEF TypeOK, AgentConvRow
<1>3. agentConv[k].gen <= LatestGen(a) /\ LatestGen(a) \in Nat
  BY <1>1, LatestOfAgent
<1>4. LatestGen(a) <= agentConv[k].gen
  <2>1. CASE LatestGen(a) > 0
    BY <1>1, <2>1, LatestOfAgent DEF Lineage, ActiveIsNewest, Newest
  <2>2. CASE ~(LatestGen(a) > 0)
    BY <1>2, <1>3, <2>2
  <2> QED
    BY <2>1, <2>2
<1>5. agentConv[k].gen = LatestGen(a)
  BY <1>2, <1>3, <1>4
<1>6. ActiveKeys(a) = {k}
  BY DEF ActiveKeys, Lineage, ActiveIsNewest
<1> QED
  BY <1>5, <1>6

\* Only the runtime slots of conversations change, if anything.
LEMMA ChainKept ==
  ASSUME TypeOK, Lineage, pending' = pending \/ pending'.step = "none",
         \A x \in Key : /\ agentConv'[x].status = agentConv[x].status /\ agentConv'[x].agent = agentConv[x].agent
                        /\ agentConv'[x].gen = agentConv[x].gen /\ agentConv'[x].pred = agentConv[x].pred,
         Pending
  PROVE  Lineage'
<1>1. \A k \in Key : agentConv[k].status # "none" /\ agentConv[k].pred # Null => agentConv[k].pred \in Key
  BY DEF TypeOK, AgentConvRow
<1>2. Owned' /\ ActiveIsNewest'
  BY DEF Lineage, Owned, ActiveIsNewest, Newest
<1>3. TakesOver'
  BY <1>1 DEF Lineage, TakesOver
<1>4. Halfway'
  BY DEF Lineage, Halfway, Newest, Pending, PendingNamed
<1> QED
  BY <1>2, <1>3, <1>4 DEF Lineage

\* A first conversation of a, newer than any it had
LEMMA FirstKept ==
  ASSUME TypeOK, Lineage, NEW a \in Agent, NEW k \in Key, NEW g \in Nat, NEW p \in Key \cup {Null},
         agentConv[k].status = "none",
         \A x \in Key : agentConv[x].agent = a => agentConv[x].gen < g /\ agentConv[x].status # "active",
         p # Null => /\ agentConv[p].agent = a /\ agentConv[p].status = "closed" /\ g = agentConv[p].gen + 1,
         \A x \in Key \ {k} : agentConv'[x] = agentConv[x],
         agentConv'[k].status = "active", agentConv'[k].agent = a, agentConv'[k].gen = g, agentConv'[k].pred = p,
         pending'.step = "none"
  PROVE  Lineage'
<1>1. \A x \in Key : agentConv[x].status # "none" /\ agentConv[x].pred # Null =>
        agentConv[x].pred \in Key \ {k}
  BY DEF TypeOK, AgentConvRow, Lineage, TakesOver
<1>2. a # Null
  BY NullAssumption
<1>3. Owned'
  BY DEF Lineage, Owned
<1>4. ActiveIsNewest'
  <2>1. \A x \in Key : agentConv[x].gen \in Nat
    BY DEF TypeOK, AgentConvRow
  <2>2. Newest(k)'
    BY <2>1 DEF Newest
  <2>3. \A x \in Key \ {k} : agentConv[x].status = "active" => agentConv[x].agent # a
    OBVIOUS
  <2>4. \A x \in Key \ {k} : agentConv'[x].status = "active" => Newest(x)'
    BY <2>3 DEF Newest, Lineage, ActiveIsNewest
  <2> QED
    BY <2>2, <2>3, <2>4 DEF Lineage, ActiveIsNewest
<1>5. TakesOver'
  <2>1. p # Null => p \in Key \ {k}
    OBVIOUS
  <2> QED
    BY <1>1, <2>1 DEF Lineage, TakesOver
<1>6. Halfway'
  BY DEF Halfway
<1> QED
  BY <1>3, <1>4, <1>5, <1>6 DEF Lineage

LEMMA AgentBindsKeeps ==
  ASSUME TypeOK, Lineage, Pending, NEW k \in Key, NEW s \in Slot, NEW hint \in Nat, AgentBinds(k, s, hint),
         Ready, pending' = pending
  PROVE  /\ Lineage'
         /\ \A x \in Key : agentConv[x].status = "active" => agentConv'[x].status = "active"
<1>1. CASE OnSlot(s) = {}
  <2>1. agentConv' = agentConv
    BY <1>1 DEF AgentBinds
  <2> QED
    BY <2>1, ChainKept
<1>2. CASE OnSlot(s) # {}
  <2>1. PICK a \in OnSlot(s) : agentConv' = Followed(a, k, s, hint)
    BY <1>2 DEF AgentBinds
  <2>2. a \in Agent /\ MayFollow(a, k, s)
    BY DEF AgentBinds, OnSlot
  <2>3. CASE ActiveKeys(a) # {}
    <3>1. agentConv' = [agentConv EXCEPT ![k].slot = s]
      BY <2>1, <2>3 DEF Followed
    <3>2. \A x \in Key : /\ agentConv'[x].status = agentConv[x].status /\ agentConv'[x].agent = agentConv[x].agent
                         /\ agentConv'[x].gen = agentConv[x].gen /\ agentConv'[x].pred = agentConv[x].pred
      BY <3>1 DEF TypeOK, AgentConvRow
    <3> QED
      BY <3>2, ChainKept
  <2>4. CASE ActiveKeys(a) = {}
    <3> DEFINE g == IF hint > LatestGen(a) THEN hint ELSE LatestGen(a) + 1
    <3>1. agentConv' = [agentConv EXCEPT ![k] = [status |-> "active", agent |-> a, pred |-> Null, slot |-> s, gen |-> g]]
      BY <2>1, <2>4 DEF Followed
    <3>2. agentConv[k].status = "none"
      BY <2>2, <2>4 DEF MayFollow
    <3>3. LatestGen(a) \in Nat /\ g \in Nat /\ g > LatestGen(a)
      BY <2>2, LatestOfAgent
    <3>4. \A x \in Key : agentConv[x].agent = a => agentConv[x].gen < g /\ agentConv[x].status # "active"
      <4> SUFFICES ASSUME NEW x \in Key, agentConv[x].agent = a
                   PROVE  agentConv[x].gen < g /\ agentConv[x].status # "active"
        OBVIOUS
      <4>1. agentConv[x].gen \in Nat /\ agentConv[x].gen <= LatestGen(a)
        BY <2>2, LatestOfAgent DEF TypeOK, AgentConvRow
      <4> HIDE DEF g
      <4>2. agentConv[x].gen < g
        BY <3>3, <4>1
      <4>3. agentConv[x].status # "active"
        BY <2>4 DEF ActiveKeys
      <4> QED
        BY <4>2, <4>3
    <3> HIDE DEF g
    <3>5. /\ \A x \in Key \ {k} : agentConv'[x] = agentConv[x]
          /\ agentConv'[k].status = "active" /\ agentConv'[k].agent = a /\ agentConv'[k].gen = g
          /\ agentConv'[k].pred = Null
      BY <3>1 DEF TypeOK
    <3>6. pending'.step = "none"
      BY DEF Ready
    <3>7. Lineage'
      BY <2>2, <3>2, <3>3, <3>4, <3>5, <3>6, FirstKept
    <3> QED
      BY <3>5, <3>7
  <2> QED
    BY <2>3, <2>4
<1> QED
  BY <1>1, <1>2

\* An active conversation stays active, but for the one a completion is leaving.
ActiveStays == \A k \in Key : agentConv[k].status = "active" /\ agentConv'[k].status # "active" =>
                                /\ pending.step # "none" /\ k = pending.from

\* The report of a conversation, which the slot's Agent takes up unless it is leaving another
LEMMA ReportKeepsLineage ==
  ASSUME TypeOK, Lineage, Pending, NEW s \in Slot, NEW k \in Key, ReportConversation(s, k)
  PROVE  Lineage' /\ ActiveStays
<1>1. Ready /\ pending' = pending
  BY DEF ReportConversation, MayReport
<1>2. slot'[s].gen \in Nat
  BY ReportTyped DEF TypeOK, SlotRow
<1>3. agentConv' = agentConv \/ AgentBinds(k, s, slot'[s].gen)
  BY DEF ReportConversation
<1>4. CASE agentConv' = agentConv
  BY <1>1, <1>4, ChainKept DEF ActiveStays
<1>5. CASE AgentBinds(k, s, slot'[s].gen)
  BY <1>1, <1>2, <1>5, AgentBindsKeeps DEF ActiveStays
<1> QED
  BY <1>3, <1>4, <1>5

LEMMA BindKeepsLineage ==
  ASSUME TypeOK, Lineage, Pending, NEW s \in Slot, NEW k \in Key,
         BindConversation(s, k) \/ \E c \in Slot : MoveConversation(s, c, k)
  PROVE  Lineage' /\ ActiveStays
<1>1. CASE BindConversation(s, k)
  <2> DEFINE g == IF slot[s].key = Null THEN RecordedGen(conv, s, k) ELSE slot[s].gen
  <2>1. conv \in [Key -> ConvRow] /\ slot[s].gen \in Nat
    BY DEF TypeOK, SlotRow
  <2>2. g \in Nat
    BY <2>1, RecordedRows
  <2>3. AgentBinds(k, s, g) /\ Ready /\ pending' = pending
    BY <1>1 DEF BindConversation
  <2> QED
    BY <2>2, <2>3, AgentBindsKeeps DEF ActiveStays
<1>2. ASSUME NEW c \in Slot, MoveConversation(s, c, k) PROVE Lineage' /\ ActiveStays
  <2> DEFINE rows == IF conv[k].status = "active" THEN [conv EXCEPT ![k].slot = s] ELSE conv
             g == RecordedGen(rows, s, k)
  <2>1. rows \in [Key -> ConvRow]
    BY DEF TypeOK, ConvRow
  <2>2. g \in Nat
    BY <2>1, RecordedRows
  <2>3. AgentBinds(k, s, g) /\ Ready /\ pending' = pending
    BY <1>2 DEF MoveConversation
  <2> QED
    BY <2>2, <2>3, AgentBindsKeeps DEF ActiveStays
<1> QED
  BY <1>1, <1>2

\* Attaching and detaching a slot touches nothing but the runtime slot of a record.
LEMMA RuntimeKeepsLineage ==
  ASSUME TypeOK, Lineage, Pending, NEW a \in Agent,
         UnbindRuntime(a) \/ \E s \in Slot : BindRuntime(a, s)
  PROVE  Lineage' /\ ActiveStays
<1>1. \A x \in Key : \E s \in Slot \cup {Null} :
        agentConv'[x] = agentConv[x] \/ agentConv'[x] = [agentConv[x] EXCEPT !.slot = s]
  BY DEF UnbindRuntime, BindRuntime
<1>2. \A x \in Key : agentConv[x] \in AgentConvRow
  BY DEF TypeOK
<1>3. \A x \in Key : /\ agentConv'[x].status = agentConv[x].status /\ agentConv'[x].agent = agentConv[x].agent
                     /\ agentConv'[x].gen = agentConv[x].gen /\ agentConv'[x].pred = agentConv[x].pred
  BY <1>1, <1>2 DEF AgentConvRow
<1>4. pending' = pending
  BY DEF UnbindRuntime, BindRuntime
<1> QED
  BY <1>3, <1>4, ChainKept DEF ActiveStays

\* The first commit of a completion finds the Agent in the source conversation.
LEMMA CompletionKeepsLineage ==
  ASSUME TypeOK, Lineage, Pending, NEW s \in Slot, NEW r \in Rollover, NEW o \in Attempt,
         CompleteRollover(s, r, o)
  PROVE  Lineage' /\ ActiveStays
<1>1. agentConv' = agentConv
  BY DEF CompleteRollover
<1>2. CASE Following(s, r) = {}
  BY <1>1, <1>2, ChainKept DEF CompleteRollover, NoPending, ActiveStays
<1>3. CASE Following(s, r) # {}
  <2>1. PICK a \in Following(s, r) : a = CHOOSE x \in Following(s, r) : TRUE
    BY <1>3
  <2>2. pending' = [step |-> "close", slot |-> s, from |-> roll[r].from, to |-> roll[r].to, agent |-> a]
    BY <1>3, <2>1 DEF CompleteRollover
  <2>3. /\ a \in Agent /\ ActiveKeys(a) = {roll[r].from}
        /\ agentConv[roll[r].to].status = "none"
    BY DEF Following, OnSlot
  <2>4. /\ roll[r].from \in Key /\ agentConv[roll[r].from].status = "active"
        /\ agentConv[roll[r].from].agent = a
    BY <2>3 DEF ActiveKeys
  <2>5. Newest(roll[r].from)
    BY <2>4 DEF Lineage, ActiveIsNewest
  <2>6. Halfway'
    BY <1>1, <2>2, <2>3, <2>4, <2>5 DEF Halfway, Newest
  <2>7. Owned' /\ ActiveIsNewest' /\ TakesOver'
    BY <1>1 DEF Lineage, Owned, ActiveIsNewest, TakesOver, Newest
  <2> QED
    BY <1>1, <2>6, <2>7 DEF Lineage, ActiveStays
<1> QED
  BY <1>2, <1>3

\* The second commit closes the Agent's newest conversation and leaves it none.
LEMMA CloseKeepsLineage ==
  ASSUME TypeOK, Lineage, Pending, CloseAgentConversation
  PROVE  Lineage' /\ ActiveStays
<1>0. PICK p \in Key : p = pending.from
  BY DEF CloseAgentConversation, Pending, PendingNamed
<1>1. /\ p \in Key /\ pending.step = "close" /\ agentConv[p].status = "active"
      /\ agentConv[p].agent = pending.agent /\ pending.agent \in Agent
      /\ Newest(p) /\ pending.to \in Key /\ agentConv[pending.to].status = "none"
  BY <1>0 DEF CloseAgentConversation, Pending, PendingNamed, Lineage, Halfway
<1>2. agentConv' = [agentConv EXCEPT ![p] = [agentConv[p] EXCEPT !.status = "closed", !.slot = Null]]
  BY <1>0 DEF CloseAgentConversation
<1>3. \A x \in Key \ {p} : agentConv'[x] = agentConv[x]
  BY <1>2 DEF TypeOK
<1>4. agentConv[p] \in AgentConvRow
  BY <1>1 DEF TypeOK
<1>5. /\ agentConv'[p].status = "closed" /\ agentConv'[p].agent = agentConv[p].agent
      /\ agentConv'[p].gen = agentConv[p].gen /\ agentConv'[p].pred = agentConv[p].pred
  BY <1>1, <1>2, <1>4 DEF AgentConvRow, TypeOK
<1>6. /\ pending'.step = "open" /\ pending'.agent = pending.agent
      /\ pending'.from = p /\ pending'.to = pending.to
  BY <1>0 DEF CloseAgentConversation, TypeOK, PendingRow
<1>7. \A x \in Key : /\ agentConv'[x].agent = agentConv[x].agent /\ agentConv'[x].gen = agentConv[x].gen
                     /\ agentConv'[x].pred = agentConv[x].pred
                     /\ agentConv'[x].status = IF x = p THEN "closed" ELSE agentConv[x].status
  BY <1>3, <1>5
<1>8. Owned'
  BY <1>1, <1>7 DEF Lineage, Owned
<1>9. ActiveIsNewest'
  BY <1>7 DEF Lineage, ActiveIsNewest, Newest
<1>10. TakesOver'
  <2>1. \A k \in Key : agentConv[k].status # "none" /\ agentConv[k].pred # Null => agentConv[k].pred \in Key
    BY DEF TypeOK, AgentConvRow
  <2> QED
    BY <1>1, <1>7, <2>1 DEF Lineage, TakesOver
<1>11. Halfway'
  <2>1. \A x \in Key \ {p} : agentConv[x].status = "active" => agentConv[x].agent # pending.agent
    BY <1>1 DEF Lineage, ActiveIsNewest
  <2>2. \A x \in Key : agentConv'[x].status = "active" => agentConv'[x].agent # pending'.agent
    BY <1>6, <1>7, <2>1
  <2>3. Newest(p)'
    BY <1>1, <1>7 DEF Newest
  <2> QED
    BY <1>1, <1>6, <1>7, <2>2, <2>3 DEF Halfway, Newest
<1>12. ActiveStays
  BY <1>0, <1>1, <1>7 DEF ActiveStays
<1> QED
  BY <1>8, <1>9, <1>10, <1>11, <1>12 DEF Lineage

\* The third records the successor, one generation after it.
LEMMA OpenKeepsLineage ==
  ASSUME TypeOK, Lineage, Pending, OpenAgentConversation
  PROVE  Lineage' /\ ActiveStays
<1> DEFINE p == pending.from
           k == pending.to
           a == pending.agent
           g == agentConv[p].gen + 1
<1>1. /\ p \in Key /\ k \in Key /\ a \in Agent /\ pending.step = "open"
      /\ agentConv[k].status = "none" /\ agentConv[p].agent = a /\ agentConv[p].status = "closed"
      /\ Newest(p) /\ \A x \in Key : agentConv[x].status = "active" => agentConv[x].agent # a
  BY DEF OpenAgentConversation, Pending, PendingNamed, Lineage, Halfway
<1>2. agentConv' = [agentConv EXCEPT ![k] = Successor] /\ pending'.step = "none"
  BY DEF OpenAgentConversation, NoPending
<1>3. /\ \A x \in Key \ {k} : agentConv'[x] = agentConv[x]
      /\ agentConv'[k] = Successor
  BY <1>1, <1>2 DEF TypeOK
<1>4. Successor.status = "active" /\ Successor.agent = a /\ Successor.gen = g /\ Successor.pred = p
  BY DEF Successor
<1>5. \A x \in Key : agentConv[x].gen \in Nat
  BY DEF TypeOK, AgentConvRow
<1>6. g \in Nat
  BY <1>1, <1>5
<1>7. \A x \in Key : agentConv[x].agent = a => agentConv[x].gen < g /\ agentConv[x].status # "active"
  BY <1>1, <1>5 DEF Newest
<1>8. agentConv[p].agent = a /\ agentConv[p].status = "closed" /\ g = agentConv[p].gen + 1
  BY <1>1
<1>9. agentConv'[k].status = "active" /\ agentConv'[k].agent = a /\ agentConv'[k].gen = g /\ agentConv'[k].pred = p
  BY <1>3, <1>4
<1> HIDE DEF p, k, a, g
<1>10. Lineage'
  BY <1>1, <1>2, <1>3, <1>6, <1>7, <1>8, <1>9, FirstKept
<1>11. ActiveStays
  BY <1>1, <1>3 DEF ActiveStays
<1> QED
  BY <1>10, <1>11

LEMMA LineageStep ==
  ASSUME TypeOK, Lineage, Pending, [Next]_kernelVars
  PROVE  Lineage' /\ ActiveStays
<1>1. CASE agentConv' = agentConv /\ (pending' = pending \/ pending'.step = "none")
  BY <1>1, ChainKept DEF ActiveStays
<1>2. \A s \in Slot, b \in {"absent", "open"} : ReportBrowser(s, b) => agentConv' = agentConv /\ pending' = pending
  BY DEF ReportBrowser
<1>3. \A s \in Slot, o \in Attempt : ObserveReply(s, o) => agentConv' = agentConv /\ pending' = pending
  BY DEF ObserveReply
<1>4. \A s \in Slot, r \in Rollover :
        RolloverStep(s, r) => \/ agentConv' = agentConv /\ pending' = pending
                              \/ \E o \in Attempt : CompleteRollover(s, r, o)
  BY DEF RolloverStep, RequestRollover, BeginRollover, FailRollover, MarkBootstrap
<1>5. Crash \/ UNCHANGED kernelVars => agentConv' = agentConv /\ (pending' = pending \/ pending'.step = "none")
  BY DEF Crash, NoPending, kernelVars
<1> QED
  BY <1>1, <1>2, <1>3, <1>4, <1>5, StepCases, ReportKeepsLineage, BindKeepsLineage, RuntimeKeepsLineage,
     CompletionKeepsLineage, CloseKeepsLineage, OpenKeepsLineage

-----------------------------------------------------------------------------
(* The inductive invariant, and what follows from it *)

RolloverInv == TypeOK /\ Agreement /\ Records /\ Pending /\ Lineage

LEMMA InitHolds == Init => RolloverInv
<1> SUFFICES ASSUME Init PROVE RolloverInv
  OBVIOUS
<1>1. TypeOK
  BY InitTyped
<1>2. Agreement
  BY NullAssumption DEF Init, Agreement, SlotAgrees, NoRoll
<1>3. Records
  BY DEF Init, Records, ActiveRecordIsBound, NoConv
<1>4. pending.step = "none"
  BY DEF Init, NoPending
<1>5. Lineage
  BY <1>4 DEF Init, Lineage, Owned, ActiveIsNewest, TakesOver, Halfway, NoAgentConv
<1> QED
  BY <1>1, <1>2, <1>3, <1>4, <1>5 DEF RolloverInv, Pending, PendingNamed, PendingProved

LEMMA InvHolds == Spec => []RolloverInv
<1>1. RolloverInv /\ [Next]_kernelVars => RolloverInv'
  <2> SUFFICES ASSUME RolloverInv, [Next]_kernelVars PROVE RolloverInv'
    OBVIOUS
  <2> QED
    BY TypeStep, AgreementStep, RecordsStep, PendingStep, LineageStep DEF RolloverInv, Pending
<1> QED
  BY InitHolds, <1>1, PTL DEF Spec

\* The rows the handlers of a rollover write are the rows the schema knows: whatever
\* the order of calls and crashes, no slot gets a status or a conversation it cannot have.
THEOREM TypesHold == Spec => []TypeOK
<1>1. RolloverInv => TypeOK
  BY DEF RolloverInv
<1> QED
  BY <1>1, InvHolds, PTL

\* conversationAuthority writes a rollover's status in agent_rollovers and in
\* agent_slots; the two never disagree, and a slot that is rolling over holds no
\* conversation but the source before the rollover begins and the accepted
\* destination after.
THEOREM LedgerIsFollowed == Spec => []SlotFollowsLedger
<1>1. RolloverInv => SlotFollowsLedger
  BY AgreementPointwise DEF RolloverInv, Agreement
<1> QED
  BY <1>1, InvHolds, PTL

\* No conversation record stays active once its slot has another conversation:
\* begin, fail, rebinding and moving an Agent's conversation all see to it.
THEOREM ActiveRecordsAreBound == Spec => []ActiveRecordIsBound
<1>1. RolloverInv => ActiveRecordIsBound
  BY DEF RolloverInv, Records
<1> QED
  BY <1>1, InvHolds, PTL

\* However often an Agent changes slot, rolls over or is interrupted between the two
\* commits of agentContinuity.rollover, it never has two active conversations, the
\* active one is its newest, and a conversation that names a predecessor is that
\* predecessor's immediate successor.
THEOREM LineageIsKept == Spec => []AgentLineage
<1>1. RolloverInv => AgentLineage
  BY LineageIsChain DEF RolloverInv
<1> QED
  BY <1>1, InvHolds, PTL

\* An Agent's conversation is closed only behind a completed rollover away from it
\* whose bootstrap attempt was answered on the slot that rolled over.
THEOREM LeavingIsProved == Spec => LeavesOnlyWithProof
<1> DEFINE Step == \A k \in Key : agentConv[k].status = "active" /\ agentConv'[k].status # "active" =>
                     \E r \in Rollover : /\ roll[r].status = "completed" /\ roll[r].from = k /\ roll[r].to # k
                                         /\ replied[roll[r].attempt] = roll[r].slot
<1>1. RolloverInv /\ [Next]_kernelVars => [Step]_kernelVars
  <2> SUFFICES ASSUME RolloverInv, [Next]_kernelVars, NEW k \in Key,
                      agentConv[k].status = "active", agentConv'[k].status # "active"
               PROVE  \E r \in Rollover : /\ roll[r].status = "completed" /\ roll[r].from = k /\ roll[r].to # k
                                          /\ replied[roll[r].attempt] = roll[r].slot
    OBVIOUS
  <2>1. pending.step # "none" /\ k = pending.from
    BY LineageStep DEF RolloverInv, ActiveStays
  <2> QED
    BY <2>1 DEF RolloverInv, Pending, PendingProved
<1> QED
  BY <1>1, InvHolds, PTL DEF Spec, LeavesOnlyWithProof

=============================================================================
