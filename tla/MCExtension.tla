---------------------------- MODULE MCExtension ----------------------------
(* Small instances of what the extension must bring about while it runs,    *)
(* checked side by side: permits to send, the fleet's pages, and rollovers  *)
(* an agent has to follow.  A behaviour is one of "part", and leaves the    *)
(* variables of the others alone.                                           *)
EXTENDS PromptGovernor

CONSTANTS s1, s2, a1, k1, k2, r1, o1

VARIABLES
  part,
  kernel, tabs, registry, tabOf, chatOf, pass, closed, orders, faults,
  slot, conv, roll, replied, runtime, agentConv, pending

fleet == <<kernel, tabs, registry, tabOf, chatOf, pass, closed, orders, faults>>
rollover == <<slot, conv, roll, replied, runtime, agentConv, pending>>
all == <<part, governorVars, fleet, rollover>>

\* One slot that is suspended and resumed, with one fault anywhere.
Fleet == INSTANCE FleetTabs WITH
  Slot <- {s1}, MaxPages <- 4, MaxOrders <- 2, MaxFaults <- 1, Nobody <- Null,
  page <- tabs, held <- registry

\* An agent that may sit in either of two slots; no rollover is failed by hand.
Rollover == INSTANCE ConversationRollover WITH
  Slot <- {s1, s2}, Agent <- {a1}, Key <- {k1, k2}, Rollover <- {r1}, Attempt <- {o1},
  MayFail <- FALSE, MayCrash <- FALSE

ASSUME Fleet!FleetTabsConstants

OneProject == [p \in Page |-> CHOOSE x \in Project : TRUE]

MCInit ==
  /\ part \in {"governor", "fleet", "rollover"}
  /\ Init /\ Fleet!InitTabs /\ Rollover!Init

InGovernor == part = "governor" /\ UNCHANGED <<part, fleet, rollover>>
InFleet    == part = "fleet" /\ UNCHANGED <<part, governorVars, rollover>>
InRollover == part = "rollover" /\ UNCHANGED <<part, governorVars, fleet>>

MCNext == \/ InGovernor /\ Next
          \/ InFleet /\ Fleet!TabsNext
          \/ InRollover /\ Rollover!Next

\* The fairness of each part, while it is the one that runs.
MCFairness ==
  /\ SF_all(InGovernor /\ Tick)
  /\ \A p \in Page : WF_all(InGovernor /\ GovernorStep(p))
  /\ WF_all(InFleet /\ Fleet!ReadKernel) /\ WF_all(InFleet /\ Fleet!PassStep)
  /\ \A n \in 1 .. 4 : /\ WF_all(InFleet /\ Fleet!HandleClosed(n))
                       /\ WF_all(InFleet /\ Fleet!Loads(n)) /\ WF_all(InFleet /\ Fleet!Settles(n))
  /\ WF_all(InFleet /\ Fleet!GraceEnds(s1) /\ faults' = faults)
  /\ \A s \in {s1, s2} : /\ \A k \in {k1, k2} : WF_all(InRollover /\ Rollover!ReportConversation(s, k))
                         /\ WF_all(InRollover /\ Rollover!CompleteRollover(s, r1, o1))
  /\ WF_all(InRollover /\ Rollover!CloseAgentConversation)
  /\ WF_all(InRollover /\ Rollover!OpenAgentConversation)

MCSpec == MCInit /\ [][MCNext]_all /\ MCFairness

-----------------------------------------------------------------------------
(* Properties of the parts; those of permits are PromptGovernor's own. *)

\* A slot that stays active comes to have its page, and one that stays suspended
\* to have none; no page is closed but as the Kernel was told.
PagesFollowSlots ==
  /\ [](Fleet!TabsTypeOK /\ Fleet!PagesAreOfOneSlot) /\ Fleet!ClosesAsReported
  /\ part = "fleet" => Fleet!ActiveSlotIsServed /\ Fleet!SuspendedSlotIsClosed

\* The agent on a slot comes to work in the slot's conversation, and every
\* conversation it worked in after another names the one before it.
AgentCatchesUp == part = "rollover" => []Rollover!LineageUnbroken /\ Rollover!AgentCatchesUp
=============================================================================
