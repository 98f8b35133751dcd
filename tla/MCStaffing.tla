----------------------------- MODULE MCStaffing -----------------------------
(* Small instances of how a project is staffed, checked side by side: two   *)
(* AgentSlots with their tabs through every order of their lifecycle, the   *)
(* passes of the elastic fleet that decide which slots there should be, and *)
(* the tasks that are given to their pages.  A behaviour is one of "part",  *)
(* and leaves the variables of the others alone.                            *)
EXTENDS MCKernelFencing, ElasticFleet, TaskGraph

VARIABLE part

\* A task that suits both pages, the second less, or the first only.
Work(policy, deps, scores) ==
  [kind |-> "work", policy |-> policy, deps |-> deps, target |-> None, rounds |-> 0, score |-> scores]
Approval(of) ==
  [kind |-> "human", policy |-> "human-approval", deps |-> {of}, target |-> None, rounds |-> 0, score |-> <<0, 0>>]
Review(of) ==
  [kind |-> "review", policy |-> "review-pass", deps |-> {of}, target |-> of, rounds |-> 2, score |-> <<0, 1>>]

\* The last task of the third is one that cannot be created.
Reviewed == <<Work("structured-result", {}, <<1, 0>>), Review(1), Approval(2)>>
Verified == <<Work("verified-claim", {}, <<1, 0>>), Work("reply", {1}, <<0, 1>>), Approval(2)>>
TwoPages == <<Work("reply", {}, <<2, 1>>), Work("structured-result", {}, <<1, 0>>), Approval(3)>>

MCShapes == {Reviewed, Verified, TwoPages}

MCInit ==
  /\ part \in {"lifecycle", "elastic", "tasks"}
  /\ Init /\ InitFleet /\ InitGraph
  /\ part = "tasks" \/ graph = Reviewed

\* Four attempts where a review may come twice, and three elsewhere.
FewAttempts == graph # Reviewed => Attempts < 4

MCNext ==
  /\ UNCHANGED part
  /\ \/ part = "lifecycle" /\ Next /\ UNCHANGED <<fleetVars, graphVars>>
     \/ part = "elastic" /\ FleetNext /\ UNCHANGED <<vars, graphVars>>
     \/ part = "tasks" /\ GraphNext /\ FewAttempts' /\ UNCHANGED <<vars, fleetVars>>

MCSpec == MCInit /\ [][MCNext]_<<part, vars, fleetVars, graphVars>>

-----------------------------------------------------------------------------
(* Properties; SlotsAreSound is KernelFencing's own, FleetIsSound and       *)
(* WorkersAreKept are ElasticFleet's, TasksAreSound is TaskGraph's.         *)

\* No stop takes a project below the slots it is to keep; after a pass the pooled work has the
\* slots it asks for, if there is room; and a review that was passed is of what its target now
\* goes by.
WorkIsServed ==
  /\ StaffingFloorHolds
  /\ [][part = "elastic" => PassServesDemand]_<<part, fleetVars>>
  /\ [](part = "tasks" => ReviewedIsCurrent)
=============================================================================
