---------------------------- MODULE ElasticFleet ----------------------------
(***************************************************************************)
(* How the Kernel fits a project's AgentSlots to its ready work:           *)
(* planElasticFleet (elasticFleet.ts), the role names it pools and hands   *)
(* out (shared/agentRole.ts), and ControlPlane.reconcileElasticFleet,      *)
(* which carries the plan out through suspendAgentSlot, resumeAgentSlot    *)
(* and createAgentSlot.                                                    *)
(*                                                                         *)
(* A role is a kind and an ordinal: <<"impl", 2>> is IMPLEMENTER_2.  The   *)
(* kinds in Pooled have a role class, and all their labels one affinity;   *)
(* any other role is its own affinity, and <<k, 1>> is what tasks ask for. *)
(* Which of several equally eligible slots goes or comes back (by idle     *)
(* time, conversation and age) is left open.  The facts that make a slot   *)
(* eligible for cleanup besides its page (idle beyond the grace, no lease, *)
(* no unsettled operation, no rollover, no quarantine) are "quiet".        *)
(***************************************************************************)
EXTENDS Integers, Sequences, FiniteSets, FiniteSetsExt

CONSTANTS Kind, Pooled,
          MinWorkers, MaxWorkers,  \* minSlots and maxSlots of the project
          MaxDemand,    \* bound: ready tasks of a kind
          MaxCreated    \* bound: slots ever created

ASSUME FleetAssumption ==
  /\ IsFiniteSet(Kind) /\ Pooled \subseteq Kind /\ MinWorkers <= MaxWorkers
  /\ {MinWorkers, MaxWorkers, MaxDemand, MaxCreated} \subseteq Nat

VARIABLES fleet,   \* the project's agent_slots, oldest first
          demand,  \* ready tasks per kind: not terminal, their dependencies terminal
          open     \* the project is active

fleetVars == <<fleet, demand, open>>

Ordinal == 1..(MaxCreated + 1)
FleetRow == [role : Kind \X Ordinal, desired : {"active", "suspended", "retired"},
             status : {"working", "suspended", "retired"}, page : BOOLEAN, quiet : BOOLEAN]

FleetTypeOK ==
  /\ fleet \in Seq(FleetRow) /\ Len(fleet) <= MaxCreated
  /\ demand \in [Kind -> 0..MaxDemand] /\ open \in BOOLEAN

InitFleet == fleet = <<>> /\ demand = [k \in Kind |-> 0] /\ open = TRUE

Ids == DOMAIN fleet
Affinity(role) == IF role[1] \in Pooled THEN <<role[1], 0>> ELSE role
AskedAffinity(k) == Affinity(<<k, 1>>)
Active(F) == {s \in DOMAIN F : F[s].desired = "active" /\ F[s].status /= "retired"}
ActiveFor(F, k) == {s \in Active(F) : Affinity(F[s].role) = AskedAffinity(k)}
Required(k) == IF open THEN demand[k] ELSE 0
Target == IF open THEN MinWorkers ELSE 0
----------------------------------------------------------------------------
(* planElasticFleet: first the slots to suspend.                            *)
Eligible == {s \in Active(fleet) : fleet[s].page /\ fleet[s].quiet}

RequiredOf(s) ==
  LET K == {k \in Kind : AskedAffinity(k) = Affinity(fleet[s].role)} IN
  IF K = {} THEN 0 ELSE Required(CHOOSE k \in K : TRUE)

Alike(s) == {t \in Active(fleet) : Affinity(fleet[t].role) = Affinity(fleet[s].role)}

(* Slip: the counts are not kept up to date within the loop.                *)
SparedOneByOne(S) ==
  /\ S = {} \/ Cardinality(Active(fleet)) > Target
  /\ \A s \in S : Cardinality(Alike(s)) > RequiredOf(s)

(* The loop takes eligible slots while more are active than the target and  *)
(* more of the affinity than its work requires, so what it took in all is   *)
(* a largest set of this kind.                                              *)
Spared(S) ==
  /\ Cardinality(Active(fleet)) - Cardinality(S) >= Target
  /\ \A s \in S : Cardinality(Alike(s) \ S) >= RequiredOf(s)

Suspensions == IF Cardinality(Active(fleet)) <= Target THEN {{}}
               ELSE {S \in SUBSET Eligible :
                      Spared(S) /\ \A s \in Eligible \ S : ~Spared(S \cup {s})}

(* Then, in an active project, how far each kind grows within maxSlots.     *)
Missing(S, k) ==
  LET have == Cardinality(ActiveFor(fleet, k) \ S) IN
  IF have < Required(k) THEN Required(k) - have ELSE 0

(* Slip: the slots just planned for suspension still take up room.          *)
RoomBefore(S) == MaxWorkers - Cardinality(Active(fleet))

Room(S) == MaxWorkers - Cardinality(Active(fleet) \ S)

Growths(S) ==
  LET room == Room(S)
      wanted == MapThenSumSet(LAMBDA k : Missing(S, k), Kind)
  IN IF ~open \/ room <= 0 THEN {[k \in Kind |-> 0]}
     ELSE {g \in [Kind -> 0..MaxDemand] :
            /\ \A k \in Kind : g[k] <= Missing(S, k)
            /\ MapThenSumSet(LAMBDA k : g[k], Kind) = IF wanted < room THEN wanted ELSE room}

(* A kind grows by its suspended slots first, which have stopped already,   *)
Reusable(k) == {s \in Ids : /\ fleet[s].desired = "suspended" /\ fleet[s].status = "suspended"
                            /\ Affinity(fleet[s].role) = AskedAffinity(k)}

Resumptions(g) ==
  {R \in SUBSET UNION {Reusable(k) : k \in Kind} :
     \A k \in Kind : LET n == Cardinality(Reusable(k)) IN
       Cardinality(R \cap Reusable(k)) = IF n < g[k] THEN n ELSE g[k]}

(* Slip: only the active slots' labels are taken.                           *)
OccupiedActive(k) == {fleet[s].role[2] : s \in {t \in Active(fleet) : fleet[t].role[1] = k}}

(* and then by new ones under the lowest free labels (stableRoleLabel).     *)
Occupied(k) == {fleet[s].role[2] : s \in {t \in Ids : /\ fleet[t].role[1] = k
                                                      /\ fleet[t].status /= "retired"}}
Labels(k, n) ==
  LET free == Ordinal \ Occupied(k) IN
  {o \in free : Cardinality({p \in free : p <= o}) <= n}

NewRoles(g, R) == UNION {{<<k, o>> : o \in Labels(k, g[k] - Cardinality(R \cap Reusable(k)))} : k \in Kind}

Newcomer(role) == [role |-> role, desired |-> "active", status |-> "working",
                   page |-> FALSE, quiet |-> FALSE]
----------------------------------------------------------------------------
(* suspendAgentSlot and resumeAgentSlot                                     *)
Suspended(row) == [row EXCEPT !.desired = "suspended",
                              !.status = IF row.page THEN @ ELSE "suspended"]
Resumed(row) == [row EXCEPT !.desired = "active", !.status = "working"]

(* reconcileElasticFleet                                                    *)
Reconcile ==
  /\ \E S \in Suspensions :
     \E g \in Growths(S) :
     \E R \in Resumptions(g) :
     \E added \in {q \in [1..Cardinality(NewRoles(g, R)) -> NewRoles(g, R)] :
                     \A i, j \in DOMAIN q : q[i] = q[j] => i = j} :
       /\ Len(fleet) + Len(added) <= MaxCreated
       /\ fleet' = [s \in Ids |-> IF s \in S THEN Suspended(fleet[s])
                                  ELSE IF s \in R THEN Resumed(fleet[s]) ELSE fleet[s]]
                   \o [i \in DOMAIN added |-> Newcomer(added[i])]
  /\ UNCHANGED <<demand, open>>

(* What the operator, the extension and the work document do meanwhile.     *)
SetProject == open' = ~open /\ UNCHANGED <<fleet, demand>>
WorkChanges(k, n) ==
  /\ demand[k] /= n /\ demand' = [demand EXCEPT ![k] = n] /\ UNCHANGED <<fleet, open>>

SetRow(s, row) == fleet' = [fleet EXCEPT ![s] = row] /\ UNCHANGED <<demand, open>>

PageOpens(s) == ~fleet[s].page /\ s \in Active(fleet) /\ SetRow(s, [fleet[s] EXCEPT !.page = TRUE])
PageCloses(s) ==
  /\ fleet[s].page
  /\ SetRow(s, [fleet[s] EXCEPT !.page = FALSE, !.quiet = FALSE,
                  !.status = IF fleet[s].desired = "active" THEN @ ELSE fleet[s].desired])
Settles(s) == fleet[s].page /\ ~fleet[s].quiet /\ SetRow(s, [fleet[s] EXCEPT !.quiet = TRUE])
Works(s) == fleet[s].quiet /\ SetRow(s, [fleet[s] EXCEPT !.quiet = FALSE])

FleetNext ==
  \/ Reconcile
  \/ SetProject
  \/ \E k \in Kind, n \in 0..MaxDemand : WorkChanges(k, n)
  \/ \E s \in Ids : PageOpens(s)
  \/ \E s \in Ids : PageCloses(s)
  \/ \E s \in Ids : Settles(s)
  \/ \E s \in Ids : Works(s)

FleetSpec == InitFleet /\ [][FleetNext]_fleetVars
----------------------------------------------------------------------------
Smaller(x, y) == IF x < y THEN x ELSE y

(* Scaling down never takes a worker that ready work asks for, nor the      *)
(* project below the slots it is to keep, however many idle slots there     *)
(* are and whichever go first (elasticFleet.test.ts:42 and :28).            *)
PassKeepsWorkers ==
  fleet' /= fleet /\ Reconcile =>
    /\ \A k \in Kind : Cardinality(ActiveFor(fleet', k)) >=
         Smaller(Cardinality(ActiveFor(fleet, k)), Required(k))
    /\ Cardinality(Active(fleet')) >= Smaller(Cardinality(Active(fleet)), Target)
WorkersAreKept == [][PassKeepsWorkers]_fleetVars

(* After a pass the pooled roles have what their work asks for, or the      *)
(* project has all the slots it may have; and it never has more.            *)
PassServesDemand ==
  Reconcile =>
    /\ Cardinality(Active(fleet')) <= MaxWorkers
    /\ open => \/ Cardinality(Active(fleet')) = MaxWorkers
               \/ \A k \in Pooled : Cardinality(ActiveFor(fleet', k)) >= Required(k)

(* No two slots go by the same role, whichever of them are suspended, on    *)
(* their way out or on their way back when a pass hands out labels.         *)
RolesAreDistinct ==
  \A s, t \in Ids : fleet[s].role = fleet[t].role => s = t

(* The slots are as typed, and their roles distinct.                        *)
FleetIsSound == FleetTypeOK /\ RolesAreDistinct

(* elasticFleet.test.ts:90: "spawns a stable pooled role only when no       *)
(* reusable compatible slot exists": a second pass over the same work has   *)
(* nothing to spawn.  It has, for a role without a class: the label it was  *)
(* given is another affinity, so the work stays unserved.                   *)
SecondPassSpawnsNothing ==
  [][Reconcile /\ open => \/ Cardinality(Active(fleet')) >= MaxWorkers
                          \/ \A k \in Kind : Cardinality(ActiveFor(fleet', k)) >= Required(k)]_fleetVars
============================================================================
