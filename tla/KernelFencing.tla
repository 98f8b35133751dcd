--------------------------- MODULE KernelFencing ---------------------------
(***************************************************************************)
(* The authority core of the GAM Kernel (control/src/controlPlane.ts): the *)
(* lifecycle of AgentSlots, leases with fencing epochs on resources, the   *)
(* capability grants minted under a lease, and the claims they admit.      *)
(*                                                                         *)
(* The Kernel is one process that runs each RPC handler in one SQLite      *)
(* transaction, so an action of this module is one handler.  A handler     *)
(* that throws is rolled back: it is no step at all.  Callers (operators,  *)
(* workers, the browser extension) are the environment and may issue any   *)
(* call in any order; what a delayed or repeated call can do is what a     *)
(* late step can do.  The wall clock (Date.now()) may jump either way.     *)
(*                                                                         *)
(* Left to other modules: conversation keys (a slot is "ready" whether it  *)
(* is idle or assigned), browser operations, task documents.  A call that  *)
(* they make fail is a call that does not happen here.                     *)
(*                                                                         *)
(* A definition whose comment begins with "Slip" is a mistake the code     *)
(* could have made, kept next to the definition it stands in for: with it, *)
(* one of the properties below fails.                                      *)
(***************************************************************************)
EXTENDS Naturals, FiniteSets

CONSTANTS
  Project,          \* ProjectCells
  Slot,             \* ids available to AgentSlots
  Role,             \* agent roles
  Outsider,         \* lease holders that are no slot's id (an operator, a tool)
  Task,             \* task ids
  WorkResource,     \* declared resources of kind other than browser-capacity
  ResourceProject,  \* the project a work resource belongs to, or Null
  Tab,              \* tab ids; tab t is the resource browser-tab:gam-default:t (every
                    \* caller under src/src reports the profile gam-default)
  LeaseId, CapId,   \* ids available to leases and to capabilities
  MinSlots, MaxSlots,
  MaxTime,          \* bound on the clock
  Ttl,              \* the ttlMs values callers use
  Stamp,            \* the observedAt values browser reports carry
  Moves,            \* the project statuses operators ask for
  Null

Resource == WorkResource \cup Tab
Subject  == Slot \cup Outsider
Time     == 1 .. MaxTime
NoExpiry == 0       \* leases.expires_at IS NULL

ASSUME CapacityAssumption == MinSlots \in Nat /\ MaxSlots \in Nat /\ MinSlots <= MaxSlots
ASSUME TimeAssumption ==
  /\ MaxTime \in Nat \ {0} /\ Ttl \subseteq Nat \ {0} /\ Stamp \subseteq Nat
ASSUME MovesAssumption == Moves \subseteq {"active", "draining", "paused", "archived"}
ASSUME ResourceAssumption ==
  /\ WorkResource \cap Tab = {}
  /\ ResourceProject \in [WorkResource -> Project \cup {Null}]
ASSUME NullAssumption ==
  Null \notin Project \cup Slot \cup Role \cup Outsider \cup Task \cup Resource \cup LeaseId
ASSUME SubjectAssumption == Slot \cap Outsider = {}

VARIABLES
  project,   \* projects.status
  slot,      \* agent_slots rows; status "none" before createAgentSlot
  resEpoch,  \* resources.lease_epoch
  lease,     \* leases rows; status "none" before the row is inserted
  cap,       \* capabilities rows; status "none" before the row is inserted
  claim,     \* claims rows
  clock      \* Date.now()

vars == <<project, slot, resEpoch, lease, cap, claim, clock>>

-----------------------------------------------------------------------------
(* Rows *)

ProjectStatus == {"active", "draining", "paused", "archived"}
SlotRow == [ project: Project \cup {Null}, role: Role \cup {Null},
             desired: {"active", "suspended", "retired"},
             status: {"none", "ready", "suspended", "retired"},
             browser: {"absent", "live", "closing"},
             tab: Tab \cup {Null}, tabLease: LeaseId \cup {Null}, seen: Nat ]
LeaseRow == [ status: {"none", "active", "released", "expired"},
              resource: Resource \cup {Null}, project: Project \cup {Null},
              holder: Subject \cup {Null}, task: Task \cup {Null},
              mode: {"shared", "exclusive"}, epoch: Nat, expires: Nat ]
CapRow == [ status: {"none", "live", "revoked"}, subject: Subject \cup {Null},
            agent: Slot \cup {Null}, project: Project \cup {Null},
            write: BOOLEAN, task: Task \cup {Null}, resource: Resource \cup {Null},
            epoch: Nat, expires: Nat ]
ClaimRow == [ project: Project, subject: Subject, task: Task,
              resource: Resource, lease: LeaseId, epoch: Nat ]

NoSlot  == [ project |-> Null, role |-> Null, desired |-> "active", status |-> "none",
             browser |-> "absent", tab |-> Null, tabLease |-> Null, seen |-> 0 ]
NoLease == [ status |-> "none", resource |-> Null, project |-> Null, holder |-> Null,
             task |-> Null, mode |-> "shared", epoch |-> 0, expires |-> NoExpiry ]
NoCap   == [ status |-> "none", subject |-> Null, agent |-> Null, project |-> Null,
             write |-> FALSE, task |-> Null, resource |-> Null, epoch |-> 0, expires |-> 0 ]

TypeOK ==
  /\ project  \in [Project -> ProjectStatus]
  /\ slot     \in [Slot -> SlotRow]
  /\ resEpoch \in [Resource -> Nat]
  /\ lease    \in [LeaseId -> LeaseRow]
  /\ cap      \in [CapId -> CapRow]
  /\ claim    \subseteq ClaimRow
  /\ clock    \in Nat

Init ==
  /\ project  = [p \in Project |-> "active"]
  /\ slot     = [s \in Slot |-> NoSlot]
  /\ resEpoch = [r \in Resource |-> 0]
  /\ lease    = [i \in LeaseId |-> NoLease]
  /\ cap      = [c \in CapId |-> NoCap]
  /\ claim    = {}
  /\ clock    = 1

-----------------------------------------------------------------------------
(* Helpers the handlers share *)

Exists(s) == slot[s].status # "none"

\* desired_state='active' AND status<>'retired'
Enrolled(s) == slot[s].desired = "active" /\ slot[s].status \notin {"none", "retired"}

Workforce(p) == {s \in Slot : slot[s].project = p /\ Enrolled(s)}

\* A stop that has been carried through: the browser is gone and status caught up.
Stopped(s) == slot[s].status \in {"suspended", "retired"}

FreshLeases == {i \in LeaseId : lease[i].status = "none"}
FreshCaps   == {c \in CapId : cap[c].status = "none"}

Lapsed(row) == row.status = "active" /\ row.expires # NoExpiry /\ row.expires <= clock

\* Slip: a lease still counts at the instant it expires.
ExpiredLate(rows, r) ==
  [i \in LeaseId |-> IF rows[i].resource = r /\ Lapsed(rows[i]) /\ rows[i].expires < clock
                     THEN [rows[i] EXCEPT !.status = "expired"] ELSE rows[i]]

\* expireResourceLeases(resourceId, now)
Expired(rows, r) ==
  [i \in LeaseId |-> IF rows[i].resource = r /\ Lapsed(rows[i])
                     THEN [rows[i] EXCEPT !.status = "expired"] ELSE rows[i]]

ActiveOn(rows, r) == {i \in LeaseId : rows[i].status = "active" /\ rows[i].resource = r}

\* Slip: an exclusive request looks only for other exclusive leases.
ConflictWithExclusive(rows, r, mode) == \E i \in ActiveOn(rows, r) : rows[i].mode = "exclusive"

Conflict(rows, r, mode) ==
  \E i \in ActiveOn(rows, r) : mode = "exclusive" \/ rows[i].mode = "exclusive"

\* The row a grant inserts, under the epoch the resource's counter moves to.
NewLease(r, p, holder, task, mode, expires) ==
  [ status |-> "active", resource |-> r, project |-> p, holder |-> holder, task |-> task,
    mode |-> mode, epoch |-> resEpoch[r] + 1, expires |-> expires ]

\* Slip: the status word of a capability on a lease.
ReleaseAsRevoked(rows, i) == [rows EXCEPT ![i].status = "revoked"]

Release(rows, i) == [rows EXCEPT ![i].status = "released"]

\* fenceAgentAuthority(slotId, projectId, now): its two UPDATE statements
FencedLeases(rows, s) ==
  [i \in LeaseId |-> IF /\ rows[i].status = "active" /\ rows[i].holder = s
                        /\ rows[i].project = slot[s].project
                     THEN [rows[i] EXCEPT !.status = "released"] ELSE rows[i]]

\* Slip: only grants bound to the slot by agentSlotId are revoked.
FencedCapsByAgent(s) ==
  [c \in CapId |-> IF cap[c].status = "live" /\ cap[c].project = slot[s].project /\ cap[c].agent = s
                   THEN [cap[c] EXCEPT !.status = "revoked"] ELSE cap[c]]

FencedCaps(s) ==
  [c \in CapId |-> IF /\ cap[c].status = "live" /\ cap[c].project = slot[s].project
                      /\ cap[c].agent = s \/ (cap[c].agent = Null /\ cap[c].subject = s)
                   THEN [cap[c] EXCEPT !.status = "revoked"] ELSE cap[c]]

-----------------------------------------------------------------------------
(* Projects and slots *)

ProjectTransitions ==
  [ active   |-> {"draining", "paused", "archived"},
    draining |-> {"active", "paused", "archived"},
    paused   |-> {"active", "archived"},
    archived |-> {} ]

SetProjectStatus(p, status) ==
  /\ status \in ProjectTransitions[project[p]]
  /\ project' = [project EXCEPT ![p] = status]
  /\ UNCHANGED <<slot, resEpoch, lease, cap, claim, clock>>

CreateAgentSlot(s, p, role) ==
  /\ ~Exists(s)
  /\ project[p] = "active"
  /\ Cardinality(Workforce(p)) < MaxSlots
  /\ \A other \in Workforce(p) : slot[other].role # role
  /\ slot' = [slot EXCEPT ![s] = [NoSlot EXCEPT !.project = p, !.role = role, !.status = "ready"]]
  /\ UNCHANGED <<project, resEpoch, lease, cap, claim, clock>>

\* Slip: the stop always waits for a browser report.
StopSlotLater(s, target) ==
  slot' = [slot EXCEPT ![s].desired = target] /\ UNCHANGED <<lease, cap>>

\* What suspendAgentSlot and retireAgentSlot share: with no browser the stop is
\* final and the slot is fenced at once, otherwise it only drains.
StopSlot(s, target) ==
  \/ /\ slot[s].browser = "absent"
     /\ slot' = [slot EXCEPT ![s].desired = target, ![s].status = target]
     /\ lease' = FencedLeases(lease, s)
     /\ cap' = FencedCaps(s)
  \/ /\ slot[s].browser # "absent"
     /\ slot' = [slot EXCEPT ![s].desired = target]
     /\ UNCHANGED <<lease, cap>>

\* Slip: the floor is compared before the slot is counted out.
SuspendAgentSlotAtFloor(s) ==
  /\ Exists(s)
  /\ slot[s].desired = "active" /\ slot[s].status # "retired"
  /\ project[slot[s].project] = "active" => Cardinality(Workforce(slot[s].project)) >= MinSlots
  /\ StopSlot(s, "suspended")
  /\ UNCHANGED <<project, resEpoch, claim, clock>>

SuspendAgentSlot(s) ==
  /\ Exists(s)
  /\ slot[s].desired = "active" /\ slot[s].status # "retired"
  /\ project[slot[s].project] = "active" => Cardinality(Workforce(slot[s].project)) > MinSlots
  /\ StopSlot(s, "suspended")
  /\ UNCHANGED <<project, resEpoch, claim, clock>>

RetireAgentSlot(s) ==
  /\ Exists(s)
  /\ ~(slot[s].desired = "retired" /\ slot[s].status = "retired")
  /\ (slot[s].desired = "active" /\ project[slot[s].project] = "active")
       => Cardinality(Workforce(slot[s].project)) > MinSlots
  /\ StopSlot(s, "retired")
  /\ UNCHANGED <<project, resEpoch, claim, clock>>

\* Slip: maxSlots is enforced where slots are created only.
ResumeAgentSlotUncounted(s) ==
  /\ Exists(s)
  /\ slot[s].desired = "suspended" /\ slot[s].status # "retired"
  /\ project[slot[s].project] = "active"
  /\ slot' = [slot EXCEPT ![s].desired = "active", ![s].status = "ready"]
  /\ UNCHANGED <<project, resEpoch, lease, cap, claim, clock>>

ResumeAgentSlot(s) ==
  /\ Exists(s)
  /\ slot[s].desired = "suspended" /\ slot[s].status # "retired"
  /\ project[slot[s].project] = "active"
  /\ Cardinality(Workforce(slot[s].project)) < MaxSlots
  /\ slot' = [slot EXCEPT ![s].desired = "active", ![s].status = "ready"]
  /\ UNCHANGED <<project, resEpoch, lease, cap, claim, clock>>

\* Slip: a closing browser is taken for one that has no tab any more.
VacatedIfLive(s) ==
  IF slot[s].tabLease # Null /\ slot[s].browser = "live" /\ lease[slot[s].tabLease].status = "active"
  THEN Release(lease, slot[s].tabLease) ELSE lease

\* releaseOccupancy: by the lease id the slot remembers, if that row is still active
Vacated(s) ==
  IF slot[s].tabLease # Null /\ lease[slot[s].tabLease].status = "active"
  THEN Release(lease, slot[s].tabLease) ELSE lease

\* reportAgentBrowser with browserState "absent": the tab is given up and a
\* pending stop becomes final.
ReportBrowserAbsent(s, at) ==
  LET stopping == slot[s].desired # "active" /\ slot[s].status # slot[s].desired
      row == [slot[s] EXCEPT !.browser = "absent", !.tab = Null, !.tabLease = Null, !.seen = at,
                !.status = IF slot[s].desired = "active" THEN "ready"
                           ELSE IF stopping THEN slot[s].desired ELSE @]
  IN /\ Exists(s) /\ at >= slot[s].seen
     /\ slot' = [slot EXCEPT ![s] = row]
     /\ lease' = IF stopping THEN FencedLeases(Vacated(s), s) ELSE Vacated(s)
     /\ cap' = IF stopping THEN FencedCaps(s) ELSE cap
     /\ UNCHANGED <<project, resEpoch, claim, clock>>

\* reportAgentBrowser otherwise: "live" is opening/open, "closing" is closing/error.
\* A report without a tab keeps the tab the slot has.  The tab's occupancy lease is
\* found (ensureOccupancy does not look at its expiry) or granted to this slot.
ReportBrowserPresent(s, browser, reported, at) ==
  LET tab   == IF reported # Null THEN reported ELSE slot[s].tab
      moved == tab # Null /\ slot[s].tab # Null /\ slot[s].tab # tab
      rows  == IF moved THEN Vacated(s) ELSE lease
      Seen(tabLease) ==
        [slot EXCEPT ![s] =
          [slot[s] EXCEPT !.browser = browser, !.tab = tab, !.tabLease = tabLease, !.seen = at,
                          !.status = IF slot[s].desired = "active" THEN "ready" ELSE @]]
  IN /\ Exists(s) /\ at >= slot[s].seen
     /\ browser = "live" => slot[s].desired = "active" /\ tab # Null
     /\ \/ /\ tab = Null
           /\ slot' = Seen(slot[s].tabLease)
           /\ UNCHANGED <<lease, resEpoch>>
        \/ /\ tab # Null
           /\ \E i \in ActiveOn(rows, tab) : rows[i].holder = s /\ slot' = Seen(i)
           /\ lease' = rows
           /\ UNCHANGED resEpoch
        \/ /\ tab # Null /\ ActiveOn(rows, tab) = {} /\ FreshLeases # {}
           /\ LET i == CHOOSE i \in FreshLeases : TRUE
              IN /\ slot' = Seen(i)
                 /\ lease' = [rows EXCEPT ![i] =
                      NewLease(tab, slot[s].project, s, Null, "exclusive", NoExpiry)]
           /\ resEpoch' = [resEpoch EXCEPT ![tab] = @ + 1]
     /\ UNCHANGED <<project, cap, claim, clock>>

-----------------------------------------------------------------------------
(* Leases *)

\* A holder that is a slot of this project must be enrolled; any other holder id
\* is taken as it is.  (Slot ids are fresh UUIDs: nobody names one before it exists.)
MayHold(h, p) == h \in Slot => Exists(h) /\ (slot[h].project = p => Enrolled(h))

BelongsTo(r, p) == r \in WorkResource => ResourceProject[r] \in {p, Null}

AcquireLease(r, p, h, task, mode, ttl) ==
  LET rows == Expired(lease, r)
      i    == CHOOSE i \in FreshLeases : TRUE
  IN /\ project[p] = "active"
     /\ BelongsTo(r, p) /\ MayHold(h, p)
     /\ ~Conflict(rows, r, mode)
     /\ FreshLeases # {}
     /\ resEpoch' = [resEpoch EXCEPT ![r] = @ + 1]
     /\ lease' = [rows EXCEPT ![i] =
          NewLease(r, p, h, task, mode, IF ttl = NoExpiry THEN NoExpiry ELSE clock + ttl)]
     /\ UNCHANGED <<project, slot, cap, claim, clock>>

\* The caller presents the lease's epoch; a wrong one is refused.
RenewLease(i, epoch, ttl) ==
  LET rows == Expired(lease, lease[i].resource)
  IN /\ rows[i].status = "active"
     /\ rows[i].epoch = epoch
     /\ project[rows[i].project] \in {"active", "draining"}
     /\ lease' = [rows EXCEPT ![i].expires = clock + ttl]
     /\ UNCHANGED <<project, slot, resEpoch, cap, claim, clock>>

ReleaseLease(i, epoch) ==
  LET rows == Expired(lease, lease[i].resource)
  IN /\ rows[i].status = "active"
     /\ rows[i].epoch = epoch
     /\ lease' = Release(rows, i)
     /\ UNCHANGED <<project, slot, resEpoch, cap, claim, clock>>

-----------------------------------------------------------------------------
(* Capabilities and claims *)

\* A write grant (claim:submit, artifact:register, change:*) must name the epoch
\* of an active, unlapsed lease its subject holds for that task.
IssueCapability(subject, agent, p, write, task, r, epoch, ttl) ==
  /\ subject \in Slot => Exists(subject)
  /\ agent # Null => /\ slot[agent].project = p /\ Enrolled(agent)
                     /\ subject = agent
  /\ BelongsTo(r, p)
  /\ write => \E i \in LeaseId :
       /\ lease[i].status = "active" /\ ~Lapsed(lease[i])
       /\ lease[i].resource = r /\ lease[i].project = p /\ lease[i].holder = subject
       /\ task # Null /\ lease[i].task = task /\ lease[i].epoch = epoch
  /\ FreshCaps # {}
  /\ cap' = [cap EXCEPT ![CHOOSE c \in FreshCaps : TRUE] =
       [status |-> "live", subject |-> subject, agent |-> agent, project |-> p, write |-> write,
        task |-> task, resource |-> r, epoch |-> epoch, expires |-> clock + ttl]]
  /\ UNCHANGED <<project, slot, resEpoch, lease, claim, clock>>

RevokeCapability(c) ==
  /\ cap[c].status = "live"
  /\ cap' = [cap EXCEPT ![c].status = "revoked"]
  /\ UNCHANGED <<project, slot, resEpoch, lease, claim, clock>>

\* verifyCapability: neither the lease nor the slot is looked at again
Verifies(c) == cap[c].status = "live" /\ cap[c].expires > clock /\ cap[c].write

\* Slip: the lease found by its epoch need not be active any more.
AdmitsEnded(row, g) ==
  /\ row.resource = g.resource /\ row.project = g.project /\ row.epoch = g.epoch
  /\ row.holder = g.subject /\ row.task = g.task

\* submitClaim's lease: looked up by resource, project and epoch, then compared.
Admits(row, g) ==
  /\ row.resource = g.resource /\ row.project = g.project /\ row.epoch = g.epoch
  /\ row.status = "active"
  /\ row.holder = g.subject /\ row.task = g.task

\* claim.submit with token c.  The RPC layer makes project, subject, task,
\* resource and epoch those of the grant; submitClaim looks the lease up by epoch.
SubmitClaim(c) ==
  LET g    == cap[c]
      rows == Expired(lease, g.resource)
  IN /\ Verifies(c)
     /\ project[g.project] \in {"active", "draining"}
     /\ \E i \in LeaseId :
          /\ Admits(rows[i], g)
          /\ claim' = claim \cup {[project |-> g.project, subject |-> g.subject, task |-> g.task,
                                   resource |-> g.resource, lease |-> i, epoch |-> g.epoch]}
     /\ lease' = rows
     /\ UNCHANGED <<project, slot, resEpoch, cap, clock>>

-----------------------------------------------------------------------------
ClockMoves ==
  /\ clock' \in Time
  /\ UNCHANGED <<project, slot, resEpoch, lease, cap, claim>>

ProjectStep == \E p \in Project, status \in Moves : SetProjectStatus(p, status)
SlotStep ==
  \E s \in Slot :
    \/ \E p \in Project, role \in Role : CreateAgentSlot(s, p, role)
    \/ SuspendAgentSlot(s) \/ RetireAgentSlot(s) \/ ResumeAgentSlot(s)
BrowserStep ==
  \E s \in Slot, at \in Stamp :
    \/ ReportBrowserAbsent(s, at)
    \/ \E browser \in {"live", "closing"}, tab \in Tab \cup {Null} :
         ReportBrowserPresent(s, browser, tab, at)
LeaseStep ==
  \/ \E r \in WorkResource, p \in Project, h \in Subject, task \in Task \cup {Null},
        mode \in {"shared", "exclusive"}, ttl \in Ttl \cup {NoExpiry} :
       AcquireLease(r, p, h, task, mode, ttl)
  \/ \E i \in LeaseId : \/ \E ttl \in Ttl : RenewLease(i, lease[i].epoch, ttl)
                        \/ ReleaseLease(i, lease[i].epoch)
GrantStep ==
  \/ \E subject \in Subject, p \in Project, agent \in Slot \cup {Null}, write \in BOOLEAN,
        task \in Task, r \in WorkResource, ttl \in Ttl : \E epoch \in 1 .. resEpoch[r] :
       IssueCapability(subject, agent, p, write, task, r, epoch, ttl)
  \/ \E c \in CapId : RevokeCapability(c) \/ SubmitClaim(c)

Next == ProjectStep \/ SlotStep \/ BrowserStep \/ LeaseStep \/ GrantStep \/ ClockMoves

Spec == Init /\ [][Next]_vars

-----------------------------------------------------------------------------
(* Properties *)

\* Two active leases on one resource are both shared: no interleaving of acquire,
\* renew, expiry, fencing and occupancy grants leaves an exclusive holder with company.
MutualExclusion ==
  \A i, j \in LeaseId :
    /\ i # j /\ lease[i].resource = lease[j].resource
    /\ lease[i].status = "active" /\ lease[j].status = "active"
    => lease[i].mode = "shared" /\ lease[j].mode = "shared"

\* No epoch of a resource is ever granted twice, and none runs ahead of the
\* resource's counter: (resource, epoch) identifies a lease, which is what
\* submitClaim's lookup by epoch relies on (leases has no UNIQUE index on it).
EpochIdentifiesLease ==
  \A i \in LeaseId : lease[i].status # "none" =>
    /\ lease[i].epoch \in 1 .. resEpoch[lease[i].resource]
    /\ \A j \in LeaseId : (/\ lease[j].status # "none"
                            /\ lease[j].resource = lease[i].resource
                            /\ lease[j].epoch = lease[i].epoch) => i = j

\* A slot whose stop was carried through holds no active lease on a work resource
\* and no live write grant in its project, bound to it by agentSlotId or only by
\* subject, and no live grant bound to it at all - whatever calls arrive afterwards.
StoppedSlotHasNoAuthority ==
  \A s \in Slot : Stopped(s) =>
    /\ \A i \in LeaseId : (lease[i].status = "active" /\ lease[i].resource \in WorkResource
                            /\ lease[i].holder = s) => lease[i].project # slot[s].project
    /\ \A c \in CapId : (cap[c].status = "live" /\ cap[c].project = slot[s].project)
          => cap[c].agent # s /\ ~(cap[c].write /\ cap[c].subject = s)

\* A slot that is to stop and has no browser has stopped: neither order of the stop
\* call and the last browser report leaves a drain nobody will finish.
NoOrphanedDrain ==
  \A s \in Slot : (Exists(s) /\ slot[s].browser = "absent" /\ slot[s].desired # "active")
                    => slot[s].status = slot[s].desired

\* Concurrent creates and resumes never take a project past maxSlots.
WithinCapacity == \A p \in Project : Cardinality(Workforce(p)) <= MaxSlots

\* Every active occupancy lease of a tab is the one its holder remembers, for the
\* tab the holder is at: a slot that moves, closes or stops leaks no tab.
NoLeakedTab ==
  \A i \in LeaseId :
    (lease[i].status = "active" /\ lease[i].resource \in Tab) =>
      \E s \in Slot : /\ lease[i].holder = s /\ slot[s].tabLease = i
                      /\ slot[s].tab = lease[i].resource /\ slot[s].browser # "absent"

\* Slots, their pages and their projects stay consistent whatever order calls and reports come in.
SlotsAreSound == WithinCapacity /\ NoLeakedTab /\ NoOrphanedDrain

\* The fencing guarantee: a claim accepted in this step was made under an epoch
\* that no conflicting lease of the same resource has overtaken.
ClaimsAreFenced ==
  [][ \A c \in claim' \ claim : \A j \in LeaseId :
        (lease'[j].status # "none" /\ lease'[j].resource = c.resource /\ lease'[j].epoch > c.epoch)
          => lease'[j].mode = "shared" /\ lease'[c.lease].mode = "shared" ]_vars

\* A lease past its expiry is never given a new one, even when nothing has swept it
\* yet and its row still says active.
LapsedLeaseIsNotExtended ==
  [][ \A i \in LeaseId : Lapsed(lease[i]) =>
        lease'[i].expires = lease[i].expires ]_vars

\* While a project is active no call takes its workforce below minSlots.
StaffingFloorHolds ==
  [][ \A p \in Project :
        (project[p] = "active" /\ Cardinality(Workforce(p)') < Cardinality(Workforce(p)))
          => Cardinality(Workforce(p)') >= MinSlots ]_vars

\* The refinement mapping onto FencingToken: the valid tokens of a resource are the
\* epochs of its active leases.
ValidTokens == [r \in Resource |-> {<<lease[i].epoch, lease[i].mode>> : i \in ActiveOn(lease, r)}]
AcceptedUnder == {<<c.resource, c.epoch>> : c \in claim}

Promise == INSTANCE FencingToken
             WITH counter <- resEpoch, valid <- ValidTokens, accepted <- AcceptedUnder

\* Leases, fencing, expiry, occupancy and claims together implement fencing tokens.
ImplementsFencing == Promise!ASpec
=============================================================================
