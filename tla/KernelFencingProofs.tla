------------------------ MODULE KernelFencingProofs ------------------------
(***************************************************************************)
(* Theorems about KernelFencing and ElasticFleet for every value of their  *)
(* constants.  The order is: types, then the shape of the lease table      *)
(* (epochs identify leases, active leases are compatible), then that a     *)
(* stopped slot has no authority, then the refinement of FencingToken,     *)
(* then how projects are staffed: pages, drains and the bounds on the      *)
(* workforce; last the fleet, and what its passes leave running.           *)
(***************************************************************************)
EXTENDS KernelFencing, ElasticFleet, FiniteSetTheorems, TLAPS

USE DEF ProjectStatus, NoExpiry

(* The rows the helpers build are rows, and they change only what they say. *)

LEMMA ExpiredType ==
  ASSUME NEW rows \in [LeaseId -> LeaseRow], NEW r
  PROVE  /\ Expired(rows, r) \in [LeaseId -> LeaseRow]
         /\ \A i \in LeaseId :
              /\ Expired(rows, r)[i] = rows[i]
                 \/ /\ rows[i].status = "active" /\ rows[i].resource = r
                    /\ Expired(rows, r)[i] = [rows[i] EXCEPT !.status = "expired"]
BY DEF Expired, Lapsed, LeaseRow

LEMMA FencedLeasesType ==
  ASSUME NEW rows \in [LeaseId -> LeaseRow], NEW s \in Slot
  PROVE  /\ FencedLeases(rows, s) \in [LeaseId -> LeaseRow]
         /\ \A i \in LeaseId :
              IF rows[i].status = "active" /\ rows[i].holder = s /\ rows[i].project = slot[s].project
              THEN FencedLeases(rows, s)[i] = [rows[i] EXCEPT !.status = "released"]
              ELSE FencedLeases(rows, s)[i] = rows[i]
BY DEF FencedLeases, LeaseRow

LEMMA FreshLease ==
  ASSUME FreshLeases # {}
  PROVE  /\ (CHOOSE i \in FreshLeases : TRUE) \in LeaseId
         /\ lease[CHOOSE i \in FreshLeases : TRUE].status = "none"
BY DEF FreshLeases

LEMMA FencedCapsType ==
  ASSUME NEW s \in Slot, cap \in [CapId -> CapRow]
  PROVE  FencedCaps(s) \in [CapId -> CapRow]
BY DEF FencedCaps, CapRow

LEMMA VacatedType ==
  ASSUME NEW s \in Slot, lease \in [LeaseId -> LeaseRow], slot \in [Slot -> SlotRow]
  PROVE  /\ Vacated(s) \in [LeaseId -> LeaseRow]
         /\ \A i \in LeaseId :
              Vacated(s)[i] = lease[i]
              \/ /\ lease[i].status = "active" /\ i = slot[s].tabLease
                 /\ Vacated(s)[i] = [lease[i] EXCEPT !.status = "released"]
<1>1. CASE slot[s].tabLease # Null /\ lease[slot[s].tabLease].status = "active"
  <2>1. slot[s].tabLease \in LeaseId
    BY <1>1 DEF SlotRow
  <2>2. Vacated(s) = [lease EXCEPT ![slot[s].tabLease].status = "released"]
    BY <1>1 DEF Vacated, Release
  <2> QED
    BY <1>1, <2>1, <2>2 DEF LeaseRow
<1>2. CASE ~(slot[s].tabLease # Null /\ lease[slot[s].tabLease].status = "active")
  BY <1>2 DEF Vacated
<1> QED
  BY <1>1, <1>2

LEMMA NewLeaseType ==
  ASSUME resEpoch \in [Resource -> Nat], NEW r \in Resource, NEW p \in Project \cup {Null},
         NEW h \in Subject, NEW task \in Task \cup {Null},
         NEW mode \in {"shared", "exclusive"}, NEW expires \in Nat
  PROVE  NewLease(r, p, h, task, mode, expires) \in LeaseRow
<1>1. resEpoch[r] + 1 \in Nat
  OBVIOUS
<1> QED
  BY <1>1 DEF NewLease, LeaseRow

LEMMA ReleaseType ==
  ASSUME NEW rows \in [LeaseId -> LeaseRow], NEW i \in LeaseId
  PROVE  Release(rows, i) \in [LeaseId -> LeaseRow]
<1>1. [rows[i] EXCEPT !.status = "released"] \in LeaseRow
  BY DEF LeaseRow
<1>2. Release(rows, i) = [rows EXCEPT ![i] = [rows[i] EXCEPT !.status = "released"]]
  BY DEF Release
<1> QED
  BY <1>1, <1>2

\* What a slot's row becomes when its page is reported, and when the slot is created.
SeenRow(old, browser, tab, tabLease, at, status) ==
  [old EXCEPT !.browser = browser, !.tab = tab, !.tabLease = tabLease, !.seen = at, !.status = status]

LEMMA SeenRowType ==
  ASSUME NEW old \in SlotRow, NEW browser \in {"absent", "live", "closing"}, NEW tab \in Tab \cup {Null},
         NEW tabLease \in LeaseId \cup {Null}, NEW at \in Nat,
         NEW status \in {"none", "ready", "suspended", "retired"}
  PROVE  SeenRow(old, browser, tab, tabLease, at, status) \in SlotRow
BY DEF SeenRow, SlotRow

LEMMA NoSlotType == NoSlot \in SlotRow
BY DEF NoSlot, SlotRow

LEMMA NewSlotType ==
  ASSUME NEW old \in SlotRow, NEW p \in Project, NEW role \in Role
  PROVE  [old EXCEPT !.project = p, !.role = role, !.status = "ready"] \in SlotRow
BY DEF SlotRow

\* ... and when it is stopped and resumed.
LEMMA StoppedRowType ==
  ASSUME NEW old \in SlotRow, NEW target \in {"suspended", "retired"}
  PROVE  /\ [old EXCEPT !.desired = target, !.status = target] \in SlotRow
         /\ [old EXCEPT !.desired = target] \in SlotRow
BY DEF SlotRow

LEMMA ResumedRowType ==
  ASSUME NEW old \in SlotRow
  PROVE  [old EXCEPT !.desired = "active", !.status = "ready"] \in SlotRow
BY DEF SlotRow

LEMMA StopSlotRows ==
  ASSUME NEW s \in Slot, slot \in [Slot -> SlotRow], NEW target, StopSlot(s, target)
  PROVE  \/ slot' = [slot EXCEPT ![s] = [slot[s] EXCEPT !.desired = target, !.status = target]]
         \/ slot' = [slot EXCEPT ![s] = [slot[s] EXCEPT !.desired = target]]
<1>1. \/ slot' = [slot EXCEPT ![s].desired = target, ![s].status = target]
      \/ slot' = [slot EXCEPT ![s].desired = target]
  BY DEF StopSlot
<1> QED
  BY <1>1 DEF SlotRow

(* One lemma per group of handlers: types are preserved. *)

LEMMA SlotStepType == TypeOK /\ SlotStep => TypeOK'
<1> SUFFICES ASSUME TypeOK, SlotStep PROVE TypeOK'
  OBVIOUS
<1>t. /\ project \in [Project -> ProjectStatus] /\ slot \in [Slot -> SlotRow]
      /\ resEpoch \in [Resource -> Nat] /\ lease \in [LeaseId -> LeaseRow]
      /\ cap \in [CapId -> CapRow] /\ claim \subseteq ClaimRow /\ clock \in Nat
  BY DEF TypeOK
<1> PICK s \in Slot : \/ \E p \in Project, role \in Role : CreateAgentSlot(s, p, role)
                      \/ SuspendAgentSlot(s) \/ RetireAgentSlot(s) \/ ResumeAgentSlot(s)
  BY DEF SlotStep
<1>1. ASSUME NEW p \in Project, NEW role \in Role, CreateAgentSlot(s, p, role)
      PROVE  TypeOK'
  <2> DEFINE row == [NoSlot EXCEPT !.project = p, !.role = role, !.status = "ready"]
  <2>1. row \in SlotRow
    BY NoSlotType, NewSlotType
  <2>2. slot' = [slot EXCEPT ![s] = row] /\ UNCHANGED <<project, resEpoch, lease, cap, claim, clock>>
    BY <1>1 DEF CreateAgentSlot
  <2> HIDE DEF row
  <2> QED
    BY <1>t, <2>1, <2>2 DEF TypeOK
<1>2. ASSUME NEW t \in {"suspended", "retired"}, StopSlot(s, t),
             UNCHANGED <<project, resEpoch, claim, clock>>
      PROVE  TypeOK'
  <2>1. FencedLeases(lease, s) \in [LeaseId -> LeaseRow]
    BY <1>t, FencedLeasesType
  <2>2. FencedCaps(s) \in [CapId -> CapRow]
    BY <1>t, FencedCapsType
  <2>3. slot' \in [Slot -> SlotRow]
    <3>1. /\ [slot[s] EXCEPT !.desired = t, !.status = t] \in SlotRow
          /\ [slot[s] EXCEPT !.desired = t] \in SlotRow
      <4>1. slot[s] \in SlotRow
        BY <1>t
      <4> QED
        BY <1>2, <4>1, StoppedRowType
    <3>2. \/ slot' = [slot EXCEPT ![s] = [slot[s] EXCEPT !.desired = t, !.status = t]]
          \/ slot' = [slot EXCEPT ![s] = [slot[s] EXCEPT !.desired = t]]
      BY <1>2, <1>t, StopSlotRows
    <3> QED
      BY <1>t, <3>1, <3>2
  <2> QED
    BY <1>2, <1>t, <2>1, <2>2, <2>3 DEF StopSlot, TypeOK
<1>3. CASE SuspendAgentSlot(s)
  BY <1>3, <1>2 DEF SuspendAgentSlot
<1>4. CASE RetireAgentSlot(s)
  BY <1>4, <1>2 DEF RetireAgentSlot
<1>5. CASE ResumeAgentSlot(s)
  <2>1. [slot[s] EXCEPT !.desired = "active", !.status = "ready"] \in SlotRow
    <3>1. slot[s] \in SlotRow
      BY <1>t
    <3> QED
      BY <3>1, ResumedRowType
  <2>2. slot' = [slot EXCEPT ![s] = [slot[s] EXCEPT !.desired = "active", !.status = "ready"]]
    BY <1>5 DEF ResumeAgentSlot
  <2> QED
    BY <1>5, <1>t, <2>1, <2>2 DEF ResumeAgentSlot, TypeOK
<1> QED
  BY <1>1, <1>3, <1>4, <1>5

LEMMA BrowserStepType == TypeOK /\ BrowserStep => TypeOK'
<1> SUFFICES ASSUME TypeOK, BrowserStep PROVE TypeOK'
  OBVIOUS
<1>t. /\ project \in [Project -> ProjectStatus] /\ slot \in [Slot -> SlotRow]
      /\ resEpoch \in [Resource -> Nat] /\ lease \in [LeaseId -> LeaseRow]
      /\ cap \in [CapId -> CapRow] /\ claim \subseteq ClaimRow /\ clock \in Nat
  BY DEF TypeOK
<1> PICK s \in Slot, at \in Stamp :
      \/ ReportBrowserAbsent(s, at)
      \/ \E browser \in {"live", "closing"}, tab \in Tab \cup {Null} :
           ReportBrowserPresent(s, browser, tab, at)
  BY DEF BrowserStep
<1>0. at \in Nat
  BY TimeAssumption
<1>1. CASE ReportBrowserAbsent(s, at)
  <2> DEFINE stopping == slot[s].desired # "active" /\ slot[s].status # slot[s].desired
             row == [slot[s] EXCEPT !.browser = "absent", !.tab = Null, !.tabLease = Null, !.seen = at,
                !.status = IF slot[s].desired = "active" THEN "ready"
                           ELSE IF stopping THEN slot[s].desired ELSE @]
             status == IF slot[s].desired = "active" THEN "ready"
                       ELSE IF stopping THEN slot[s].desired ELSE slot[s].status
  <2>a. slot[s] \in SlotRow
    BY <1>t
  <2>b. status \in {"none", "ready", "suspended", "retired"}
    BY <2>a DEF SlotRow
  <2>c. row = SeenRow(slot[s], "absent", Null, Null, at, status)
    BY DEF SeenRow
  <2>d. SeenRow(slot[s], "absent", Null, Null, at, status) \in SlotRow
    <3> HIDE DEF status
    <3> QED BY <1>0, <2>a, <2>b, SeenRowType
  <2>1. row \in SlotRow
    <3> HIDE DEF row
    <3> QED BY <2>c, <2>d
  <2>2. slot' = [slot EXCEPT ![s] = row]
    BY <1>1 DEF ReportBrowserAbsent
  <2>3. Vacated(s) \in [LeaseId -> LeaseRow]
    BY <1>t, VacatedType
  <2>4. lease' = FencedLeases(Vacated(s), s) \/ lease' = Vacated(s)
    BY <1>1 DEF ReportBrowserAbsent
  <2>5. lease' \in [LeaseId -> LeaseRow]
    BY <2>3, <2>4, FencedLeasesType
  <2>6. cap' \in [CapId -> CapRow]
    BY <1>1, <1>t, FencedCapsType DEF ReportBrowserAbsent
  <2>7. slot' \in [Slot -> SlotRow]
    <3> HIDE DEF row
    <3> QED BY <1>t, <2>1, <2>2
  <2> QED
    BY <1>1, <1>t, <2>5, <2>6, <2>7 DEF ReportBrowserAbsent, TypeOK
<1>2. ASSUME NEW browser \in {"live", "closing"}, NEW reported \in Tab \cup {Null},
             ReportBrowserPresent(s, browser, reported, at)
      PROVE  TypeOK'
  <2> DEFINE tab == IF reported # Null THEN reported ELSE slot[s].tab
             moved == tab # Null /\ slot[s].tab # Null /\ slot[s].tab # tab
             rows == IF moved THEN Vacated(s) ELSE lease
             row(tabLease) == [slot[s] EXCEPT !.browser = browser, !.tab = tab,
                                 !.tabLease = tabLease, !.seen = at,
                                 !.status = IF slot[s].desired = "active" THEN "ready" ELSE @]
             Seen(tabLease) == [slot EXCEPT ![s] = row(tabLease)]
             Granted == NewLease(tab, slot[s].project, s, Null, "exclusive", NoExpiry)
  <2>a. slot[s] \in SlotRow
    BY <1>t
  <2>1. tab \in Tab \cup {Null}
    BY <2>a DEF SlotRow
  <2>2. rows \in [LeaseId -> LeaseRow]
    <3> HIDE DEF moved
    <3> QED BY <1>t, VacatedType
  <2>3. ASSUME NEW i \in LeaseId \cup {Null} PROVE Seen(i) \in [Slot -> SlotRow]
    <3>1. row(i) \in SlotRow
      <4> DEFINE status == IF slot[s].desired = "active" THEN "ready" ELSE slot[s].status
      <4>2. status \in {"none", "ready", "suspended", "retired"}
        BY <2>a DEF SlotRow
      <4>3. row(i) = SeenRow(slot[s], browser, tab, i, at, status)
        BY DEF SeenRow
      <4>4. browser \in {"absent", "live", "closing"}
        OBVIOUS
      <4>5. SeenRow(slot[s], browser, tab, i, at, status) \in SlotRow
        <5> HIDE DEF tab, status
        <5> QED BY <1>0, <2>1, <2>a, <4>2, <4>4, SeenRowType
      <4> HIDE DEF row
      <4> QED BY <4>3, <4>5
    <3> HIDE DEF row
    <3> QED BY <1>t, <3>1
  <2>4. slot[s].tabLease \in LeaseId \cup {Null} /\ slot[s].project \in Project \cup {Null}
    BY <2>a DEF SlotRow
  <2>9. UNCHANGED <<project, cap, claim, clock>>
    BY <1>2 DEF ReportBrowserPresent
  <2>5. CASE /\ tab = Null /\ slot' = Seen(slot[s].tabLease) /\ UNCHANGED <<lease, resEpoch>>
    <3>1. slot' \in [Slot -> SlotRow]
      BY <2>3, <2>4, <2>5
    <3> QED
      BY <1>t, <3>1, <2>5, <2>9 DEF TypeOK
  <2>6. CASE /\ \E i \in ActiveOn(rows, tab) : rows[i].holder = s /\ slot' = Seen(i)
             /\ lease' = rows /\ UNCHANGED resEpoch
    <3>1. slot' \in [Slot -> SlotRow]
      <4> HIDE DEF tab, rows, row, Seen
      <4> QED BY <2>3, <2>6 DEF ActiveOn
    <3>2. lease' \in [LeaseId -> LeaseRow]
      BY <2>2, <2>6
    <3> QED
      BY <1>t, <3>1, <3>2, <2>6, <2>9 DEF TypeOK
  <2>7. CASE /\ tab # Null /\ FreshLeases # {}
             /\ \E i \in FreshLeases : slot' = Seen(i) /\ lease' = [rows EXCEPT ![i] = Granted]
             /\ resEpoch' = [resEpoch EXCEPT ![tab] = @ + 1]
    <3>1. PICK i \in LeaseId : slot' = Seen(i) /\ lease' = [rows EXCEPT ![i] = Granted]
      BY <2>7 DEF FreshLeases
    <3>2. slot' \in [Slot -> SlotRow]
      BY <2>3, <3>1
    <3>3. tab \in Resource
      BY <2>1, <2>7 DEF Resource
    <3>4. Granted \in LeaseRow
      <4> HIDE DEF tab
      <4> QED BY <1>t, <3>3, <2>4, NewLeaseType DEF Subject
    <3>5. resEpoch' \in [Resource -> Nat]
      <4> HIDE DEF tab
      <4> QED BY <1>t, <2>7, <3>3
    <3>6. lease' \in [LeaseId -> LeaseRow]
      <4> HIDE DEF Granted, rows, Seen
      <4> QED BY <3>1, <3>4, <2>2
    <3> QED
      BY <1>t, <3>2, <3>5, <3>6, <2>9 DEF TypeOK
  <2>8. \/ /\ tab = Null /\ slot' = Seen(slot[s].tabLease) /\ UNCHANGED <<lease, resEpoch>>
        \/ /\ \E i \in ActiveOn(rows, tab) : rows[i].holder = s /\ slot' = Seen(i)
           /\ lease' = rows /\ UNCHANGED resEpoch
        \/ /\ tab # Null /\ FreshLeases # {}
           /\ \E i \in FreshLeases : slot' = Seen(i) /\ lease' = [rows EXCEPT ![i] = Granted]
           /\ resEpoch' = [resEpoch EXCEPT ![tab] = @ + 1]
    BY <1>2 DEF ReportBrowserPresent
  <2> QED
    BY <2>5, <2>6, <2>7, <2>8
<1> QED
  BY <1>1, <1>2

LEMMA LeaseStepType == TypeOK /\ LeaseStep => TypeOK'
<1> SUFFICES ASSUME TypeOK, LeaseStep PROVE TypeOK'
  OBVIOUS
<1>t. /\ project \in [Project -> ProjectStatus] /\ slot \in [Slot -> SlotRow]
      /\ resEpoch \in [Resource -> Nat] /\ lease \in [LeaseId -> LeaseRow]
      /\ cap \in [CapId -> CapRow] /\ claim \subseteq ClaimRow /\ clock \in Nat
  BY DEF TypeOK
<1>1. ASSUME NEW r \in WorkResource, NEW p \in Project, NEW h \in Subject,
             NEW task \in Task \cup {Null}, NEW mode \in {"shared", "exclusive"},
             NEW ttl \in Ttl \cup {NoExpiry}, AcquireLease(r, p, h, task, mode, ttl)
      PROVE  TypeOK'
  <2> DEFINE expires == IF ttl = NoExpiry THEN NoExpiry ELSE clock + ttl
  <2>1. expires \in Nat /\ r \in Resource
    BY <1>t, TimeAssumption DEF Resource
  <2> HIDE DEF expires
  <2>2. NewLease(r, p, h, task, mode, expires) \in LeaseRow
    BY <1>t, <2>1, NewLeaseType
  <2>3. Expired(lease, r) \in [LeaseId -> LeaseRow]
    BY <1>t, ExpiredType
  <2>4. PICK i \in LeaseId :
          lease' = [Expired(lease, r) EXCEPT ![i] = NewLease(r, p, h, task, mode, expires)]
    BY <1>1, FreshLease DEF AcquireLease, expires
  <2>5. lease' \in [LeaseId -> LeaseRow]
    BY <2>2, <2>3, <2>4
  <2>6. resEpoch' = [resEpoch EXCEPT ![r] = @ + 1] /\ UNCHANGED <<project, slot, cap, claim, clock>>
    BY <1>1 DEF AcquireLease
  <2> QED
    BY <1>t, <2>1, <2>5, <2>6 DEF TypeOK
<1>2. ASSUME NEW i \in LeaseId, NEW ttl \in Ttl, RenewLease(i, lease[i].epoch, ttl)
      PROVE  TypeOK'
  <2> DEFINE rows == Expired(lease, lease[i].resource)
             expires == clock + ttl
  <2>1. rows \in [LeaseId -> LeaseRow]
    BY <1>t, ExpiredType
  <2>2. expires \in Nat
    BY <1>t, TimeAssumption
  <2>3. lease' = [rows EXCEPT ![i].expires = expires]
    BY <1>2 DEF RenewLease
  <2>4. UNCHANGED <<project, slot, resEpoch, cap, claim, clock>>
    BY <1>2 DEF RenewLease
  <2>5. [rows[i] EXCEPT !.expires = expires] \in LeaseRow
    <3>1. rows[i] \in LeaseRow
      <4> HIDE DEF rows
      <4> QED BY <2>1
    <3> HIDE DEF rows, expires
    <3> QED BY <3>1, <2>2 DEF LeaseRow
  <2>6. lease' \in [LeaseId -> LeaseRow]
    <3> HIDE DEF rows, expires
    <3>1. lease' = [rows EXCEPT ![i] = [rows[i] EXCEPT !.expires = expires]]
      BY <2>3
    <3> QED BY <2>1, <2>5, <3>1
  <2> QED
    BY <1>t, <2>4, <2>6 DEF TypeOK
<1>3. ASSUME NEW i \in LeaseId, ReleaseLease(i, lease[i].epoch)
      PROVE  TypeOK'
  <2>1. Expired(lease, lease[i].resource) \in [LeaseId -> LeaseRow]
    BY <1>t, ExpiredType
  <2>2. Release(Expired(lease, lease[i].resource), i) \in [LeaseId -> LeaseRow]
    BY <2>1, ReleaseType
  <2> QED
    BY <1>3, <1>t, <2>2 DEF ReleaseLease, TypeOK
<1> QED
  BY <1>1, <1>2, <1>3 DEF LeaseStep

(* What a row's status says of its other columns. *)
RowsAreFilled ==
  /\ \A s \in Slot : Exists(s) => slot[s].project \in Project
  /\ \A i \in LeaseId : lease[i].status # "none" => lease[i].resource \in Resource
  /\ \A c \in CapId : cap[c].status # "none" =>
       /\ cap[c].project \in Project /\ cap[c].subject \in Subject
       /\ cap[c].task \in Task /\ cap[c].resource \in Resource

LEMMA GrantStepType == TypeOK /\ RowsAreFilled /\ GrantStep => TypeOK'
<1> SUFFICES ASSUME TypeOK, RowsAreFilled, GrantStep PROVE TypeOK'
  OBVIOUS
<1> USE DEF TypeOK
<1>1. ASSUME NEW subject \in Subject, NEW p \in Project, NEW agent \in Slot \cup {Null},
             NEW write \in BOOLEAN, NEW task \in Task, NEW r \in WorkResource, NEW ttl \in Ttl,
             NEW epoch \in 1 .. resEpoch[r],
             IssueCapability(subject, agent, p, write, task, r, epoch, ttl)
      PROVE  TypeOK'
  <2> DEFINE row == [status |-> "live", subject |-> subject, agent |-> agent, project |-> p,
        write |-> write, task |-> task, resource |-> r, epoch |-> epoch, expires |-> clock + ttl]
  <2>1. epoch \in Nat /\ clock + ttl \in Nat /\ r \in Resource
    BY TimeAssumption DEF Resource
  <2>2. row \in CapRow
    BY <2>1 DEF CapRow
  <2>3. (CHOOSE c \in FreshCaps : TRUE) \in CapId
    BY <1>1 DEF IssueCapability, FreshCaps
  <2>4. cap' = [cap EXCEPT ![CHOOSE c \in FreshCaps : TRUE] = row]
        /\ UNCHANGED <<project, slot, resEpoch, lease, claim, clock>>
    BY <1>1 DEF IssueCapability
  <2> HIDE DEF row
  <2> QED
    BY <2>2, <2>3, <2>4
<1>2. ASSUME NEW c \in CapId, RevokeCapability(c)
      PROVE  TypeOK'
  <2>1. [cap EXCEPT ![c].status = "revoked"] \in [CapId -> CapRow]
    BY DEF CapRow
  <2> QED
    BY <1>2, <2>1 DEF RevokeCapability
<1>3. ASSUME NEW c \in CapId, SubmitClaim(c)
      PROVE  TypeOK'
  <2>1. lease' \in [LeaseId -> LeaseRow]
    BY <1>3, ExpiredType DEF SubmitClaim
  <2>2. PICK i \in LeaseId :
          claim' = claim \cup {[project |-> cap[c].project, subject |-> cap[c].subject,
            task |-> cap[c].task, resource |-> cap[c].resource, lease |-> i, epoch |-> cap[c].epoch]}
    BY <1>3 DEF SubmitClaim
  <2>3. /\ cap[c].project \in Project /\ cap[c].subject \in Subject /\ cap[c].task \in Task
        /\ cap[c].resource \in Resource /\ cap[c].epoch \in Nat
    BY <1>3 DEF SubmitClaim, Verifies, RowsAreFilled, CapRow
  <2>4. claim' \subseteq ClaimRow
    BY <2>2, <2>3 DEF ClaimRow
  <2>5. UNCHANGED <<project, slot, resEpoch, cap, clock>>
    BY <1>3 DEF SubmitClaim
  <2> QED
    BY <2>1, <2>4, <2>5
<1> QED
  BY <1>1, <1>2, <1>3 DEF GrantStep

LEMMA TypeStep == TypeOK /\ RowsAreFilled /\ [Next]_vars => TypeOK'
<1> SUFFICES ASSUME TypeOK, RowsAreFilled, [Next]_vars PROVE TypeOK'
  OBVIOUS
<1>1. CASE ProjectStep
  BY <1>1, MovesAssumption DEF TypeOK, ProjectStep, SetProjectStatus
<1>2. CASE ClockMoves
  BY <1>2, TimeAssumption DEF TypeOK, ClockMoves, Time
<1>3. CASE UNCHANGED vars
  BY <1>3 DEF TypeOK, vars
<1> QED
  BY <1>1, <1>2, <1>3, SlotStepType, BrowserStepType, LeaseStepType, GrantStepType DEF Next

-----------------------------------------------------------------------------
(* Every step of the Kernel either takes leases away or grants one. *)

Past(row) == row.expires # NoExpiry /\ row.expires <= clock

\* What a step may do to a row that exists: end it, or move an expiry still to come.
Kept(old, new) ==
  /\ new.status = old.status
     \/ (old.status = "active" /\ new.status \in {"released", "expired"})
  /\ new.resource = old.resource /\ new.epoch = old.epoch /\ new.mode = old.mode
  /\ new.project = old.project /\ new.holder = old.holder
  /\ Past(old) => new.expires = old.expires

LeasesShrink ==
  /\ \A i \in LeaseId : Kept(lease[i], lease'[i])
  /\ resEpoch' = resEpoch

\* The slot that holds a lease on tab r is at r and remembers the lease.
TabTaken(i, r) ==
  \E s \in Slot : /\ lease[i].holder = s /\ slot[s].tabLease = i
                  /\ slot[s].tab = r /\ slot[s].browser # "absent"

GrantedAs(i, r) ==
  /\ lease[i].status = "none"
  /\ lease'[i].status = "active" /\ lease'[i].resource = r
  /\ lease'[i].epoch = resEpoch[r] + 1
  /\ resEpoch' = [resEpoch EXCEPT ![r] = @ + 1]
  /\ r \in WorkResource => slot' = slot /\ MayHold(lease'[i].holder, lease'[i].project)
  /\ r \in Tab => TabTaken(i, r)'
  /\ \A j \in LeaseId \ {i} :
       /\ Kept(lease[j], lease'[j])
       /\ (lease'[j].status = "active" /\ lease'[j].resource = r)
            => lease'[j].mode = "shared" /\ lease'[i].mode = "shared"

LeaseGranted == \E i \in LeaseId, r \in Resource : GrantedAs(i, r)

LEMMA EndedRow ==
  ASSUME NEW row \in LeaseRow, row.status = "active", NEW status \in {"released", "expired"}
  PROVE  Kept(row, [row EXCEPT !.status = status])
BY DEF Kept, LeaseRow

LEMMA ExtendedRow ==
  ASSUME NEW row \in LeaseRow, NEW expires, ~Past(row)
  PROVE  Kept(row, [row EXCEPT !.expires = expires])
BY DEF Kept, LeaseRow

LEMMA SameRow == ASSUME NEW row PROVE Kept(row, row)
BY DEF Kept

LEMMA KeptTwice == ASSUME NEW a, NEW b, NEW c, Kept(a, b), Kept(b, c) PROVE Kept(a, c)
BY DEF Kept, Past

LEMMA VacatedKeeps ==
  ASSUME TypeOK, NEW s \in Slot, NEW i \in LeaseId
  PROVE  Kept(lease[i], Vacated(s)[i])
<1>1. lease[i] \in LeaseRow
  BY DEF TypeOK
<1>2. \/ Vacated(s)[i] = lease[i]
      \/ /\ lease[i].status = "active"
         /\ Vacated(s)[i] = [lease[i] EXCEPT !.status = "released"]
  BY VacatedType DEF TypeOK
<1> QED
  BY <1>1, <1>2, EndedRow, SameRow

LEMMA FencedKeeps ==
  ASSUME NEW rows \in [LeaseId -> LeaseRow], NEW s \in Slot, NEW i \in LeaseId
  PROVE  Kept(rows[i], FencedLeases(rows, s)[i])
<1>1. rows[i] \in LeaseRow
  OBVIOUS
<1>2. \/ FencedLeases(rows, s)[i] = rows[i]
      \/ /\ rows[i].status = "active"
         /\ FencedLeases(rows, s)[i] = [rows[i] EXCEPT !.status = "released"]
  BY FencedLeasesType
<1> QED
  BY <1>1, <1>2, EndedRow, SameRow

LEMMA ExpiredKeeps ==
  ASSUME NEW rows \in [LeaseId -> LeaseRow], NEW r, NEW i \in LeaseId
  PROVE  Kept(rows[i], Expired(rows, r)[i])
<1>1. rows[i] \in LeaseRow
  OBVIOUS
<1>2. \/ Expired(rows, r)[i] = rows[i]
      \/ /\ rows[i].status = "active"
         /\ Expired(rows, r)[i] = [rows[i] EXCEPT !.status = "expired"]
  BY ExpiredType
<1> QED
  BY <1>1, <1>2, EndedRow, SameRow

LEMMA BrowserStepLeases == TypeOK /\ BrowserStep => LeasesShrink \/ LeaseGranted
<1> SUFFICES ASSUME TypeOK, BrowserStep PROVE LeasesShrink \/ LeaseGranted
  OBVIOUS
<1> PICK s \in Slot, at \in Stamp :
      \/ ReportBrowserAbsent(s, at)
      \/ \E browser \in {"live", "closing"}, tab \in Tab \cup {Null} :
           ReportBrowserPresent(s, browser, tab, at)
  BY DEF BrowserStep
<1>0. Vacated(s) \in [LeaseId -> LeaseRow] /\ lease \in [LeaseId -> LeaseRow]
  BY VacatedType DEF TypeOK
<1>1. CASE ReportBrowserAbsent(s, at)
  <2>1. lease' = FencedLeases(Vacated(s), s) \/ lease' = Vacated(s)
    BY <1>1 DEF ReportBrowserAbsent
  <2>2. resEpoch' = resEpoch
    BY <1>1 DEF ReportBrowserAbsent
  <2>3. ASSUME NEW i \in LeaseId PROVE Kept(lease[i], lease'[i])
    <3>1. Kept(lease[i], Vacated(s)[i])
      BY VacatedKeeps
    <3>2. Kept(Vacated(s)[i], FencedLeases(Vacated(s), s)[i])
      BY <1>0, FencedKeeps
    <3> QED
      BY <2>1, <3>1, <3>2, KeptTwice
  <2> QED
    BY <2>2, <2>3 DEF LeasesShrink
<1>2. ASSUME NEW browser \in {"live", "closing"}, NEW reported \in Tab \cup {Null},
             ReportBrowserPresent(s, browser, reported, at)
      PROVE  LeasesShrink \/ LeaseGranted
  <2> DEFINE tab == IF reported # Null THEN reported ELSE slot[s].tab
             moved == tab # Null /\ slot[s].tab # Null /\ slot[s].tab # tab
             rows == IF moved THEN Vacated(s) ELSE lease
             Granted == NewLease(tab, slot[s].project, s, Null, "exclusive", NoExpiry)
             row(tabLease) == [slot[s] EXCEPT !.browser = browser, !.tab = tab,
                                 !.tabLease = tabLease, !.seen = at,
                                 !.status = IF slot[s].desired = "active" THEN "ready" ELSE @]
  <2>1. \/ lease' = lease /\ resEpoch' = resEpoch
        \/ lease' = rows /\ resEpoch' = resEpoch
        \/ /\ tab # Null /\ ActiveOn(rows, tab) = {} /\ FreshLeases # {}
           /\ slot' = [slot EXCEPT ![s] = row(CHOOSE i \in FreshLeases : TRUE)]
           /\ lease' = [rows EXCEPT ![CHOOSE i \in FreshLeases : TRUE] = Granted]
           /\ resEpoch' = [resEpoch EXCEPT ![tab] = @ + 1]
    BY <1>2 DEF ReportBrowserPresent
  <2>2. \A i \in LeaseId : Kept(lease[i], rows[i])
    BY VacatedKeeps, SameRow
  <2>3. rows \in [LeaseId -> LeaseRow]
    BY <1>0
  <2>4. tab \in Tab \cup {Null}
    BY DEF TypeOK, SlotRow
  <2> HIDE DEF rows, tab
  <2>8. ASSUME NEW i
        PROVE  row(i).browser = browser /\ row(i).tab = tab /\ row(i).tabLease = i
    BY DEF TypeOK, SlotRow
  <2> HIDE DEF row
  <2>5. CASE lease' = lease /\ resEpoch' = resEpoch
    BY <2>5 DEF LeasesShrink, Kept
  <2>6. CASE lease' = rows /\ resEpoch' = resEpoch
    BY <2>2, <2>6 DEF LeasesShrink
  <2>7. CASE /\ tab # Null /\ ActiveOn(rows, tab) = {} /\ FreshLeases # {}
             /\ slot' = [slot EXCEPT ![s] = row(CHOOSE i \in FreshLeases : TRUE)]
             /\ lease' = [rows EXCEPT ![CHOOSE i \in FreshLeases : TRUE] = Granted]
             /\ resEpoch' = [resEpoch EXCEPT ![tab] = @ + 1]
    <3>1. PICK i \in LeaseId : /\ lease[i].status = "none" /\ lease' = [rows EXCEPT ![i] = Granted]
                               /\ slot' = [slot EXCEPT ![s] = row(i)]
      BY <2>7, FreshLease
    <3>2. tab \in Resource /\ tab \notin WorkResource
      BY <2>4, <2>7, ResourceAssumption DEF Resource
    <3>3. lease'[i] = Granted
      BY <2>3, <3>1
    <3>4. ASSUME NEW j \in LeaseId \ {i}
          PROVE /\ Kept(lease[j], lease'[j])
                /\ ~(lease'[j].status = "active" /\ lease'[j].resource = tab)
      BY <2>2, <2>3, <2>7, <3>1 DEF ActiveOn
    <3>5. /\ Granted.status = "active" /\ Granted.resource = tab
          /\ Granted.epoch = resEpoch[tab] + 1 /\ Granted.holder = s
      BY DEF NewLease
    <3> HIDE DEF Granted
    <3>7. slot'[s] = row(i)
      BY <3>1 DEF TypeOK
    <3>6. PICK r \in Resource : r = tab
      BY <3>2
    <3>8. TabTaken(i, r)'
      BY <2>8, <3>3, <3>5, <3>6, <3>7 DEF TabTaken
    <3>9. GrantedAs(i, r)
      BY <2>7, <3>1, <3>2, <3>3, <3>4, <3>5, <3>6, <3>8 DEF GrantedAs
    <3> QED
      BY <3>9 DEF LeaseGranted
  <2> QED
    BY <2>1, <2>5, <2>6, <2>7
<1> QED
  BY <1>1, <1>2

LEMMA LeaseStepLeases == TypeOK /\ LeaseStep => LeasesShrink \/ LeaseGranted
<1> SUFFICES ASSUME TypeOK, LeaseStep PROVE LeasesShrink \/ LeaseGranted
  OBVIOUS
<1>0. lease \in [LeaseId -> LeaseRow]
  BY DEF TypeOK
<1>1. ASSUME NEW r \in WorkResource, NEW p \in Project, NEW h \in Subject,
             NEW task \in Task \cup {Null}, NEW mode \in {"shared", "exclusive"},
             NEW ttl \in Ttl \cup {NoExpiry}, AcquireLease(r, p, h, task, mode, ttl)
      PROVE  LeaseGranted
  <2> DEFINE rows == Expired(lease, r)
             Granted == NewLease(r, p, h, task, mode,
                          IF ttl = NoExpiry THEN NoExpiry ELSE clock + ttl)
  <2>1. PICK i \in LeaseId : lease[i].status = "none" /\ lease' = [rows EXCEPT ![i] = Granted]
    BY <1>1, FreshLease DEF AcquireLease
  <2>2. /\ ~Conflict(rows, r, mode) /\ resEpoch' = [resEpoch EXCEPT ![r] = @ + 1]
        /\ r \in Resource /\ r \notin Tab /\ slot' = slot /\ MayHold(h, p)
    BY <1>1, ResourceAssumption DEF AcquireLease, Resource
  <2>3. rows \in [LeaseId -> LeaseRow] /\ \A j \in LeaseId : Kept(lease[j], rows[j])
    BY <1>0, ExpiredType, ExpiredKeeps
  <2>4. /\ Granted.status = "active" /\ Granted.resource = r /\ Granted.mode = mode
        /\ Granted.epoch = resEpoch[r] + 1 /\ Granted.holder = h /\ Granted.project = p
    BY DEF NewLease
  <2> HIDE DEF rows, Granted
  <2>5. ASSUME NEW j \in LeaseId \ {i}
        PROVE /\ Kept(lease[j], lease'[j])
              /\ (lease'[j].status = "active" /\ lease'[j].resource = r)
                   => lease'[j].mode = "shared" /\ mode = "shared"
    <3>1. lease'[j] = rows[j] /\ rows[j] \in LeaseRow
      BY <2>1, <2>3
    <3> QED
      BY <2>2, <2>3, <3>1 DEF Conflict, ActiveOn, LeaseRow
  <2>6. lease'[i] = Granted
    BY <2>1, <2>3
  <2>7. GrantedAs(i, r)
    BY <2>1, <2>2, <2>4, <2>5, <2>6 DEF GrantedAs
  <2> QED
    BY <2>2, <2>7 DEF LeaseGranted
<1>2. ASSUME NEW i \in LeaseId, NEW ttl \in Ttl, RenewLease(i, lease[i].epoch, ttl)
      PROVE  LeasesShrink
  <2> DEFINE rows == Expired(lease, lease[i].resource)
             expires == clock + ttl
  <2>1. lease' = [rows EXCEPT ![i].expires = expires] /\ resEpoch' = resEpoch
    BY <1>2 DEF RenewLease
  <2>2. rows \in [LeaseId -> LeaseRow] /\ \A j \in LeaseId : Kept(lease[j], rows[j])
    BY <1>0, ExpiredType, ExpiredKeeps
  <2>4. ~Past(rows[i])
    <3>1. rows[i].status = "active" /\ lease[i] \in LeaseRow
      BY <1>0, <1>2 DEF RenewLease
    <3>2. rows[i] = IF Lapsed(lease[i]) THEN [lease[i] EXCEPT !.status = "expired"] ELSE lease[i]
      BY DEF Expired
    <3>3. rows[i] = lease[i] /\ ~Lapsed(lease[i])
      BY <3>1, <3>2 DEF LeaseRow
    <3> QED
      BY <3>1, <3>3 DEF Lapsed, Past
  <2> HIDE DEF rows, expires
  <2>3. ASSUME NEW j \in LeaseId PROVE Kept(lease[j], lease'[j])
    <3>1. rows[j] \in LeaseRow
      BY <2>2
    <3>2. \/ lease'[j] = rows[j]
          \/ j = i /\ lease'[j] = [rows[j] EXCEPT !.expires = expires]
      BY <2>1, <2>2
    <3>3. Kept(rows[j], lease'[j])
      BY <2>4, <3>1, <3>2, ExtendedRow, SameRow
    <3> QED
      BY <2>2, <3>3, KeptTwice
  <2> QED
    BY <2>1, <2>3 DEF LeasesShrink
<1>3. ASSUME NEW i \in LeaseId, ReleaseLease(i, lease[i].epoch)
      PROVE  LeasesShrink
  <2> DEFINE rows == Expired(lease, lease[i].resource)
  <2>1. lease' = [rows EXCEPT ![i].status = "released"] /\ resEpoch' = resEpoch
        /\ rows[i].status = "active"
    BY <1>3 DEF ReleaseLease, Release
  <2>2. rows \in [LeaseId -> LeaseRow] /\ \A j \in LeaseId : Kept(lease[j], rows[j])
    BY <1>0, ExpiredType, ExpiredKeeps
  <2> HIDE DEF rows
  <2>3. ASSUME NEW j \in LeaseId PROVE Kept(lease[j], lease'[j])
    <3>1. rows[j] \in LeaseRow
      BY <2>2
    <3>2. lease'[j] = rows[j]
          \/ (lease'[j] = [rows[j] EXCEPT !.status = "released"] /\ rows[j].status = "active")
      BY <2>1, <2>2
    <3> QED
      BY <2>2, <3>1, <3>2, EndedRow, SameRow, KeptTwice
  <2> QED
    BY <2>1, <2>3 DEF LeasesShrink
<1> QED
  BY <1>1, <1>2, <1>3 DEF LeaseStep

LEMMA LeaseTableSteps == TypeOK /\ [Next]_vars => LeasesShrink \/ LeaseGranted
<1> SUFFICES ASSUME TypeOK, [Next]_vars PROVE LeasesShrink \/ LeaseGranted
  OBVIOUS
<1>1. ASSUME UNCHANGED <<lease, resEpoch>> PROVE LeasesShrink
  BY <1>1 DEF LeasesShrink, Kept
<1>2. CASE ProjectStep \/ ClockMoves \/ UNCHANGED vars
  BY <1>1, <1>2 DEF ProjectStep, SetProjectStatus, ClockMoves, vars
<1>3. CASE SlotStep
  <2>1. resEpoch' = resEpoch /\ (lease' = lease \/ \E s \in Slot : lease' = FencedLeases(lease, s))
    BY <1>3 DEF SlotStep, CreateAgentSlot, SuspendAgentSlot, RetireAgentSlot, StopSlot, ResumeAgentSlot
  <2>2. lease \in [LeaseId -> LeaseRow]
    BY DEF TypeOK
  <2> QED
    BY <2>1, <2>2, <1>1, FencedKeeps DEF LeasesShrink
<1>4. CASE GrantStep
  <2>1. resEpoch' = resEpoch /\ (lease' = lease \/ \E r : lease' = Expired(lease, r))
    <3>1. ASSUME NEW c \in CapId, SubmitClaim(c)
          PROVE  resEpoch' = resEpoch /\ lease' = Expired(lease, cap[c].resource)
      BY <3>1 DEF SubmitClaim
    <3>2. ASSUME NEW subject, NEW agent, NEW p, NEW write, NEW task, NEW r, NEW epoch, NEW ttl,
                 IssueCapability(subject, agent, p, write, task, r, epoch, ttl)
          PROVE  resEpoch' = resEpoch /\ lease' = lease
      BY <3>2 DEF IssueCapability
    <3>3. ASSUME NEW c, RevokeCapability(c)
          PROVE  resEpoch' = resEpoch /\ lease' = lease
      BY <3>3 DEF RevokeCapability
    <3>4. (\E c \in CapId : SubmitClaim(c)) \/ UNCHANGED <<resEpoch, lease>>
      BY <1>4, <3>2, <3>3 DEF GrantStep
    <3> QED
      BY <3>1, <3>4
  <2>2. lease \in [LeaseId -> LeaseRow]
    BY DEF TypeOK
  <2> QED
    BY <2>1, <2>2, <1>1, ExpiredKeeps DEF LeasesShrink
<1> QED
  BY <1>2, <1>3, <1>4, BrowserStepLeases, LeaseStepLeases DEF Next

-----------------------------------------------------------------------------
(* What a step may do to a slot: nothing that matters here, create it, make it *)
(* ready again, let it drain, or stop it for good and fence it.                *)

SlotUntouched(s) ==
  /\ slot'[s].project = slot[s].project
  /\ slot'[s].status = slot[s].status /\ slot'[s].desired = slot[s].desired

SlotCreated(s) ==
  /\ ~Exists(s)
  /\ slot'[s].project \in Project /\ slot'[s].status = "ready" /\ slot'[s].desired = "active"
  /\ lease' = lease /\ cap' = cap

SlotReady(s) ==
  /\ Exists(s) /\ slot'[s].project = slot[s].project
  /\ slot'[s].status = "ready" /\ slot'[s].desired = "active"

SlotDrains(s) ==
  /\ Exists(s) /\ slot[s].browser # "absent" /\ slot'[s].project = slot[s].project
  /\ slot'[s].status = slot[s].status /\ slot'[s].desired \in {"suspended", "retired"}

SlotStops(s) ==
  /\ Exists(s) /\ slot'[s].project = slot[s].project
  /\ slot'[s].status \in {"suspended", "retired"} /\ slot'[s].desired = slot'[s].status
  /\ \E rows \in [LeaseId -> LeaseRow] : lease' = FencedLeases(rows, s)
  /\ cap' = FencedCaps(s)

SlotChange(s) ==
  SlotUntouched(s) \/ SlotCreated(s) \/ SlotReady(s) \/ SlotDrains(s) \/ SlotStops(s)

LEMMA OtherActionsKeepSlots ==
  ASSUME ProjectStep \/ ClockMoves \/ LeaseStep \/ GrantStep \/ UNCHANGED vars
  PROVE  slot' = slot
<1>1. CASE ProjectStep \/ ClockMoves \/ UNCHANGED vars
  BY <1>1 DEF ProjectStep, SetProjectStatus, ClockMoves, vars
<1>2. CASE LeaseStep
  <2>1. ASSUME NEW r, NEW p, NEW h, NEW task, NEW mode, NEW ttl,
               AcquireLease(r, p, h, task, mode, ttl)
        PROVE  slot' = slot
    BY <2>1 DEF AcquireLease
  <2>2. ASSUME NEW i, NEW epoch, NEW ttl, RenewLease(i, epoch, ttl) PROVE slot' = slot
    BY <2>2 DEF RenewLease
  <2>3. ASSUME NEW i, NEW epoch, ReleaseLease(i, epoch) PROVE slot' = slot
    BY <2>3 DEF ReleaseLease
  <2> QED
    BY <1>2, <2>1, <2>2, <2>3 DEF LeaseStep
<1>3. CASE GrantStep
  <2>1. ASSUME NEW subject, NEW agent, NEW p, NEW write, NEW task, NEW r, NEW epoch, NEW ttl,
               IssueCapability(subject, agent, p, write, task, r, epoch, ttl)
        PROVE  slot' = slot
    BY <2>1 DEF IssueCapability
  <2>2. ASSUME NEW c, RevokeCapability(c) \/ SubmitClaim(c) PROVE slot' = slot
    BY <2>2 DEF RevokeCapability, SubmitClaim
  <2> QED
    BY <1>3, <2>1, <2>2 DEF GrantStep
<1> QED
  BY <1>1, <1>2, <1>3

LEMMA StopSlotChange ==
  ASSUME TypeOK, NEW t \in Slot, NEW target \in {"suspended", "retired"}, Exists(t),
         StopSlot(t, target), NEW s \in Slot
  PROVE  SlotChange(s)
<1>0. slot \in [Slot -> SlotRow] /\ slot[t] \in SlotRow /\ lease \in [LeaseId -> LeaseRow]
  BY DEF TypeOK
<1>1. CASE /\ slot' = [slot EXCEPT ![t].desired = target, ![t].status = target]
           /\ lease' = FencedLeases(lease, t) /\ cap' = FencedCaps(t)
  <2>1. slot' = [slot EXCEPT ![t] = [slot[t] EXCEPT !.desired = target, !.status = target]]
    BY <1>0, <1>1
  <2>2. s # t => slot'[s] = slot[s]
    BY <2>1, <1>0
  <2>3. slot'[t] = [slot[t] EXCEPT !.desired = target, !.status = target]
    BY <2>1, <1>0
  <2>4. slot'[t].project = slot[t].project /\ slot'[t].desired = target /\ slot'[t].status = target
    BY <2>3, <1>0 DEF SlotRow
  <2>5. SlotStops(t)
    BY <1>0, <1>1, <2>4 DEF SlotStops
  <2> QED
    BY <2>2, <2>5 DEF SlotChange, SlotUntouched
<1>2. CASE slot[t].browser # "absent" /\ slot' = [slot EXCEPT ![t].desired = target]
  <2>1. slot' = [slot EXCEPT ![t] = [slot[t] EXCEPT !.desired = target]]
    BY <1>0, <1>2
  <2>2. s # t => slot'[s] = slot[s]
    BY <2>1, <1>0
  <2>3. slot'[t] = [slot[t] EXCEPT !.desired = target]
    BY <2>1, <1>0
  <2>4. SlotDrains(t)
    BY <2>3, <1>0, <1>2 DEF SlotDrains, SlotRow
  <2> QED
    BY <2>2, <2>4 DEF SlotChange, SlotUntouched
<1> QED
  BY <1>1, <1>2 DEF StopSlot

LEMMA SlotStepChange ==
  ASSUME TypeOK, SlotStep, NEW s \in Slot PROVE SlotChange(s)
<1>0. slot \in [Slot -> SlotRow]
  BY DEF TypeOK
<1>1. ASSUME NEW t \in Slot, NEW p \in Project, NEW role \in Role, CreateAgentSlot(t, p, role)
      PROVE  SlotChange(s)
  <2> DEFINE row == [NoSlot EXCEPT !.project = p, !.role = role, !.status = "ready"]
  <2>1. row.project = p /\ row.status = "ready" /\ row.desired = "active"
    BY DEF NoSlot
  <2>2. ~Exists(t) /\ slot' = [slot EXCEPT ![t] = row] /\ lease' = lease /\ cap' = cap
    BY <1>1 DEF CreateAgentSlot
  <2> HIDE DEF row
  <2>3. SlotCreated(t)
    BY <1>0, <2>1, <2>2 DEF SlotCreated
  <2>4. s # t => slot'[s] = slot[s]
    BY <1>0, <2>2
  <2> QED
    BY <2>3, <2>4 DEF SlotChange, SlotUntouched
<1>2. ASSUME NEW t \in Slot, SuspendAgentSlot(t) PROVE SlotChange(s)
  BY <1>2, StopSlotChange DEF SuspendAgentSlot
<1>3. ASSUME NEW t \in Slot, RetireAgentSlot(t) PROVE SlotChange(s)
  BY <1>3, StopSlotChange DEF RetireAgentSlot
<1>4. ASSUME NEW t \in Slot, ResumeAgentSlot(t) PROVE SlotChange(s)
  <2>1. slot' = [slot EXCEPT ![t] = [slot[t] EXCEPT !.desired = "active", !.status = "ready"]]
        /\ Exists(t)
    BY <1>4 DEF ResumeAgentSlot
  <2>2. s # t => slot'[s] = slot[s]
    BY <1>0, <2>1
  <2>3. slot'[t] = [slot[t] EXCEPT !.desired = "active", !.status = "ready"] /\ slot[t] \in SlotRow
    BY <1>0, <2>1
  <2>4. /\ slot'[t].project = slot[t].project
        /\ slot'[t].status = "ready" /\ slot'[t].desired = "active"
    BY <2>3 DEF SlotRow
  <2>5. SlotReady(t)
    BY <2>1, <2>4 DEF SlotReady
  <2> QED
    BY <2>2, <2>5 DEF SlotChange, SlotUntouched
<1> QED
  BY <1>1, <1>2, <1>3, <1>4 DEF SlotStep

LEMMA BrowserStepChange ==
  ASSUME TypeOK, BrowserStep, NEW s \in Slot PROVE SlotChange(s)
<1>0. slot \in [Slot -> SlotRow]
  BY DEF TypeOK
<1>1. ASSUME NEW t \in Slot, NEW at, ReportBrowserAbsent(t, at) PROVE SlotChange(s)
  <2> DEFINE stopping == slot[t].desired # "active" /\ slot[t].status # slot[t].desired
             status == IF slot[t].desired = "active" THEN "ready"
                       ELSE IF stopping THEN slot[t].desired ELSE slot[t].status
             row == [slot[t] EXCEPT !.browser = "absent", !.tab = Null, !.tabLease = Null,
                                    !.seen = at, !.status = status]
  <2>1. slot' = [slot EXCEPT ![t] = row] /\ Exists(t)
    BY <1>1 DEF ReportBrowserAbsent
  <2>2. stopping => lease' = FencedLeases(Vacated(t), t) /\ cap' = FencedCaps(t)
    BY <1>1 DEF ReportBrowserAbsent
  <2>3. Vacated(t) \in [LeaseId -> LeaseRow]
    BY VacatedType DEF TypeOK
  <2>4. slot[t].desired \in {"active", "suspended", "retired"}
    BY <1>0 DEF SlotRow
  <2>5. row.project = slot[t].project /\ row.desired = slot[t].desired /\ row.status = status
    <3> HIDE DEF status
    <3> QED BY <1>0 DEF SlotRow
  <2> HIDE DEF row
  <2>6. slot'[t] = row /\ (s # t => slot'[s] = slot[s])
    BY <1>0, <2>1
  <2>7. CASE stopping
    <3>1. SlotStops(t)
      BY <2>1, <2>2, <2>3, <2>4, <2>5, <2>6, <2>7 DEF SlotStops
    <3> QED
      BY <3>1, <2>6 DEF SlotChange, SlotUntouched
  <2>8. CASE slot[t].desired = "active"
    <3>1. SlotReady(t)
      BY <2>1, <2>5, <2>6, <2>8 DEF SlotReady
    <3> QED
      BY <3>1, <2>6 DEF SlotChange, SlotUntouched
  <2>9. CASE slot[t].desired # "active" /\ ~stopping
    <3>1. SlotUntouched(t)
      BY <2>5, <2>6, <2>9 DEF SlotUntouched
    <3> QED
      BY <3>1, <2>6 DEF SlotChange, SlotUntouched
  <2> QED
    BY <2>7, <2>8, <2>9
<1>2. ASSUME NEW t \in Slot, NEW at, NEW browser, NEW reported,
             ReportBrowserPresent(t, browser, reported, at)
      PROVE  SlotChange(s)
  <2> DEFINE tab == IF reported # Null THEN reported ELSE slot[t].tab
             moved == tab # Null /\ slot[t].tab # Null /\ slot[t].tab # tab
             rows == IF moved THEN Vacated(t) ELSE lease
             status == IF slot[t].desired = "active" THEN "ready" ELSE slot[t].status
             row(tabLease) == [slot[t] EXCEPT !.browser = browser, !.tab = tab,
                                 !.tabLease = tabLease, !.seen = at,
                                 !.status = IF slot[t].desired = "active" THEN "ready" ELSE @]
             Seen(tabLease) == [slot EXCEPT ![t] = row(tabLease)]
  <2>0. \/ slot' = Seen(slot[t].tabLease)
        \/ \E i \in ActiveOn(rows, tab) : rows[i].holder = t /\ slot' = Seen(i)
        \/ \E i \in FreshLeases : slot' = Seen(i)
    BY <1>2 DEF ReportBrowserPresent
  <2>1. (\E tabLease : slot' = [slot EXCEPT ![t] = row(tabLease)]) /\ Exists(t)
    <3>1. Exists(t)
      BY <1>2 DEF ReportBrowserPresent
    <3> HIDE DEF row
    <3> QED BY <2>0, <3>1
  <2>2. \A tabLease : /\ row(tabLease).project = slot[t].project
                      /\ row(tabLease).desired = slot[t].desired /\ row(tabLease).status = status
    <3> HIDE DEF tab
    <3> QED BY <1>0 DEF SlotRow
  <2> HIDE DEF row
  <2>3. /\ slot'[t].project = slot[t].project
        /\ slot'[t].desired = slot[t].desired /\ slot'[t].status = status
        /\ s # t => slot'[s] = slot[s]
    BY <1>0, <2>1, <2>2
  <2>4. SlotReady(t) \/ SlotUntouched(t)
    BY <2>1, <2>3 DEF SlotReady, SlotUntouched
  <2> QED
    BY <2>3, <2>4 DEF SlotChange, SlotUntouched
<1> QED
  BY <1>1, <1>2 DEF BrowserStep

LEMMA SlotsChange ==
  ASSUME TypeOK, [Next]_vars, NEW s \in Slot PROVE SlotChange(s)
<1>1. CASE slot' = slot
  BY <1>1 DEF SlotChange, SlotUntouched
<1> QED
  BY <1>1, SlotStepChange, BrowserStepChange, OtherActionsKeepSlots DEF Next

-----------------------------------------------------------------------------
(* What a step may do to a grant: nothing, revoke it, or issue it. *)

GrantKept(old, new) ==
  /\ new.status = old.status \/ (old.status = "live" /\ new.status = "revoked")
  /\ new.subject = old.subject /\ new.agent = old.agent /\ new.project = old.project
  /\ new.write = old.write /\ new.task = old.task /\ new.resource = old.resource

GrantIssued(g) ==
  /\ slot' = slot /\ lease' = lease
  /\ g.project \in Project /\ g.subject \in Subject /\ g.task \in Task /\ g.resource \in WorkResource
  /\ g.agent # Null => /\ g.agent \in Slot /\ Enrolled(g.agent)
                       /\ slot[g.agent].project = g.project /\ g.subject = g.agent
  /\ g.write => \E i \in LeaseId : /\ lease[i].status = "active" /\ lease[i].resource = g.resource
                                   /\ lease[i].project = g.project /\ lease[i].holder = g.subject

LEMMA SameGrant == ASSUME NEW g PROVE GrantKept(g, g)
BY DEF GrantKept

LEMMA RevokedGrant ==
  ASSUME NEW g \in CapRow, g.status = "live"
  PROVE  GrantKept(g, [g EXCEPT !.status = "revoked"])
BY DEF GrantKept, CapRow

LEMMA FencedGrants ==
  ASSUME TypeOK, NEW s \in Slot, NEW c \in CapId
  PROVE  /\ GrantKept(cap[c], FencedCaps(s)[c])
         /\ ~(/\ FencedCaps(s)[c].status = "live" /\ FencedCaps(s)[c].project = slot[s].project
              /\ \/ FencedCaps(s)[c].agent = s
                 \/ FencedCaps(s)[c].agent = Null /\ FencedCaps(s)[c].subject = s)
<1> DEFINE hit == /\ cap[c].status = "live" /\ cap[c].project = slot[s].project
                  /\ cap[c].agent = s \/ (cap[c].agent = Null /\ cap[c].subject = s)
<1>1. cap[c] \in CapRow
  BY DEF TypeOK
<1>2. CASE hit
  <2>1. FencedCaps(s)[c] = [cap[c] EXCEPT !.status = "revoked"]
    BY <1>2 DEF FencedCaps
  <2>2. FencedCaps(s)[c].status = "revoked"
    BY <1>1, <2>1 DEF CapRow
  <2> QED
    BY <1>1, <1>2, <2>1, <2>2, RevokedGrant
<1>3. CASE ~hit
  <2>1. FencedCaps(s)[c] = cap[c]
    BY <1>3 DEF FencedCaps
  <2> QED
    BY <1>3, <2>1, SameGrant
<1> QED
  BY <1>2, <1>3

LEMMA GrantsChange ==
  ASSUME TypeOK, [Next]_vars, NEW c \in CapId
  PROVE  GrantKept(cap[c], cap'[c]) \/ GrantIssued(cap'[c])
<1>0. cap \in [CapId -> CapRow] /\ cap[c] \in CapRow
  BY DEF TypeOK
<1>1. ASSUME cap' = cap PROVE GrantKept(cap[c], cap'[c])
  BY <1>1, SameGrant
<1>2. ASSUME NEW s \in Slot, cap' = FencedCaps(s) PROVE GrantKept(cap[c], cap'[c])
  BY <1>2, FencedGrants
<1>3. CASE ProjectStep \/ ClockMoves \/ UNCHANGED vars
  BY <1>3, <1>1 DEF ProjectStep, SetProjectStatus, ClockMoves, vars
<1>4. CASE SlotStep
  BY <1>4, <1>1, <1>2 DEF SlotStep, CreateAgentSlot, SuspendAgentSlot, RetireAgentSlot,
                          StopSlot, ResumeAgentSlot
<1>5. CASE BrowserStep
  <2>1. ASSUME NEW s \in Slot, NEW at, ReportBrowserAbsent(s, at)
        PROVE  cap' = cap \/ cap' = FencedCaps(s)
    BY <2>1 DEF ReportBrowserAbsent
  <2>2. ASSUME NEW s, NEW browser, NEW tab, NEW at, ReportBrowserPresent(s, browser, tab, at)
        PROVE  cap' = cap
    BY <2>2 DEF ReportBrowserPresent
  <2> QED
    BY <1>5, <1>1, <1>2, <2>1, <2>2 DEF BrowserStep
<1>6. CASE LeaseStep
  <2>1. ASSUME NEW r, NEW p, NEW h, NEW task, NEW mode, NEW ttl,
               AcquireLease(r, p, h, task, mode, ttl)
        PROVE  cap' = cap
    BY <2>1 DEF AcquireLease
  <2>2. ASSUME NEW i, NEW epoch, NEW ttl, RenewLease(i, epoch, ttl) PROVE cap' = cap
    BY <2>2 DEF RenewLease
  <2>3. ASSUME NEW i, NEW epoch, ReleaseLease(i, epoch) PROVE cap' = cap
    BY <2>3 DEF ReleaseLease
  <2> QED
    BY <1>6, <1>1, <2>1, <2>2, <2>3 DEF LeaseStep
<1>7. ASSUME NEW subject \in Subject, NEW p \in Project, NEW agent \in Slot \cup {Null},
             NEW write \in BOOLEAN, NEW task \in Task, NEW r \in WorkResource, NEW ttl, NEW epoch,
             IssueCapability(subject, agent, p, write, task, r, epoch, ttl)
      PROVE  GrantKept(cap[c], cap'[c]) \/ GrantIssued(cap'[c])
  <2> DEFINE row == [status |-> "live", subject |-> subject, agent |-> agent, project |-> p,
        write |-> write, task |-> task, resource |-> r, epoch |-> epoch, expires |-> clock + ttl]
  <2>1. cap' = [cap EXCEPT ![CHOOSE d \in FreshCaps : TRUE] = row]
    BY <1>7 DEF IssueCapability
  <2>2. /\ row.subject = subject /\ row.agent = agent /\ row.project = p /\ row.write = write
        /\ row.task = task /\ row.resource = r
    OBVIOUS
  <2>3. /\ slot' = slot /\ lease' = lease
        /\ agent # Null => slot[agent].project = p /\ Enrolled(agent) /\ subject = agent
        /\ write => \E i \in LeaseId : /\ lease[i].status = "active" /\ lease[i].resource = r
                                       /\ lease[i].project = p /\ lease[i].holder = subject
    BY <1>7 DEF IssueCapability
  <2> HIDE DEF row
  <2>4. GrantIssued(row)
    BY <2>2, <2>3 DEF GrantIssued
  <2>5. cap'[c] = row \/ cap'[c] = cap[c]
    BY <1>0, <2>1
  <2> QED
    BY <2>4, <2>5, SameGrant
<1>8. ASSUME NEW d \in CapId, RevokeCapability(d) PROVE GrantKept(cap[c], cap'[c])
  <2>1. cap[d].status = "live" /\ cap' = [cap EXCEPT ![d].status = "revoked"]
    BY <1>8 DEF RevokeCapability
  <2>2. cap'[c] = cap[c] \/ (c = d /\ cap'[c] = [cap[c] EXCEPT !.status = "revoked"])
    BY <1>0, <2>1
  <2> QED
    BY <1>0, <2>1, <2>2, SameGrant, RevokedGrant
<1>9. ASSUME NEW d \in CapId, SubmitClaim(d) PROVE GrantKept(cap[c], cap'[c])
  BY <1>9, <1>1 DEF SubmitClaim
<1> QED
  BY <1>3, <1>4, <1>5, <1>6, <1>7, <1>8, <1>9 DEF Next, GrantStep

-----------------------------------------------------------------------------
(* The invariant.  MutualExclusion alone is not inductive: that the epoch of a new *)
(* lease is past every other is needed to see that it overtakes only shared ones.  *)

\* An active lease that a later grant on its resource has overtaken shares it.
NotOvertaken ==
  \A i, j \in LeaseId :
    (/\ lease[i].status = "active" /\ lease[j].status # "none"
     /\ lease[i].resource = lease[j].resource /\ lease[j].epoch > lease[i].epoch)
      => lease[i].mode = "shared" /\ lease[j].mode = "shared"

\* Stopping is asked for before it is carried through, and a grant bound to a slot
\* has that slot for its subject.
StopsAreAsked ==
  /\ \A s \in Slot : Stopped(s) => Exists(s) /\ slot[s].desired # "active"
  /\ \A c \in CapId : (cap[c].status = "live" /\ cap[c].agent # Null)
                        => cap[c].subject = cap[c].agent

Inv == /\ TypeOK /\ RowsAreFilled
       /\ EpochIdentifiesLease /\ NotOvertaken
       /\ StopsAreAsked /\ StoppedSlotHasNoAuthority

LEMMA RowsAreFilledStep == TypeOK /\ RowsAreFilled /\ [Next]_vars => RowsAreFilled'
<1> SUFFICES ASSUME TypeOK, RowsAreFilled, [Next]_vars PROVE RowsAreFilled'
  OBVIOUS
<1>1. ASSUME NEW s \in Slot, Exists(s)' PROVE slot'[s].project \in Project
  BY <1>1, SlotsChange DEF RowsAreFilled, Exists, SlotChange, SlotUntouched, SlotCreated,
                           SlotReady, SlotDrains, SlotStops
<1>2. ASSUME NEW i \in LeaseId, lease'[i].status # "none" PROVE lease'[i].resource \in Resource
  BY <1>2, LeaseTableSteps DEF RowsAreFilled, LeasesShrink, LeaseGranted, GrantedAs, Kept
<1>3. ASSUME NEW c \in CapId, cap'[c].status # "none"
      PROVE  /\ cap'[c].project \in Project /\ cap'[c].subject \in Subject
             /\ cap'[c].task \in Task /\ cap'[c].resource \in Resource
  BY <1>3, GrantsChange DEF RowsAreFilled, GrantKept, GrantIssued, Resource
<1> QED
  BY <1>1, <1>2, <1>3 DEF RowsAreFilled

LEMMA EpochStep ==
  TypeOK /\ RowsAreFilled /\ EpochIdentifiesLease /\ [Next]_vars => EpochIdentifiesLease'
<1> SUFFICES ASSUME TypeOK, RowsAreFilled, EpochIdentifiesLease, [Next]_vars
             PROVE  EpochIdentifiesLease'
  OBVIOUS
<1>1. CASE LeasesShrink
  <2>1. \A i \in LeaseId :
          /\ lease'[i].status # "none" => lease[i].status # "none"
          /\ lease'[i].resource = lease[i].resource /\ lease'[i].epoch = lease[i].epoch
    BY <1>1 DEF LeasesShrink, Kept
  <2>2. resEpoch' = resEpoch
    BY <1>1 DEF LeasesShrink
  <2> QED
    BY <2>1, <2>2 DEF EpochIdentifiesLease
<1>2. CASE LeaseGranted
  <2>1. PICK g \in LeaseId, r \in Resource : GrantedAs(g, r)
    BY <1>2 DEF LeaseGranted
  <2>2. resEpoch \in [Resource -> Nat]
    BY DEF TypeOK
  <2>3. resEpoch' = [resEpoch EXCEPT ![r] = resEpoch[r] + 1]
    BY <2>1 DEF GrantedAs
  <2>4. \A q \in Resource : resEpoch[q] \in Nat /\ resEpoch'[q] \in Nat
                            /\ resEpoch[q] <= resEpoch'[q] /\ resEpoch'[r] = resEpoch[r] + 1
    BY <2>2, <2>3
  <2>5. lease'[g].resource = r /\ lease'[g].epoch = resEpoch[r] + 1
    BY <2>1 DEF GrantedAs
  <2>6. \A i \in LeaseId \ {g} :
          /\ lease'[i].status # "none" => lease[i].status # "none"
          /\ lease'[i].resource = lease[i].resource /\ lease'[i].epoch = lease[i].epoch
    BY <2>1 DEF GrantedAs, Kept
  <2>7. ASSUME NEW i \in LeaseId \ {g}, lease'[i].status # "none"
        PROVE  /\ lease'[i].resource \in Resource
               /\ lease'[i].epoch \in 1 .. resEpoch[lease'[i].resource]
    BY <2>6, <2>7 DEF EpochIdentifiesLease, RowsAreFilled
  <2>8. ASSUME NEW i \in LeaseId, lease'[i].status # "none"
        PROVE  lease'[i].epoch \in 1 .. resEpoch'[lease'[i].resource]
    <3>1. CASE i = g
      BY <2>4, <2>5, <3>1
    <3>2. CASE i # g
      <4>1. /\ lease'[i].resource \in Resource
            /\ lease'[i].epoch \in 1 .. resEpoch[lease'[i].resource]
        BY <2>7, <2>8, <3>2
      <4> QED
        BY <4>1, <2>4
    <3> QED
      BY <3>1, <3>2
  <2>9. ASSUME NEW i \in LeaseId, NEW j \in LeaseId,
               lease'[i].status # "none", lease'[j].status # "none",
               lease'[i].resource = lease'[j].resource, lease'[i].epoch = lease'[j].epoch
        PROVE  i = j
    <3>1. CASE i # g /\ j # g
      BY <2>6, <2>9, <3>1 DEF EpochIdentifiesLease
    <3>2. CASE i = g /\ j # g
      <4>1. resEpoch[r] + 1 \in 1 .. resEpoch[r]
        BY <2>5, <2>7, <2>9, <3>2
      <4> QED
        BY <4>1, <2>4
    <3>3. CASE i # g /\ j = g
      <4>1. resEpoch[r] + 1 \in 1 .. resEpoch[r]
        BY <2>5, <2>7, <2>9, <3>3
      <4> QED
        BY <4>1, <2>4
    <3> QED
      BY <3>1, <3>2, <3>3
  <2> QED
    BY <2>8, <2>9 DEF EpochIdentifiesLease
<1> QED
  BY <1>1, <1>2, LeaseTableSteps

LEMMA NotOvertakenStep ==
  TypeOK /\ RowsAreFilled /\ EpochIdentifiesLease /\ NotOvertaken /\ [Next]_vars => NotOvertaken'
<1> SUFFICES ASSUME TypeOK, RowsAreFilled, EpochIdentifiesLease, NotOvertaken, [Next]_vars,
                    NEW i \in LeaseId, NEW j \in LeaseId,
                    lease'[i].status = "active", lease'[j].status # "none",
                    lease'[i].resource = lease'[j].resource, lease'[j].epoch > lease'[i].epoch
             PROVE  lease'[i].mode = "shared" /\ lease'[j].mode = "shared"
  BY DEF NotOvertaken
<1>1. CASE LeasesShrink
  BY <1>1 DEF LeasesShrink, Kept, NotOvertaken
<1>2. CASE LeaseGranted
  <2>1. PICK g \in LeaseId, r \in Resource : GrantedAs(g, r)
    BY <1>2 DEF LeaseGranted
  <2>2. CASE i # g /\ j # g
    BY <2>1, <2>2 DEF GrantedAs, Kept, NotOvertaken
  <2>3. CASE j = g /\ i # g
    BY <2>1, <2>3 DEF GrantedAs
  <2>4. CASE i = g
    <3>1. lease'[i].resource = r /\ lease'[i].epoch = resEpoch[r] + 1 /\ resEpoch[r] \in Nat
      BY <2>1, <2>4 DEF GrantedAs, TypeOK
    <3>2. CASE j = g
      BY <3>1, <3>2, <2>4
    <3>3. CASE j # g
      <4>1. lease[j].status # "none" /\ lease'[j].epoch = lease[j].epoch /\ lease[j].resource = r
        BY <2>1, <3>1, <3>3 DEF GrantedAs, Kept
      <4>2. lease'[j].epoch \in 1 .. resEpoch[r]
        BY <4>1 DEF EpochIdentifiesLease
      <4> QED
        BY <3>1, <4>2
    <3> QED
      BY <3>2, <3>3
  <2> QED
    BY <2>2, <2>3, <2>4
<1> QED
  BY <1>1, <1>2, LeaseTableSteps

LEMMA NotOvertakenExcludes ==
  ASSUME TypeOK, EpochIdentifiesLease, NotOvertaken PROVE MutualExclusion
<1> SUFFICES ASSUME NEW i \in LeaseId, NEW j \in LeaseId, i # j,
                    lease[i].resource = lease[j].resource,
                    lease[i].status = "active", lease[j].status = "active"
             PROVE  lease[i].mode = "shared" /\ lease[j].mode = "shared"
  BY DEF MutualExclusion
<1>1. lease[i].epoch \in Nat /\ lease[j].epoch \in Nat
  BY DEF TypeOK, LeaseRow
<1>2. lease[i].epoch # lease[j].epoch
  BY DEF EpochIdentifiesLease
<1> QED
  BY <1>1, <1>2 DEF NotOvertaken

LEMMA StopsAreAskedStep == TypeOK /\ StopsAreAsked /\ [Next]_vars => StopsAreAsked'
<1> SUFFICES ASSUME TypeOK, StopsAreAsked, [Next]_vars PROVE StopsAreAsked'
  OBVIOUS
<1>1. ASSUME NEW s \in Slot, Stopped(s)' PROVE Exists(s)' /\ slot'[s].desired # "active"
  BY <1>1, SlotsChange DEF StopsAreAsked, Stopped, Exists, SlotChange, SlotUntouched,
                           SlotCreated, SlotReady, SlotDrains, SlotStops
<1>2. ASSUME NEW c \in CapId, cap'[c].status = "live", cap'[c].agent # Null
      PROVE  cap'[c].subject = cap'[c].agent
  BY <1>2, GrantsChange DEF StopsAreAsked, GrantKept, GrantIssued
<1> QED
  BY <1>1, <1>2 DEF StopsAreAsked

LEMMA StoppedSlotStep ==
  TypeOK /\ StopsAreAsked /\ StoppedSlotHasNoAuthority /\ [Next]_vars => StoppedSlotHasNoAuthority'
<1> SUFFICES ASSUME TypeOK, StopsAreAsked, StoppedSlotHasNoAuthority, [Next]_vars,
                    NEW s \in Slot, Stopped(s)'
             PROVE  /\ \A i \in LeaseId :
                         (/\ lease'[i].status = "active" /\ lease'[i].resource \in WorkResource
                          /\ lease'[i].holder = s) => lease'[i].project # slot'[s].project
                    /\ \A c \in CapId :
                         (cap'[c].status = "live" /\ cap'[c].project = slot'[s].project)
                           => cap'[c].agent # s /\ ~(cap'[c].write /\ cap'[c].subject = s)
  BY DEF StoppedSlotHasNoAuthority, Stopped
<1>1. StopsAreAsked'
  BY StopsAreAskedStep
<1>2. CASE SlotStops(s)
  <2>1. PICK rows \in [LeaseId -> LeaseRow] : lease' = FencedLeases(rows, s)
    BY <1>2 DEF SlotStops
  <2>2. slot'[s].project = slot[s].project /\ cap' = FencedCaps(s)
    BY <1>2 DEF SlotStops
  <2>3. ASSUME NEW i \in LeaseId, lease'[i].status = "active", lease'[i].holder = s
        PROVE  lease'[i].project # slot[s].project
    <3>1. rows[i] \in LeaseRow
      OBVIOUS
    <3>2. lease'[i] = rows[i] \/ lease'[i] = [rows[i] EXCEPT !.status = "released"]
      BY <2>1, FencedLeasesType
    <3>3. lease'[i] = rows[i]
      BY <2>3, <3>1, <3>2 DEF LeaseRow
    <3> QED
      BY <2>1, <2>3, <3>1, <3>3 DEF FencedLeases, LeaseRow
  <2>4. ASSUME NEW c \in CapId, cap'[c].status = "live", cap'[c].project = slot[s].project
        PROVE  cap'[c].agent # s /\ cap'[c].subject # s
    <3>1. cap'[c].agent # s /\ ~(cap'[c].agent = Null /\ cap'[c].subject = s)
      BY <2>2, <2>4, FencedGrants
    <3> QED
      BY <1>1, <2>4, <3>1 DEF StopsAreAsked
  <2> QED
    BY <2>2, <2>3, <2>4
<1>3. CASE ~SlotStops(s)
  <2>1. Stopped(s) /\ slot'[s].project = slot[s].project /\ Exists(s)
    BY <1>3, SlotsChange DEF StopsAreAsked, Stopped, Exists, SlotChange, SlotUntouched,
                             SlotCreated, SlotReady, SlotDrains
  <2>2. ~Enrolled(s)
    BY <2>1 DEF StopsAreAsked, Enrolled
  <2>3. ASSUME NEW i \in LeaseId, lease'[i].status = "active", lease'[i].resource \in WorkResource,
               lease'[i].holder = s
        PROVE  lease'[i].project # slot[s].project
    <3>1. CASE Kept(lease[i], lease'[i])
      BY <2>1, <2>3, <3>1 DEF Kept, StoppedSlotHasNoAuthority
    <3>2. CASE ~Kept(lease[i], lease'[i])
      <4>1. PICK g \in LeaseId, r \in Resource : GrantedAs(g, r)
        BY <3>2, LeaseTableSteps DEF LeasesShrink, LeaseGranted
      <4>2. MayHold(s, lease'[i].project)
        BY <2>3, <3>2, <4>1 DEF GrantedAs
      <4> QED
        BY <2>2, <4>2 DEF MayHold
    <3> QED
      BY <3>1, <3>2
  <2>4. ASSUME NEW c \in CapId, cap'[c].status = "live", cap'[c].project = slot[s].project
        PROVE  cap'[c].agent # s /\ ~(cap'[c].write /\ cap'[c].subject = s)
    <3>1. CASE GrantKept(cap[c], cap'[c])
      BY <2>1, <2>4, <3>1 DEF GrantKept, StoppedSlotHasNoAuthority
    <3>2. CASE GrantIssued(cap'[c])
      <4>0. s # Null
        BY NullAssumption
      <4>1. cap'[c].agent # s
        BY <2>2, <3>2, <4>0 DEF GrantIssued
      <4>2. ASSUME cap'[c].write, cap'[c].subject = s PROVE FALSE
        <5>1. PICK i \in LeaseId : /\ lease[i].status = "active" /\ lease[i].resource \in WorkResource
                                   /\ lease[i].project = slot[s].project /\ lease[i].holder = s
          BY <2>4, <3>2, <4>2 DEF GrantIssued
        <5> QED
          BY <2>1, <5>1 DEF StoppedSlotHasNoAuthority
      <4> QED
        BY <4>1, <4>2
    <3> QED
      BY <3>1, <3>2, GrantsChange
  <2> QED
    BY <2>1, <2>3, <2>4
<1> QED
  BY <1>2, <1>3

LEMMA InvInit == Init => Inv
<1> SUFFICES ASSUME Init PROVE Inv
  OBVIOUS
<1>1. TypeOK
  BY DEF Init, TypeOK, SlotRow, NoSlot, LeaseRow, NoLease, CapRow, NoCap
<1>2. /\ \A i \in LeaseId : lease[i].status = "none"
      /\ \A c \in CapId : cap[c].status = "none"
      /\ \A s \in Slot : slot[s].status = "none"
  BY DEF Init, NoSlot, NoLease, NoCap
<1> QED
  BY <1>1, <1>2 DEF Inv, RowsAreFilled, Exists, EpochIdentifiesLease, NotOvertaken, StopsAreAsked,
                    Stopped, StoppedSlotHasNoAuthority

LEMMA InvStep == Inv /\ [Next]_vars => Inv'
BY TypeStep, RowsAreFilledStep, EpochStep, NotOvertakenStep, StopsAreAskedStep, StoppedSlotStep
   DEF Inv

LEMMA Invariance == Spec => []Inv
BY InvInit, InvStep, PTL DEF Spec

\* Every row of every table keeps its type, for any number of slots, resources, leases
\* and grants: no handler of the authority core writes a malformed row.
THEOREM TypeCorrect == Spec => []TypeOK
<1>1. Inv => TypeOK
  BY DEF Inv
<1> QED
  BY <1>1, Invariance, PTL

\* An epoch of a resource names at most one lease, so that submitClaim's lookup by
\* epoch finds the lease the grant was minted under.
THEOREM EpochsIdentifyLeases == Spec => []EpochIdentifiesLease
<1>1. Inv => EpochIdentifiesLease
  BY DEF Inv
<1> QED
  BY <1>1, Invariance, PTL

\* However acquire, renew, release, expiry, fencing and tab occupancy interleave, an
\* exclusive lease is alone on its resource.
THEOREM LeasesExclude == Spec => []MutualExclusion
<1>1. Inv => MutualExclusion
  BY NotOvertakenExcludes DEF Inv
<1> QED
  BY <1>1, Invariance, PTL

\* A suspended or retired slot has no lease on a work resource of its project and no
\* write grant in it, and no later call gives it one while it is stopped.
THEOREM StoppedSlotsAreFenced == Spec => []StoppedSlotHasNoAuthority
<1>1. Inv => StoppedSlotHasNoAuthority
  BY DEF Inv
<1> QED
  BY <1>1, Invariance, PTL

-----------------------------------------------------------------------------
(* Claims, and the refinement of FencingToken. *)

ClaimAccepted ==
  \E i \in LeaseId, c \in claim' :
    /\ lease'[i].status = "active" /\ lease'[i].resource \in Resource
    /\ claim' = claim \cup {c}
    /\ c.lease = i /\ c.resource = lease'[i].resource /\ c.epoch = lease'[i].epoch

LEMMA SubmitClaimAccepts ==
  ASSUME TypeOK, RowsAreFilled, NEW d \in CapId, SubmitClaim(d)
  PROVE  LeasesShrink /\ ClaimAccepted
<1> DEFINE rows == Expired(lease, cap[d].resource)
           new(i) == [project |-> cap[d].project, subject |-> cap[d].subject,
                      task |-> cap[d].task, resource |-> cap[d].resource, lease |-> i,
                      epoch |-> cap[d].epoch]
<1>1. lease' = rows /\ resEpoch' = resEpoch
  BY DEF SubmitClaim
<1>2. PICK i \in LeaseId :
        /\ rows[i].resource = cap[d].resource /\ rows[i].epoch = cap[d].epoch
        /\ rows[i].status = "active" /\ claim' = claim \cup {new(i)}
  BY DEF SubmitClaim, Admits
<1>3. cap[d].resource \in Resource
  BY DEF SubmitClaim, Verifies, RowsAreFilled
<1>4. \A j \in LeaseId : Kept(lease[j], rows[j])
  BY ExpiredKeeps DEF TypeOK
<1>5. new(i).lease = i /\ new(i).resource = cap[d].resource /\ new(i).epoch = cap[d].epoch
  OBVIOUS
<1>6. LeasesShrink
  BY <1>1, <1>4 DEF LeasesShrink
<1> HIDE DEF rows, new
<1>7. new(i) \in claim'
  BY <1>2
<1>8. ClaimAccepted
  BY <1>1, <1>2, <1>3, <1>5, <1>7 DEF ClaimAccepted
<1> QED
  BY <1>6, <1>8

LEMMA ClaimsChange ==
  ASSUME TypeOK, RowsAreFilled, [Next]_vars
  PROVE  claim' = claim \/ (LeasesShrink /\ ClaimAccepted)
<1>1. CASE ProjectStep \/ ClockMoves \/ UNCHANGED vars
  BY <1>1 DEF ProjectStep, SetProjectStatus, ClockMoves, vars
<1>2. CASE SlotStep
  BY <1>2 DEF SlotStep, CreateAgentSlot, SuspendAgentSlot, RetireAgentSlot, ResumeAgentSlot
<1>3. CASE BrowserStep
  <2>1. ASSUME NEW s, NEW at, ReportBrowserAbsent(s, at) PROVE claim' = claim
    BY <2>1 DEF ReportBrowserAbsent
  <2>2. ASSUME NEW s, NEW browser, NEW tab, NEW at, ReportBrowserPresent(s, browser, tab, at)
        PROVE  claim' = claim
    BY <2>2 DEF ReportBrowserPresent
  <2> QED
    BY <1>3, <2>1, <2>2 DEF BrowserStep
<1>4. CASE LeaseStep
  <2>1. ASSUME NEW r, NEW p, NEW h, NEW task, NEW mode, NEW ttl,
               AcquireLease(r, p, h, task, mode, ttl)
        PROVE  claim' = claim
    BY <2>1 DEF AcquireLease
  <2>2. ASSUME NEW i, NEW epoch, NEW ttl, RenewLease(i, epoch, ttl) PROVE claim' = claim
    BY <2>2 DEF RenewLease
  <2>3. ASSUME NEW i, NEW epoch, ReleaseLease(i, epoch) PROVE claim' = claim
    BY <2>3 DEF ReleaseLease
  <2> QED
    BY <1>4, <2>1, <2>2, <2>3 DEF LeaseStep
<1>5. CASE GrantStep
  <2>1. ASSUME NEW subject, NEW agent, NEW p, NEW write, NEW task, NEW r, NEW epoch, NEW ttl,
               IssueCapability(subject, agent, p, write, task, r, epoch, ttl)
        PROVE  claim' = claim
    BY <2>1 DEF IssueCapability
  <2>2. ASSUME NEW c, RevokeCapability(c) PROVE claim' = claim
    BY <2>2 DEF RevokeCapability
  <2> QED
    BY <1>5, <2>1, <2>2, SubmitClaimAccepts DEF GrantStep
<1> QED
  BY <1>1, <1>2, <1>3, <1>4, <1>5 DEF Next

\* A claim is accepted only under an epoch that no exclusive lease has overtaken, and
\* never under an exclusive one that any later lease has overtaken.
THEOREM AcceptedClaimsAreFenced == Spec => ClaimsAreFenced
<1>1. ASSUME Inv, Inv', [Next]_vars
      PROVE  \A c \in claim' \ claim : \A j \in LeaseId :
        (lease'[j].status # "none" /\ lease'[j].resource = c.resource /\ lease'[j].epoch > c.epoch)
          => lease'[j].mode = "shared" /\ lease'[c.lease].mode = "shared"
  <2>1. CASE claim' = claim
    BY <2>1
  <2>2. CASE ClaimAccepted
    <3>1. PICK i \in LeaseId, c \in claim' :
            /\ lease'[i].status = "active"
            /\ claim' = claim \cup {c}
            /\ c.lease = i /\ c.resource = lease'[i].resource /\ c.epoch = lease'[i].epoch
      BY <2>2 DEF ClaimAccepted
    <3>2. NotOvertaken'
      BY <1>1 DEF Inv
    <3> QED
      BY <3>1, <3>2 DEF NotOvertaken
  <2> QED
    BY <1>1, <2>1, <2>2, ClaimsChange DEF Inv
<1> QED
  BY <1>1, Invariance, PTL DEF Spec, ClaimsAreFenced

\* A lease past its expiry is never given a new one: renewal expires it first.
THEOREM LapsedLeasesStay == Spec => LapsedLeaseIsNotExtended
<1>1. ASSUME Inv, [Next]_vars
      PROVE  \A i \in LeaseId : Lapsed(lease[i]) => lease'[i].expires = lease[i].expires
  <2> SUFFICES ASSUME NEW i \in LeaseId, Lapsed(lease[i])
               PROVE  lease'[i].expires = lease[i].expires
    OBVIOUS
  <2>1. Past(lease[i]) /\ lease[i].status = "active"
    BY DEF Lapsed, Past
  <2>2. Kept(lease[i], lease'[i])
    BY <1>1, <2>1, LeaseTableSteps DEF Inv, LeasesShrink, LeaseGranted, GrantedAs
  <2> QED
    BY <2>1, <2>2 DEF Kept
<1> QED
  BY <1>1, Invariance, PTL DEF Spec, LapsedLeaseIsNotExtended

LEMMA ShrinkingTokens ==
  ASSUME NEW r \in Resource, \A i \in LeaseId : lease'[i].resource = r => Kept(lease[i], lease'[i])
  PROVE  ValidTokens'[r] \subseteq ValidTokens[r]
<1>1. /\ ValidTokens[r] = {<<lease[i].epoch, lease[i].mode>> : i \in ActiveOn(lease, r)}
      /\ ValidTokens'[r] = {<<lease'[i].epoch, lease'[i].mode>> : i \in ActiveOn(lease', r)}
  BY DEF ValidTokens
<1>2. ASSUME NEW i \in ActiveOn(lease', r)
      PROVE  /\ i \in ActiveOn(lease, r)
             /\ lease'[i].epoch = lease[i].epoch /\ lease'[i].mode = lease[i].mode
  BY DEF ActiveOn, Kept
<1> QED
  BY <1>1, <1>2

LEMMA RefinedStep ==
  ASSUME Inv, Inv', [Next]_vars PROVE [Promise!ANext]_(Promise!avars)
<1> USE DEF Inv
<1>1. CASE LeasesShrink /\ claim' = claim
  <2>1. \A r \in Resource : ValidTokens'[r] \subseteq ValidTokens[r]
    BY <1>1, ShrinkingTokens DEF LeasesShrink
  <2>2. AcceptedUnder' = AcceptedUnder /\ resEpoch' = resEpoch
    BY <1>1 DEF AcceptedUnder, LeasesShrink
  <2> QED
    BY <2>1, <2>2 DEF Promise!ANext, Promise!Lapse
<1>2. CASE LeasesShrink /\ ClaimAccepted
  <2>1. \A r \in Resource : ValidTokens'[r] \subseteq ValidTokens[r]
    BY <1>2, ShrinkingTokens DEF LeasesShrink
  <2>2. resEpoch' = resEpoch
    BY <1>2 DEF LeasesShrink
  <2>3. PICK i \in LeaseId, c \in claim' :
          /\ lease'[i].status = "active" /\ lease'[i].resource \in Resource
          /\ claim' = claim \cup {c}
          /\ c.resource = lease'[i].resource /\ c.epoch = lease'[i].epoch
    BY <1>2 DEF ClaimAccepted
  <2> DEFINE r == lease'[i].resource
             token == <<lease'[i].epoch, lease'[i].mode>>
  <2>4. token \in ValidTokens'[r]
    BY <2>3 DEF ValidTokens, ActiveOn
  <2>5. AcceptedUnder' = AcceptedUnder \cup {<<r, token[1]>>}
    BY <2>3 DEF AcceptedUnder
  <2>6. r \in Resource
    BY <2>3
  <2> HIDE DEF r, token
  <2> QED
    BY <2>1, <2>2, <2>4, <2>5, <2>6 DEF Promise!ANext, Promise!Accept
<1>3. CASE LeaseGranted /\ claim' = claim
  <2>1. PICK g \in LeaseId, r \in Resource : GrantedAs(g, r)
    BY <1>3 DEF LeaseGranted
  <2> DEFINE m == lease'[g].mode
             token == <<resEpoch[r] + 1, m>>
  <2>2. m \in Promise!Mode
    BY DEF TypeOK, LeaseRow, Promise!Mode
  <2>3. resEpoch' = [resEpoch EXCEPT ![r] = @ + 1] /\ AcceptedUnder' = AcceptedUnder
    BY <1>3, <2>1 DEF GrantedAs, AcceptedUnder
  <2>4. \A q \in Resource \ {r} : ValidTokens'[q] \subseteq ValidTokens[q]
    BY <2>1, ShrinkingTokens DEF GrantedAs
  <2>5. /\ ValidTokens[r] = {<<lease[i].epoch, lease[i].mode>> : i \in ActiveOn(lease, r)}
        /\ ValidTokens'[r] = {<<lease'[i].epoch, lease'[i].mode>> : i \in ActiveOn(lease', r)}
    BY DEF ValidTokens
  <2>6. g \in ActiveOn(lease', r) /\ <<lease'[g].epoch, lease'[g].mode>> = token
    BY <2>1 DEF GrantedAs, ActiveOn
  <2>7. ASSUME NEW i \in ActiveOn(lease', r), i # g
        PROVE  /\ i \in ActiveOn(lease, r)
               /\ lease'[i].epoch = lease[i].epoch /\ lease'[i].mode = lease[i].mode
               /\ m = "shared" /\ lease'[i].mode = "shared"
    BY <2>1, <2>7 DEF GrantedAs, ActiveOn, Kept
  <2> HIDE DEF m
  <2>8. /\ ValidTokens'[r] \subseteq ValidTokens[r] \cup {token}
        /\ token \in ValidTokens'[r]
        /\ \A other \in ValidTokens'[r] : other = token \/ (m = "shared" /\ other[2] = "shared")
    <3> HIDE DEF token
    <3> QED BY <2>5, <2>6, <2>7
  <2>9. Promise!Grant
    BY <2>2, <2>3, <2>4, <2>8 DEF Promise!Grant
  <2> QED
    BY <2>9 DEF Promise!ANext
<1> QED
  BY <1>1, <1>2, <1>3, LeaseTableSteps, ClaimsChange

LEMMA RefinedInit == Init => Promise!AInit
<1> SUFFICES ASSUME Init PROVE Promise!AInit
  OBVIOUS
<1>1. \A r \in Resource : ActiveOn(lease, r) = {}
  BY DEF Init, NoLease, ActiveOn
<1>2. ValidTokens = [r \in Resource |-> {}]
  BY <1>1 DEF ValidTokens
<1> QED
  BY <1>2 DEF Init, Promise!AInit, AcceptedUnder

\* Leases, fencing on suspend and retire, expiry, tab occupancy and claims together
\* behave as fencing tokens.
THEOREM KernelImplementsFencing == Spec => ImplementsFencing
BY RefinedInit, RefinedStep, Invariance, PTL DEF Spec, ImplementsFencing, Promise!ASpec

-----------------------------------------------------------------------------
(* What a step may do to a slot's page: nothing, or take the report that it has *)
(* left, or the report that it is there.                                        *)

PageKept(s) ==
  /\ slot'[s].browser = slot[s].browser /\ slot'[s].tab = slot[s].tab
  /\ slot'[s].tabLease = slot[s].tabLease

PageLeft(s) ==
  /\ Exists(s)
  /\ slot'[s].desired = "active" \/ slot'[s].status = slot'[s].desired
  /\ slot[s].tabLease \in LeaseId => lease'[slot[s].tabLease].status # "active"

\* Lease i is the one slot s remembers, for the tab it is at.
HoldsPage(s, i) ==
  /\ lease[i].holder = s /\ slot[s].tabLease = i
  /\ slot[s].tab = lease[i].resource /\ slot[s].browser # "absent"

\* The lease of the page seen before is kept if the page is still the same.
PageSeen(s) ==
  /\ Exists(s)
  /\ slot'[s].browser # "absent"
  /\ \A i \in LeaseId : (/\ HoldsPage(s, i) /\ lease[i].resource \in Tab
                         /\ lease[i].status = "active" /\ lease'[i].status = "active")
                          => slot'[s].tabLease = i /\ slot'[s].tab = slot[s].tab

PageChange(s) == PageKept(s) \/ SlotCreated(s) \/ PageLeft(s) \/ PageSeen(s)

LEMMA PageKeptBy ==
  ASSUME TypeOK, NEW t \in Slot, NEW s \in Slot, NEW desired, NEW status,
         slot' = [slot EXCEPT ![t] = [slot[t] EXCEPT !.desired = desired, !.status = status]]
  PROVE  PageKept(s)
<1>1. slot[t] \in SlotRow /\ slot[s] \in SlotRow
  BY DEF TypeOK
<1>2. slot'[s] = slot[s] \/ (s = t /\ slot'[s] = [slot[s] EXCEPT !.desired = desired, !.status = status])
  BY DEF TypeOK
<1> QED
  BY <1>1, <1>2 DEF PageKept, SlotRow

LEMMA SlotStepPages ==
  ASSUME TypeOK, SlotStep, NEW s \in Slot PROVE PageKept(s) \/ SlotCreated(s)
<1>0. slot \in [Slot -> SlotRow]
  BY DEF TypeOK
<1>1. ASSUME NEW t \in Slot, NEW p \in Project, NEW role \in Role, CreateAgentSlot(t, p, role)
      PROVE  PageKept(s) \/ SlotCreated(s)
  <2> DEFINE row == [NoSlot EXCEPT !.project = p, !.role = role, !.status = "ready"]
  <2>1. row.project = p /\ row.status = "ready" /\ row.desired = "active"
    BY DEF NoSlot
  <2>2. ~Exists(t) /\ slot' = [slot EXCEPT ![t] = row] /\ lease' = lease /\ cap' = cap
    BY <1>1 DEF CreateAgentSlot
  <2> HIDE DEF row
  <2>3. SlotCreated(t)
    BY <1>0, <2>1, <2>2 DEF SlotCreated
  <2>4. s # t => slot'[s] = slot[s]
    BY <1>0, <2>2
  <2> QED
    BY <2>3, <2>4 DEF PageKept
<1>2. ASSUME NEW t \in Slot, NEW target, StopSlot(t, target) PROVE PageKept(s)
  <2>1. slot' = [slot EXCEPT ![t] = [slot[t] EXCEPT !.desired = target, !.status = target]]
        \/ slot' = [slot EXCEPT ![t] = [slot[t] EXCEPT !.desired = target, !.status = slot[t].status]]
    <3>1. \/ slot' = [slot EXCEPT ![t].desired = target, ![t].status = target]
          \/ slot' = [slot EXCEPT ![t].desired = target]
      BY <1>2 DEF StopSlot
    <3>2. slot[t] \in SlotRow
      BY <1>0
    <3> QED
      BY <1>0, <3>1, <3>2 DEF SlotRow
  <2> QED
    BY <2>1, PageKeptBy
<1>3. ASSUME NEW t \in Slot, ResumeAgentSlot(t) PROVE PageKept(s)
  <2>1. slot' = [slot EXCEPT ![t] = [slot[t] EXCEPT !.desired = "active", !.status = "ready"]]
    BY <1>3 DEF ResumeAgentSlot
  <2> QED
    BY <2>1, PageKeptBy
<1> QED
  BY <1>1, <1>2, <1>3 DEF SlotStep, SuspendAgentSlot, RetireAgentSlot

LEMMA LeftPage ==
  ASSUME TypeOK, NEW s \in Slot, NEW at, ReportBrowserAbsent(s, at) PROVE PageLeft(s)
<1> DEFINE stopping == slot[s].desired # "active" /\ slot[s].status # slot[s].desired
           status == IF slot[s].desired = "active" THEN "ready"
                     ELSE IF stopping THEN slot[s].desired ELSE slot[s].status
           row == [slot[s] EXCEPT !.browser = "absent", !.tab = Null, !.tabLease = Null,
                                  !.seen = at, !.status = status]
<1>0. slot[s] \in SlotRow
  BY DEF TypeOK
<1>1. slot' = [slot EXCEPT ![s] = row]
  BY DEF ReportBrowserAbsent
<1>2. row.desired = slot[s].desired /\ row.status = status
  <2> HIDE DEF status
  <2> QED BY <1>0 DEF SlotRow
<1>3. slot'[s] = row
  BY <1>1 DEF TypeOK
<1> HIDE DEF row
<1>4. slot'[s].desired = "active" \/ slot'[s].status = slot'[s].desired
  BY <1>2, <1>3
<1>5. ASSUME slot[s].tabLease \in LeaseId
      PROVE  lease'[slot[s].tabLease].status # "active"
  <2> DEFINE i == slot[s].tabLease
  <2>1. Vacated(s)[i].status # "active"
    <3>1. CASE lease[i].status = "active"
      <4>1. Vacated(s) = [lease EXCEPT ![i].status = "released"]
        BY <1>5, <3>1, NullAssumption DEF Vacated, Release
      <4>2. lease[i] \in LeaseRow /\ lease \in [LeaseId -> LeaseRow]
        BY <1>5 DEF TypeOK
      <4> QED
        BY <1>5, <4>1, <4>2 DEF LeaseRow
    <3>2. CASE lease[i].status # "active"
      BY <3>2 DEF Vacated
    <3> QED
      BY <3>1, <3>2
  <2>2. Vacated(s) \in [LeaseId -> LeaseRow]
    BY VacatedType DEF TypeOK
  <2>3. Kept(Vacated(s)[i], FencedLeases(Vacated(s), s)[i])
    BY <1>5, <2>2, FencedKeeps
  <2>4. lease' = FencedLeases(Vacated(s), s) \/ lease' = Vacated(s)
    BY DEF ReportBrowserAbsent
  <2> QED
    BY <2>1, <2>3, <2>4 DEF Kept
<1>6. Exists(s)
  BY DEF ReportBrowserAbsent
<1> QED
  BY <1>4, <1>5, <1>6 DEF PageLeft

LEMMA SeenPage ==
  ASSUME TypeOK, NoLeakedTab, NEW s \in Slot, NEW browser \in {"live", "closing"},
         NEW reported \in Tab \cup {Null}, NEW at, ReportBrowserPresent(s, browser, reported, at)
  PROVE  PageSeen(s)
<1> DEFINE tab == IF reported # Null THEN reported ELSE slot[s].tab
           moved == tab # Null /\ slot[s].tab # Null /\ slot[s].tab # tab
           rows == IF moved THEN Vacated(s) ELSE lease
           row(tabLease) == [slot[s] EXCEPT !.browser = browser, !.tab = tab,
                               !.tabLease = tabLease, !.seen = at,
                               !.status = IF slot[s].desired = "active" THEN "ready" ELSE @]
           Seen(tabLease) == [slot EXCEPT ![s] = row(tabLease)]
           Granted == NewLease(tab, slot[s].project, s, Null, "exclusive", NoExpiry)
<1>0. slot[s] \in SlotRow /\ slot \in [Slot -> SlotRow] /\ lease \in [LeaseId -> LeaseRow]
  BY DEF TypeOK
<1>1. \/ tab = Null /\ slot' = Seen(slot[s].tabLease)
      \/ /\ \E i \in ActiveOn(rows, tab) : rows[i].holder = s /\ slot' = Seen(i)
         /\ tab # Null /\ lease' = rows
      \/ /\ tab # Null /\ ActiveOn(rows, tab) = {} /\ FreshLeases # {}
         /\ slot' = Seen(CHOOSE i \in FreshLeases : TRUE)
         /\ lease' = [rows EXCEPT ![CHOOSE i \in FreshLeases : TRUE] = Granted]
  BY DEF ReportBrowserPresent
<1>2. ASSUME NEW i
      PROVE  row(i).browser = browser /\ row(i).tab = tab /\ row(i).tabLease = i
  BY <1>0 DEF SlotRow
<1>3. \A i : Seen(i)[s] = row(i)
  <2> HIDE DEF row
  <2> QED BY <1>0
<1>4. slot'[s].browser # "absent"
  <2> HIDE DEF row, Seen
  <2> QED BY <1>1, <1>2, <1>3
<1>5. ASSUME NEW i \in LeaseId, HoldsPage(s, i), lease[i].resource \in Tab,
             lease[i].status = "active", lease'[i].status = "active"
      PROVE  slot'[s].tabLease = i /\ slot'[s].tab = slot[s].tab
  <2>1. slot[s].tab \in Tab /\ slot[s].tab # Null /\ slot[s].tabLease = i /\ i # Null
    BY <1>5, NullAssumption DEF HoldsPage, Resource
  <2>2. tab # Null
    BY <2>1
  <2>3. ~moved
    <3> SUFFICES ASSUME moved PROVE FALSE
      OBVIOUS
    <3>1. rows = [lease EXCEPT ![i].status = "released"]
      BY <1>5, <2>1 DEF Vacated, Release
    <3>2. rows[i].status = "released" /\ rows \in [LeaseId -> LeaseRow]
      BY <1>0, <3>1 DEF LeaseRow
    <3>3. lease' = rows \/ \E j \in LeaseId : lease[j].status = "none" /\ lease' = [rows EXCEPT ![j] = Granted]
      BY <1>1, <2>2, FreshLease
    <3> HIDE DEF rows, Granted
    <3>4. lease'[i] = rows[i]
      BY <1>5, <3>2, <3>3
    <3> QED
      BY <1>5, <3>2, <3>4
  <2>4. tab = slot[s].tab /\ rows = lease
    BY <2>1, <2>2, <2>3
  <2>5. i \in ActiveOn(lease, tab)
    BY <1>5, <2>4 DEF ActiveOn, HoldsPage
  <2>6. PICK j \in ActiveOn(lease, tab) : lease[j].holder = s /\ slot' = Seen(j)
    <3> HIDE DEF tab, rows, row, Seen, Granted
    <3> QED BY <1>1, <2>2, <2>4, <2>5
  <2>7. j \in LeaseId /\ lease[j].status = "active" /\ lease[j].resource \in Tab
    BY <2>1, <2>4, <2>6 DEF ActiveOn
  <2>8. slot[s].tabLease = j
    BY <2>6, <2>7 DEF NoLeakedTab
  <2>9. slot'[s] = row(i)
    <3> HIDE DEF row, Seen
    <3> QED BY <1>3, <2>1, <2>6, <2>8
  <2> QED
    BY <1>2, <2>4, <2>9
<1>6. Exists(s)
  BY DEF ReportBrowserPresent
<1> QED
  BY <1>4, <1>5, <1>6 DEF PageSeen

LEMMA BrowserStepPages ==
  ASSUME TypeOK, NoLeakedTab, BrowserStep, NEW s \in Slot
  PROVE  PageKept(s) \/ PageLeft(s) \/ PageSeen(s)
<1>0. slot \in [Slot -> SlotRow]
  BY DEF TypeOK
<1>1. ASSUME NEW t \in Slot, NEW at, ReportBrowserAbsent(t, at)
      PROVE  PageKept(s) \/ PageLeft(s)
  <2>1. \E row : slot' = [slot EXCEPT ![t] = row]
    BY <1>1 DEF ReportBrowserAbsent
  <2>2. s # t => slot'[s] = slot[s]
    BY <1>0, <2>1
  <2> QED
    BY <1>1, <2>2, LeftPage DEF PageKept
<1>2. ASSUME NEW t \in Slot, NEW at, NEW browser \in {"live", "closing"},
             NEW reported \in Tab \cup {Null}, ReportBrowserPresent(t, browser, reported, at)
      PROVE  PageKept(s) \/ PageSeen(s)
  <2>1. \E row : slot' = [slot EXCEPT ![t] = row]
    BY <1>2 DEF ReportBrowserPresent
  <2>2. s # t => slot'[s] = slot[s]
    BY <1>0, <2>1
  <2> QED
    BY <1>2, <2>2, SeenPage DEF PageKept
<1> QED
  BY <1>1, <1>2 DEF BrowserStep

LEMMA PagesChange ==
  ASSUME TypeOK, NoLeakedTab, [Next]_vars, NEW s \in Slot PROVE PageChange(s)
<1>1. CASE slot' = slot
  BY <1>1 DEF PageChange, PageKept
<1> QED
  BY <1>1, SlotStepPages, BrowserStepPages, OtherActionsKeepSlots DEF Next, PageChange

\* A slot that was never created has no page.
PagesAreOfSlots == \A s \in Slot : ~Exists(s) => slot[s].browser = "absent"

LEMMA NoLeakedTabStep ==
  ASSUME TypeOK, PagesAreOfSlots, NoLeakedTab, [Next]_vars PROVE NoLeakedTab'
<1> SUFFICES ASSUME NEW i \in LeaseId, lease'[i].status = "active", lease'[i].resource \in Tab
             PROVE  \E s \in Slot : /\ lease'[i].holder = s /\ slot'[s].tabLease = i
                                    /\ slot'[s].tab = lease'[i].resource /\ slot'[s].browser # "absent"
  BY DEF NoLeakedTab
<1>1. CASE Kept(lease[i], lease'[i])
  <2>1. /\ lease[i].status = "active" /\ lease[i].resource \in Tab
        /\ lease'[i].resource = lease[i].resource /\ lease'[i].holder = lease[i].holder
    BY <1>1 DEF Kept
  <2>2. PICK s \in Slot : HoldsPage(s, i)
    BY <2>1 DEF NoLeakedTab, HoldsPage
  <2>3. PageKept(s) \/ SlotCreated(s) \/ PageLeft(s) \/ PageSeen(s)
    BY PagesChange DEF PageChange
  <2>4. ~SlotCreated(s) /\ ~PageLeft(s)
    BY <2>2 DEF SlotCreated, PageLeft, HoldsPage, PagesAreOfSlots
  <2>5. CASE PageKept(s)
    BY <2>1, <2>2, <2>5 DEF PageKept, HoldsPage
  <2>6. CASE PageSeen(s)
    <3>1. slot'[s].browser # "absent" /\ slot'[s].tabLease = i /\ slot'[s].tab = slot[s].tab
      BY <2>1, <2>2, <2>6 DEF PageSeen
    <3> QED
      BY <2>1, <2>2, <3>1 DEF HoldsPage
  <2> QED
    BY <2>3, <2>4, <2>5, <2>6
<1>2. CASE ~Kept(lease[i], lease'[i])
  <2>1. PICK g \in LeaseId, r \in Resource : GrantedAs(g, r)
    BY <1>2, LeaseTableSteps DEF LeasesShrink, LeaseGranted
  <2>2. i = g /\ lease'[i].resource = r
    BY <1>2, <2>1 DEF GrantedAs
  <2> QED
    BY <2>1, <2>2 DEF GrantedAs, TabTaken
<1> QED
  BY <1>1, <1>2

LEMMA PagesAreOfSlotsStep ==
  ASSUME TypeOK, PagesAreOfSlots, NoLeakedTab, [Next]_vars PROVE PagesAreOfSlots'
<1> SUFFICES ASSUME NEW s \in Slot, slot'[s].status = "none" PROVE slot'[s].browser = "absent"
  BY DEF PagesAreOfSlots, Exists
<1>1. ~Exists(s) /\ ~SlotCreated(s)
  BY SlotsChange DEF SlotChange, SlotUntouched, SlotCreated, SlotReady, SlotDrains, SlotStops, Exists
<1>2. PageKept(s)
  BY <1>1, PagesChange DEF PageChange, PageLeft, PageSeen
<1> QED
  BY <1>1, <1>2 DEF PagesAreOfSlots, PageKept

LEMMA NoOrphanedDrainStep ==
  ASSUME TypeOK, NoLeakedTab, NoOrphanedDrain, [Next]_vars PROVE NoOrphanedDrain'
<1> SUFFICES ASSUME NEW s \in Slot, slot'[s].status # "none", slot'[s].browser = "absent",
                    slot'[s].desired # "active"
             PROVE  slot'[s].status = slot'[s].desired
  BY DEF NoOrphanedDrain, Exists
<1>1. SlotUntouched(s) \/ SlotDrains(s) \/ SlotStops(s)
  BY SlotsChange DEF SlotChange, SlotCreated, SlotReady
<1>2. PageKept(s) \/ PageLeft(s)
  BY PagesChange DEF PageChange, PageSeen, SlotCreated
<1>3. CASE SlotStops(s)
  BY <1>3 DEF SlotStops
<1>4. CASE PageLeft(s)
  BY <1>4 DEF PageLeft
<1>5. CASE PageKept(s) /\ SlotUntouched(s)
  BY <1>5 DEF PageKept, SlotUntouched, NoOrphanedDrain, Exists
<1>6. CASE PageKept(s) /\ SlotDrains(s)
  BY <1>6 DEF PageKept, SlotDrains
<1> QED
  BY <1>1, <1>2, <1>3, <1>4, <1>5, <1>6

-----------------------------------------------------------------------------
(* What a step may do to the workforces: one slot is created or resumed, where *)
(* there is room; one is asked to stop, where it can be spared; or it reports. *)

HasRoom(p) == Cardinality(Workforce(p)) < MaxSlots
CanSpare(p) == project[p] = "active" => Cardinality(Workforce(p)) > MinSlots

Joins(t) ==
  /\ slot'[t].desired = "active" /\ slot'[t].status = "ready"
  /\ HasRoom(slot'[t].project) /\ ~Enrolled(t)

Leaves(t) ==
  /\ slot'[t].project = slot[t].project
  /\ Exists(t) /\ slot'[t].desired # "active"
  /\ slot[t].desired = "active" => CanSpare(slot[t].project)

Stays(t) ==
  /\ slot'[t].project = slot[t].project /\ slot'[t].desired = slot[t].desired
  /\ \/ slot'[t].status = slot[t].status
     \/ Exists(t) /\ slot'[t].status = "ready" /\ slot[t].desired = "active"
     \/ slot[t].desired # "active"

LEMMA OneSlotMoves ==
  ASSUME TypeOK, StopsAreAsked, [Next]_vars
  PROVE  slot' = slot \/ \E t \in Slot : /\ \A s \in Slot \ {t} : slot'[s] = slot[s]
                                         /\ Joins(t) \/ Leaves(t) \/ Stays(t)
<1>0. slot \in [Slot -> SlotRow]
  BY DEF TypeOK
<1> DEFINE Goal(t) == /\ \A s \in Slot \ {t} : slot'[s] = slot[s]
                      /\ Joins(t) \/ Leaves(t) \/ Stays(t)
<1>1. ASSUME NEW t \in Slot, NEW p \in Project, NEW role \in Role, CreateAgentSlot(t, p, role)
      PROVE  Goal(t)
  <2> DEFINE row == [NoSlot EXCEPT !.project = p, !.role = role, !.status = "ready"]
  <2>1. row.project = p /\ row.status = "ready" /\ row.desired = "active"
    BY DEF NoSlot
  <2>2. ~Exists(t) /\ HasRoom(p) /\ slot' = [slot EXCEPT ![t] = row]
    BY <1>1 DEF CreateAgentSlot, HasRoom
  <2> HIDE DEF row
  <2>3. slot'[t] = row /\ \A s \in Slot \ {t} : slot'[s] = slot[s]
    BY <1>0, <2>2
  <2>4. Joins(t)
    BY <2>1, <2>2, <2>3 DEF Joins, Enrolled, Exists
  <2> QED
    BY <2>3, <2>4
<1>2. ASSUME NEW t \in Slot, NEW target \in {"suspended", "retired"}, StopSlot(t, target), Exists(t),
             slot[t].desired = "active" => CanSpare(slot[t].project)
      PROVE  Goal(t)
  <2>1. \/ slot' = [slot EXCEPT ![t] = [slot[t] EXCEPT !.desired = target, !.status = target]]
        \/ slot' = [slot EXCEPT ![t] = [slot[t] EXCEPT !.desired = target]]
    BY <1>0, <1>2, StopSlotRows
  <2>2. slot'[t].desired = target /\ slot'[t].project = slot[t].project
    <3>1. slot[t] \in SlotRow
      BY <1>0
    <3>2. \/ slot'[t] = [slot[t] EXCEPT !.desired = target, !.status = target]
          \/ slot'[t] = [slot[t] EXCEPT !.desired = target]
      BY <1>0, <2>1
    <3> QED
      BY <3>1, <3>2 DEF SlotRow
  <2>3. \A s \in Slot \ {t} : slot'[s] = slot[s]
    BY <1>0, <2>1
  <2> QED
    BY <1>2, <2>2, <2>3 DEF Leaves
<1>3. ASSUME NEW t \in Slot, SuspendAgentSlot(t) PROVE Goal(t)
  BY <1>2, <1>3 DEF SuspendAgentSlot, CanSpare
<1>4. ASSUME NEW t \in Slot, RetireAgentSlot(t) PROVE Goal(t)
  BY <1>2, <1>4 DEF RetireAgentSlot, CanSpare
<1>5. ASSUME NEW t \in Slot, ResumeAgentSlot(t) PROVE Goal(t)
  <2>1. slot' = [slot EXCEPT ![t] = [slot[t] EXCEPT !.desired = "active", !.status = "ready"]]
        /\ HasRoom(slot[t].project) /\ slot[t].desired = "suspended"
    BY <1>0, <1>5 DEF ResumeAgentSlot, HasRoom
  <2>2. /\ slot'[t].desired = "active" /\ slot'[t].status = "ready"
        /\ slot'[t].project = slot[t].project
    BY <1>0, <2>1 DEF SlotRow
  <2>3. \A s \in Slot \ {t} : slot'[s] = slot[s]
    BY <1>0, <2>1
  <2>4. Joins(t)
    BY <2>1, <2>2 DEF Joins, Enrolled
  <2> QED
    BY <2>3, <2>4
<1>6. ASSUME NEW t \in Slot, NEW row, slot' = [slot EXCEPT ![t] = row], Exists(t),
             row.project = slot[t].project, row.desired = slot[t].desired,
             slot[t].desired = "active" => row.status = "ready"
      PROVE  Goal(t)
  <2>1. slot'[t] = row /\ \A s \in Slot \ {t} : slot'[s] = slot[s]
    BY <1>0, <1>6
  <2> QED
    BY <1>6, <2>1 DEF Stays
<1>7. ASSUME NEW t \in Slot, NEW at, ReportBrowserAbsent(t, at) PROVE Goal(t)
  <2> DEFINE stopping == slot[t].desired # "active" /\ slot[t].status # slot[t].desired
             status == IF slot[t].desired = "active" THEN "ready"
                       ELSE IF stopping THEN slot[t].desired ELSE slot[t].status
             row == [slot[t] EXCEPT !.browser = "absent", !.tab = Null, !.tabLease = Null,
                                    !.seen = at, !.status = status]
  <2>1. slot' = [slot EXCEPT ![t] = row] /\ Exists(t)
    BY <1>7 DEF ReportBrowserAbsent
  <2>2. row.project = slot[t].project /\ row.desired = slot[t].desired /\ row.status = status
    <3> HIDE DEF status
    <3> QED BY <1>0 DEF SlotRow
  <2> HIDE DEF row
  <2> QED
    BY <1>6, <2>1, <2>2
<1>8. ASSUME NEW t \in Slot, NEW at, NEW browser, NEW reported,
             ReportBrowserPresent(t, browser, reported, at)
      PROVE  Goal(t)
  <2> DEFINE tab == IF reported # Null THEN reported ELSE slot[t].tab
             row(tabLease) == [slot[t] EXCEPT !.browser = browser, !.tab = tab,
                                 !.tabLease = tabLease, !.seen = at,
                                 !.status = IF slot[t].desired = "active" THEN "ready" ELSE @]
  <2>1. (\E tabLease : slot' = [slot EXCEPT ![t] = row(tabLease)]) /\ Exists(t)
    BY <1>8 DEF ReportBrowserPresent
  <2>2. ASSUME NEW tabLease
        PROVE  /\ row(tabLease).project = slot[t].project
               /\ row(tabLease).desired = slot[t].desired
               /\ slot[t].desired = "active" => row(tabLease).status = "ready"
    <3> HIDE DEF tab
    <3> QED BY <1>0 DEF SlotRow
  <2> HIDE DEF row
  <2> QED
    BY <1>6, <2>1, <2>2
<1> HIDE DEF Goal
<1>9. slot' = slot \/ \E t \in Slot : Goal(t)
  BY <1>1, <1>3, <1>4, <1>5, <1>7, <1>8, OtherActionsKeepSlots DEF Next, SlotStep, BrowserStep
<1> QED
  BY <1>9 DEF Goal

\* Slots that were created.  There are finitely many of them, whatever Slot is.
Born == {s \in Slot : Exists(s)}

LEMMA WorkforceSteps ==
  ASSUME TypeOK, StopsAreAsked, IsFiniteSet(Born), [Next]_vars, NEW p \in Project
  PROVE  /\ IsFiniteSet(Workforce(p)) /\ IsFiniteSet(Born')
         /\ \/ Workforce(p)' \subseteq Workforce(p)
            \/ \E t \in Slot : HasRoom(p) /\ Workforce(p)' \subseteq Workforce(p) \cup {t}
         /\ \/ Workforce(p) \subseteq Workforce(p)'
            \/ \E t \in Slot : CanSpare(p) /\ Workforce(p) \ {t} \subseteq Workforce(p)'
<1> DEFINE W == {s \in Slot : slot'[s].project = p /\ slot'[s].desired = "active"
                                /\ slot'[s].status \notin {"none", "retired"}}
           V == {s \in Slot : slot[s].project = p /\ slot[s].desired = "active"
                                /\ slot[s].status \notin {"none", "retired"}}
           B == {s \in Slot : slot'[s].status # "none"}
<1>1. Workforce(p) = V /\ Workforce(p)' = W /\ Born' = B
  BY DEF Workforce, Enrolled, Born, Exists
<1>2. V \subseteq Born
  BY DEF Born, Exists
<1>3. IsFiniteSet(V)
  BY <1>2, FS_Subset
<1>4. CASE slot' = slot
  <2>1. V = W /\ B = Born
    BY <1>4 DEF Born, Exists
  <2> QED
    BY <1>1, <1>3, <2>1
<1>5. ASSUME NEW t \in Slot, \A s \in Slot \ {t} : slot'[s] = slot[s]
      PROVE  /\ IsFiniteSet(B)
             /\ W \subseteq V \cup {t} /\ V \ {t} \subseteq W
             /\ t \notin W => W \subseteq V
             /\ t \notin V => V \subseteq W
  <2>1. B \subseteq Born \cup {t}
    BY <1>5 DEF Born, Exists
  <2>2. IsFiniteSet(Born \cup {t})
    BY FS_AddElement
  <2>3. IsFiniteSet(B)
    BY <2>1, <2>2, FS_Subset
  <2> QED
    BY <1>5, <2>3
<1>6. ASSUME NEW t \in Slot, \A s \in Slot \ {t} : slot'[s] = slot[s], Joins(t)
      PROVE  V \subseteq W /\ (W \subseteq V \/ (HasRoom(p) /\ W \subseteq V \cup {t}))
  <2>1. t \notin V
    BY <1>6 DEF Joins, Enrolled
  <2>2. slot'[t].project # p => t \notin W
    OBVIOUS
  <2>3. slot'[t].project = p => HasRoom(p)
    BY <1>6 DEF Joins
  <2> HIDE DEF V, W
  <2> QED
    BY <1>5, <1>6, <2>1, <2>2, <2>3
<1>7. ASSUME NEW t \in Slot, \A s \in Slot \ {t} : slot'[s] = slot[s], Leaves(t)
      PROVE  W \subseteq V /\ (V \subseteq W \/ (CanSpare(p) /\ V \ {t} \subseteq W))
  <2>1. t \notin W
    BY <1>7 DEF Leaves
  <2>2. t \in V => CanSpare(p)
    BY <1>7 DEF Leaves
  <2> HIDE DEF V, W
  <2> QED
    BY <1>5, <1>7, <2>1, <2>2
<1>8. ASSUME NEW t \in Slot, \A s \in Slot \ {t} : slot'[s] = slot[s], Stays(t)
      PROVE  V = W
  <2>1. t \in V <=> t \in W
    BY <1>8 DEF Stays, StopsAreAsked, Stopped, Exists
  <2>2. \A s \in Slot \ {t} : s \in V <=> s \in W
    BY <1>8
  <2>3. V \subseteq Slot /\ W \subseteq Slot
    OBVIOUS
  <2> HIDE DEF V, W
  <2> QED
    BY <2>1, <2>2, <2>3
<1>9. ASSUME NEW t \in Slot, \A s \in Slot \ {t} : slot'[s] = slot[s],
             Joins(t) \/ Leaves(t) \/ Stays(t)
      PROVE  /\ IsFiniteSet(B)
             /\ W \subseteq V \/ \E u \in Slot : HasRoom(p) /\ W \subseteq V \cup {u}
             /\ V \subseteq W \/ \E u \in Slot : CanSpare(p) /\ V \ {u} \subseteq W
  <2>1. CASE Joins(t)
    <3> HIDE DEF V, W, B
    <3> QED BY <1>5, <1>6, <1>9, <2>1
  <2>2. CASE Leaves(t)
    <3> HIDE DEF V, W, B
    <3> QED BY <1>5, <1>7, <1>9, <2>2
  <2>3. CASE Stays(t)
    <3> HIDE DEF V, W, B
    <3> QED BY <1>5, <1>8, <1>9, <2>3
  <2> QED
    BY <1>9, <2>1, <2>2, <2>3
<1> HIDE DEF V, W, B
<1> QED
  BY <1>1, <1>3, <1>4, <1>9, OneSlotMoves

LEMMA WithinCapacityStep ==
  ASSUME TypeOK, StopsAreAsked, IsFiniteSet(Born), WithinCapacity, [Next]_vars
  PROVE  WithinCapacity'
<1> SUFFICES ASSUME NEW p \in Project PROVE Cardinality(Workforce(p)') <= MaxSlots
  BY DEF WithinCapacity
<1> DEFINE V == Workforce(p)
           W == Workforce(p)'
<1>1. /\ IsFiniteSet(V)
      /\ W \subseteq V \/ \E t \in Slot : HasRoom(p) /\ W \subseteq V \cup {t}
  BY WorkforceSteps
<1>2. Cardinality(V) <= MaxSlots /\ MaxSlots \in Nat
  BY CapacityAssumption DEF WithinCapacity
<1>3. HasRoom(p) <=> Cardinality(V) < MaxSlots
  BY DEF HasRoom
<1>4. Cardinality(V) \in Nat
  BY <1>1, FS_CardinalityType
<1> HIDE DEF V, W
<1>5. CASE W \subseteq V
  <2>1. IsFiniteSet(W) /\ Cardinality(W) <= Cardinality(V) /\ Cardinality(W) \in Nat
    BY <1>1, <1>5, FS_Subset, FS_CardinalityType
  <2>2. Cardinality(W) <= MaxSlots
    BY <1>2, <1>4, <2>1
  <2> QED
    BY <2>2 DEF W
<1>6. ASSUME NEW t \in Slot, HasRoom(p), W \subseteq V \cup {t}
      PROVE  Cardinality(W) <= MaxSlots
  <2>1. /\ IsFiniteSet(V \cup {t}) /\ Cardinality(V \cup {t}) \in Nat
        /\ Cardinality(V \cup {t}) <= Cardinality(V) + 1
    <3>1. /\ IsFiniteSet(V \cup {t})
          /\ Cardinality(V \cup {t}) = IF t \in V THEN Cardinality(V) ELSE Cardinality(V) + 1
      BY <1>1, FS_AddElement
    <3> QED
      BY <1>4, <3>1
  <2>2. Cardinality(W) <= Cardinality(V \cup {t}) /\ Cardinality(W) \in Nat
    BY <1>6, <2>1, FS_Subset, FS_CardinalityType
  <2> QED
    BY <1>2, <1>3, <1>4, <1>6, <2>1, <2>2
<1> QED
  BY <1>1, <1>5, <1>6 DEF W

LEMMA StaffingFloorStep ==
  ASSUME TypeOK, StopsAreAsked, IsFiniteSet(Born), [Next]_vars, NEW p \in Project,
         project[p] = "active", Cardinality(Workforce(p)') < Cardinality(Workforce(p)),
         IsFiniteSet(Workforce(p)')
  PROVE  Cardinality(Workforce(p)') >= MinSlots
<1> DEFINE V == Workforce(p)
           W == Workforce(p)'
<1>1. /\ IsFiniteSet(V)
      /\ V \subseteq W \/ \E t \in Slot : CanSpare(p) /\ V \ {t} \subseteq W
  BY WorkforceSteps
<1>2. CanSpare(p) => Cardinality(V) > MinSlots
  BY DEF CanSpare
<1>3. IsFiniteSet(W) /\ Cardinality(W) < Cardinality(V)
  OBVIOUS
<1> HIDE DEF V, W
<1>4. Cardinality(V) \in Nat /\ Cardinality(W) \in Nat /\ MinSlots \in Nat
  BY <1>1, <1>3, FS_CardinalityType, CapacityAssumption
<1>5. CASE V \subseteq W
  <2>1. Cardinality(V) <= Cardinality(W)
    BY <1>3, <1>5, FS_Subset
  <2> QED
    BY <1>3, <1>4, <2>1
<1>6. ASSUME NEW t \in Slot, CanSpare(p), V \ {t} \subseteq W PROVE Cardinality(W) >= MinSlots
  <2>1. Cardinality(V \ {t}) \in Nat /\ Cardinality(V \ {t}) >= Cardinality(V) - 1
    <3>1. /\ IsFiniteSet(V \ {t})
          /\ Cardinality(V \ {t}) = IF t \in V THEN Cardinality(V) - 1 ELSE Cardinality(V)
      BY <1>1, FS_RemoveElement
    <3>2. Cardinality(V \ {t}) \in Nat
      BY <3>1, FS_CardinalityType
    <3> QED
      BY <1>4, <3>1, <3>2
  <2>2. Cardinality(V \ {t}) <= Cardinality(W)
    BY <1>3, <1>6, FS_Subset
  <2> QED
    BY <1>2, <1>4, <1>6, <2>1, <2>2
<1> QED
  BY <1>1, <1>5, <1>6 DEF W

(* The invariant of how projects are staffed. *)
StaffInv ==
  /\ Inv /\ PagesAreOfSlots /\ NoLeakedTab /\ NoOrphanedDrain
  /\ IsFiniteSet(Born) /\ WithinCapacity

LEMMA StaffInvInit == Init => StaffInv
<1> SUFFICES ASSUME Init PROVE StaffInv
  OBVIOUS
<1>1. /\ \A i \in LeaseId : lease[i].status = "none"
      /\ \A s \in Slot : slot[s].status = "none" /\ slot[s].browser = "absent"
  BY DEF Init, NoSlot, NoLease
<1>2. Born = {} /\ \A p \in Project : Workforce(p) = {}
  BY <1>1 DEF Born, Exists, Workforce, Enrolled
<1>3. IsFiniteSet(Born) /\ WithinCapacity
  BY <1>2, FS_EmptySet, CapacityAssumption DEF WithinCapacity
<1> QED
  BY <1>1, <1>3, InvInit DEF StaffInv, PagesAreOfSlots, NoLeakedTab, NoOrphanedDrain, Exists

LEMMA StaffInvStep == StaffInv /\ [Next]_vars => StaffInv'
<1> SUFFICES ASSUME StaffInv, [Next]_vars PROVE StaffInv'
  OBVIOUS
<1>1. Inv' /\ TypeOK /\ StopsAreAsked
  BY InvStep DEF StaffInv, Inv
<1>2. PagesAreOfSlots' /\ NoLeakedTab' /\ NoOrphanedDrain'
  BY <1>1, PagesAreOfSlotsStep, NoLeakedTabStep, NoOrphanedDrainStep DEF StaffInv
<1>3. WithinCapacity'
  BY <1>1, WithinCapacityStep DEF StaffInv
<1>4. IsFiniteSet(Born)'
  <2>1. CASE Project = {}
    <3>1. \A s \in Slot : slot'[s].status = "none"
      BY <1>1, <2>1 DEF Inv, RowsAreFilled, Exists
    <3>2. Born' = {}
      BY <3>1 DEF Born, Exists
    <3> QED
      BY <3>2, FS_EmptySet
  <2>2. CASE Project # {}
    BY <1>1, <2>2, WorkforceSteps DEF StaffInv
  <2> QED
    BY <2>1, <2>2
<1> QED
  BY <1>1, <1>2, <1>3, <1>4 DEF StaffInv

LEMMA StaffInvariance == Spec => []StaffInv
BY StaffInvInit, StaffInvStep, PTL DEF Spec

\* Whatever the order of stop calls and browser reports, a slot that is to stop and has
\* no browser has stopped: no drain waits for a report that will not come.
THEOREM DrainsEnd == Spec => []NoOrphanedDrain
<1>1. StaffInv => NoOrphanedDrain
  BY DEF StaffInv
<1> QED
  BY <1>1, StaffInvariance, PTL

\* An active occupancy lease of a tab is the one its holder remembers, for the tab it is
\* at: moving, closing or stopping leaks no tab.
THEOREM TabsAreNotLeaked == Spec => []NoLeakedTab
<1>1. StaffInv => NoLeakedTab
  BY DEF StaffInv
<1> QED
  BY <1>1, StaffInvariance, PTL

\* No order of creates, stops, resumes and reports takes a project past maxSlots.
THEOREM CapacityIsKept == Spec => []WithinCapacity
<1>1. StaffInv => WithinCapacity
  BY DEF StaffInv
<1> QED
  BY <1>1, StaffInvariance, PTL

\* The three together: a slot occupies one page at most, that it remembers, finishes every stop
\* it was asked for, and counts against maxSlots.
THEOREM SlotsStaySound == Spec => []SlotsAreSound
<1>1. StaffInv => SlotsAreSound
  BY DEF StaffInv, SlotsAreSound
<1> QED
  BY <1>1, StaffInvariance, PTL

\* No call takes the workforce of an active project below minSlots.
THEOREM StaffingFloorIsKept == Spec => StaffingFloorHolds
<1>1. ASSUME StaffInv, StaffInv', [Next]_vars
      PROVE  \A p \in Project :
        (project[p] = "active" /\ Cardinality(Workforce(p)') < Cardinality(Workforce(p)))
          => Cardinality(Workforce(p)') >= MinSlots
  <2> SUFFICES ASSUME NEW p \in Project, project[p] = "active",
                      Cardinality(Workforce(p)') < Cardinality(Workforce(p))
               PROVE  Cardinality(Workforce(p)') >= MinSlots
    OBVIOUS
  <2>1. Workforce(p)' \subseteq Born'
    BY DEF Workforce, Enrolled, Born, Exists
  <2>2. IsFiniteSet(Workforce(p)')
    BY <1>1, <2>1, FS_Subset DEF StaffInv
  <2> QED
    BY <1>1, <2>2, StaffingFloorStep DEF StaffInv, Inv
<1> QED
  BY <1>1, StaffInvariance, PTL DEF Spec, StaffingFloorHolds

-----------------------------------------------------------------------------
(* The elastic fleet.  Every slot it counts is one of finitely many, and no *)
(* pass or report retires a slot, so the labels in use are those of all of  *)
(* them.                                                                    *)

FleetInv ==
  /\ FleetTypeOK /\ RolesAreDistinct
  /\ \A s \in Ids : fleet[s].desired # "retired" /\ fleet[s].status # "retired"

LEMMA FleetInit == InitFleet => FleetInv
BY FleetAssumption DEF InitFleet, FleetInv, FleetTypeOK, RolesAreDistinct, Ids

LEMMA IdsAreFinite ==
  ASSUME NEW F \in Seq(FleetRow)
  PROVE  /\ IsFiniteSet(DOMAIN F) /\ IsFiniteSet(Active(F))
         /\ Cardinality(Active(F)) \in Nat
<1>1. DOMAIN F = 1 .. Len(F) /\ Len(F) \in Nat
  OBVIOUS
<1>2. IsFiniteSet(DOMAIN F)
  BY <1>1, FS_Interval
<1>3. Active(F) \subseteq DOMAIN F
  BY DEF Active
<1> QED
  BY <1>2, <1>3, FS_Subset, FS_CardinalityType

\* What a pass does to the table: the slots it suspends were active and may go, the slots it resumes
\* were suspended, and what it adds has roles of its own.
LEMMA PassChanges ==
  ASSUME FleetInv, Reconcile
  PROVE  \E S \in Suspensions, R \in SUBSET Ids, added \in Seq(FleetRow) :
           /\ fleet' = [s \in Ids |-> IF s \in S THEN Suspended(fleet[s])
                                      ELSE IF s \in R THEN Resumed(fleet[s]) ELSE fleet[s]] \o added
           /\ Len(fleet) + Len(added) <= MaxCreated
           /\ \A i \in DOMAIN added : /\ added[i].desired = "active" /\ added[i].status = "working"
                                      /\ \A s \in Ids : fleet[s].role # added[i].role
           /\ \A i, j \in DOMAIN added : added[i].role = added[j].role => i = j
<1> DEFINE Injective(T) == {q \in [1..Cardinality(T) -> T] :
                              \A i, j \in DOMAIN q : q[i] = q[j] => i = j}
           Made(S, R, added) ==
             /\ Len(fleet) + Len(added) <= MaxCreated
             /\ fleet' = [s \in Ids |-> IF s \in S THEN Suspended(fleet[s])
                                        ELSE IF s \in R THEN Resumed(fleet[s]) ELSE fleet[s]]
                         \o [i \in DOMAIN added |-> Newcomer(added[i])]
<1>a. PICK S \in Suspensions :
        \E g \in Growths(S) : \E R \in Resumptions(g) : \E added \in Injective(NewRoles(g, R)) :
          Made(S, R, added)
  BY DEF Reconcile
<1>b. PICK g \in Growths(S) : \E R \in Resumptions(g) : \E added \in Injective(NewRoles(g, R)) :
          Made(S, R, added)
  BY <1>a
<1>c. PICK R \in Resumptions(g) : \E added \in Injective(NewRoles(g, R)) : Made(S, R, added)
  BY <1>b
<1>1. PICK added \in Injective(NewRoles(g, R)) : Made(S, R, added)
  BY <1>c
<1> DEFINE roles == NewRoles(g, R)
           rows == [i \in DOMAIN added |-> Newcomer(added[i])]
<1>2. R \in SUBSET Ids
  BY DEF Resumptions, Reusable
<1>3. \A role \in roles : /\ role \in Kind \X Ordinal
                          /\ \A s \in Ids : fleet[s].role # role
  <2> SUFFICES ASSUME NEW role \in roles
               PROVE  role \in Kind \X Ordinal /\ \A s \in Ids : fleet[s].role # role
    OBVIOUS
  <2>1. PICK k \in Kind : role \in {<<k, o>> : o \in Labels(k, g[k] - Cardinality(R \cap Reusable(k)))}
    BY DEF NewRoles
  <2>2. PICK o \in Labels(k, g[k] - Cardinality(R \cap Reusable(k))) : role = <<k, o>>
    BY <2>1
  <2>3. o \in Ordinal \ Occupied(k)
    BY <2>2 DEF Labels
  <2>4. ASSUME NEW s \in Ids, fleet[s].role = role PROVE FALSE
    <3>1. fleet[s].role[1] = k /\ fleet[s].role[2] = o /\ fleet[s].status # "retired"
      BY <2>2, <2>4 DEF FleetInv
    <3>2. o \in Occupied(k)
      BY <3>1 DEF Occupied
    <3> QED
      BY <2>3, <3>2
  <2> QED
    BY <2>2, <2>3, <2>4
<1>4. IsFiniteSet(Kind \X Ordinal)
  <2>1. IsFiniteSet(Ordinal)
    BY FleetAssumption, FS_Interval DEF Ordinal
  <2> QED
    BY <2>1, FleetAssumption, FS_Product
<1>5. Cardinality(roles) \in Nat
  BY <1>3, <1>4, FS_Subset, FS_CardinalityType
<1>6. /\ added \in [1 .. Cardinality(roles) -> roles]
      /\ \A i, j \in DOMAIN added : added[i] = added[j] => i = j
  OBVIOUS
<1> HIDE DEF roles, Injective
<1>7. added \in Seq(roles) /\ Len(added) = Cardinality(roles)
  BY <1>5, <1>6
<1>8. rows \in Seq(FleetRow) /\ DOMAIN rows = DOMAIN added /\ Len(rows) = Len(added)
  <2>1. \A i \in DOMAIN added : Newcomer(added[i]) \in FleetRow
    BY <1>3, <1>6 DEF Newcomer, FleetRow
  <2> QED
    BY <2>1, <1>5, <1>6
<1>9. /\ \A i \in DOMAIN rows : /\ rows[i].desired = "active" /\ rows[i].status = "working"
                                /\ rows[i].role = added[i]
      /\ \A i \in DOMAIN rows : \A s \in Ids : fleet[s].role # rows[i].role
      /\ \A i, j \in DOMAIN rows : rows[i].role = rows[j].role => i = j
  <2>1. \A i \in DOMAIN rows : /\ rows[i].desired = "active" /\ rows[i].status = "working"
                               /\ rows[i].role = added[i]
    BY <1>8 DEF Newcomer
  <2> QED
    <3>1. \A i \in DOMAIN rows : added[i] \in roles
      BY <1>6, <1>8
    <3>2. \A i, j \in DOMAIN rows : added[i] = added[j] => i = j
      BY <1>6, <1>8
    <3> HIDE DEF rows
    <3> QED BY <2>1, <3>1, <3>2, <1>3
<1> HIDE DEF rows
<1>10. /\ Len(fleet) + Len(rows) <= MaxCreated
       /\ fleet' = [s \in Ids |-> IF s \in S THEN Suspended(fleet[s])
                                  ELSE IF s \in R THEN Resumed(fleet[s]) ELSE fleet[s]] \o rows
  BY <1>1, <1>8 DEF rows
<1> USE <1>2, <1>8
<1> WITNESS S \in Suspensions, R \in SUBSET Ids, rows \in Seq(FleetRow)
<1> QED
  BY <1>9, <1>10

LEMMA SetRowTyped ==
  ASSUME FleetInv, NEW s \in Ids, NEW row \in FleetRow, SetRow(s, row),
         row.role = fleet[s].role, row.desired # "retired", row.status # "retired"
  PROVE  FleetInv'
<1>1. fleet \in Seq(FleetRow) /\ Len(fleet) <= MaxCreated /\ fleet' = [fleet EXCEPT ![s] = row]
      /\ UNCHANGED <<demand, open>>
  BY DEF FleetInv, FleetTypeOK, SetRow
<1>2. fleet' \in Seq(FleetRow) /\ Len(fleet') = Len(fleet) /\ Ids' = Ids
  BY <1>1 DEF Ids
<1>3. \A t \in Ids : /\ fleet'[t].role = fleet[t].role
                     /\ t # s => fleet'[t] = fleet[t]
                     /\ t = s => fleet'[t] = row
  BY <1>1 DEF Ids
<1> QED
  BY <1>1, <1>2, <1>3 DEF FleetInv, FleetTypeOK, RolesAreDistinct

LEMMA FleetStep == FleetInv /\ [FleetNext]_fleetVars => FleetInv'
<1> SUFFICES ASSUME FleetInv, [FleetNext]_fleetVars PROVE FleetInv'
  OBVIOUS
<1>t. /\ fleet \in Seq(FleetRow) /\ Len(fleet) <= MaxCreated /\ demand \in [Kind -> 0 .. MaxDemand]
      /\ open \in BOOLEAN /\ \A s \in Ids : fleet[s] \in FleetRow
  BY DEF FleetInv, FleetTypeOK, Ids
<1>1. CASE Reconcile
  <2>1. PICK S \in Suspensions, R \in SUBSET Ids, added \in Seq(FleetRow) :
           /\ fleet' = [s \in Ids |-> IF s \in S THEN Suspended(fleet[s])
                                      ELSE IF s \in R THEN Resumed(fleet[s]) ELSE fleet[s]] \o added
           /\ Len(fleet) + Len(added) <= MaxCreated
           /\ \A i \in DOMAIN added : /\ added[i].desired = "active" /\ added[i].status = "working"
                                      /\ \A s \in Ids : fleet[s].role # added[i].role
           /\ \A i, j \in DOMAIN added : added[i].role = added[j].role => i = j
    BY <1>1, PassChanges
  <2> DEFINE old == [s \in Ids |-> IF s \in S THEN Suspended(fleet[s])
                                   ELSE IF s \in R THEN Resumed(fleet[s]) ELSE fleet[s]]
  <2>2. ASSUME NEW s \in Ids
        PROVE  /\ old[s] \in FleetRow /\ old[s].role = fleet[s].role
               /\ old[s].desired # "retired" /\ old[s].status # "retired"
    BY <1>t DEF Suspended, Resumed, FleetRow, FleetInv
  <2>3. old \in Seq(FleetRow) /\ Len(old) = Len(fleet) /\ DOMAIN old = Ids
    BY <1>t, <2>2 DEF Ids
  <2> HIDE DEF old
  <2>4. fleet' = old \o added
    BY <2>1 DEF old
  <2>5. fleet' \in Seq(FleetRow) /\ Len(fleet') = Len(old) + Len(added)
    <3>1. old \o added \in Seq(FleetRow) /\ Len(old \o added) = Len(old) + Len(added)
      BY <2>3
    <3> QED
      BY <2>4, <3>1
  <2>6. ASSUME NEW t \in Ids'
        PROVE  \/ t \in Ids /\ fleet'[t] = old[t]
               \/ t - Len(old) \in DOMAIN added /\ fleet'[t] = added[t - Len(old)] /\ t \notin Ids
    BY <1>t, <2>3, <2>4, <2>5 DEF Ids
  <2>7. RolesAreDistinct'
    <3> SUFFICES ASSUME NEW s \in Ids', NEW t \in Ids', fleet'[s].role = fleet'[t].role PROVE s = t
      BY DEF RolesAreDistinct
    <3>1. \A a, b \in Ids : fleet[a].role = fleet[b].role => a = b
      BY DEF FleetInv, RolesAreDistinct
    <3> DEFINE place(x) == x - Len(old)
    <3>a. ASSUME NEW x \in Ids'
          PROVE  /\ x \in Ids => fleet'[x].role = fleet[x].role
                 /\ x \notin Ids => /\ place(x) \in DOMAIN added
                                   /\ fleet'[x].role = added[place(x)].role
      BY <2>2, <2>6
    <3>b. \A i \in DOMAIN added : \A x \in Ids : fleet[x].role # added[i].role
      BY <2>1
    <3>c. \A i, j \in DOMAIN added : added[i].role = added[j].role => i = j
      BY <2>1
    <3>d. place(s) = place(t) => s = t
      BY <1>t, <2>3, <2>5 DEF Ids
    <3> HIDE DEF place
    <3>2. CASE s \in Ids /\ t \in Ids
      BY <3>1, <3>2, <3>a
    <3>3. CASE s \notin Ids /\ t \notin Ids
      BY <3>3, <3>a, <3>c, <3>d
    <3>4. CASE s \in Ids /\ t \notin Ids
      BY <3>4, <3>a, <3>b
    <3>5. CASE s \notin Ids /\ t \in Ids
      BY <3>5, <3>a, <3>b
    <3> QED
      BY <3>2, <3>3, <3>4, <3>5
  <2>8. \A t \in Ids' : fleet'[t].desired # "retired" /\ fleet'[t].status # "retired"
    BY <2>1, <2>2, <2>6
  <2>9. UNCHANGED <<demand, open>>
    BY <1>1 DEF Reconcile
  <2> QED
    BY <1>t, <2>1, <2>3, <2>5, <2>7, <2>8, <2>9 DEF FleetInv, FleetTypeOK
<1>2. CASE SetProject \/ UNCHANGED fleetVars \/ \E k \in Kind, n \in 0 .. MaxDemand : WorkChanges(k, n)
  <2>1. fleet' = fleet /\ demand' \in [Kind -> 0 .. MaxDemand] /\ open' \in BOOLEAN
    BY <1>t, <1>2 DEF SetProject, WorkChanges, fleetVars
  <2> QED
    BY <2>1 DEF FleetInv, FleetTypeOK, RolesAreDistinct, Ids
<1>3. CASE \E s \in Ids : PageOpens(s) \/ PageCloses(s) \/ Settles(s) \/ Works(s)
  <2>1. PICK s \in Ids : PageOpens(s) \/ PageCloses(s) \/ Settles(s) \/ Works(s)
    BY <1>3
  <2>2. fleet[s] \in FleetRow /\ fleet[s].desired # "retired" /\ fleet[s].status # "retired"
    BY <1>t DEF FleetInv
  <2> DEFINE closed == [fleet[s] EXCEPT !.page = FALSE, !.quiet = FALSE,
                          !.status = IF fleet[s].desired = "active" THEN @ ELSE fleet[s].desired]
             opened == [fleet[s] EXCEPT !.page = TRUE]
             quiet(b) == [fleet[s] EXCEPT !.quiet = b]
  <2>3. /\ closed \in FleetRow /\ closed.role = fleet[s].role
        /\ closed.desired # "retired" /\ closed.status # "retired"
    BY <2>2 DEF FleetRow
  <2>4. /\ opened \in FleetRow /\ opened.role = fleet[s].role
        /\ opened.desired # "retired" /\ opened.status # "retired"
    BY <2>2 DEF FleetRow
  <2>5. ASSUME NEW b \in BOOLEAN
        PROVE  /\ quiet(b) \in FleetRow /\ quiet(b).role = fleet[s].role
               /\ quiet(b).desired # "retired" /\ quiet(b).status # "retired"
    BY <2>2 DEF FleetRow
  <2>6. SetRow(s, closed) \/ SetRow(s, opened) \/ SetRow(s, quiet(TRUE)) \/ SetRow(s, quiet(FALSE))
    BY <2>1 DEF PageOpens, PageCloses, Settles, Works
  <2> HIDE DEF closed, opened, quiet
  <2> QED
    BY <2>3, <2>4, <2>5, <2>6, SetRowTyped
<1> QED
  BY <1>1, <1>2, <1>3 DEF FleetNext

\* The project's slots stay within the table and no two go by one role, whatever passes, projects,
\* pages and work do.
THEOREM FleetStaysSound == FleetSpec => []FleetIsSound
<1>1. FleetInv => FleetIsSound
  BY DEF FleetInv, FleetIsSound
<1> QED
  BY <1>1, FleetInit, FleetStep, PTL DEF FleetSpec

-----------------------------------------------------------------------------
(* What a pass leaves running *)

\* A pass suspends none but active slots, and the others stay as active as they were.
LEMMA PassKeepsOthers ==
  ASSUME FleetInv, Reconcile
  PROVE  \E S \in Suspensions :
           /\ S \subseteq Active(fleet)
           /\ \A s \in Active(fleet) \ S :
                s \in Active(fleet)' /\ fleet'[s].role = fleet[s].role
<1>1. PICK S \in Suspensions, R \in SUBSET Ids, added \in Seq(FleetRow) :
        fleet' = [s \in Ids |-> IF s \in S THEN Suspended(fleet[s])
                                ELSE IF s \in R THEN Resumed(fleet[s]) ELSE fleet[s]] \o added
  BY PassChanges
<1> DEFINE old == [s \in Ids |-> IF s \in S THEN Suspended(fleet[s])
                                 ELSE IF s \in R THEN Resumed(fleet[s]) ELSE fleet[s]]
<1>2. S \subseteq Active(fleet)
  BY DEF Suspensions, Eligible
<1>3. fleet \in Seq(FleetRow) /\ Ids = 1 .. Len(fleet)
  BY DEF FleetInv, FleetTypeOK, Ids
<1>4. ASSUME NEW s \in Ids
      PROVE  /\ old[s] \in FleetRow
             /\ s \in Active(fleet) \ S => /\ old[s].role = fleet[s].role
                                           /\ old[s].desired = "active" /\ old[s].status # "retired"
  <2>1. fleet[s] \in FleetRow /\ fleet[s].status # "retired"
    BY <1>3 DEF FleetInv
  <2>2. /\ Suspended(fleet[s]) \in FleetRow
        /\ Resumed(fleet[s]) \in FleetRow /\ Resumed(fleet[s]).role = fleet[s].role
        /\ Resumed(fleet[s]).desired = "active" /\ Resumed(fleet[s]).status = "working"
    BY <2>1 DEF Suspended, Resumed, FleetRow
  <2>3. s \in Active(fleet) => fleet[s].desired = "active"
    BY DEF Active
  <2>4. old[s] = IF s \in S THEN Suspended(fleet[s]) ELSE IF s \in R THEN Resumed(fleet[s]) ELSE fleet[s]
    OBVIOUS
  <2> HIDE DEF old
  <2> QED
    BY <2>1, <2>2, <2>3, <2>4
<1>5. old \in Seq(FleetRow) /\ Len(old) = Len(fleet)
  BY <1>3, <1>4
<1>6. \A s \in Ids : s \in DOMAIN (old \o added) /\ (old \o added)[s] = old[s]
  <2> HIDE DEF old
  <2> QED BY <1>3, <1>5
<1>7. ASSUME NEW s \in Active(fleet) \ S
      PROVE  s \in Active(fleet)' /\ fleet'[s].role = fleet[s].role
  <2>1. s \in Ids
    BY DEF Active, Ids
  <2>2. s \in DOMAIN fleet' /\ fleet'[s] = old[s]
    BY <1>1, <1>6, <2>1
  <2> HIDE DEF old
  <2> QED
    BY <1>4, <2>1, <2>2 DEF Active
<1> QED
  BY <1>2, <1>7

\* Work asks for no affinity twice.
LEMMA AffinitiesDiffer ==
  ASSUME NEW k \in Kind, NEW j \in Kind, AskedAffinity(j) = AskedAffinity(k)
  PROVE  j = k
BY DEF AskedAffinity, Affinity

\* A pass that found more slots of an affinity than work requires leaves as many as it requires, and
\* any other leaves what there was; likewise for all slots and the target.
THEOREM PassesKeepWorkers == FleetSpec => WorkersAreKept
<1>1. FleetInv /\ [FleetNext]_fleetVars => [PassKeepsWorkers]_fleetVars
  <2> SUFFICES ASSUME FleetInv, Reconcile PROVE PassKeepsWorkers
    BY DEF PassKeepsWorkers
  <2>1. PICK S \in Suspensions :
           /\ S \subseteq Active(fleet)
           /\ \A s \in Active(fleet) \ S :
                s \in Active(fleet)' /\ fleet'[s].role = fleet[s].role
    BY PassKeepsOthers
  <2>2. /\ IsFiniteSet(Active(fleet)) /\ IsFiniteSet(Active(fleet)')
        /\ Cardinality(Active(fleet)) \in Nat /\ Cardinality(Active(fleet)') \in Nat
    <3>1. fleet \in Seq(FleetRow) /\ fleet' \in Seq(FleetRow)
      BY FleetStep DEF FleetInv, FleetTypeOK, FleetNext
    <3> QED
      BY <3>1, IdsAreFinite
  <2>3. IsFiniteSet(S) /\ Cardinality(S) \in Nat
    BY <2>1, <2>2, FS_Subset, FS_CardinalityType
  <2>4. Target \in Nat /\ \A k \in Kind : Required(k) \in Nat
    BY FleetAssumption DEF Target, Required, FleetInv, FleetTypeOK
  <2>5. Cardinality(Active(fleet)') >= Smaller(Cardinality(Active(fleet)), Target)
    <3>1. Cardinality(Active(fleet) \ S) = Cardinality(Active(fleet)) - Cardinality(S)
      <4>1. Active(fleet) \cap S = S
        BY <2>1
      <4> QED
        BY <2>2, <4>1, FS_Difference
    <3>2. Cardinality(Active(fleet)') >= Cardinality(Active(fleet) \ S)
      BY <2>1, <2>2, FS_Subset
    <3>3. Cardinality(Active(fleet)) <= Target => S = {}
      BY DEF Suspensions
    <3>4. ~(Cardinality(Active(fleet)) <= Target) => Cardinality(Active(fleet)) - Cardinality(S) >= Target
      BY DEF Suspensions, Spared
    <3>5. S = {} => Cardinality(S) = 0
      BY FS_EmptySet
    <3> QED
      BY <2>2, <2>3, <2>4, <3>1, <3>2, <3>3, <3>4, <3>5 DEF Smaller
  <2>6. ASSUME NEW k \in Kind
        PROVE  Cardinality(ActiveFor(fleet, k)') >= Smaller(Cardinality(ActiveFor(fleet, k)), Required(k))
    <3>1. ActiveFor(fleet, k) \ S \subseteq ActiveFor(fleet, k)'
      BY <2>1 DEF ActiveFor
    <3>2. /\ IsFiniteSet(ActiveFor(fleet, k)) /\ IsFiniteSet(ActiveFor(fleet, k)')
          /\ Cardinality(ActiveFor(fleet, k)) \in Nat /\ Cardinality(ActiveFor(fleet, k)') \in Nat
      <4>1. ActiveFor(fleet, k) \subseteq Active(fleet) /\ ActiveFor(fleet, k)' \subseteq Active(fleet)'
        BY DEF ActiveFor
      <4> QED
        BY <2>2, <4>1, FS_Subset, FS_CardinalityType
    <3>3. CASE S \cap ActiveFor(fleet, k) = {}
      <4>1. ActiveFor(fleet, k) \subseteq ActiveFor(fleet, k)'
        BY <3>1, <3>3
      <4>2. Cardinality(ActiveFor(fleet, k)) <= Cardinality(ActiveFor(fleet, k)')
        BY <3>2, <4>1, FS_Subset
      <4> QED
        BY <2>4, <3>2, <4>2 DEF Smaller
    <3>4. ASSUME NEW s \in S \cap ActiveFor(fleet, k)
          PROVE  Cardinality(ActiveFor(fleet, k)') >= Smaller(Cardinality(ActiveFor(fleet, k)), Required(k))
      <4>1. Affinity(fleet[s].role) = AskedAffinity(k) /\ s \in Active(fleet)
        BY DEF ActiveFor
      <4>2. Alike(s) = ActiveFor(fleet, k)
        BY <4>1 DEF Alike, ActiveFor
      <4>3. RequiredOf(s) = Required(k)
        <5>1. {j \in Kind : AskedAffinity(j) = Affinity(fleet[s].role)} = {k}
          BY <4>1, AffinitiesDiffer
        <5> QED
          BY <5>1 DEF RequiredOf
      <4>4. Cardinality(ActiveFor(fleet, k) \ S) >= Required(k)
        <5>1. S # {}
          OBVIOUS
        <5>2. Spared(S)
          BY <5>1 DEF Suspensions
        <5> QED
          BY <4>2, <4>3, <5>2 DEF Spared
      <4>5. Cardinality(ActiveFor(fleet, k) \ S) <= Cardinality(ActiveFor(fleet, k)')
        BY <3>1, <3>2, FS_Subset
      <4>6. Cardinality(ActiveFor(fleet, k) \ S) \in Nat
        BY <3>2, FS_Subset, FS_CardinalityType
      <4> QED
        BY <2>4, <3>2, <4>4, <4>5, <4>6 DEF Smaller
    <3> QED
      BY <3>3, <3>4
  <2> QED
    BY <2>5, <2>6 DEF PassKeepsWorkers
<1> QED
  BY <1>1, FleetInit, FleetStep, PTL DEF FleetSpec, WorkersAreKept
=============================================================================
