---------------------------- MODULE BrowserLedger ----------------------------
(***************************************************************************)
(* The Kernel's ledger of browser writes (control/src/browserAuthority.ts):*)
(* an operation is planned against the content runtime the slot's tab is   *)
(* known to run, marked dispatched before the page is touched, and settled *)
(* with what became of it.  A page that reloads or disappears takes every  *)
(* unsettled operation with it.                                            *)
(*                                                                         *)
(* Each action is one RPC handler of the single Kernel process.  Callers   *)
(* may be late, repeat themselves, or be gone.  A content runtime ("epoch")*)
(* is numbered in the order its page was loaded.                           *)
(*                                                                         *)
(* Definitions commented "Slip" are mistakes kept to show that a property  *)
(* depends on the definition that follows them.                            *)
(***************************************************************************)
EXTENDS Naturals

CONSTANTS
  Slot, Tab,
  OpId,        \* ids available to operations (the extension uses its attempt ids)
  MaxEpoch,    \* bound on page loads
  MaxRev,      \* bound on the observation revision within one page load
  Stamp,       \* the observedAt values of runtime reports
  Null

Epoch == 1 .. MaxEpoch
Rev   == 1 .. MaxRev

ASSUME LedgerBounds == MaxEpoch \in Nat /\ MaxRev \in Nat /\ Stamp \subseteq Nat
ASSUME LedgerNull == Null \notin Slot \cup Tab \cup OpId \cup Nat

VARIABLES
  host,   \* the browser columns of agent_slots
  op      \* browser_operations; state "none" before planOperation

ledgerVars == <<host, op>>

Outcome == {"acknowledged", "reply-observed", "uncertain", "failed"}

HostRow == [ desired: {"active", "suspended"}, tab: Tab \cup {Null}, epoch: Epoch \cup {Null},
             rev: Nat, seen: Nat, quarantined: BOOLEAN ]
OpRow   == [ state: {"none", "planned", "dispatched", "settled"}, outcome: Outcome \cup {Null},
             slot: Slot \cup {Null}, epoch: Epoch \cup {Null} ]

NoHost == [ desired |-> "active", tab |-> Null, epoch |-> Null, rev |-> 0, seen |-> 0,
            quarantined |-> FALSE ]
NoOp   == [ state |-> "none", outcome |-> Null, slot |-> Null, epoch |-> Null ]

LedgerTypeOK == host \in [Slot -> HostRow] /\ op \in [OpId -> OpRow]

LedgerInit == host = [s \in Slot |-> NoHost] /\ op = [o \in OpId |-> NoOp]

-----------------------------------------------------------------------------
Unsettled(o) == op[o].state \in {"planned", "dispatched"}

Settled(row, outcome) == [row EXCEPT !.state = "settled", !.outcome = outcome]

\* Slip: only writes that were dispatched are settled for the slot.
AllUncertainIfDispatched(s) ==
  [o \in OpId |-> IF op[o].state = "dispatched" /\ op[o].slot = s THEN Settled(op[o], "uncertain") ELSE op[o]]

\* Every unsettled operation of the slot becomes uncertain.
AllUncertain(s) ==
  [o \in OpId |-> IF Unsettled(o) /\ op[o].slot = s THEN Settled(op[o], "uncertain") ELSE op[o]]

\* suspendAgentSlot, retireAgentSlot and resumeAgentSlot, as far as this ledger reads them
SetDesired(s, desired) ==
  /\ host[s].desired # desired
  /\ host' = [host EXCEPT ![s].desired = desired]
  /\ UNCHANGED op

\* reportAgentBrowser with a tab: the tab is leased to one slot at a time; what is
\* known of the runtime is kept even if the tab is another one.
ReportTab(s, t) ==
  /\ host[s].desired = "active"
  /\ \A other \in Slot \ {s} : host[other].tab # t
  /\ host' = [host EXCEPT ![s].tab = t]
  /\ UNCHANGED op

\* reportAgentBrowser "absent"
ReportTabAbsent(s) ==
  /\ host' = [host EXCEPT ![s] = [NoHost EXCEPT !.desired = host[s].desired]]
  /\ op' = AllUncertain(s)

Reloaded(s, e) == host[s].epoch # Null /\ host[s].epoch # e
Underway(s)    == {o \in OpId : Unsettled(o) /\ op[o].slot = s}

\* A report of another epoch than the known one quarantines the slot if writes were
\* under way; the next observation of the epoch then known lifts the quarantine.
QuarantinedAfter(s, e) ==
  IF Reloaded(s, e) THEN host[s].quarantined \/ Underway(s) # {}
  ELSE host[s].quarantined /\ (host[s].epoch = e => \E o \in Underway(s) : op[o].epoch # e)

OpsAfter(s, e) == IF Reloaded(s, e) THEN AllUncertain(s) ELSE op

\* reportRuntime: refused when it is not of the slot's tab or is stale.
ReportRuntime(s, t, e, rev, at) ==
  /\ host[s].tab = t /\ at >= host[s].seen
  /\ host[s].epoch = e => rev > host[s].rev
  /\ host' = [host EXCEPT ![s] = [@ EXCEPT !.epoch = e, !.rev = rev, !.seen = at,
                                    !.quarantined = QuarantinedAfter(s, e)]]
  /\ op' = OpsAfter(s, e)

Plannable(s, t, e) ==
  s # Null => /\ host[s].desired = "active" /\ ~host[s].quarantined
              /\ host[s].tab = t /\ host[s].epoch = e

\* planOperation: planning the same operation again returns the row there is.
PlanOperation(o, s, t, e) ==
  /\ op[o].state = "none" /\ Plannable(s, t, e)
  /\ op' = [op EXCEPT ![o] = [NoOp EXCEPT !.state = "planned", !.slot = s, !.epoch = e]]
  /\ UNCHANGED host

\* The runtime precondition dispatchOperation checks again
Current(o) ==
  op[o].slot # Null => /\ host[op[o].slot].epoch = op[o].epoch
                       /\ ~host[op[o].slot].quarantined

\* dispatchOperation: a precondition that no longer holds settles the operation
\* "failed" (and the call throws; there is no transaction to roll that back).
DispatchOperation(o) ==
  /\ op[o].state = "planned"
  /\ op' = [op EXCEPT ![o] = IF Current(o) THEN [@ EXCEPT !.state = "dispatched"]
                             ELSE Settled(@, "failed")]
  /\ UNCHANGED host

\* settleOperation accepts this outcome and it changes the row
Settleable(o, outcome) ==
  /\ op[o].state # "none"
  /\ op[o].state = "settled" => /\ op[o].outcome \in {"acknowledged", "uncertain"}
                                /\ outcome = "reply-observed"
  /\ op[o].state = "planned" => outcome # "acknowledged"

SettleOperation(o, outcome) ==
  /\ Settleable(o, outcome)
  /\ op' = [op EXCEPT ![o] = Settled(@, outcome)]
  /\ UNCHANGED host

LedgerNext ==
  \/ \E s \in Slot :
       \/ \E desired \in {"active", "suspended"} : SetDesired(s, desired)
       \/ \E t \in Tab : ReportTab(s, t)
       \/ ReportTabAbsent(s)
       \/ \E t \in Tab, e \in Epoch, rev \in Rev, at \in Stamp : ReportRuntime(s, t, e, rev, at)
  \/ \E o \in OpId :
       \/ \E s \in Slot \cup {Null}, t \in Tab, e \in Epoch : PlanOperation(o, s, t, e)
       \/ DispatchOperation(o)
       \/ \E outcome \in Outcome : SettleOperation(o, outcome)

LedgerSpec == LedgerInit /\ [][LedgerNext]_ledgerVars

-----------------------------------------------------------------------------
(* Properties *)

\* A write that may still happen belongs to the page its slot is known to run, and the
\* slot is not quarantined: reload, disappearance, stale reports and late plans in any
\* order leave no unsettled operation behind for an older page.
UnsettledIsCurrent == \A o \in OpId : Unsettled(o) => Current(o)

\* What became of a write is never rewritten, whichever of settle, reload and absence
\* comes later: only evidence of a reply upgrades an acknowledged or uncertain one.
OutcomeIsFinal ==
  [][ \A o \in OpId : op[o].state = "settled" =>
        \/ op'[o] = op[o]
        \/ /\ op[o].outcome \in {"acknowledged", "uncertain"}
           /\ op'[o].outcome = "reply-observed" ]_ledgerVars
=============================================================================
