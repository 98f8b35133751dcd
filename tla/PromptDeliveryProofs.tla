------------------------ MODULE PromptDeliveryProofs ------------------------
(***************************************************************************)
(* Theorems about BrowserLedger and PromptDelivery for every value of      *)
(* their constants: no unsettled write outlives its page and no outcome is *)
(* rewritten; what the ledger says of a write is true of the page; with    *)
(* startup recovery done before anything is dispatched, an attempt         *)
(* recorded as failed was not typed and a message is typed once; and the   *)
(* whole of it implements DeliveryPromise as long as no two planners hold  *)
(* one task.                                                               *)
(***************************************************************************)
EXTENDS PromptDelivery, TLAPS

-----------------------------------------------------------------------------
(* The ledger by itself *)

\* A planned write knows the page it was planned for.
PlannedForPage == \A o \in OpId : op[o].state # "none" => op[o].epoch \in Epoch

LedgerInv == LedgerTypeOK /\ PlannedForPage /\ UnsettledIsCurrent

LEMMA LedgerInitHolds == LedgerInit => LedgerInv
BY DEF LedgerInit, LedgerInv, LedgerTypeOK, PlannedForPage, UnsettledIsCurrent, Unsettled, Current,
       HostRow, OpRow, NoHost, NoOp

\* Settling the writes of a slot keeps the rows well formed.
LEMMA AllUncertainTyped ==
  ASSUME LedgerTypeOK, NEW s \in Slot
  PROVE  AllUncertain(s) \in [OpId -> OpRow]
<1> SUFFICES ASSUME NEW o \in OpId
             PROVE  (IF Unsettled(o) /\ op[o].slot = s THEN Settled(op[o], "uncertain") ELSE op[o]) \in OpRow
  BY DEF AllUncertain
<1>1. op[o] \in OpRow
  BY DEF LedgerTypeOK
<1> QED
  BY <1>1 DEF Settled, OpRow, Outcome

LEMMA TypeStep == ASSUME LedgerTypeOK, [LedgerNext]_ledgerVars PROVE LedgerTypeOK'
<1> USE LedgerTypeOK, LedgerNull, LedgerBounds DEF LedgerTypeOK
<1>1. ASSUME NEW s \in Slot, NEW desired \in {"active", "suspended"}, SetDesired(s, desired)
      PROVE  LedgerTypeOK'
  <2>1. [host[s] EXCEPT !.desired = desired] \in HostRow
    BY DEF HostRow
  <2> QED
    BY <1>1, <2>1 DEF SetDesired
<1>2. ASSUME NEW s \in Slot, NEW t \in Tab, ReportTab(s, t) PROVE LedgerTypeOK'
  <2>1. [host[s] EXCEPT !.tab = t] \in HostRow
    BY DEF HostRow
  <2> QED
    BY <1>2, <2>1 DEF ReportTab
<1>3. ASSUME NEW s \in Slot, ReportTabAbsent(s) PROVE LedgerTypeOK'
  <2>1. [NoHost EXCEPT !.desired = host[s].desired] \in HostRow
    BY DEF HostRow, NoHost
  <2> QED
    BY <1>3, <2>1, AllUncertainTyped DEF ReportTabAbsent
<1>4. ASSUME NEW s \in Slot, NEW t \in Tab, NEW e \in Epoch, NEW rev \in Rev, NEW at \in Stamp,
             ReportRuntime(s, t, e, rev, at)
      PROVE  LedgerTypeOK'
  <2>1. QuarantinedAfter(s, e) \in BOOLEAN
    BY DEF QuarantinedAfter, HostRow
  <2>2. rev \in Nat /\ at \in Nat
    BY DEF Rev
  <2>3. [host[s] EXCEPT !.epoch = e, !.rev = rev, !.seen = at, !.quarantined = QuarantinedAfter(s, e)]
          \in HostRow
    BY <2>1, <2>2 DEF HostRow
  <2> QED
    BY <1>4, <2>3, AllUncertainTyped DEF ReportRuntime, OpsAfter
<1>5. ASSUME NEW o \in OpId, NEW s \in Slot \cup {Null}, NEW t \in Tab, NEW e \in Epoch,
             PlanOperation(o, s, t, e)
      PROVE  LedgerTypeOK'
  <2>1. [NoOp EXCEPT !.state = "planned", !.slot = s, !.epoch = e] \in OpRow
    BY DEF NoOp, OpRow
  <2> QED
    BY <1>5, <2>1 DEF PlanOperation
<1>6. ASSUME NEW o \in OpId, DispatchOperation(o) PROVE LedgerTypeOK'
  <2>1. [op[o] EXCEPT !.state = "dispatched"] \in OpRow /\ Settled(op[o], "failed") \in OpRow
    BY DEF OpRow, Settled, Outcome
  <2> QED
    BY <1>6, <2>1 DEF DispatchOperation
<1>7. ASSUME NEW o \in OpId, NEW outcome \in Outcome, SettleOperation(o, outcome) PROVE LedgerTypeOK'
  <2>1. Settled(op[o], outcome) \in OpRow
    BY DEF OpRow, Settled
  <2> QED
    BY <1>7, <2>1 DEF SettleOperation
<1>8. CASE UNCHANGED ledgerVars
  BY <1>8 DEF ledgerVars
<1> QED
  BY <1>1, <1>2, <1>3, <1>4, <1>5, <1>6, <1>7, <1>8 DEF LedgerNext
LEMMA PlannedStep ==
  ASSUME LedgerTypeOK, PlannedForPage, [LedgerNext]_ledgerVars PROVE PlannedForPage'
<1> USE LedgerTypeOK DEF LedgerTypeOK, PlannedForPage
<1> SUFFICES ASSUME NEW x \in OpId, op'[x].state # "none" PROVE op'[x].epoch \in Epoch
  OBVIOUS
<1>a. op[x] \in OpRow
  OBVIOUS
<1>b. ASSUME NEW s \in Slot, op'[x] = AllUncertain(s)[x] PROVE op'[x].epoch \in Epoch
  BY <1>b, <1>a DEF AllUncertain, Settled, Unsettled, OpRow
<1>1. ASSUME NEW s \in Slot, NEW desired \in {"active", "suspended"}, SetDesired(s, desired)
      PROVE  op' = op
  BY <1>1 DEF SetDesired
<1>2. ASSUME NEW s \in Slot, NEW t \in Tab, ReportTab(s, t) PROVE op' = op
  BY <1>2 DEF ReportTab
<1>3. ASSUME NEW s \in Slot, ReportTabAbsent(s) PROVE op'[x].epoch \in Epoch
  BY <1>3, <1>b DEF ReportTabAbsent
<1>4. ASSUME NEW s \in Slot, NEW t \in Tab, NEW e \in Epoch, NEW rev \in Rev, NEW at \in Stamp,
             ReportRuntime(s, t, e, rev, at)
      PROVE  op'[x].epoch \in Epoch
  BY <1>4, <1>b DEF ReportRuntime, OpsAfter
<1>5. ASSUME NEW o \in OpId, NEW s \in Slot \cup {Null}, NEW t \in Tab, NEW e \in Epoch,
             PlanOperation(o, s, t, e)
      PROVE  op'[x].epoch \in Epoch
  BY <1>5, <1>a DEF PlanOperation, NoOp
<1>6. ASSUME NEW o \in OpId, DispatchOperation(o) PROVE op'[x].epoch \in Epoch
  BY <1>6, <1>a DEF DispatchOperation, Settled, OpRow
<1>7. ASSUME NEW o \in OpId, NEW outcome \in Outcome, SettleOperation(o, outcome)
      PROVE  op'[x].epoch \in Epoch
  BY <1>7, <1>a DEF SettleOperation, Settleable, Settled, OpRow
<1>8. CASE UNCHANGED ledgerVars
  BY <1>8 DEF ledgerVars
<1> QED
  BY <1>1, <1>2, <1>3, <1>4, <1>5, <1>6, <1>7, <1>8 DEF LedgerNext

\* Once the writes of a slot are settled, the others are as current as they were.
LEMMA SettledForSlot ==
  ASSUME LedgerInv, NEW s \in Slot, op' = AllUncertain(s),
         \A other \in Slot \ {s} : host'[other] = host[other]
  PROVE  UnsettledIsCurrent'
<1> SUFFICES ASSUME NEW x \in OpId, Unsettled(x)' PROVE Current(x)'
  BY DEF UnsettledIsCurrent
<1>1. op[x] \in OpRow
  BY DEF LedgerInv, LedgerTypeOK
<1>2. op'[x] = op[x] /\ op[x].slot # s
  BY <1>1 DEF Unsettled, AllUncertain, Settled, OpRow
<1>3. Current(x)
  BY <1>2 DEF LedgerInv, UnsettledIsCurrent, Unsettled
<1> QED
  BY <1>1, <1>2, <1>3 DEF Current, OpRow

LEMMA CurrentStep == ASSUME LedgerInv, [LedgerNext]_ledgerVars PROVE UnsettledIsCurrent'
<1> USE DEF LedgerInv, LedgerTypeOK
<1>1. ASSUME NEW s \in Slot, NEW desired \in {"active", "suspended"}, SetDesired(s, desired)
      PROVE  UnsettledIsCurrent'
  <2>1. op' = op /\ \A q \in Slot : /\ host'[q].epoch = host[q].epoch
                                    /\ host'[q].quarantined = host[q].quarantined
    BY <1>1 DEF SetDesired, HostRow
  <2> QED
    BY <2>1 DEF UnsettledIsCurrent, Unsettled, Current, OpRow
<1>2. ASSUME NEW s \in Slot, NEW t \in Tab, ReportTab(s, t) PROVE UnsettledIsCurrent'
  <2>1. op' = op /\ \A q \in Slot : /\ host'[q].epoch = host[q].epoch
                                    /\ host'[q].quarantined = host[q].quarantined
    BY <1>2 DEF ReportTab, HostRow
  <2> QED
    BY <2>1 DEF UnsettledIsCurrent, Unsettled, Current, OpRow
<1>3. ASSUME NEW s \in Slot, ReportTabAbsent(s) PROVE UnsettledIsCurrent'
  BY <1>3, SettledForSlot DEF ReportTabAbsent
<1>4. ASSUME NEW s \in Slot, NEW t \in Tab, NEW e \in Epoch, NEW rev \in Rev, NEW at \in Stamp,
             ReportRuntime(s, t, e, rev, at)
      PROVE  UnsettledIsCurrent'
  <2>1. \A other \in Slot \ {s} : host'[other] = host[other]
    BY <1>4 DEF ReportRuntime
  <2>2. /\ host'[s].epoch = e
        /\ host'[s].quarantined = QuarantinedAfter(s, e)
    BY <1>4 DEF ReportRuntime, HostRow
  <2>3. CASE Reloaded(s, e)
    BY <1>4, <2>1, <2>3, SettledForSlot DEF ReportRuntime, OpsAfter
  <2>4. CASE ~Reloaded(s, e)
    <3>1. op' = op
      BY <1>4, <2>4 DEF ReportRuntime, OpsAfter
    <3>2. ASSUME NEW x \in OpId, Unsettled(x), op[x].slot = s
          PROVE  host[s].epoch = op[x].epoch /\ op[x].epoch = e /\ ~QuarantinedAfter(s, e)
      <4>1. host[s].epoch = op[x].epoch /\ ~host[s].quarantined
        BY <3>2, LedgerNull DEF UnsettledIsCurrent, Current
      <4>2. op[x].epoch \in Epoch
        BY <3>2 DEF PlannedForPage, Unsettled
      <4>3. op[x].epoch = e
        BY <4>1, <4>2, <2>4, LedgerNull, LedgerBounds DEF Reloaded, Epoch
      <4> QED
        BY <4>1, <4>3, <2>4 DEF QuarantinedAfter
    <3> QED
      BY <2>1, <2>2, <3>1, <3>2 DEF UnsettledIsCurrent, Unsettled, Current, OpRow
  <2> QED
    BY <2>3, <2>4
<1>5. ASSUME NEW o \in OpId, NEW s \in Slot \cup {Null}, NEW t \in Tab, NEW e \in Epoch,
             PlanOperation(o, s, t, e)
      PROVE  UnsettledIsCurrent'
  <2>1. op'[o].slot = s /\ op'[o].epoch = e /\ host' = host
    BY <1>5 DEF PlanOperation, NoOp
  <2>2. \A x \in OpId \ {o} : op'[x] = op[x]
    BY <1>5 DEF PlanOperation
  <2>3. s # Null => host[s].epoch = e /\ ~host[s].quarantined
    BY <1>5 DEF PlanOperation, Plannable
  <2> QED
    BY <2>1, <2>2, <2>3 DEF UnsettledIsCurrent, Unsettled, Current
<1>6. ASSUME NEW o \in OpId, DispatchOperation(o) PROVE UnsettledIsCurrent'
  <2>1. \A x \in OpId \ {o} : op'[x] = op[x]
    BY <1>6 DEF DispatchOperation
  <2>2. host' = host
    BY <1>6 DEF DispatchOperation
  <2>3. Unsettled(o) /\ Current(o)
    BY <1>6 DEF DispatchOperation, Unsettled, UnsettledIsCurrent
  <2>4. op'[o].slot = op[o].slot /\ op'[o].epoch = op[o].epoch
    BY <1>6 DEF DispatchOperation, Settled, OpRow
  <2> QED
    BY <2>1, <2>2, <2>3, <2>4 DEF UnsettledIsCurrent, Unsettled, Current
<1>7. ASSUME NEW o \in OpId, NEW outcome \in Outcome, SettleOperation(o, outcome)
      PROVE  UnsettledIsCurrent'
  <2>1. op'[o].state = "settled"
    BY <1>7 DEF SettleOperation, Settled, OpRow
  <2>2. host' = host /\ \A x \in OpId \ {o} : op'[x] = op[x]
    BY <1>7 DEF SettleOperation
  <2> QED
    BY <2>1, <2>2 DEF UnsettledIsCurrent, Unsettled, Current
<1>8. CASE UNCHANGED ledgerVars
  BY <1>8 DEF ledgerVars, UnsettledIsCurrent, Unsettled, Current
<1> QED
  BY <1>1, <1>2, <1>3, <1>4, <1>5, <1>6, <1>7, <1>8 DEF LedgerNext

\* The inductive invariant of the ledger
THEOREM LedgerInvariant == LedgerSpec => []LedgerInv
<1>1. LedgerInv /\ [LedgerNext]_ledgerVars => LedgerInv'
  BY TypeStep, PlannedStep, CurrentStep DEF LedgerInv
<1> QED
  BY LedgerInitHolds, <1>1, PTL DEF LedgerSpec

\* Every handler keeps the browser columns and the operation rows well formed
\* (browserAuthority.ts).
THEOREM LedgerTyped == LedgerSpec => []LedgerTypeOK
BY LedgerInvariant, PTL DEF LedgerInv

\* For any number of slots, tabs, operations and reloads, a write that may still happen
\* belongs to the page its slot is known to run, and the slot is not quarantined: the
\* precondition dispatchOperation checks again never fails.
THEOREM UnsettledWritesAreCurrent == LedgerSpec => []UnsettledIsCurrent
BY LedgerInvariant, PTL DEF LedgerInv

\* What became of a write is never rewritten, but for the evidence of a reply
\* (settleOperation, settleUnfinishedForSlot, reportRuntime).
THEOREM OutcomesAreFinal == LedgerSpec => OutcomeIsFinal
<1> DEFINE Final == \A o \in OpId : op[o].state = "settled" =>
                      \/ op'[o] = op[o]
                      \/ /\ op[o].outcome \in {"acknowledged", "uncertain"}
                         /\ op'[o].outcome = "reply-observed"
<1>1. ASSUME LedgerTypeOK, [LedgerNext]_ledgerVars PROVE [Final]_ledgerVars
  <2> SUFFICES ASSUME NEW x \in OpId, op[x].state = "settled"
               PROVE  \/ op'[x] = op[x]
                      \/ /\ op[x].outcome \in {"acknowledged", "uncertain"}
                         /\ op'[x].outcome = "reply-observed"
    BY DEF Final
  <2> USE <1>1 DEF LedgerTypeOK
  <2>a. \A s \in Slot : AllUncertain(s)[x] = op[x]
    BY DEF AllUncertain, Unsettled
  <2>1. ASSUME NEW s \in Slot, NEW desired \in {"active", "suspended"}, SetDesired(s, desired)
        PROVE  op'[x] = op[x]
    BY <2>1 DEF SetDesired
  <2>2. ASSUME NEW s \in Slot, NEW t \in Tab, ReportTab(s, t) PROVE op'[x] = op[x]
    BY <2>2 DEF ReportTab
  <2>3. ASSUME NEW s \in Slot, ReportTabAbsent(s) PROVE op'[x] = op[x]
    BY <2>3, <2>a DEF ReportTabAbsent
  <2>4. ASSUME NEW s \in Slot, NEW t \in Tab, NEW e \in Epoch, NEW rev \in Rev, NEW at \in Stamp,
               ReportRuntime(s, t, e, rev, at)
        PROVE  op'[x] = op[x]
    BY <2>4, <2>a DEF ReportRuntime, OpsAfter
  <2>5. ASSUME NEW o \in OpId, NEW s \in Slot \cup {Null}, NEW t \in Tab, NEW e \in Epoch,
               PlanOperation(o, s, t, e)
        PROVE  op'[x] = op[x]
    BY <2>5 DEF PlanOperation
  <2>6. ASSUME NEW o \in OpId, DispatchOperation(o) PROVE op'[x] = op[x]
    BY <2>6 DEF DispatchOperation
  <2>7. ASSUME NEW o \in OpId, NEW outcome \in Outcome, SettleOperation(o, outcome)
        PROVE  \/ op'[x] = op[x]
               \/ /\ op[x].outcome \in {"acknowledged", "uncertain"}
                  /\ op'[x].outcome = "reply-observed"
    <3>1. CASE o = x
      <4>1. op'[x].outcome = outcome
        BY <2>7, <3>1 DEF SettleOperation, Settled, OpRow
      <4>2. op[x].outcome \in {"acknowledged", "uncertain"} /\ outcome = "reply-observed"
        BY <2>7, <3>1 DEF SettleOperation, Settleable
      <4> QED
        BY <4>1, <4>2
    <3>2. CASE o # x
      BY <2>7, <3>2 DEF SettleOperation
    <3> QED
      BY <3>1, <3>2
  <2>8. CASE UNCHANGED ledgerVars
    BY <2>8 DEF ledgerVars
  <2> QED
    BY <2>1, <2>2, <2>3, <2>4, <2>5, <2>6, <2>7, <2>8 DEF LedgerNext
<1> QED
  BY <1>1, LedgerTyped, PTL DEF LedgerSpec, OutcomeIsFinal, Final

-----------------------------------------------------------------------------
(* Dispatches *)

OnPage == page.inbox \cup page.sending \cup clicked
Touched(a) == a \in OnPage \/ page.pending = a \/ notice[a] # "none"

HoldsAttempt == {"refused", "prepared", "planned-op", "marked", "dispatched-op", "sent", "answered",
                 "recorded", "caught", "judged"}
BeforeAttempt == {"planned", "queued", "observed", "refusing"}
Wrote == {"sent", "answered", "recorded"}
MayHaveWritten == Wrote \cup {"caught", "judged"}

AttemptRow == [state: AttemptState \cup {"none"}, prompt: Prompt \cup {Null}, epoch: Epoch \cup {Null}]
PageRow == [epoch: Epoch, pending: Attempt \cup {Null}, baseline: Nat, inbox: SUBSET Attempt,
            sending: SUBSET Attempt, delivered: SUBSET Attempt, replies: Nat]
RecoveryRow == [pc: {"read", "probe", "apply", "done"}, seen: [Attempt -> AttemptState \cup {"none"}],
                pending: Attempt \cup {Null}, delivered: SUBSET Attempt, epoch: Epoch \cup {Null}]

\* TypeOK without the order of the records, on which nothing else here depends
Typed ==
  /\ LedgerTypeOK
  /\ att \in [Attempt -> AttemptRow]
  /\ history \in [Prompt -> Seq(Attempt)]
  /\ retry \in [Task -> Attempt \cup {Null}] /\ version \in [Task -> 0 .. MaxVersion]
  /\ run \in [Run -> RunRow] /\ recovery \in RecoveryRow
  /\ notice \in [Attempt -> {"none", "sent", "marked"}]
  /\ page \in PageRow
  /\ started \subseteq clicked /\ clicked \subseteq Attempt /\ asked \subseteq Attempt

\* What a run knows at each of its steps; one run at a time is in the tab's lane.
RunShape ==
  /\ \A r \in Run :
       /\ run[r].pc # "idle" => run[r].prompt \in Prompt
       /\ run[r].pc = "idle" => run[r] = NoRun
       /\ run[r].attempt # Null <=> run[r].pc \in HoldsAttempt
       /\ run[r].attempt # Null => att[run[r].attempt].prompt = run[r].prompt
       /\ run[r].pc \in Wrote => run[r].written
       /\ run[r].written => run[r].pc \in MayHaveWritten
  /\ \A r, q \in Run : run[r].pc \in Step /\ run[q].pc \in Step => r = q

\* A record that does not exist belongs to nobody.
Records ==
  \A a \in Attempt : /\ att[a].state = "none" <=> att[a].prompt = Null
                     /\ att[a].state = "none" => op[a].state = "none" /\ ~Touched(a)

\* What the ledger settled is so; what it settled as failed cannot happen any more.
SettledTruly(a) ==
  /\ op[a].outcome = "acknowledged" => a \in clicked
  /\ op[a].outcome = "reply-observed" => att[a].state = "reply-observed"
  /\ op[a].outcome = "failed" =>
       /\ a \notin OnPage
       /\ \A r \in Run : run[r].attempt = a => run[r].pc \in {"caught", "judged"} /\ ~run[r].written

\* What the page, the runs, the records and the ledger say of one attempt agree.
Truthful ==
  /\ page.inbox \cap (page.sending \cup clicked) = {}
  /\ page.delivered \subseteq clicked /\ recovery.delivered \subseteq clicked
  /\ \A r \in Run : run[r].attempt # Null =>
       /\ ~run[r].written => ~Touched(run[r].attempt)
       /\ run[r].pc \in {"answered", "recorded"} =>
            /\ run[r].answer = "ok" => run[r].attempt \in clicked
            /\ run[r].answer = "proved-not-started" => run[r].attempt \notin OnPage
  /\ \A a \in Attempt :
       /\ att[a].state = "acknowledged" => a \in clicked
       /\ notice[a] = "marked" => att[a].state = "reply-observed"
       /\ op[a].state = "settled" => SettledTruly(a)

DInv == Typed /\ RunShape /\ Records /\ Truthful

\* When prompts wait for startup recovery: nothing runs beside it, the record of an attempt keeps step
\* with the run that holds it, and what reached the page is recorded as dispatched.
KeepsStep ==
  /\ recovery.pc # "done" => \A r \in Run : run[r].pc = "idle"
  /\ \A r \in Run :
       /\ run[r].pc \in {"prepared", "planned-op", "refused"} => att[run[r].attempt].state = "prepared"
       /\ run[r].pc \in {"marked", "dispatched-op"} => att[run[r].attempt].state = "dispatched"
  /\ \A a \in OnPage : att[a].state \notin {"none", "prepared", "failed"}

\* The history of a task or message names its attempts.
Histories ==
  \A p \in Prompt :
    /\ \A a \in Attempt : att[a].prompt = p => \E i \in DOMAIN history[p] : history[p][i] = a
    /\ \A i \in DOMAIN history[p] : att[history[p][i]].prompt = p

Disposed(a) == att[a].state = "failed" \/ a \in asked

\* A message is attempted again after failures only, a task after failures or on request.
MessageAttempts ==
  \A a, b \in Attempt : att[a].prompt \in Message /\ att[b].prompt = att[a].prompt /\ a # b =>
    att[a].state = "failed" \/ att[b].state = "failed"

TaskAttempts ==
  /\ \A t \in Task : retry[t] # Null => retry[t] \in asked
  /\ \A a \in Attempt : att[a].prompt \in Task =>
       Disposed(a) \/ a = Last(history[att[a].prompt])
  /\ \A r \in Run : run[r].prompt \in Task /\ run[r].pc \in BeforeAttempt =>
       \A a \in Attempt : att[a].prompt = run[r].prompt => Disposed(a)

\* No two planners hold the same task at once: README, section 8, says what happens when they do.
OneTaskRun == \A r, q \in Run : run[r].prompt \in Task /\ run[q].prompt = run[r].prompt => r = q

-----------------------------------------------------------------------------
(* Which step writes which variable *)

LEMMA WhoWrites ==
  [Next]_vars =>
         /\ att' = att
            \/ (\E r \in Run, fate \in Fate : \/ Prepare(r, fate) \/ RecordRefusal(r, fate) \/ Mark(r, fate)
                                              \/ Record(r, fate) \/ CatchRecord(r, fate))
            \/ (\E a \in Attempt, fate \in Fate : NoticeMark(a, fate))
            \/ (\E fresh \in BOOLEAN, fate \in Fate : RecoveryApply(fresh, fate))
         /\ history' = history \/ (\E r \in Run, fate \in Fate : Prepare(r, fate))
         /\ order' = order \/ (\E r \in Run, fate \in Fate : Prepare(r, fate))
            \/ (\E fresh \in BOOLEAN, fate \in Fate : RecoveryApply(fresh, fate))
         /\ retry' = retry \/ (\E t \in Task : RequestRetry(t))
         /\ version' = version \/ (\E t \in Task : RequestRetry(t))
            \/ (\E r \in Run, fate \in Fate : Prepare(r, fate))
         /\ asked' = asked \/ (\E t \in Task : RequestRetry(t))
         /\ recovery' = recovery \/ Restart \/ RecoveryRead \/ (\E heard \in BOOLEAN : RecoveryProbe(heard))
            \/ (\E fresh \in BOOLEAN, fate \in Fate : RecoveryApply(fresh, fate))
         /\ notice' = notice \/ Restart
            \/ (\E a \in Attempt : NoticeSent(a) \/ \E fate \in Fate :
                  NoticeMark(a, fate) \/ \E heard \in BOOLEAN : NoticeSettle(a, fate, heard))
         /\ page' = page \/ PageReload \/ Reply \/ (\E r \in Run : Send(r))
            \/ (\E a \in Attempt : \/ SendLost(a) \/ PageRefusesSend(a) \/ PageReceives(a)
                                   \/ PageFails(a) \/ PageConfirms(a)
                                   \/ \E fate \in Fate, heard \in BOOLEAN : NoticeSettle(a, fate, heard))
         /\ clicked' = clicked \/ (\E a \in Attempt : PageClicks(a))
         /\ started' = started \/ (\E a \in Attempt : GenerationStarts(a))
<1> SUFFICES ASSUME [Next]_vars PROVE WhoWrites!2
  OBVIOUS
<1> USE DEF vars, documentVars, serviceVars, KernelUnchanged, Elsewhere, PageOnly, RecoveryOnly, Transition
<1>1. ASSUME NEW r \in Run, RunStep(r) PROVE WhoWrites!2
  <2>1. CASE Enqueue(r) \/ GiveUp(r) \/ \E pc \in {"observed", "refusing"} : Observe(r, pc)
    BY <2>1 DEF Enqueue, GiveUp, Observe
  <2>2. CASE Send(r)
    BY <2>2 DEF Send
  <2>3. ASSUME NEW fate \in Fate, Prepare(r, fate) \/ RecordRefusal(r, fate) \/ Mark(r, fate) \/ Record(r, fate) \/ CatchRecord(r, fate)
        PROVE  WhoWrites!2
    BY <2>3 DEF Prepare, RecordRefusal, Mark, Record, CatchRecord
  <2>4. ASSUME NEW fate \in Fate, PlanOp(r, fate) \/ DispatchOp(r, fate) \/ Settle(r, fate) \/ CatchSettle(r, fate)
        PROVE  WhoWrites!2
    BY <2>4 DEF PlanOp, DispatchOp, Settle, CatchSettle
  <2> QED
    BY <1>1, <2>1, <2>2, <2>3, <2>4 DEF RunStep
<1>2. ASSUME NEW r \in Run, NEW p \in Prompt, Plan(r, p) PROVE WhoWrites!2
  BY <1>2 DEF Plan
<1>3. ASSUME NEW a \in Attempt, SendStep(a) \/ GenerationStarts(a) PROVE WhoWrites!2
  BY <1>3 DEF SendStep, SendLost, PageRefusesSend, PageReceives, PageClicks, PageFails, PageConfirms, GenerationStarts
<1>4. ASSUME NEW a \in Attempt, NoticeStep(a) PROVE WhoWrites!2
  BY <1>4 DEF NoticeStep, NoticeSent, NoticeMark, NoticeSettle
<1>5. CASE PageReload \/ PageReports \/ Reply \/ Restart \/ RecoveryRead \/ UNCHANGED vars
  BY <1>5 DEF PageReload, PageReports, Reply, Restart, RecoveryRead
<1>6. ASSUME NEW t \in Task, RequestRetry(t) PROVE WhoWrites!2
  BY <1>6 DEF RequestRetry
<1>7. ASSUME NEW heard \in BOOLEAN, RecoveryProbe(heard) PROVE WhoWrites!2
  BY <1>7 DEF RecoveryProbe
<1>8. ASSUME NEW fresh \in BOOLEAN, NEW fate \in Fate, RecoveryApply(fresh, fate) PROVE WhoWrites!2
  BY <1>8 DEF RecoveryApply
<1> QED
  BY <1>1, <1>2, <1>3, <1>4, <1>5, <1>6, <1>7, <1>8 DEF Next

LEMMA WhoRuns ==
  [Next]_vars =>
         /\ run' = run \/ Restart \/ PageReload
            \/ (\E r \in Run, p \in Prompt : Plan(r, p))
            \/ (\E r \in Run : \/ Enqueue(r) \/ GiveUp(r) \/ Send(r)
                               \/ \E pc \in {"observed", "refusing"} : Observe(r, pc))
            \/ (\E r \in Run, fate \in Fate :
                  \/ Prepare(r, fate) \/ RecordRefusal(r, fate) \/ PlanOp(r, fate) \/ Mark(r, fate)
                  \/ DispatchOp(r, fate) \/ Record(r, fate) \/ Settle(r, fate)
                  \/ CatchRecord(r, fate) \/ CatchSettle(r, fate))
            \/ (\E a \in Attempt : SendLost(a) \/ PageRefusesSend(a) \/ PageFails(a) \/ PageConfirms(a))
         /\ UNCHANGED <<host, op>> \/ Reports
            \/ (\E r \in Run, fate \in Fate : PlanOp(r, fate) \/ DispatchOp(r, fate) \/ Settle(r, fate) \/ CatchSettle(r, fate))
            \/ (\E a \in Attempt, fate \in Fate, heard \in BOOLEAN : NoticeSettle(a, fate, heard))
<1> SUFFICES ASSUME [Next]_vars PROVE WhoRuns!2
  OBVIOUS
<1> USE DEF vars, documentVars, serviceVars, KernelUnchanged, Elsewhere, PageOnly, RecoveryOnly
<1>1. ASSUME NEW r \in Run, RunStep(r) PROVE WhoRuns!2
  <2>1. CASE Enqueue(r) \/ GiveUp(r) \/ Send(r) \/ \E pc \in {"observed", "refusing"} : Observe(r, pc)
    BY <2>1 DEF Enqueue, GiveUp, Send, Observe
  <2>3. ASSUME NEW fate \in Fate, Prepare(r, fate) \/ RecordRefusal(r, fate) \/ Mark(r, fate) \/ Record(r, fate) \/ CatchRecord(r, fate)
        PROVE  WhoRuns!2
    BY <2>3 DEF Prepare, RecordRefusal, Mark, Record, CatchRecord
  <2>4. ASSUME NEW fate \in Fate, PlanOp(r, fate) \/ DispatchOp(r, fate) \/ Settle(r, fate) \/ CatchSettle(r, fate)
        PROVE  WhoRuns!2
    BY <2>4 DEF PlanOp, DispatchOp, Settle, CatchSettle
  <2> QED
    BY <1>1, <2>1, <2>3, <2>4 DEF RunStep
<1>2. ASSUME NEW r \in Run, NEW p \in Prompt, Plan(r, p) PROVE WhoRuns!2
  BY <1>2 DEF Plan
<1>3. ASSUME NEW a \in Attempt, SendStep(a) \/ GenerationStarts(a) PROVE WhoRuns!2
  BY <1>3 DEF SendStep, SendLost, PageRefusesSend, PageReceives, PageClicks, PageFails, PageConfirms, GenerationStarts
<1>4. ASSUME NEW a \in Attempt, NoticeStep(a) PROVE WhoRuns!2
  BY <1>4 DEF NoticeStep, NoticeSent, NoticeMark, NoticeSettle
<1>5. CASE PageReload \/ PageReports \/ Reply \/ Restart \/ RecoveryRead \/ UNCHANGED vars
  BY <1>5 DEF PageReload, PageReports, Reply, Restart, RecoveryRead
<1>6. ASSUME NEW t \in Task, RequestRetry(t) PROVE WhoRuns!2
  BY <1>6 DEF RequestRetry
<1>7. ASSUME NEW heard \in BOOLEAN, RecoveryProbe(heard) PROVE WhoRuns!2
  BY <1>7 DEF RecoveryProbe
<1>8. ASSUME NEW fresh \in BOOLEAN, NEW fate \in Fate, RecoveryApply(fresh, fate) PROVE WhoRuns!2
  BY <1>8 DEF RecoveryApply
<1> QED
  BY <1>1, <1>2, <1>3, <1>4, <1>5, <1>6, <1>7, <1>8 DEF Next

-----------------------------------------------------------------------------
(* What a step does to one run *)

Kept(q, pc) == run'[q] = [run[q] EXCEPT !.pc = pc]

\* The page's answer says what the page knows.
Answered(a, answer) == /\ answer = "ok" => PageConfirms(a)
                       /\ answer = "proved-not-started" => PageFails(a) /\ a \notin clicked

RunMove(q) ==
  \/ run'[q] = run[q]
  \/ run'[q] = NoRun
  \/ /\ run[q].pc = "idle"
     /\ \E p \in Prompt : /\ Plan(q, p)
                          /\ run'[q] = [NoRun EXCEPT !.pc = "planned", !.prompt = p,
                                                     !.version = IF p \in Task THEN version[p] ELSE 0]
  \/ run[q].pc = "planned" /\ Kept(q, "queued")
  \/ /\ run[q].pc = "queued" /\ LaneFree
     /\ \E pc \in {"observed", "refusing"} : Observe(q, pc) /\ run'[q] = [run[q] EXCEPT !.pc = pc, !.epoch = page.epoch]
  \/ /\ run[q].pc \in {"observed", "refusing"} /\ Prepare(q, "done") /\ MayPrepare(run[q].prompt)
     /\ run'[q] = [run[q] EXCEPT !.attempt = Fresh, !.pc = IF run[q].pc = "refusing" THEN "refused" ELSE "prepared"]
  \/ run[q].pc = "refused" /\ Kept(q, "caught")
  \/ run[q].pc = "prepared" /\ (Kept(q, "planned-op") \/ Kept(q, "caught"))
  \/ run[q].pc = "planned-op" /\ ((Mark(q, "done") /\ Kept(q, "marked")) \/ Kept(q, "caught"))
  \/ run[q].pc = "marked" /\ (Kept(q, "dispatched-op") \/ Kept(q, "caught"))
  \/ /\ run[q].pc = "dispatched-op" /\ Send(q)
     /\ run'[q] = [run[q] EXCEPT !.pc = "sent", !.written = TRUE]
  \/ /\ run[q].pc = "sent"
     /\ \E answer \in Answer : /\ Answered(run[q].attempt, answer)
                               /\ run'[q] = [run[q] EXCEPT !.pc = "answered", !.answer = answer]
  \/ run[q].pc = "answered" /\ (Kept(q, "recorded") \/ Kept(q, "caught"))
  \/ run[q].pc = "recorded" /\ Kept(q, "caught")
  \/ run[q].pc = "caught" /\ Kept(q, "judged")

\* A step moves a run along its path, or another one: only the page moves on what runs wait for.
LEMMA RunMoves ==
  ASSUME Typed, [Next]_vars, NEW q \in Run
  PROVE  RunMove(q)
<1>a. run \in [Run -> RunRow]
  BY DEF Typed
<1> USE DEF Goes, Ends, OnAnswer
<1>0. ASSUME NEW r \in Run, r # q, NEW row, run' = [run EXCEPT ![r] = row] PROVE RunMove(q)
  BY <1>0, <1>a DEF RunMove
<1>1. ASSUME NEW r \in Run, r # q, \E p \in Prompt : Plan(r, p) PROVE run'[q] = run[q]
  BY <1>1, <1>a DEF Plan
<1>2. ASSUME NEW r \in Run, r # q,
             \/ Enqueue(r) \/ GiveUp(r) \/ Send(r) \/ \E pc \in {"observed", "refusing"} : Observe(r, pc)
      PROVE  run'[q] = run[q]
  BY <1>2, <1>a DEF Enqueue, GiveUp, Send, Observe
<1>3. ASSUME NEW r \in Run, NEW fate \in Fate, r # q,
             \/ Prepare(r, fate) \/ RecordRefusal(r, fate) \/ PlanOp(r, fate) \/ Mark(r, fate)
             \/ DispatchOp(r, fate) \/ Record(r, fate) \/ Settle(r, fate) \/ CatchRecord(r, fate) \/ CatchSettle(r, fate)
      PROVE  run'[q] = run[q]
  BY <1>3, <1>a DEF Prepare, RecordRefusal, PlanOp, Mark, DispatchOp, Record, Settle, CatchRecord, CatchSettle
<1>4. ASSUME NEW p \in Prompt, Plan(q, p) PROVE RunMove(q)
  BY <1>4, <1>a DEF Plan, RunMove
<1>5. CASE Enqueue(q) \/ GiveUp(q) \/ Send(q)
  BY <1>5, <1>a DEF Enqueue, GiveUp, Send, RunMove, Kept
<1>6. ASSUME NEW pc \in {"observed", "refusing"}, Observe(q, pc) PROVE RunMove(q)
  BY <1>6, <1>a DEF Observe, RunMove
<1>7. ASSUME NEW fate \in Fate, Prepare(q, fate) PROVE RunMove(q)
  <2>1. CASE MayPrepare(run[q].prompt) /\ fate = "done"
    <3>1. Prepare(q, "done") /\ run[q].pc \in {"observed", "refusing"}
      BY <1>7, <2>1 DEF Prepare
    <3>2. run' = [run EXCEPT ![q] = [@ EXCEPT !.attempt = Fresh, !.pc = IF run[q].pc = "refusing" THEN "refused" ELSE "prepared"]]
      BY <1>7, <2>1 DEF Prepare
    <3>3. run'[q] = [run[q] EXCEPT !.attempt = Fresh, !.pc = IF run[q].pc = "refusing" THEN "refused" ELSE "prepared"]
      BY <3>2, <1>a
    <3> QED
      BY <3>1, <3>3, <2>1 DEF RunMove
  <2>2. CASE ~(MayPrepare(run[q].prompt) /\ fate = "done")
    BY <1>7, <2>2, <1>a DEF Prepare, RunMove
  <2> QED
    BY <2>1, <2>2
<1>8. ASSUME NEW fate \in Fate, RecordRefusal(q, fate) PROVE RunMove(q)
  BY <1>8, <1>a DEF RecordRefusal, RunMove, Kept
<1>9. ASSUME NEW fate \in Fate, PlanOp(q, fate) PROVE RunMove(q)
  BY <1>9, <1>a DEF PlanOp, RunMove, Kept
<1>10. ASSUME NEW fate \in Fate, Mark(q, fate) PROVE RunMove(q)
  BY <1>10, <1>a DEF Mark, RunMove, Kept
<1>11. ASSUME NEW fate \in Fate, DispatchOp(q, fate) PROVE RunMove(q)
  BY <1>11, <1>a DEF DispatchOp, RunMove, Kept
<1>12. ASSUME NEW fate \in Fate, Record(q, fate) PROVE RunMove(q)
  BY <1>12, <1>a DEF Record, RunMove, Kept
<1>13. ASSUME NEW fate \in Fate, Settle(q, fate) PROVE RunMove(q)
  BY <1>13, <1>a DEF Settle, RunMove, Kept
<1>14. ASSUME NEW fate \in Fate, CatchRecord(q, fate) \/ CatchSettle(q, fate) PROVE RunMove(q)
  BY <1>14, <1>a DEF CatchRecord, CatchSettle, RunMove, Kept
<1>15. CASE Restart
  BY <1>15 DEF Restart, RunMove
<1>16. ASSUME NEW as, NEW answer \in Answer, Respond(as, answer),
              run[q].pc = "sent" /\ run[q].attempt \in as => Answered(run[q].attempt, answer)
       PROVE  RunMove(q)
  BY <1>16, <1>a DEF Respond, RunMove
<1>17. CASE PageReload
  BY <1>17, <1>16 DEF PageReload, Answered, Answer
<1>18. ASSUME NEW a \in Attempt, SendLost(a) \/ PageRefusesSend(a) \/ PageConfirms(a) PROVE RunMove(q)
  BY <1>18, <1>16 DEF SendLost, PageRefusesSend, PageConfirms, Answered, Answer
<1>19. ASSUME NEW a \in Attempt, PageFails(a) PROVE RunMove(q)
  BY <1>19, <1>16 DEF PageFails, Answered, Answer
<1>20. CASE run'[q] = run[q]
  BY <1>20 DEF RunMove
<1> QED
  BY <1>1, <1>2, <1>3, <1>4, <1>5, <1>6, <1>7, <1>8, <1>9, <1>10, <1>11, <1>12, <1>13, <1>14, <1>15,
     <1>17, <1>18, <1>19, <1>20, WhoRuns

-----------------------------------------------------------------------------
(* What a step does to one record *)

\* Who may advance the record of an attempt, and to what.
Judges(a, s) ==
  \/ \E r \in Run :
       /\ run[r].attempt = a /\ run'[r].pc # run[r].pc
       /\ \/ run[r].pc = "refused" /\ s = "failed"
          \/ run[r].pc = "planned-op" /\ s = "dispatched"
          \/ run[r].pc = "answered" /\ s = Recorded(run[r].answer)
          \/ run[r].pc = "caught" /\ s = Caught(r)
  \/ notice[a] = "sent" /\ s = "reply-observed"

Recovers(a) == /\ recovery.pc = "apply"
               /\ \E fresh \in BOOLEAN : att'[a] = [att[a] EXCEPT !.state = RecoveredState(a, fresh)]

Prepares(r, a) == /\ run[r].pc \in {"observed", "refusing"} /\ MayPrepare(run[r].prompt)
                  /\ a = Fresh /\ \E b \in Attempt : att[b].state = "none"
                  /\ att'[a] = [state |-> "prepared", prompt |-> run[r].prompt, epoch |-> run[r].epoch]
                  /\ history' = [history EXCEPT ![run[r].prompt] = Append(@, a)]

Advances(a, s) == /\ s \in Allowed[att[a].state] /\ Judges(a, s)
                  /\ att'[a] = [att[a] EXCEPT !.state = s]

AttMove(a) == \/ att'[a] = att[a]
              \/ \E r \in Run : Prepares(r, a)
              \/ \E s \in AttemptState : Advances(a, s)
              \/ Recovers(a)

LEMMA FreshIsNew ==
  ASSUME \E b \in Attempt : att[b].state = "none"
  PROVE  Fresh \in Attempt /\ att[Fresh].state = "none"
BY DEF Fresh

LEMMA AllowedTyped == \A state \in AttemptState \cup {"none"} : Allowed[state] \subseteq AttemptState
BY DEF Allowed, AttemptState

LEMMA AttMoves ==
  ASSUME Typed, [Next]_vars, NEW a \in Attempt
  PROVE  AttMove(a)
<1>a. att \in [Attempt -> AttemptRow] /\ run \in [Run -> RunRow]
  BY DEF Typed
<1>b. ASSUME NEW c, NEW s, NEW fate \in Fate, Transition(c, s, fate), c = a => Judges(a, s)
      PROVE  AttMove(a)
  <2>1. att' = att \/ (att' = [att EXCEPT ![c].state = s] /\ s \in Allowed[att[c].state])
    BY <1>b DEF Transition, Advanced
  <2>2. CASE c = a /\ att' = [att EXCEPT ![c].state = s] /\ s \in Allowed[att[c].state]
    <3>1. att'[a] = [att[a] EXCEPT !.state = s]
      BY <1>a, <2>2
    <3>2. s \in AttemptState
      BY <1>a, <2>2, AllowedTyped DEF AttemptRow
    <3> QED
      BY <3>1, <3>2, <2>2, <1>b DEF AttMove, Advances
  <2>3. att'[a] = att[a] \/ (c = a /\ att' = [att EXCEPT ![c].state = s] /\ s \in Allowed[att[c].state])
    BY <2>1, <1>a
  <2> QED
    BY <2>2, <2>3 DEF AttMove
<1>1. ASSUME NEW r \in Run, NEW fate \in Fate, Prepare(r, fate) PROVE AttMove(a)
  <2>1. CASE att' = att
    BY <2>1 DEF AttMove
  <2>2. CASE att' # att
    <3>1. /\ att' = [att EXCEPT ![Fresh] = [state |-> "prepared", prompt |-> run[r].prompt, epoch |-> run[r].epoch]]
          /\ run[r].pc \in {"observed", "refusing"} /\ MayPrepare(run[r].prompt)
          /\ \E b \in Attempt : att[b].state = "none"
          /\ history' = [history EXCEPT ![run[r].prompt] = Append(@, Fresh)]
      BY <1>1, <2>2 DEF Prepare
    <3>2. CASE a = Fresh
      BY <3>1, <3>2, <1>a DEF AttMove, Prepares
    <3>3. CASE a # Fresh
      BY <3>1, <3>3, <1>a DEF AttMove
    <3> QED
      BY <3>2, <3>3
  <2> QED
    BY <2>1, <2>2
<1>2. ASSUME NEW r \in Run, NEW fate \in Fate, RecordRefusal(r, fate) PROVE AttMove(a)
  <2>1. run'[r].pc # run[r].pc
    BY <1>2, <1>a DEF RecordRefusal, Goes, Ends, NoRun, RunRow
  <2>2. Judges(run[r].attempt, "failed")
    BY <1>2, <2>1 DEF RecordRefusal, Judges
  <2> QED
    BY <1>2, <2>2, <1>b DEF RecordRefusal
<1>3. ASSUME NEW r \in Run, NEW fate \in Fate, Mark(r, fate) PROVE AttMove(a)
  BY <1>3, <1>b, <1>a DEF Mark, Judges, Goes, OnAnswer, RunRow
<1>4. ASSUME NEW r \in Run, NEW fate \in Fate, Record(r, fate) PROVE AttMove(a)
  BY <1>4, <1>b, <1>a DEF Record, Judges, Goes, OnAnswer, RunRow
<1>5. ASSUME NEW r \in Run, NEW fate \in Fate, CatchRecord(r, fate) PROVE AttMove(a)
  BY <1>5, <1>b, <1>a DEF CatchRecord, Judges, Goes, OnAnswer, RunRow
<1>6. ASSUME NEW b \in Attempt, NEW fate \in Fate, NoticeMark(b, fate) PROVE AttMove(a)
  BY <1>6, <1>b DEF NoticeMark, Judges
<1>7. ASSUME NEW fresh \in BOOLEAN, NEW fate \in Fate, RecoveryApply(fresh, fate) PROVE AttMove(a)
  <2>1. CASE att' = att
    BY <2>1 DEF AttMove
  <2>2. CASE att' # att
    <3>1. att' = [b \in Attempt |-> [att[b] EXCEPT !.state = RecoveredState(b, fresh)]] /\ recovery.pc = "apply"
      BY <1>7, <2>2 DEF RecoveryApply
    <3> QED
      BY <3>1 DEF AttMove, Recovers
  <2> QED
    BY <2>1, <2>2
<1>8. CASE att' = att
  BY <1>8 DEF AttMove
<1> QED
  BY <1>1, <1>2, <1>3, <1>4, <1>5, <1>6, <1>7, <1>8, WhoWrites

\* A record is made once, for one prompt; a failure, as a reply, is the last word on it.
RecordStays(a) ==
  /\ att'[a] \in AttemptRow
  /\ att[a].state # "none" => att'[a].state # "none" /\ att'[a].prompt = att[a].prompt
  /\ att[a].state = "reply-observed" => att'[a].state = "reply-observed"
  /\ att[a].state = "failed" => att'[a].state = "failed"

LEMMA RecordKept ==
  ASSUME Typed, [Next]_vars, NEW a \in Attempt
  PROVE  RecordStays(a)
<1> USE DEF RecordStays
<1>a. att[a] \in AttemptRow /\ run \in [Run -> RunRow]
  BY DEF Typed
<1>1. CASE att'[a] = att[a]
  BY <1>1, <1>a
<1>2. ASSUME NEW r \in Run, Prepares(r, a) PROVE RecordStays(a)
  <2>1. att[a].state = "none"
    BY <1>2, FreshIsNew DEF Prepares
  <2>2. att'[a] = [state |-> "prepared", prompt |-> run[r].prompt, epoch |-> run[r].epoch]
    BY <1>2 DEF Prepares
  <2>3. run[r].prompt \in Prompt \cup {Null} /\ run[r].epoch \in Epoch \cup {Null}
    BY <1>a DEF RunRow
  <2>4. att'[a] \in AttemptRow
    BY <2>2, <2>3 DEF AttemptRow, AttemptState
  <2> QED
    BY <2>1, <2>2, <2>4
<1>3. ASSUME NEW s \in AttemptState, Advances(a, s) PROVE RecordStays(a)
  <2>1. s \in Allowed[att[a].state] /\ att'[a] = [att[a] EXCEPT !.state = s]
    BY <1>3 DEF Advances
  <2>2. att[a].state \notin {"none", "reply-observed", "failed"}
    BY <2>1 DEF Allowed, AttemptState
  <2>3. att'[a].state = s /\ att'[a].prompt = att[a].prompt /\ att'[a] \in AttemptRow
    BY <2>1, <1>a DEF AttemptRow
  <2> QED
    BY <2>2, <2>3 DEF AttemptState
<1>4. CASE Recovers(a)
  <2>1. PICK fresh \in BOOLEAN : att'[a] = [att[a] EXCEPT !.state = RecoveredState(a, fresh)]
    BY <1>4 DEF Recovers
  <2>2. /\ RecoveredState(a, fresh) \in {att[a].state, "failed", "uncertain", "acknowledged", "dispatched"}
        /\ att[a].state \in {"none", "failed", "reply-observed", "uncertain"} => RecoveredState(a, fresh) = att[a].state
    BY DEF RecoveredState, Candidate, InFlightState
  <2>3. RecoveredState(a, fresh) \in AttemptState \cup {att[a].state}
    BY <2>2 DEF AttemptState
  <2> QED
    BY <2>1, <2>2, <2>3, <1>a DEF AttemptRow
<1> QED
  BY <1>1, <1>2, <1>3, <1>4, AttMoves DEF AttMove

-----------------------------------------------------------------------------
(* Types *)

LEMMA InitTyped == Init => Typed
<1> SUFFICES ASSUME Init PROVE Typed
  OBVIOUS
<1> USE LedgerNull, LedgerBounds, DeliveryAssumption DEF Init
<1>1. LedgerTypeOK
  <2>1. NoHost \in HostRow /\ [NoHost EXCEPT !.tab = T] \in HostRow /\ NoOp \in OpRow
    BY DEF NoHost, HostRow, NoOp, OpRow
  <2> QED
    BY <2>1 DEF LedgerTypeOK
<1>2. att \in [Attempt -> AttemptRow]
  BY DEF NoAttempt, AttemptRow
<1>3. run \in [Run -> RunRow]
  BY DEF NoRun, RunRow
<1>4. recovery \in RecoveryRow
  BY DEF NoRecovery, RecoveryRow
<1>5. page \in PageRow
  <2>1. 1 \in Epoch
    BY DEF Epoch
  <2> QED
    BY <2>1 DEF PageRow
<1>6. /\ history \in [Prompt -> Seq(Attempt)] /\ retry \in [Task -> Attempt \cup {Null}]
      /\ version \in [Task -> 0 .. MaxVersion] /\ notice \in [Attempt -> {"none", "sent", "marked"}]
      /\ started \subseteq clicked /\ clicked \subseteq Attempt /\ asked \subseteq Attempt
  OBVIOUS
<1> QED
  BY <1>1, <1>2, <1>3, <1>4, <1>5, <1>6 DEF Typed

LEMMA RunTyped ==
  ASSUME Typed, [Next]_vars PROVE run' \in [Run -> RunRow]
<1>a. run \in [Run -> RunRow] /\ page \in PageRow /\ version \in [Task -> 0 .. MaxVersion]
  BY DEF Typed
<1>b. NoRun \in RunRow
  BY DEF NoRun, RunRow
<1>c. ASSUME NEW q \in Run PROVE run'[q] \in RunRow
  <2>a. run[q] \in RunRow
    BY <1>a
  <2>b. ASSUME NEW pc \in {"idle", "planned", "queued"} \cup Step, Kept(q, pc) PROVE run'[q] \in RunRow
    BY <2>a, <2>b DEF Kept, RunRow
  <2>c. /\ "queued" \in {"idle", "planned", "queued"} \cup Step
        /\ {"refusing", "refused", "observed", "prepared", "planned-op", "marked", "dispatched-op",
            "sent", "answered", "recorded", "caught", "judged"} = Step
    BY DEF Step
  <2>1. CASE run'[q] = run[q] \/ run'[q] = NoRun
    BY <2>1, <2>a, <1>b
  <2>2. ASSUME NEW p \in Prompt,
               run'[q] = [NoRun EXCEPT !.pc = "planned", !.prompt = p,
                                       !.version = IF p \in Task THEN version[p] ELSE 0]
        PROVE  run'[q] \in RunRow
    <3>1. (IF p \in Task THEN version[p] ELSE 0) \in Nat
      BY <1>a
    <3> QED
      BY <3>1, <2>2, <1>b DEF RunRow
  <2>3. ASSUME NEW pc \in {"observed", "refusing"}, run'[q] = [run[q] EXCEPT !.pc = pc, !.epoch = page.epoch]
        PROVE  run'[q] \in RunRow
    <3>1. page.epoch \in Epoch /\ pc \in Step
      BY <2>c, <1>a DEF PageRow
    <3> QED
      BY <3>1, <2>3, <2>a DEF RunRow
  <2>4. ASSUME Prepare(q, "done"),
               run'[q] = [run[q] EXCEPT !.attempt = Fresh, !.pc = IF run[q].pc = "refusing" THEN "refused" ELSE "prepared"]
        PROVE  run'[q] \in RunRow
    <3>1. Fresh \in Attempt /\ "refused" \in Step /\ "prepared" \in Step
      BY <2>4, <2>c, FreshIsNew DEF Prepare
    <3> QED
      BY <3>1, <2>4, <2>a DEF RunRow
  <2>5. CASE run'[q] = [run[q] EXCEPT !.pc = "sent", !.written = TRUE]
    BY <2>5, <2>a, <2>c DEF RunRow
  <2>6. ASSUME NEW answer \in Answer, run'[q] = [run[q] EXCEPT !.pc = "answered", !.answer = answer]
        PROVE  run'[q] \in RunRow
    BY <2>6, <2>a, <2>c DEF RunRow
  <2> QED
    BY <2>b, <2>c, <2>1, <2>2, <2>3, <2>4, <2>5, <2>6, RunMoves DEF RunMove
<1>d. run' = [q \in Run |-> run'[q]]
  <2> DEFINE Fun(f) == f = [q \in Run |-> f[q]]
  <2>0. Fun(run)
    BY <1>a
  <2>e. ASSUME NEW r, NEW row, run' = [run EXCEPT ![r] = row] PROVE Fun(run')
    BY <2>e, <1>a
  <2>1. CASE Restart
    BY <2>1 DEF Restart
  <2>2. ASSUME NEW r \in Run, NEW p \in Prompt, Plan(r, p) PROVE Fun(run')
    BY <2>2, <1>a DEF Plan
  <2>3. ASSUME NEW r \in Run,
               Enqueue(r) \/ GiveUp(r) \/ Send(r) \/ \E pc \in {"observed", "refusing"} : Observe(r, pc)
        PROVE  Fun(run')
    BY <2>3, <1>a DEF Enqueue, GiveUp, Send, Observe, Ends
  <2>4. ASSUME NEW r \in Run, NEW fate \in Fate,
               \/ Prepare(r, fate) \/ RecordRefusal(r, fate) \/ PlanOp(r, fate) \/ Mark(r, fate)
               \/ DispatchOp(r, fate) \/ Record(r, fate) \/ Settle(r, fate) \/ CatchRecord(r, fate) \/ CatchSettle(r, fate)
        PROVE  Fun(run')
    BY <2>4, <1>a DEF Prepare, RecordRefusal, PlanOp, Mark, DispatchOp, Record, Settle, CatchRecord, CatchSettle,
       Goes, Ends, OnAnswer
  <2>5. ASSUME NEW as, NEW answer, Respond(as, answer) PROVE Fun(run')
    BY <2>5 DEF Respond
  <2>6. CASE PageReload
    BY <2>5, <2>6 DEF PageReload
  <2>7. ASSUME NEW a \in Attempt, SendLost(a) \/ PageRefusesSend(a) \/ PageFails(a) \/ PageConfirms(a) PROVE Fun(run')
    BY <2>5, <2>7 DEF SendLost, PageRefusesSend, PageFails, PageConfirms
  <2>8. CASE run' = run
    BY <2>0, <2>8
  <2> QED
    BY <2>1, <2>2, <2>3, <2>4, <2>6, <2>7, <2>8, WhoRuns
<1> QED
  BY <1>c, <1>d

\* A prompt gets one attempt more.
LEMMA AppendTyped ==
  ASSUME NEW h \in [Prompt -> Seq(Attempt)], NEW p, NEW a \in Attempt
  PROVE  [h EXCEPT ![p] = Append(@, a)] \in [Prompt -> Seq(Attempt)]
<1>1. CASE p \in Prompt
  <2>1. h[p] \in Seq(Attempt)
    BY <1>1
  <2>2. Append(h[p], a) \in Seq(Attempt)
    BY <2>1
  <2> QED
    BY <2>2
<1>2. CASE p \notin Prompt
  BY <1>2
<1> QED
  BY <1>1, <1>2

\* What a page reports, and whether its slot is quarantined for it.
LEMMA ReportedHostTyped ==
  ASSUME NEW row \in HostRow, NEW epoch \in Epoch \cup {Null}, NEW quarantined \in BOOLEAN
  PROVE  [row EXCEPT !.epoch = epoch, !.quarantined = quarantined] \in HostRow
BY DEF HostRow

LEMMA RecordsTyped ==
  ASSUME Typed, [Next]_vars
  PROVE  /\ att' \in [Attempt -> AttemptRow] /\ history' \in [Prompt -> Seq(Attempt)]
         /\ retry' \in [Task -> Attempt \cup {Null}] /\ version' \in [Task -> 0 .. MaxVersion]
         /\ asked' \subseteq Attempt /\ asked \subseteq asked'
<1>a. /\ att \in [Attempt -> AttemptRow] /\ history \in [Prompt -> Seq(Attempt)]
      /\ retry \in [Task -> Attempt \cup {Null}] /\ version \in [Task -> 0 .. MaxVersion]
      /\ run \in [Run -> RunRow] /\ asked \subseteq Attempt /\ MaxVersion \in Nat
  BY DeliveryAssumption DEF Typed
<1>1. att' \in [Attempt -> AttemptRow]
  <2>1. \A a \in Attempt : att'[a] \in AttemptRow
    BY RecordKept DEF RecordStays
  <2>2. ASSUME NEW c, NEW s, NEW fate \in Fate, Transition(c, s, fate) PROVE att' = [a \in Attempt |-> att'[a]]
    BY <2>2, <1>a DEF Transition, Advanced
  <2>3. ASSUME NEW r \in Run, NEW fate \in Fate,
               Prepare(r, fate) \/ RecordRefusal(r, fate) \/ Mark(r, fate) \/ Record(r, fate) \/ CatchRecord(r, fate)
        PROVE  att' = [a \in Attempt |-> att'[a]]
    BY <2>2, <2>3, <1>a DEF Prepare, RecordRefusal, Mark, Record, CatchRecord
  <2>4. ASSUME NEW a \in Attempt, NEW fate \in Fate, NoticeMark(a, fate) PROVE att' = [b \in Attempt |-> att'[b]]
    BY <2>2, <2>4 DEF NoticeMark
  <2>5. ASSUME NEW fresh \in BOOLEAN, NEW fate \in Fate, RecoveryApply(fresh, fate) PROVE att' = [a \in Attempt |-> att'[a]]
    BY <2>5, <1>a DEF RecoveryApply
  <2>6. att' = [a \in Attempt |-> att'[a]]
    BY <2>3, <2>4, <2>5, <1>a, WhoWrites
  <2> QED
    BY <2>1, <2>6
<1>2. ASSUME NEW r \in Run, NEW fate \in Fate, Prepare(r, fate)
      PROVE  history' \in [Prompt -> Seq(Attempt)] /\ version' \in [Task -> 0 .. MaxVersion]
  <2>1. Fresh \in Attempt /\ (run[r].prompt \in Task => version[run[r].prompt] < MaxVersion)
    BY <1>2, FreshIsNew DEF Prepare
  <2>2. history' = history \/ history' = [history EXCEPT ![run[r].prompt] = Append(@, Fresh)]
    BY <1>2 DEF Prepare
  <2>3. history' \in [Prompt -> Seq(Attempt)]
    <3>1. history \in [Prompt -> Seq(Attempt)]
      BY <1>a
    <3>2. [history EXCEPT ![run[r].prompt] = Append(@, Fresh)] \in [Prompt -> Seq(Attempt)]
      BY <2>1, <3>1, AppendTyped
    <3> QED
      BY <2>2, <3>1, <3>2
  <2>4. version' = version \/ version' = [t \in Task |-> IF t = run[r].prompt THEN version[t] + 1 ELSE version[t]]
    BY <1>2 DEF Prepare
  <2>5. version' \in [Task -> 0 .. MaxVersion]
    BY <2>1, <2>4, <1>a
  <2> QED
    BY <2>3, <2>5
<1>3. ASSUME NEW t \in Task, RequestRetry(t)
      PROVE  retry' \in [Task -> Attempt \cup {Null}] /\ version' \in [Task -> 0 .. MaxVersion]
             /\ asked' \subseteq Attempt /\ asked \subseteq asked'
  <2>1. history[t] \in Seq(Attempt) /\ history[t] # <<>>
    BY <1>3, <1>a DEF RequestRetry, LastState, Prompt
  <2>2. Last(history[t]) \in Attempt
    BY <2>1 DEF Last
  <2> QED
    BY <1>3, <2>2, <1>a DEF RequestRetry
<1> QED
  BY <1>a, <1>1, <1>2, <1>3, WhoWrites

LEMMA PageTyped ==
  ASSUME Typed, RunShape, [Next]_vars
  PROVE  /\ page' \in PageRow /\ notice' \in [Attempt -> {"none", "sent", "marked"}]
         /\ started' \subseteq clicked' /\ clicked' \subseteq Attempt /\ clicked \subseteq clicked'
<1>a. /\ page \in PageRow /\ notice \in [Attempt -> {"none", "sent", "marked"}]
      /\ started \subseteq clicked /\ clicked \subseteq Attempt /\ run \in [Run -> RunRow]
      /\ MaxEpoch \in Nat
  BY LedgerBounds DEF Typed
<1>1. page' \in PageRow
  <2>1. CASE PageReload
    <3>1. page.epoch + 1 \in Epoch
      BY <2>1, <1>a DEF PageReload, Epoch, PageRow
    <3> QED
      BY <2>1, <3>1, <1>a DEF PageReload, PageRow
  <2>2. CASE Reply
    BY <2>2, <1>a DEF Reply, PageRow
  <2>3. ASSUME NEW r \in Run, Send(r) PROVE page' \in PageRow
    <3>1. page' = [page EXCEPT !.inbox = page.inbox \cup {run[r].attempt}] /\ run[r].attempt \in Attempt \cup {Null}
      BY <2>3, <1>a DEF Send, RunRow
    <3>2. run[r].attempt # Null
      BY <2>3 DEF Send, RunShape, HoldsAttempt
    <3> QED
      BY <3>1, <3>2, <1>a DEF PageRow
  <2>4. ASSUME NEW a \in Attempt,
               SendLost(a) \/ PageRefusesSend(a) \/ PageReceives(a) \/ PageFails(a) \/ PageConfirms(a)
               \/ \E fate \in Fate, heard \in BOOLEAN : NoticeSettle(a, fate, heard)
        PROVE  page' \in PageRow
    <3>1. CASE SendLost(a) \/ PageRefusesSend(a)
      BY <3>1, <1>a DEF SendLost, PageRefusesSend, PageRow
    <3>2. CASE PageReceives(a)
      BY <3>2, <1>a DEF PageReceives, PageRow
    <3>3. CASE PageFails(a)
      BY <3>3, <1>a DEF PageFails, PageRow
    <3>4. CASE PageConfirms(a)
      BY <3>4, <1>a DEF PageConfirms, PageRow
    <3>5. ASSUME NEW fate \in Fate, NEW heard \in BOOLEAN, NoticeSettle(a, fate, heard) PROVE page' \in PageRow
      <4>1. \E x \in Attempt \cup {Null} : page' = [page EXCEPT !.pending = x]
        BY <3>5, <1>a DEF NoticeSettle, PageRow
      <4> QED
        BY <4>1, <1>a DEF PageRow
    <3> QED
      BY <2>4, <3>1, <3>2, <3>3, <3>4, <3>5
  <2> QED
    BY <2>1, <2>2, <2>3, <2>4, <1>a, WhoWrites
<1>2. notice' \in [Attempt -> {"none", "sent", "marked"}]
  BY <1>a, WhoWrites DEF Restart, NoticeSent, NoticeMark, NoticeSettle
<1>3. started' \subseteq clicked' /\ clicked' \subseteq Attempt /\ clicked \subseteq clicked'
  <2>1. ASSUME NEW a \in Attempt, PageClicks(a) PROVE clicked' = clicked \cup {a} /\ started' = started
    BY <2>1 DEF PageClicks
  <2>2. ASSUME NEW a \in Attempt, GenerationStarts(a) PROVE clicked' = clicked /\ started' = started \cup {a} /\ a \in clicked
    BY <2>2 DEF GenerationStarts
  <2> QED
    BY <2>1, <2>2, <1>a, WhoWrites
<1> QED
  BY <1>1, <1>2, <1>3

-----------------------------------------------------------------------------
(* What a step does to one operation of the ledger *)

Settles(a, outcome) ==
  \/ \E r \in Run : /\ run[r].attempt = a /\ run[r].pc = "recorded" /\ outcome = Recorded(run[r].answer)
                    /\ outcome # "acknowledged" => run'[r] = NoRun
  \/ \E r \in Run : /\ run[r].attempt = a /\ run[r].pc = "judged" /\ outcome = Caught(r)
                    /\ run'[r] = NoRun
  \/ notice[a] = "marked" /\ outcome = "reply-observed"

OpMove(a) ==
  \/ op'[a] = op[a]
  \/ Unsettled(a) /\ op'[a] = Settled(op[a], "uncertain")
  \/ /\ op[a].state = "none"
     /\ \E r \in Run : /\ run[r].attempt = a /\ run[r].pc = "prepared"
                       /\ op'[a] = [NoOp EXCEPT !.state = "planned", !.slot = S, !.epoch = run[r].epoch]
  \/ /\ op[a].state = "planned"
     /\ \E r \in Run : /\ run[r].attempt = a /\ run[r].pc = "marked"
                       /\ \/ op'[a] = [op[a] EXCEPT !.state = "dispatched"]
                          \/ op'[a] = Settled(op[a], "failed") /\ Kept(r, "caught")
  \/ \E outcome \in Outcome : Settles(a, outcome) /\ Settleable(a, outcome) /\ op'[a] = Settled(op[a], outcome)

LEMMA OpMoves ==
  ASSUME Typed, [Next]_vars, NEW a \in Attempt
  PROVE  OpMove(a)
<1>a. op \in [Attempt -> OpRow] /\ run \in [Run -> RunRow]
  BY DEF Typed, LedgerTypeOK, Attempt
<1>b. ASSUME NEW c, NEW outcome \in Outcome, NEW fate \in Fate, SettledWith(c, outcome, fate), Settles(c, outcome)
      PROVE  OpMove(a)
  <2>1. CASE op' = op
    BY <2>1 DEF OpMove
  <2>2. CASE op' # op
    <3>1. op' = [op EXCEPT ![c] = Settled(op[c], outcome)] /\ Settleable(c, outcome)
      BY <1>b, <2>2 DEF SettledWith, SettleOperation, KernelUnchanged
    <3>2. CASE c = a
      BY <3>1, <3>2, <1>a, <1>b DEF OpMove
    <3>3. CASE c # a
      BY <3>1, <3>3, <1>a DEF OpMove
    <3> QED
      BY <3>2, <3>3
  <2> QED
    BY <2>1, <2>2
<1>1. CASE Reports
  <2>1. op' = OpsAfter(S, page.epoch)
    BY <1>1 DEF Reports
  <2> QED
    BY <2>1 DEF OpsAfter, AllUncertain, OpMove, Attempt
<1>2. ASSUME NEW r \in Run, NEW fate \in Fate, PlanOp(r, fate) PROVE OpMove(a)
  <2>1. CASE op' = op
    BY <2>1 DEF OpMove
  <2>2. CASE op' # op
    <3>1. /\ run[r].pc = "prepared" /\ op[run[r].attempt].state = "none"
          /\ op' = [op EXCEPT ![run[r].attempt] = [NoOp EXCEPT !.state = "planned", !.slot = S, !.epoch = run[r].epoch]]
      BY <1>2, <2>2 DEF PlanOp, PlanOperation, KernelUnchanged
    <3>2. op'[a] = op[a] \/ (a = run[r].attempt
             /\ op'[a] = [NoOp EXCEPT !.state = "planned", !.slot = S, !.epoch = run[r].epoch])
      BY <3>1, <1>a
    <3> QED
      BY <3>1, <3>2 DEF OpMove
  <2> QED
    BY <2>1, <2>2
<1>3. ASSUME NEW r \in Run, NEW fate \in Fate, DispatchOp(r, fate) PROVE OpMove(a)
  <2> DEFINE c == run[r].attempt
  <2>1. CASE op' = op
    BY <2>1 DEF OpMove
  <2>2. CASE op' # op
    <3>1. /\ run[r].pc = "marked" /\ op[c].state = "planned"
          /\ op' = [op EXCEPT ![c] = IF Current(c) THEN [op[c] EXCEPT !.state = "dispatched"] ELSE Settled(op[c], "failed")]
      BY <1>3, <2>2 DEF DispatchOp, DispatchOperation, KernelUnchanged
    <3>2. CASE Current(c)
      <4>1. op'[a] = op[a] \/ (a = c /\ op'[a] = [op[a] EXCEPT !.state = "dispatched"])
        BY <3>1, <3>2, <1>a
      <4> QED
        BY <3>1, <4>1 DEF OpMove
    <3>3. CASE ~Current(c)
      <4>1. op'[a] = op[a] \/ (a = c /\ op'[a] = Settled(op[a], "failed"))
        BY <3>1, <3>3, <1>a
      <4>2. run' = [run EXCEPT ![r].pc = "caught"]
        BY <1>3, <3>1, <3>3 DEF DispatchOp, Goes
      <4>3. Kept(r, "caught")
        BY <4>2, <1>a DEF Kept
      <4> QED
        BY <3>1, <4>1, <4>3 DEF OpMove
    <3> QED
      BY <3>2, <3>3
  <2> QED
    BY <2>1, <2>2
<1>4. ASSUME NEW r \in Run, NEW fate \in Fate, Settle(r, fate) PROVE OpMove(a)
  <2>1. Recorded(run[r].answer) \in Outcome
    BY DEF Recorded, Outcome
  <2>2. /\ run[r].pc = "recorded" /\ SettledWith(run[r].attempt, Recorded(run[r].answer), fate)
        /\ Recorded(run[r].answer) # "acknowledged" => run' = [run EXCEPT ![r] = NoRun]
    BY <1>4 DEF Settle, Ends
  <2>3. Settles(run[r].attempt, Recorded(run[r].answer))
    BY <2>2, <1>a DEF Settles
  <2> QED
    BY <2>1, <2>2, <2>3, <1>b
<1>5. ASSUME NEW r \in Run, NEW fate \in Fate, CatchSettle(r, fate) PROVE OpMove(a)
  <2>1. Caught(r) \in Outcome
    BY DEF Caught, Outcome
  <2>2. /\ run[r].pc = "judged" /\ SettledWith(run[r].attempt, Caught(r), fate)
        /\ run' = [run EXCEPT ![r] = NoRun]
    BY <1>5 DEF CatchSettle, Ends
  <2>3. Settles(run[r].attempt, Caught(r))
    BY <2>2, <1>a DEF Settles
  <2> QED
    BY <2>1, <2>2, <2>3, <1>b
<1>6. ASSUME NEW b \in Attempt, NEW fate \in Fate, NEW heard \in BOOLEAN, NoticeSettle(b, fate, heard) PROVE OpMove(a)
  <2>1. notice[b] = "marked" /\ SettledWith(b, "reply-observed", fate)
    BY <1>6 DEF NoticeSettle
  <2>2. "reply-observed" \in Outcome /\ Settles(b, "reply-observed")
    BY <2>1 DEF Outcome, Settles
  <2> QED
    BY <2>1, <2>2, <1>b
<1>7. CASE op' = op
  BY <1>7 DEF OpMove
<1> QED
  BY <1>1, <1>2, <1>3, <1>4, <1>5, <1>6, <1>7, WhoRuns

LEMMA LedgerRowsTyped ==
  ASSUME Typed, [Next]_vars PROVE LedgerTypeOK'
<1>a. op \in [Attempt -> OpRow] /\ host \in [Slot -> HostRow] /\ run \in [Run -> RunRow] /\ page.epoch \in Epoch
  BY DEF Typed, LedgerTypeOK, Attempt, PageRow
<1>1. ASSUME NEW a \in Attempt PROVE op'[a] \in OpRow
  <2>1. ASSUME NEW outcome \in Outcome, op'[a] = Settled(op[a], outcome) PROVE op'[a] \in OpRow
    BY <2>1, <1>a DEF Settled, OpRow
  <2>2. "uncertain" \in Outcome /\ "failed" \in Outcome
    BY DEF Outcome
  <2>3. ASSUME NEW r \in Run, op'[a] = [NoOp EXCEPT !.state = "planned", !.slot = S, !.epoch = run[r].epoch]
        PROVE  op'[a] \in OpRow
    BY <2>3, <1>a, DeliveryAssumption DEF OpRow, NoOp, RunRow
  <2>4. CASE op'[a] = op[a] \/ op'[a] = [op[a] EXCEPT !.state = "dispatched"]
    BY <2>4, <1>a DEF OpRow
  <2> QED
    BY <2>1, <2>2, <2>3, <2>4, OpMoves DEF OpMove
<1>2. op' = [a \in Attempt |-> op'[a]]
  <2> DEFINE Fun == op' = [a \in Attempt |-> op'[a]]
  <2>1. CASE Reports
    BY <2>1, <1>a DEF Reports, OpsAfter, AllUncertain, Attempt
  <2>2. ASSUME NEW c, NEW row, op' = op \/ op' = [op EXCEPT ![c] = row] PROVE Fun
    BY <2>2, <1>a
  <2>3. ASSUME NEW r \in Run, NEW fate \in Fate, PlanOp(r, fate) \/ DispatchOp(r, fate) PROVE Fun
    BY <2>2, <2>3 DEF PlanOp, PlanOperation, DispatchOp, DispatchOperation, KernelUnchanged
  <2>4. ASSUME NEW c, NEW o, NEW fate, SettledWith(c, o, fate) PROVE Fun
    BY <2>2, <2>4 DEF SettledWith, SettleOperation, KernelUnchanged
  <2>5. ASSUME NEW r \in Run, NEW fate \in Fate, Settle(r, fate) \/ CatchSettle(r, fate) PROVE Fun
    BY <2>4, <2>5 DEF Settle, CatchSettle
  <2>6. ASSUME NEW b \in Attempt, NEW fate \in Fate, NEW heard \in BOOLEAN, NoticeSettle(b, fate, heard) PROVE Fun
    BY <2>4, <2>6 DEF NoticeSettle
  <2>7. CASE op' = op
    BY <2>2, <2>7
  <2> QED
    BY <2>1, <2>3, <2>5, <2>6, <2>7, WhoRuns
<1>3. host' \in [Slot -> HostRow]
  <2>1. CASE Reports
    <3>1. QuarantinedAfter(S, page.epoch) \in BOOLEAN
      BY <1>a, DeliveryAssumption DEF QuarantinedAfter, HostRow
    <3>2. host' = [host EXCEPT ![S] = [host[S] EXCEPT !.epoch = page.epoch, !.quarantined = QuarantinedAfter(S, page.epoch)]]
      BY <2>1 DEF Reports
    <3>3. host[S] \in HostRow /\ S \in Slot
      BY <1>a, DeliveryAssumption
    <3>4. page.epoch \in Epoch \cup {Null}
      BY <1>a
    <3>5. [host[S] EXCEPT !.epoch = page.epoch, !.quarantined = QuarantinedAfter(S, page.epoch)] \in HostRow
      BY <3>1, <3>3, <3>4, ReportedHostTyped
    <3> QED
      BY <3>2, <3>3, <3>5, <1>a
  <2>2. CASE ~Reports
    <3>1. ASSUME NEW c, NEW o, NEW fate, SettledWith(c, o, fate) PROVE host' = host
      BY <3>1 DEF SettledWith, SettleOperation, KernelUnchanged
    <3>2. host' = host
      BY <2>2, <3>1, WhoRuns DEF PlanOp, PlanOperation, DispatchOp, DispatchOperation, KernelUnchanged, Settle,
         CatchSettle, NoticeSettle
    <3> QED
      BY <3>2, <1>a
  <2> QED
    BY <2>1, <2>2
<1> QED
  BY <1>1, <1>2, <1>3 DEF LedgerTypeOK, Attempt

LEMMA RecoveryTyped ==
  ASSUME Typed, [Next]_vars PROVE recovery' \in RecoveryRow
<1>a. recovery \in RecoveryRow /\ page \in PageRow /\ att \in [Attempt -> AttemptRow]
  BY DEF Typed
<1>b. NoRecovery \in RecoveryRow
  BY DEF NoRecovery, RecoveryRow
<1>1. CASE Restart \/ \E fresh \in BOOLEAN, fate \in Fate : RecoveryApply(fresh, fate)
  BY <1>1, <1>b DEF Restart, RecoveryApply, RecoveryRow
<1>2. CASE RecoveryRead
  <2>1. [a \in Attempt |-> IF Candidate(a) THEN att[a].state ELSE "none"] \in [Attempt -> AttemptState \cup {"none"}]
    BY <1>a DEF AttemptRow
  <2> QED
    BY <1>2, <2>1, <1>a DEF RecoveryRead, RecoveryRow
<1>3. ASSUME NEW heard \in BOOLEAN, RecoveryProbe(heard) PROVE recovery' \in RecoveryRow
  BY <1>3, <1>a DEF RecoveryProbe, RecoveryRow, PageRow
<1> QED
  BY <1>1, <1>2, <1>3, <1>a, WhoWrites

LEMMA TypedStep ==
  ASSUME Typed, RunShape, [Next]_vars PROVE Typed'
BY LedgerRowsTyped, RecordsTyped, RunTyped, RecoveryTyped, PageTyped DEF Typed

-----------------------------------------------------------------------------
(* Runs *)

\* What a run knows of itself
RowShape(row) ==
  /\ row.pc # "idle" => row.prompt \in Prompt
  /\ row.pc = "idle" => row = NoRun
  /\ row.attempt # Null <=> row.pc \in HoldsAttempt
  /\ row.pc \in Wrote => row.written
  /\ row.written => row.pc \in MayHaveWritten

NewlyHeld(q) ==
  /\ Prepare(q, "done") /\ MayPrepare(run[q].prompt) /\ run[q].pc \in {"observed", "refusing"}
  /\ run'[q].attempt = Fresh /\ run'[q].prompt = run[q].prompt
  /\ run'[q].pc \in {"refused", "prepared"} /\ ~run'[q].written

StillHeld(q) == run'[q].attempt = run[q].attempt /\ run'[q].prompt = run[q].prompt

\* A run that moves keeps what it should know, its prompt and its attempt, and holds an attempt
\* only once it prepared one.
LEMMA RunKeeps ==
  ASSUME Typed, RunShape, [Next]_vars, NEW q \in Run
  PROVE  RowShape(run'[q]) /\ (run'[q].attempt # Null => StillHeld(q) \/ NewlyHeld(q))
<1>a. run[q] \in RunRow /\ RowShape(run[q])
  BY DEF Typed, RunShape, RowShape
<1> USE DEF HoldsAttempt, Wrote, MayHaveWritten, StillHeld
<1>k. ASSUME NEW pc, Kept(q, pc) PROVE /\ run'[q].pc = pc /\ run'[q].prompt = run[q].prompt /\ run'[q].attempt = run[q].attempt
                                       /\ run'[q].written = run[q].written /\ run'[q].answer = run[q].answer
  BY <1>a, <1>k DEF Kept, RunRow
<1>n. RowShape(NoRun) /\ NoRun.attempt = Null
  BY DEF RowShape, NoRun
<1>1. CASE run'[q] = run[q]
  BY <1>1, <1>a
<1>2. CASE run'[q] = NoRun
  BY <1>2, <1>n
<1>3. ASSUME NEW p \in Prompt,
             run'[q] = [NoRun EXCEPT !.pc = "planned", !.prompt = p, !.version = IF p \in Task THEN version[p] ELSE 0]
      PROVE  RowShape(run'[q]) /\ run'[q].attempt = Null
  BY <1>3 DEF RowShape, NoRun
<1>4. ASSUME run[q].pc = "queued", NEW pc \in {"observed", "refusing"},
             run'[q] = [run[q] EXCEPT !.pc = pc, !.epoch = page.epoch]
      PROVE  RowShape(run'[q]) /\ run'[q].attempt = Null
  BY <1>4, <1>a DEF RowShape, RunRow
<1>5. ASSUME run[q].pc \in {"observed", "refusing"}, Prepare(q, "done"), MayPrepare(run[q].prompt),
             run'[q] = [run[q] EXCEPT !.attempt = Fresh, !.pc = IF run[q].pc = "refusing" THEN "refused" ELSE "prepared"]
      PROVE  RowShape(run'[q]) /\ NewlyHeld(q)
  <2>1. Fresh \in Attempt /\ Fresh # Null
    BY <1>5, FreshIsNew, LedgerNull DEF Prepare, Attempt
  <2>2. /\ run'[q].pc \in {"refused", "prepared"} /\ run'[q].attempt = Fresh /\ run'[q].prompt = run[q].prompt
        /\ run'[q].written = run[q].written /\ run'[q].answer = run[q].answer
    BY <1>5, <1>a DEF RunRow
  <2> QED
    BY <1>5, <1>a, <2>1, <2>2 DEF RowShape, NewlyHeld
<1>6. CASE run[q].pc = "planned" /\ Kept(q, "queued")
  BY <1>6, <1>a, <1>k DEF RowShape
<1>7. CASE \/ run[q].pc = "refused" /\ Kept(q, "caught")
           \/ run[q].pc = "prepared" /\ (Kept(q, "planned-op") \/ Kept(q, "caught"))
           \/ run[q].pc = "planned-op" /\ (Kept(q, "marked") \/ Kept(q, "caught"))
           \/ run[q].pc = "marked" /\ (Kept(q, "dispatched-op") \/ Kept(q, "caught"))
  BY <1>7, <1>a, <1>k DEF RowShape
<1>8. CASE \/ run[q].pc = "answered" /\ (Kept(q, "recorded") \/ Kept(q, "caught"))
           \/ run[q].pc = "recorded" /\ Kept(q, "caught")
           \/ run[q].pc = "caught" /\ Kept(q, "judged")
  BY <1>8, <1>a, <1>k DEF RowShape
<1>9. CASE run[q].pc = "dispatched-op" /\ run'[q] = [run[q] EXCEPT !.pc = "sent", !.written = TRUE]
  BY <1>9, <1>a DEF RowShape, RunRow
<1>10. ASSUME run[q].pc = "sent", NEW answer \in Answer, run'[q] = [run[q] EXCEPT !.pc = "answered", !.answer = answer]
       PROVE  RowShape(run'[q]) /\ run'[q].attempt = run[q].attempt /\ run'[q].prompt = run[q].prompt
  BY <1>10, <1>a DEF RowShape, RunRow
<1> QED
  BY <1>1, <1>2, <1>3, <1>4, <1>5, <1>6, <1>7, <1>8, <1>9, <1>10, RunMoves DEF RunMove

\* The ways of a run that holds an attempt
HeldMove(q) ==
  \/ run'[q] = run[q]
  \/ /\ run'[q].written = run[q].written /\ run'[q].answer = run[q].answer
     /\ \/ run[q].pc \in HoldsAttempt \ {"dispatched-op", "sent", "caught", "judged"} /\ run'[q].pc = "caught"
        \/ run[q].pc = "prepared" /\ run'[q].pc = "planned-op"
        \/ run[q].pc = "planned-op" /\ run'[q].pc = "marked" /\ Mark(q, "done")
        \/ run[q].pc = "marked" /\ run'[q].pc = "dispatched-op"
        \/ run[q].pc = "answered" /\ run'[q].pc = "recorded"
        \/ run[q].pc = "caught" /\ run'[q].pc = "judged"
  \/ run[q].pc = "dispatched-op" /\ run'[q].pc = "sent" /\ run'[q].written /\ Send(q)
  \/ /\ run[q].pc = "sent" /\ run'[q].pc = "answered" /\ run'[q].written = run[q].written
     /\ Answered(run[q].attempt, run'[q].answer)

LEMMA HeldMoves ==
  ASSUME Typed, RunShape, [Next]_vars, NEW q \in Run, run'[q].attempt # Null
  PROVE  NewlyHeld(q) \/ (StillHeld(q) /\ HeldMove(q))
<1>a. run[q] \in RunRow /\ RowShape(run[q])
  BY DEF Typed, RunShape, RowShape
<1>b. CASE ~NewlyHeld(q)
  <2>a. StillHeld(q) /\ run[q].attempt # Null /\ run[q].pc \in HoldsAttempt
    BY <1>a, <1>b, RunKeeps DEF StillHeld, RowShape
  <2>b. run[q].pc \notin {"idle", "planned", "queued", "observed", "refusing"} /\ run'[q] # NoRun
    BY <2>a DEF HoldsAttempt, StillHeld, NoRun
  <2>k. ASSUME NEW pc, Kept(q, pc) PROVE run'[q].pc = pc /\ run'[q].written = run[q].written /\ run'[q].answer = run[q].answer
    BY <1>a, <2>k DEF Kept, RunRow
  <2>1. ASSUME run[q].pc = "dispatched-op", Send(q), run'[q] = [run[q] EXCEPT !.pc = "sent", !.written = TRUE]
        PROVE  HeldMove(q)
    BY <2>1, <1>a DEF HeldMove, RunRow
  <2>2. ASSUME run[q].pc = "sent", NEW answer \in Answer, Answered(run[q].attempt, answer),
               run'[q] = [run[q] EXCEPT !.pc = "answered", !.answer = answer]
        PROVE  HeldMove(q)
    BY <2>2, <1>a DEF HeldMove, RunRow
  <2>3. ASSUME \/ run[q].pc = "refused" /\ Kept(q, "caught")
               \/ run[q].pc = "prepared" /\ (Kept(q, "planned-op") \/ Kept(q, "caught"))
               \/ run[q].pc = "planned-op" /\ ((Mark(q, "done") /\ Kept(q, "marked")) \/ Kept(q, "caught"))
               \/ run[q].pc = "marked" /\ (Kept(q, "dispatched-op") \/ Kept(q, "caught"))
               \/ run[q].pc = "answered" /\ (Kept(q, "recorded") \/ Kept(q, "caught"))
               \/ run[q].pc = "recorded" /\ Kept(q, "caught")
               \/ run[q].pc = "caught" /\ Kept(q, "judged")
        PROVE  HeldMove(q)
    BY <2>3, <2>k, <2>a DEF HeldMove
  <2>4. ASSUME run'[q] = run[q] PROVE HeldMove(q)
    BY <2>4 DEF HeldMove
  <2> QED
    BY <2>a, <2>b, <2>1, <2>2, <2>3, <2>4, RunMoves DEF RunMove
<1> QED
  BY <1>b

\* Only an observed tab lets a run into its lane, and only an empty one.
LEMMA EntersLane ==
  ASSUME Typed, [Next]_vars, NEW q \in Run, run'[q].pc \in Step
  PROVE  run[q].pc \in Step \/ (LaneFree /\ \E pc \in {"observed", "refusing"} : Observe(q, pc))
<1>a. run[q] \in RunRow
  BY DEF Typed
<1>k. ASSUME NEW pc, Kept(q, pc) PROVE run'[q].pc = pc
  BY <1>a, <1>k DEF Kept, RunRow
<1>1. ASSUME NEW p \in Prompt,
             run'[q] = [NoRun EXCEPT !.pc = "planned", !.prompt = p, !.version = IF p \in Task THEN version[p] ELSE 0]
      PROVE  run'[q].pc = "planned"
  BY <1>1 DEF NoRun
<1>2. NoRun.pc = "idle"
  BY DEF NoRun
<1>3. {"idle", "planned", "queued"} \cap Step = {}
  BY DEF Step
<1>4. CASE run[q].pc \in {"observed", "refusing", "refused", "prepared", "planned-op", "marked", "dispatched-op",
                          "sent", "answered", "recorded", "caught"}
  BY <1>4 DEF Step
<1>5. CASE run'[q] = run[q]
  BY <1>5
<1> QED
  BY <1>k, <1>1, <1>2, <1>3, <1>4, <1>5, RunMoves DEF RunMove

LEMMA OneInLane ==
  ASSUME Typed, RunShape, [Next]_vars, NEW r \in Run, NEW q \in Run, run'[r].pc \in Step, run'[q].pc \in Step
  PROVE  r = q
<1>a. run \in [Run -> RunRow]
  BY DEF Typed
<1>1. CASE run[r].pc \in Step /\ run[q].pc \in Step
  BY <1>1 DEF RunShape
<1>2. ASSUME NEW x \in Run, NEW y \in Run, x # y, LaneFree, NEW pc \in {"observed", "refusing"}, Observe(x, pc)
      PROVE  run'[y].pc \notin Step
  <2>1. run'[y] = run[y]
    BY <1>2, <1>a DEF Observe
  <2> QED
    BY <1>2, <2>1 DEF LaneFree
<1> QED
  BY <1>1, <1>2, EntersLane

LEMMA RunShapeStep ==
  ASSUME Typed, RunShape, Records, [Next]_vars PROVE RunShape'
<1>1. ASSUME NEW r \in Run, run'[r].attempt # Null PROVE att'[run'[r].attempt].prompt = run'[r].prompt
  <2>1. CASE StillHeld(r)
    <3>1. /\ run[r].attempt \in Attempt /\ att[run[r].attempt].prompt = run[r].prompt /\ run[r].prompt \in Prompt
          /\ Null \notin Prompt
      BY <1>1, <2>1, DeliveryAssumption DEF Typed, RunShape, RunRow, StillHeld, HoldsAttempt, Prompt
    <3>2. att[run[r].attempt].state # "none"
      BY <3>1 DEF Records
    <3> QED
      BY <2>1, <3>1, <3>2, RecordKept DEF RecordStays, StillHeld
  <2>2. CASE NewlyHeld(r)
    <3>1. Fresh \in Attempt /\ att' = [att EXCEPT ![Fresh] = [state |-> "prepared", prompt |-> run[r].prompt, epoch |-> run[r].epoch]]
      BY <2>2, FreshIsNew DEF NewlyHeld, Prepare
    <3> QED
      BY <2>2, <3>1 DEF NewlyHeld, Typed
  <2> QED
    BY <1>1, <2>1, <2>2, RunKeeps
<1>2. ASSUME NEW r \in Run PROVE RowShape(run'[r])
  BY RunKeeps
<1>3. \A r, q \in Run : run'[r].pc \in Step /\ run'[q].pc \in Step => r = q
  BY OneInLane
<1> QED
  BY <1>1, <1>2, <1>3 DEF RunShape, RowShape

-----------------------------------------------------------------------------
(* What the page comes to know of *)

Sent(a) == \E r \in Run : run[r].attempt = a /\ run[r].pc = "dispatched-op" /\ Send(r)

\* Nothing of an attempt is on the page that was not there or was sent to it now.
LEMMA PageMoves ==
  ASSUME Typed, [Next]_vars, NEW a \in Attempt
  PROVE  /\ a \in page'.inbox => a \in page.inbox \/ Sent(a)
         /\ a \in page'.sending => a \in page.sending \/ (a \in page.inbox /\ a \notin page'.inbox)
         /\ a \in clicked' => a \in clicked \/ (a \in page.sending /\ page' = page)
         /\ page'.pending = a => page.pending = a \/ a \in page.inbox
         /\ notice'[a] # "none" => notice[a] # "none" \/ page.pending = a
         /\ notice'[a] = "marked" => notice[a] = "marked" \/ att'[a].state = "reply-observed"
         /\ a \in page'.delivered => a \in page.delivered \/ a \in clicked
<1>a. page \in PageRow /\ notice \in [Attempt -> {"none", "sent", "marked"}] /\ att \in [Attempt -> AttemptRow]
  BY DEF Typed
<1> DEFINE PageGoal == /\ a \in page'.inbox => a \in page.inbox \/ Sent(a)
                       /\ a \in page'.sending => a \in page.sending \/ (a \in page.inbox /\ a \notin page'.inbox)
                       /\ page'.pending = a => page.pending = a \/ a \in page.inbox
                       /\ a \in page'.delivered => a \in page.delivered \/ a \in clicked
<1>r. ASSUME PageReload PROVE PageGoal
  <2>1. a # Null
    BY LedgerNull DEF Attempt
  <2>2. page' = [page EXCEPT !.epoch = page.epoch + 1, !.pending = Null, !.baseline = 0, !.sending = {}]
    BY <1>r DEF PageReload
  <2>3. /\ page'.inbox = page.inbox /\ page'.sending = {} /\ page'.pending = Null
        /\ page'.delivered = page.delivered
    BY <2>2, <1>a DEF PageRow
  <2> QED
    BY <2>1, <2>3
<1>1. ASSUME Reply PROVE PageGoal
  BY <1>1, <1>a DEF Reply, PageRow
<1>2. ASSUME NEW r \in Run, Send(r) PROVE PageGoal
  BY <1>2, <1>a DEF Send, Sent, PageRow
<1>3. ASSUME NEW b \in Attempt, SendLost(b) \/ PageRefusesSend(b) PROVE PageGoal
  BY <1>3, <1>a DEF SendLost, PageRefusesSend, PageRow
<1>4. ASSUME NEW b \in Attempt, PageReceives(b) PROVE PageGoal
  BY <1>4, <1>a DEF PageReceives, PageRow
<1>5. ASSUME NEW b \in Attempt, PageFails(b) PROVE PageGoal
  BY <1>5, <1>a, LedgerNull DEF PageFails, PageRow, Attempt
<1>6. ASSUME NEW b \in Attempt, PageConfirms(b) PROVE PageGoal
  BY <1>6, <1>a DEF PageConfirms, PageRow
<1>7. ASSUME NEW b \in Attempt, NEW fate \in Fate, NEW heard \in BOOLEAN, NoticeSettle(b, fate, heard) PROVE PageGoal
  BY <1>7, <1>a, LedgerNull DEF NoticeSettle, PageRow, Attempt
<1>8. PageGoal
  BY <1>r, <1>1, <1>2, <1>3, <1>4, <1>5, <1>6, <1>7, WhoWrites
<1>9. a \in clicked' => a \in clicked \/ (a \in page.sending /\ page' = page)
  BY WhoWrites DEF PageClicks
<1>10. ASSUME NEW b \in Attempt, NEW fate \in Fate, NoticeMark(b, fate)
       PROVE  /\ notice'[a] # "none" => notice[a] # "none"
              /\ notice'[a] = "marked" => notice[a] = "marked" \/ att'[a].state = "reply-observed"
  <2>1. CASE a # b
    BY <1>10, <2>1, <1>a DEF NoticeMark
  <2>2. CASE a = b
    <3>1. notice[a] = "sent"
      BY <1>10, <2>2 DEF NoticeMark
    <3>2. CASE fate = "done" /\ Advanced(a, "reply-observed")[a].state = "reply-observed"
      BY <1>10, <2>2, <3>1, <3>2 DEF NoticeMark, Transition
    <3>3. CASE ~(fate = "done" /\ Advanced(a, "reply-observed")[a].state = "reply-observed")
      BY <1>10, <2>2, <3>3, <1>a DEF NoticeMark
    <3> QED
      BY <3>1, <3>2, <3>3
  <2> QED
    BY <2>1, <2>2
<1>11. ASSUME NEW b \in Attempt, NoticeSent(b) PROVE notice'[a] # "none" => notice[a] # "none" \/ page.pending = a
  BY <1>11, <1>a DEF NoticeSent
<1>12. ASSUME NEW b \in Attempt, NoticeSent(b) PROVE notice'[a] = "marked" => notice[a] = "marked"
  BY <1>12, <1>a DEF NoticeSent
<1>13. ASSUME NEW b \in Attempt, NEW fate \in Fate, NEW heard \in BOOLEAN, NoticeSettle(b, fate, heard)
       PROVE  notice'[a] \in {notice[a], "none"}
  BY <1>13, <1>a DEF NoticeSettle
<1>15. /\ notice'[a] # "none" => notice[a] # "none" \/ page.pending = a
       /\ notice'[a] = "marked" => notice[a] = "marked" \/ att'[a].state = "reply-observed"
  BY <1>10, <1>11, <1>12, <1>13, <1>a, WhoWrites DEF Restart
<1> QED
  BY <1>8, <1>9, <1>15

-----------------------------------------------------------------------------
(* Records and truth *)

\* The attempt a run holds has a record, and no other run in the lane holds it.
LEMMA Holding ==
  ASSUME Typed, RunShape, Records, NEW r \in Run, run[r].attempt # Null
  PROVE  /\ run[r].attempt \in Attempt /\ run[r].pc \in HoldsAttempt /\ run[r].pc \in Step
         /\ att[run[r].attempt].state # "none" /\ att[run[r].attempt].prompt = run[r].prompt
         /\ run[r].prompt \in Prompt
         /\ \A q \in Run : run[q].attempt = run[r].attempt => q = r
<1>1. run[r].attempt \in Attempt /\ run[r].pc \in HoldsAttempt /\ run[r].prompt \in Prompt
  BY DEF Typed, RunShape, RunRow, HoldsAttempt
<1>2. HoldsAttempt \subseteq Step
  BY DEF HoldsAttempt, Step
<1>3. att[run[r].attempt].prompt = run[r].prompt /\ Null \notin Prompt
  BY DeliveryAssumption DEF RunShape, Prompt
<1>4. att[run[r].attempt].state # "none"
  BY <1>1, <1>3 DEF Records
<1>5. ASSUME NEW q \in Run, run[q].attempt = run[r].attempt PROVE q = r
  BY <1>1, <1>2, <1>5 DEF RunShape
<1> QED
  BY <1>1, <1>2, <1>3, <1>4, <1>5

LEMMA RecordsStep ==
  ASSUME Typed, RunShape, Records, [Next]_vars PROVE Records'
<1>1. ASSUME NEW a \in Attempt PROVE att'[a].state = "none" <=> att'[a].prompt = Null
  <2>a. att[a] \in AttemptRow /\ (att[a].state = "none" <=> att[a].prompt = Null)
    BY DEF Typed, Records
  <2>1. CASE att[a].state # "none"
    BY <2>1, <2>a, RecordKept DEF RecordStays
  <2>2. CASE att[a].state = "none"
    <3>1. ASSUME NEW r \in Run, Prepares(r, a) PROVE att'[a].state # "none" /\ att'[a].prompt # Null
      <4>1. run[r].prompt # Null
        BY <3>1, DeliveryAssumption DEF Prepares, RunShape, Prompt
      <4>2. att'[a] = [state |-> "prepared", prompt |-> run[r].prompt, epoch |-> run[r].epoch]
        BY <3>1 DEF Prepares
      <4> QED
        BY <4>1, <4>2
    <3>2. ASSUME NEW s \in AttemptState PROVE ~Advances(a, s)
      BY <2>2 DEF Advances, Allowed, AttemptState
    <3>3. ASSUME Recovers(a) PROVE att'[a] = att[a]
      <4>1. \A fresh \in BOOLEAN : RecoveredState(a, fresh) = att[a].state
        BY <2>2 DEF RecoveredState, Candidate, InFlightState
      <4> QED
        BY <3>3, <4>1, <2>a DEF Recovers, AttemptRow
    <3> QED
      BY <2>2, <2>a, <3>1, <3>2, <3>3, AttMoves DEF AttMove
  <2> QED
    BY <2>1, <2>2
<1>2. ASSUME NEW a \in Attempt, att'[a].state = "none"
      PROVE  op'[a].state = "none" /\ ~Touched(a)'
  <2>1. att[a].state = "none" /\ op[a].state = "none" /\ ~Touched(a)
    BY <1>2, RecordKept DEF RecordStays, Records
  <2>2. \A r \in Run : run[r].attempt # a
    BY <2>1, Holding, LedgerNull DEF Attempt
  <2>3. op'[a] = op[a]
    BY <2>1, <2>2, OpMoves DEF OpMove, Unsettled, Settleable
  <2>4. ~Touched(a)'
    BY <2>1, <2>2, PageMoves DEF Touched, OnPage, Sent
  <2> QED
    BY <2>1, <2>3, <2>4
<1> QED
  BY <1>1, <1>2 DEF Records

\* Whatever reaches the page of an attempt, the run that holds it sent.
LEMMA TouchedMoves ==
  ASSUME Typed, [Next]_vars, NEW a \in Attempt
  PROVE  /\ Touched(a)' => Touched(a) \/ Sent(a)
         /\ a \in OnPage' => a \in OnPage \/ Sent(a)
BY PageMoves DEF Touched, OnPage

LEMMA PageTruthful ==
  ASSUME Typed, RunShape, Records, Truthful, [Next]_vars
  PROVE  /\ page'.inbox \cap (page'.sending \cup clicked') = {}
         /\ page'.delivered \subseteq clicked' /\ recovery'.delivered \subseteq clicked'
<1>a. page' \in PageRow /\ clicked \subseteq clicked' /\ recovery' \in RecoveryRow /\ clicked' \subseteq Attempt
  BY PageTyped, RecoveryTyped
<1>1. ASSUME NEW a \in Attempt, a \in page'.inbox, a \in page'.sending \cup clicked' PROVE FALSE
  <2>1. CASE a \in page.inbox
    BY <1>1, <2>1, PageMoves DEF Truthful
  <2>2. CASE Sent(a)
    <3>1. a \notin page.sending \cup clicked
      BY <2>2, LedgerNull DEF Sent, Truthful, Touched, OnPage, RunShape, MayHaveWritten, Wrote, Attempt
    <3> QED
      BY <1>1, <2>1, <3>1, PageMoves
  <2> QED
    BY <1>1, <2>1, <2>2, PageMoves
<1>2. page'.delivered \subseteq clicked'
  BY <1>a, PageMoves DEF Truthful, PageRow
<1>3. recovery'.delivered \subseteq clicked'
  <2>1. recovery'.delivered \in {recovery.delivered, page.delivered, {}}
    <3>0. recovery \in RecoveryRow
      BY DEF Typed
    <3>1. CASE Restart \/ \E fresh \in BOOLEAN, fate \in Fate : RecoveryApply(fresh, fate)
      BY <3>1 DEF Restart, RecoveryApply, NoRecovery
    <3>2. CASE RecoveryRead
      BY <3>0, <3>2 DEF RecoveryRead, RecoveryRow
    <3>3. ASSUME NEW heard \in BOOLEAN, RecoveryProbe(heard) PROVE recovery'.delivered \in {recovery.delivered, page.delivered}
      BY <3>0, <3>3 DEF RecoveryProbe, RecoveryRow
    <3> QED
      BY <3>1, <3>2, <3>3, WhoWrites
  <2> QED
    BY <2>1, <1>a DEF Truthful
<1> QED
  BY <1>a, <1>1, <1>2, <1>3 DEF PageRow

LEMMA RunTruthful ==
  ASSUME Typed, RunShape, Records, Truthful, [Next]_vars, NEW r \in Run, NEW a \in Attempt, run'[r].attempt = a
  PROVE  /\ ~run'[r].written => ~Touched(a)'
         /\ run'[r].pc \in {"answered", "recorded"} =>
              /\ run'[r].answer = "ok" => a \in clicked'
              /\ run'[r].answer = "proved-not-started" => a \notin OnPage'
<1>n. a # Null
  BY LedgerNull DEF Attempt
<1>a. run[r] \in RunRow /\ clicked \subseteq clicked'
  BY PageTyped DEF Typed
<1>1. CASE NewlyHeld(r)
  <2>1. att[a].state = "none" /\ ~run'[r].written /\ run'[r].pc \notin {"answered", "recorded"}
    BY <1>1, FreshIsNew DEF NewlyHeld, Prepare
  <2>2. \A q \in Run : run[q].attempt # a
    BY <2>1, Holding, LedgerNull DEF Attempt
  <2>3. ~Touched(a)
    BY <2>1 DEF Records
  <2>4. ~Touched(a)'
    BY <2>2, <2>3, TouchedMoves DEF Sent
  <2> QED
    BY <2>1, <2>4
<1>2. ASSUME StillHeld(r), HeldMove(r)
      PROVE  /\ ~run'[r].written => ~Touched(a)'
             /\ run'[r].pc \in {"answered", "recorded"} =>
                  /\ run'[r].answer = "ok" => a \in clicked'
                  /\ run'[r].answer = "proved-not-started" => a \notin OnPage'
  <2>1. a = run[r].attempt /\ run[r].attempt # Null /\ \A q \in Run : run[q].attempt = a => q = r
    BY <1>2, <1>n, Holding DEF StillHeld
  <2>2. ASSUME Sent(a) PROVE /\ run[r].pc = "dispatched-op" /\ run'[r].written /\ run'[r].pc = "sent"
    BY <2>1, <2>2, <1>a DEF Sent, Send, Typed, RunRow
  <2>3. ASSUME ~run'[r].written PROVE ~Touched(a)'
    <3>1. ~run[r].written
      BY <2>3, <1>2 DEF HeldMove
    <3>2. ~Touched(a)
      BY <2>1, <3>1 DEF Truthful
    <3> QED
      BY <2>1, <2>2, <2>3, <3>2, TouchedMoves
  <2>4. ASSUME run'[r].pc \in {"answered", "recorded"}
        PROVE  /\ run'[r].answer = "ok" => a \in clicked'
               /\ run'[r].answer = "proved-not-started" => a \notin OnPage'
    <3>1. CASE run[r].pc = "sent"
      <4>1. Answered(a, run'[r].answer)
        BY <2>1, <2>4, <3>1, <1>2 DEF HeldMove, HoldsAttempt
      <4>2. PageConfirms(a) => a \in clicked
        BY DEF PageConfirms
      <4>3. ASSUME PageFails(a), a \notin clicked PROVE a \notin OnPage'
        <5>1. /\ a \in page.sending /\ page'.inbox = page.inbox /\ page'.sending = page.sending \ {a}
              /\ clicked' = clicked
          BY <4>3 DEF PageFails, serviceVars, Typed, PageRow
        <5> QED
          BY <4>3, <5>1 DEF OnPage, Truthful
      <4> QED
        BY <4>1, <4>2, <4>3, <1>a DEF Answered
    <3>2. CASE run[r].pc \in {"answered", "recorded"}
      <4>1. run'[r].answer = run[r].answer
        BY <2>4, <3>2, <1>2 DEF HeldMove
      <4>2. /\ run[r].answer = "ok" => a \in clicked
            /\ run[r].answer = "proved-not-started" => a \notin OnPage
        BY <3>2, <2>1 DEF Truthful
      <4>3. ~Sent(a)
        BY <2>2, <3>2
      <4> QED
        BY <4>1, <4>2, <4>3, <2>1, <1>a, TouchedMoves
    <3>3. run[r].pc \in {"sent", "answered", "recorded"}
      BY <2>4, <1>2 DEF HeldMove
    <3> QED
      BY <3>1, <3>2, <3>3
  <2> QED
    BY <2>3, <2>4
<1> QED
  BY <1>1, <1>2, <1>n, HeldMoves

LEMMA RecordTruthful ==
  ASSUME Typed, RunShape, Records, Truthful, [Next]_vars, NEW a \in Attempt
  PROVE  /\ att'[a].state = "acknowledged" => a \in clicked'
         /\ notice'[a] = "marked" => att'[a].state = "reply-observed"
<1>a. att[a] \in AttemptRow /\ clicked \subseteq clicked'
  BY PageTyped DEF Typed
<1>n. a # Null
  BY LedgerNull DEF Attempt
<1>1. ASSUME att'[a].state = "acknowledged" PROVE a \in clicked
  <2>1. CASE att'[a] = att[a]
    BY <1>1, <2>1 DEF Truthful
  <2>2. ASSUME NEW r \in Run PROVE ~Prepares(r, a)
    BY <1>1 DEF Prepares
  <2>3. ASSUME NEW s \in AttemptState, Advances(a, s) PROVE a \in clicked
    <3>1. s = "acknowledged" /\ Judges(a, s)
      BY <1>1, <1>a, <2>3 DEF Advances, AttemptRow
    <3>2. PICK r \in Run : run[r].attempt = a /\ run[r].pc = "answered" /\ Recorded(run[r].answer) = "acknowledged"
      BY <3>1 DEF Judges, Caught
    <3>3. run[r].answer = "ok"
      BY <3>2 DEF Recorded
    <3> QED
      BY <3>2, <3>3, <1>n DEF Truthful
  <2>4. ASSUME Recovers(a) PROVE a \in clicked
    <3>1. PICK fresh \in BOOLEAN : att'[a] = [att[a] EXCEPT !.state = RecoveredState(a, fresh)]
      BY <2>4 DEF Recovers
    <3>2. RecoveredState(a, fresh) = "acknowledged"
      BY <3>1, <1>1, <1>a DEF AttemptRow
    <3>3. att[a].state = "acknowledged" \/ a \in recovery.delivered
      BY <3>2 DEF RecoveredState
    <3> QED
      BY <3>3 DEF Truthful
  <2> QED
    BY <2>1, <2>2, <2>3, <2>4, AttMoves DEF AttMove
<1>2. ASSUME notice'[a] = "marked" PROVE att'[a].state = "reply-observed"
  BY <1>2, PageMoves, RecordKept DEF Truthful, RecordStays
<1> QED
  BY <1>1, <1>2, <1>a

\* An outcome the ledger settles now is true, of the page and of what the run will still do.
SettlesSo(a, outcome) ==
  /\ outcome = "acknowledged" => a \in clicked
  /\ outcome = "reply-observed" => att[a].state = "reply-observed"
  /\ outcome = "failed" => /\ a \notin OnPage
                           /\ \E r \in Run : run[r].attempt = a /\ run[r].pc # "dispatched-op" /\ run'[r] = NoRun

LEMMA SettlesTruly ==
  ASSUME Typed, RunShape, Records, Truthful, NEW a \in Attempt, NEW outcome \in Outcome, Settles(a, outcome)
  PROVE  SettlesSo(a, outcome)
<1>n. a # Null
  BY LedgerNull DEF Attempt
<1>1. ASSUME NEW r \in Run, run[r].attempt = a, run[r].pc = "recorded", outcome = Recorded(run[r].answer),
             outcome # "acknowledged" => run'[r] = NoRun
      PROVE  SettlesSo(a, outcome)
  <2>1. /\ outcome = "acknowledged" => run[r].answer = "ok"
        /\ outcome = "failed" => run[r].answer = "proved-not-started"
        /\ outcome # "reply-observed"
    BY <1>1 DEF Recorded
  <2>2. /\ run[r].answer = "ok" => a \in clicked
        /\ run[r].answer = "proved-not-started" => a \notin OnPage
    BY <1>1, <1>n DEF Truthful
  <2> QED
    BY <1>1, <2>1, <2>2 DEF SettlesSo
<1>2. ASSUME NEW r \in Run, run[r].attempt = a, run[r].pc = "judged", outcome = Caught(r), run'[r] = NoRun
      PROVE  SettlesSo(a, outcome)
  <2>1. outcome = "failed" => ~run[r].written
    BY <1>2 DEF Caught
  <2>2. outcome \notin {"acknowledged", "reply-observed"}
    BY <1>2 DEF Caught
  <2>3. ~run[r].written => a \notin OnPage
    BY <1>2, <1>n DEF Truthful, Touched
  <2> QED
    BY <1>2, <2>1, <2>2, <2>3 DEF SettlesSo
<1>3. ASSUME notice[a] = "marked", outcome = "reply-observed" PROVE SettlesSo(a, outcome)
  BY <1>3 DEF SettlesSo, Truthful
<1> QED
  BY <1>1, <1>2, <1>3 DEF Settles

LEMMA LedgerTruthful ==
  ASSUME Typed, RunShape, Records, Truthful, [Next]_vars, NEW a \in Attempt, op'[a].state = "settled"
  PROVE  SettledTruly(a)'
<1>a. op[a] \in OpRow /\ clicked \subseteq clicked' /\ a # Null /\ run \in [Run -> RunRow]
  BY PageTyped, LedgerNull DEF Typed, LedgerTypeOK, Attempt
<1>r. att[a].state = "reply-observed" => att'[a].state = "reply-observed"
  BY RecordKept DEF RecordStays
<1>1. ASSUME op'[a] = op[a] PROVE SettledTruly(a)'
  <2>1. SettledTruly(a) /\ op[a].state = "settled"
    BY <1>1 DEF Truthful
  <2>2. ASSUME op[a].outcome = "failed" PROVE a \notin OnPage'
    BY <2>1, <2>2, TouchedMoves DEF SettledTruly, Sent
  <2>3. ASSUME op[a].outcome = "failed", NEW r \in Run, run'[r].attempt = a
        PROVE  run'[r].pc \in {"caught", "judged"} /\ ~run'[r].written
    <3>1. CASE NewlyHeld(r)
      <4>1. att[a].state = "none"
        BY <2>3, <3>1, FreshIsNew DEF NewlyHeld, Prepare
      <4> QED
        BY <4>1, <2>1 DEF Records
    <3>2. CASE StillHeld(r) /\ HeldMove(r)
      <4>1. run[r].pc \in {"caught", "judged"} /\ ~run[r].written
        BY <2>1, <2>3, <3>2 DEF SettledTruly, StillHeld
      <4> QED
        BY <4>1, <3>2 DEF HeldMove
    <3> QED
      BY <2>3, <3>1, <3>2, <1>a, HeldMoves
  <2> QED
    BY <1>1, <1>a, <1>r, <2>1, <2>2, <2>3 DEF SettledTruly
<1>2. ASSUME op'[a].outcome = "uncertain" PROVE SettledTruly(a)'
  BY <1>2 DEF SettledTruly
<1>3. ASSUME NEW r \in Run, run[r].attempt = a, run[r].pc = "marked", op'[a] = Settled(op[a], "failed"), Kept(r, "caught")
      PROVE  SettledTruly(a)'
  <2>1. ~run[r].written
    BY <1>3 DEF RunShape, MayHaveWritten, Wrote
  <2>2. a \notin OnPage
    BY <1>3, <1>a, <2>1 DEF Truthful, Touched
  <2>3. \A q \in Run : run[q].attempt = a => q = r
    BY <1>3, <1>a, Holding
  <2>4. a \notin OnPage'
    BY <2>2, <2>3, <1>3, TouchedMoves DEF Sent
  <2>5. ASSUME NEW q \in Run, run'[q].attempt = a PROVE q = r
    <3>1. CASE NewlyHeld(q)
      <4>1. att[a].state = "none"
        BY <2>5, <3>1, FreshIsNew DEF NewlyHeld, Prepare
      <4> QED
        BY <4>1, <1>3, <1>a, Holding
    <3>2. CASE StillHeld(q)
      BY <2>3, <2>5, <3>2 DEF StillHeld
    <3> QED
      BY <2>5, <3>1, <3>2, <1>a, HeldMoves
  <2>6. run'[r].pc = "caught" /\ run'[r].written = run[r].written
    BY <1>3, <1>a DEF Kept, RunRow
  <2>7. op'[a].outcome = "failed"
    BY <1>3, <1>a DEF Settled, OpRow
  <2> QED
    BY <2>1, <2>4, <2>5, <2>6, <2>7 DEF SettledTruly
<1>4. ASSUME NEW outcome \in Outcome, Settles(a, outcome), op'[a] = Settled(op[a], outcome) PROVE SettledTruly(a)'
  <2>1. SettlesSo(a, outcome)
    BY <1>4, SettlesTruly
  <2>2. op'[a].outcome = outcome
    BY <1>4, <1>a DEF Settled, OpRow
  <2>3. ASSUME outcome = "failed" PROVE a \notin OnPage' /\ \A q \in Run : run'[q].attempt # a
    <3>1. PICK r \in Run : run[r].attempt = a /\ run[r].pc # "dispatched-op" /\ run'[r] = NoRun
      BY <2>1, <2>3 DEF SettlesSo
    <3>2. \A q \in Run : run[q].attempt = a => q = r
      BY <3>1, <1>a, Holding
    <3>3. a \notin OnPage'
      BY <2>1, <2>3, <3>1, <3>2, TouchedMoves DEF SettlesSo, Sent
    <3>4. ASSUME NEW q \in Run, run'[q].attempt = a PROVE FALSE
      <4>1. CASE NewlyHeld(q)
        <5>1. att[a].state = "none"
          BY <3>4, <4>1, FreshIsNew DEF NewlyHeld, Prepare
        <5> QED
          BY <5>1, <3>1, <1>a, Holding
      <4>2. CASE StillHeld(q)
        <5>1. q = r
          BY <3>2, <3>4, <4>2 DEF StillHeld
        <5> QED
          BY <5>1, <3>1, <3>4, <1>a DEF NoRun
      <4> QED
        BY <3>4, <4>1, <4>2, <1>a, HeldMoves
    <3> QED
      BY <3>3, <3>4
  <2> QED
    BY <2>1, <2>2, <2>3, <1>a, <1>r DEF SettlesSo, SettledTruly
<1>5. ASSUME op'[a] = [op[a] EXCEPT !.state = "dispatched"] \/ (\E r \in Run :
               op'[a] = [NoOp EXCEPT !.state = "planned", !.slot = S, !.epoch = run[r].epoch])
      PROVE  FALSE
  BY <1>5, <1>a DEF NoOp, OpRow
<1>6. ASSUME op'[a] = Settled(op[a], "uncertain") PROVE op'[a].outcome = "uncertain"
  BY <1>6, <1>a DEF Settled, OpRow
<1> QED
  BY <1>1, <1>2, <1>3, <1>4, <1>5, <1>6, OpMoves DEF OpMove

LEMMA TruthfulStep ==
  ASSUME Typed, RunShape, Records, Truthful, [Next]_vars PROVE Truthful'
<1>1. ASSUME NEW r \in Run, run'[r].attempt # Null PROVE run'[r].attempt \in Attempt
  BY <1>1, RunTyped DEF RunRow
<1>2. ASSUME NEW r \in Run, NEW a \in Attempt, run'[r].attempt = a
      PROVE  /\ ~run'[r].written => ~Touched(a)'
             /\ run'[r].pc \in {"answered", "recorded"} =>
                  /\ run'[r].answer = "ok" => a \in clicked'
                  /\ run'[r].answer = "proved-not-started" => a \notin OnPage'
  BY <1>2, RunTruthful
<1>3. (\A r \in Run : run[r].attempt # Null =>
         /\ ~run[r].written => ~Touched(run[r].attempt)
         /\ run[r].pc \in {"answered", "recorded"} =>
              /\ run[r].answer = "ok" => run[r].attempt \in clicked
              /\ run[r].answer = "proved-not-started" => run[r].attempt \notin OnPage)'
  BY <1>1, <1>2 DEF Touched
<1>4. \A a \in Attempt : op'[a].state = "settled" => SettledTruly(a)'
  BY LedgerTruthful
<1>5. \A a \in Attempt : /\ att'[a].state = "acknowledged" => a \in clicked'
                         /\ notice'[a] = "marked" => att'[a].state = "reply-observed"
  BY RecordTruthful
<1> QED
  BY <1>3, <1>4, <1>5, PageTruthful DEF Truthful

LEMMA InitHolds == Init => DInv
<1> SUFFICES ASSUME Init PROVE DInv
  OBVIOUS
<1> USE DEF Init
<1>1. Typed
  BY InitTyped
<1>2. RunShape
  BY DEF RunShape, NoRun, HoldsAttempt, Wrote, Step
<1>3. Records
  BY LedgerNull DEF Records, NoAttempt, NoOp, Touched, OnPage, Attempt
<1>4. Truthful
  BY DEF Truthful, NoRun, NoAttempt, NoOp, NoRecovery, Attempt
<1> QED
  BY <1>1, <1>2, <1>3, <1>4 DEF DInv

\* Whatever runs, calls, pages and restarts do, the records stay well formed and what they, the runs
\* and the ledger say agrees with what happened on the page.
THEOREM DeliveryInvariant == Spec => []DInv
<1>1. ASSUME DInv, [Next]_vars PROVE DInv'
  BY <1>1, TypedStep, RunShapeStep, RecordsStep, TruthfulStep DEF DInv
<1> QED
  BY <1>1, InitHolds, PTL DEF Spec

\* dispatchToTabOnce, the page's notices, reloads and lost calls never leave in the Kernel's ledger an
\* outcome that contradicts the page: property LedgerIsTruthful, with or without the recovery barrier.
THEOREM LedgerStaysTruthful == Spec => []LedgerIsTruthful
<1>1. DInv => LedgerIsTruthful
  BY DEF DInv, Truthful, SettledTruly, LedgerIsTruthful, OnPage
<1> QED
  BY <1>1, DeliveryInvariant, PTL

-----------------------------------------------------------------------------
(* Prompts that wait for startup recovery *)

\* While recovery is under way no run begins.
LEMMA RunsWait ==
  ASSUME EarlyDispatch = FALSE, Typed, RunShape, KeepsStep, [Next]_vars, recovery'.pc # "done", NEW q \in Run
  PROVE  run'[q].pc = "idle"
<1>1. CASE Restart
  BY <1>1 DEF Restart, NoRun
<1>2. ASSUME recovery.pc # "done", run' = run PROVE run'[q].pc = "idle"
  BY <1>2 DEF KeepsStep
<1>3. ASSUME recovery' = recovery PROVE run'[q].pc = "idle"
  <2>1. recovery.pc # "done" /\ run[q].pc = "idle"
    BY <1>3 DEF KeepsStep
  <2>2. \A p \in Prompt : ~Plan(q, p)
    BY <2>1 DEF Plan, Awake
  <2>3. run'[q] = run[q] \/ run'[q] = NoRun
    BY <2>1, <2>2, RunMoves DEF RunMove
  <2> QED
    BY <2>1, <2>3 DEF NoRun
<1>4. ASSUME RecoveryRead \/ (\E heard \in BOOLEAN : RecoveryProbe(heard)) \/ (\E fresh \in BOOLEAN, fate \in Fate : RecoveryApply(fresh, fate))
      PROVE  recovery.pc # "done" /\ run' = run
  BY <1>4 DEF RecoveryRead, RecoveryProbe, RecoveryApply, RecoveryOnly
<1> QED
  BY <1>1, <1>2, <1>3, <1>4, WhoWrites

\* A record that was made as prepared or dispatched is advanced by the run that holds it only.
LEMMA RunJudges ==
  ASSUME EarlyDispatch = FALSE, Typed, RunShape, Records, Truthful, KeepsStep, [Next]_vars,
         NEW r \in Run, NEW a \in Attempt, run[r].attempt = a, ~run[r].written
  PROVE  \/ att'[a] = att[a]
         \/ run'[r].pc # run[r].pc /\ run[r].pc \in {"refused", "planned-op", "caught"}
<1>1. a # Null /\ ~Touched(a) /\ run[r].pc # "idle" /\ att[a].state # "none"
  BY LedgerNull, Holding DEF Truthful, HoldsAttempt, Attempt
<1>2. \A q \in Run : ~Prepares(q, a)
  BY <1>1, FreshIsNew DEF Prepares
<1>3. ~Recovers(a)
  BY <1>1 DEF Recovers, KeepsStep
<1>4. ASSUME NEW s \in AttemptState, Advances(a, s)
      PROVE  run'[r].pc # run[r].pc /\ run[r].pc \in {"refused", "planned-op", "caught"}
  <2>1. Judges(a, s) /\ notice[a] = "none"
    BY <1>1, <1>4 DEF Advances, Touched
  <2>2. \A q \in Run : run[q].attempt = a => q = r
    BY <1>1, Holding
  <2>3. run[r].pc # "answered"
    BY DEF RunShape, Wrote
  <2> QED
    BY <2>1, <2>2, <2>3 DEF Judges
<1> QED
  BY <1>2, <1>3, <1>4, AttMoves DEF AttMove

LEMMA RunKeepsStep ==
  ASSUME EarlyDispatch = FALSE, Typed, RunShape, Records, Truthful, KeepsStep, [Next]_vars,
         NEW r \in Run, NEW a \in Attempt, run'[r].attempt = a
  PROVE  /\ run'[r].pc \in {"prepared", "planned-op", "refused"} => att'[a].state = "prepared"
         /\ run'[r].pc \in {"marked", "dispatched-op"} => att'[a].state = "dispatched"
<1>a. a # Null /\ att \in [Attempt -> AttemptRow]
  BY LedgerNull DEF Attempt, Typed
<1>1. CASE NewlyHeld(r)
  <2>1. a = Fresh /\ att' = [att EXCEPT ![Fresh] = [state |-> "prepared", prompt |-> run[r].prompt, epoch |-> run[r].epoch]]
    BY <1>1 DEF NewlyHeld, Prepare
  <2> QED
    BY <1>1, <1>a, <2>1 DEF NewlyHeld
<1>2. ASSUME StillHeld(r), HeldMove(r), run'[r].pc \in {"prepared", "planned-op", "refused", "marked", "dispatched-op"}
      PROVE  /\ run'[r].pc \in {"prepared", "planned-op", "refused"} => att'[a].state = "prepared"
             /\ run'[r].pc \in {"marked", "dispatched-op"} => att'[a].state = "dispatched"
  <2>1. run[r].attempt = a
    BY <1>2 DEF StillHeld
  <2>2. run[r].pc \in {"prepared", "planned-op", "refused", "marked", "dispatched-op"}
    BY <1>2 DEF HeldMove
  <2>3. ~run[r].written
    BY <2>2 DEF RunShape, MayHaveWritten, Wrote
  <2>4. /\ run[r].pc \in {"prepared", "planned-op", "refused"} => att[a].state = "prepared"
        /\ run[r].pc \in {"marked", "dispatched-op"} => att[a].state = "dispatched"
    BY <2>1 DEF KeepsStep
  <2>5. CASE run[r].pc = "planned-op" /\ run'[r].pc = "marked" /\ Mark(r, "done")
    <3>1. att' = [att EXCEPT ![a].state = "dispatched"]
      BY <2>1, <2>4, <2>5 DEF Mark, Transition, Advanced, Allowed, AttemptState
    <3> QED
      BY <2>5, <3>1, <1>a DEF AttemptRow
  <2>6. CASE run'[r].pc = run[r].pc
    BY <2>1, <2>3, <2>4, <2>6, RunJudges
  <2>7. CASE \/ run[r].pc = "prepared" /\ run'[r].pc = "planned-op"
             \/ run[r].pc = "marked" /\ run'[r].pc = "dispatched-op"
    BY <2>1, <2>3, <2>4, <2>7, RunJudges
  <2>8. \/ run'[r].pc = run[r].pc
        \/ run[r].pc = "planned-op" /\ run'[r].pc = "marked" /\ Mark(r, "done")
        \/ run[r].pc = "prepared" /\ run'[r].pc = "planned-op"
        \/ run[r].pc = "marked" /\ run'[r].pc = "dispatched-op"
    BY <1>2 DEF HeldMove
  <2> QED
    BY <2>5, <2>6, <2>7, <2>8
<1> QED
  BY <1>1, <1>2, <1>a, HeldMoves

LEMMA TypedIsRecorded ==
  ASSUME EarlyDispatch = FALSE, Typed, RunShape, Records, Truthful, KeepsStep, [Next]_vars,
         NEW a \in Attempt, a \in OnPage'
  PROVE  att'[a].state \notin {"none", "prepared", "failed"}
<1>a. a # Null /\ att[a] \in AttemptRow
  BY LedgerNull DEF Attempt, Typed
<1>1. CASE Sent(a)
  <2>1. PICK r \in Run : run[r].attempt = a /\ run[r].pc = "dispatched-op" /\ Send(r)
    BY <1>1 DEF Sent
  <2>2. att' = att /\ att[a].state = "dispatched"
    BY <2>1 DEF Send, documentVars, KeepsStep
  <2> QED
    BY <2>2
<1>2. CASE a \in OnPage
  <2>1. att[a].state \notin {"none", "prepared", "failed"}
    BY <1>2 DEF KeepsStep
  <2>2. \A r \in Run : ~Prepares(r, a)
    BY <2>1, FreshIsNew DEF Prepares
  <2>3. ASSUME NEW s \in AttemptState, Advances(a, s) PROVE s \notin {"prepared", "failed"} /\ att'[a].state = s
    <3>1. s \in Allowed[att[a].state] /\ Judges(a, s) /\ att'[a].state = s
      BY <2>3, <1>a DEF Advances, AttemptRow
    <3>2. s # "prepared"
      BY <3>1, <1>a DEF Allowed, AttemptRow
    <3>3. ASSUME NEW r \in Run, run[r].attempt = a, run[r].pc = "refused" PROVE FALSE
      BY <2>1, <3>3 DEF KeepsStep
    <3>4. ASSUME NEW r \in Run, run[r].attempt = a, run[r].pc = "answered", Recorded(run[r].answer) = "failed" PROVE FALSE
      <4>1. run[r].answer = "proved-not-started"
        BY <3>4 DEF Recorded
      <4> QED
        BY <3>4, <4>1, <1>2, <1>a DEF Truthful
    <3>5. ASSUME NEW r \in Run, run[r].attempt = a, run[r].pc = "caught", Caught(r) = "failed" PROVE FALSE
      <4>1. ~run[r].written
        BY <3>5 DEF Caught
      <4> QED
        BY <3>5, <4>1, <1>2, <1>a DEF Truthful, Touched
    <3> QED
      BY <3>1, <3>2, <3>3, <3>4, <3>5 DEF Judges
  <2>4. ASSUME Recovers(a) PROVE att'[a].state \notin {"none", "prepared", "failed"}
    <3>1. PICK fresh \in BOOLEAN : att'[a] = [att[a] EXCEPT !.state = RecoveredState(a, fresh)]
      BY <2>4 DEF Recovers
    <3>2. RecoveredState(a, fresh) \notin {"none", "prepared", "failed"}
      BY <2>1 DEF RecoveredState
    <3> QED
      BY <3>1, <3>2, <1>a DEF AttemptRow
  <2>5. ASSUME NEW s \in AttemptState, Advances(a, s) PROVE s # "none"
    BY <2>5 DEF AttemptState
  <2> QED
    BY <2>1, <2>2, <2>3, <2>4, <2>5, AttMoves DEF AttMove
<1> QED
  BY <1>1, <1>2, TouchedMoves

LEMMA KeepsStepStep ==
  ASSUME EarlyDispatch = FALSE, Typed, RunShape, Records, Truthful, KeepsStep, [Next]_vars PROVE KeepsStep'
<1>1. ASSUME NEW r \in Run, run'[r].pc \in HoldsAttempt PROVE run'[r].attempt \in Attempt
  BY <1>1, RunTyped, RunShapeStep DEF RunRow, RunShape
<1>2. ASSUME NEW r \in Run
      PROVE  /\ run'[r].pc \in {"prepared", "planned-op", "refused"} => att'[run'[r].attempt].state = "prepared"
             /\ run'[r].pc \in {"marked", "dispatched-op"} => att'[run'[r].attempt].state = "dispatched"
  <2>1. CASE run'[r].pc \in HoldsAttempt
    BY <2>1, <1>1, RunKeepsStep
  <2>2. CASE run'[r].pc \notin HoldsAttempt
    BY <2>2 DEF HoldsAttempt
  <2> QED
    BY <2>1, <2>2
<1>3. OnPage' \subseteq Attempt
  BY TypedStep DEF Typed, OnPage, PageRow
<1> QED
  BY <1>2, <1>3, RunsWait, TypedIsRecorded DEF KeepsStep

\* An attempt recorded as failed was not submitted, if prompts wait for startup recovery: property
\* FailedWasNotTyped, which a run shows violated when they do not (background.ts, dispatch at start).
THEOREM FailuresWereNotTyped ==
  ASSUME EarlyDispatch = FALSE
  PROVE  Spec => []FailedWasNotTyped
<1>1. Init => KeepsStep
  BY DEF Init, KeepsStep, NoRun, NoRecovery, OnPage
<1>2. ASSUME DInv, KeepsStep, [Next]_vars PROVE KeepsStep'
  BY <1>2, KeepsStepStep DEF DInv
<1>3. KeepsStep => FailedWasNotTyped
  BY DEF KeepsStep, FailedWasNotTyped, OnPage
<1> QED
  BY <1>1, <1>2, <1>3, DeliveryInvariant, PTL DEF Spec

-----------------------------------------------------------------------------
(* The attempts of one prompt *)

PreparedBy(r) ==
  /\ run[r].pc \in {"observed", "refusing"} /\ MayPrepare(run[r].prompt)
  /\ \E b \in Attempt : att[b].state = "none"
  /\ att' = [att EXCEPT ![Fresh] = [state |-> "prepared", prompt |-> run[r].prompt, epoch |-> run[r].epoch]]
  /\ history' = [history EXCEPT ![run[r].prompt] = Append(history[run[r].prompt], Fresh)]
  /\ run'[r].pc \notin BeforeAttempt
  /\ UNCHANGED <<clicked, asked, retry>>

SamePrompts == history' = history /\ \A a \in Attempt : att'[a].prompt = att[a].prompt

\* Every other step leaves the prompts of the records, and their histories, as they are.
LEMMA OthersKeepPrompts ==
  ASSUME Typed, [Next]_vars, \A r \in Run, fate \in Fate : ~Prepare(r, fate)
  PROVE  SamePrompts
<1>a. att \in [Attempt -> AttemptRow] /\ run \in [Run -> RunRow]
  BY DEF Typed
<1>1. history' = history
  BY WhoWrites
<1>2. ASSUME NEW c, NEW s, NEW fate \in Fate, Transition(c, s, fate), NEW a \in Attempt PROVE att'[a].prompt = att[a].prompt
  BY <1>2, <1>a DEF Transition, Advanced, AttemptRow
<1>3. ASSUME NEW r \in Run, NEW fate \in Fate, NEW a \in Attempt,
             RecordRefusal(r, fate) \/ Mark(r, fate) \/ Record(r, fate) \/ CatchRecord(r, fate)
      PROVE  att'[a].prompt = att[a].prompt
  BY <1>2, <1>3 DEF RecordRefusal, Mark, Record, CatchRecord
<1>4. ASSUME NEW b \in Attempt, NEW fate \in Fate, NEW a \in Attempt, NoticeMark(b, fate) PROVE att'[a].prompt = att[a].prompt
  BY <1>2, <1>4 DEF NoticeMark
<1>5. ASSUME NEW fresh \in BOOLEAN, NEW fate \in Fate, NEW a \in Attempt, RecoveryApply(fresh, fate) PROVE att'[a].prompt = att[a].prompt
  BY <1>5, <1>a DEF RecoveryApply, AttemptRow
<1>6. att' = att => \A a \in Attempt : att'[a].prompt = att[a].prompt
  OBVIOUS
<1> QED
  BY <1>1, <1>3, <1>4, <1>5, <1>6, WhoWrites DEF SamePrompts

\* Records are given prompts by prepareAttempt only.
LEMMA PromptsMove ==
  ASSUME Typed, [Next]_vars
  PROVE  SamePrompts \/ \E r \in Run : PreparedBy(r)
<1>a. att \in [Attempt -> AttemptRow] /\ run \in [Run -> RunRow]
  BY DEF Typed
<1>1. ASSUME NEW r \in Run, NEW fate \in Fate, Prepare(r, fate) PROVE SamePrompts \/ PreparedBy(r)
  <2>1. CASE MayPrepare(run[r].prompt) /\ fate # "dropped"
    <3>1. /\ att' = [att EXCEPT ![Fresh] = [state |-> "prepared", prompt |-> run[r].prompt, epoch |-> run[r].epoch]]
          /\ history' = [history EXCEPT ![run[r].prompt] = Append(history[run[r].prompt], Fresh)]
          /\ run[r].pc \in {"observed", "refusing"} /\ \E b \in Attempt : att[b].state = "none"
          /\ UNCHANGED <<clicked, asked, retry>>
      BY <1>1, <2>1 DEF Prepare, Elsewhere, serviceVars
    <3>2. run'[r].pc \in {"refused", "prepared", "idle"}
      <4>1. \/ run'[r] = NoRun
            \/ run'[r] = [run[r] EXCEPT !.attempt = Fresh, !.pc = IF run[r].pc = "refusing" THEN "refused" ELSE "prepared"]
        BY <1>1, <1>a DEF Prepare
      <4>2. run[r] \in RunRow
        BY <1>a
      <4> QED
        <5>1. NoRun.pc = "idle"
          BY DEF NoRun
        <5>2. ASSUME NEW pc, run'[r] = [run[r] EXCEPT !.attempt = Fresh, !.pc = pc] PROVE run'[r].pc = pc
          BY <4>2, <5>2 DEF RunRow
        <5> QED
          BY <4>1, <5>1, <5>2
    <3> QED
      BY <3>1, <3>2, <2>1 DEF PreparedBy, BeforeAttempt
  <2>2. CASE ~(MayPrepare(run[r].prompt) /\ fate # "dropped")
    BY <1>1, <2>2 DEF Prepare, SamePrompts
  <2> QED
    BY <2>1, <2>2
<1>2. ASSUME \A r \in Run, fate \in Fate : ~Prepare(r, fate) PROVE SamePrompts
  BY <1>2, OthersKeepPrompts
<1> QED
  BY <1>1, <1>2

\* What prepareAttempt adds to the history of a prompt
LEMMA Appended ==
  ASSUME NEW s \in Seq(Attempt), NEW x \in Attempt
  PROVE  /\ Append(s, x) \in Seq(Attempt) /\ Append(s, x) # <<>> /\ Last(Append(s, x)) = x
         /\ DOMAIN Append(s, x) = DOMAIN s \cup {Len(s) + 1}
         /\ \A i \in DOMAIN s : Append(s, x)[i] = s[i]
         /\ Append(s, x)[Len(s) + 1] = x
BY DEF Last

LEMMA HistoriesStep ==
  ASSUME Typed, RunShape, Records, Histories, [Next]_vars PROVE Histories'
<1>a. att \in [Attempt -> AttemptRow] /\ history \in [Prompt -> Seq(Attempt)]
  BY DEF Typed
<1>1. CASE SamePrompts
  <2>1. \A p \in Prompt : \A i \in DOMAIN history[p] : history[p][i] \in Attempt
    BY <1>a
  <2> QED
    BY <1>1, <2>1 DEF SamePrompts, Histories
<1>2. ASSUME NEW r \in Run, PreparedBy(r), NEW p \in Prompt
      PROVE  /\ \A a \in Attempt : att'[a].prompt = p => \E i \in DOMAIN history'[p] : history'[p][i] = a
             /\ \A i \in DOMAIN history'[p] : att'[history'[p][i]].prompt = p
  <2>1. Fresh \in Attempt /\ att[Fresh].state = "none" /\ att[Fresh].prompt = Null
    BY <1>2, FreshIsNew DEF PreparedBy, Records
  <2>2. run[r].prompt \in Prompt /\ Null \notin Prompt
    BY <1>2, DeliveryAssumption DEF PreparedBy, RunShape, Prompt
  <2>3. \A a \in Attempt : att'[a].prompt = IF a = Fresh THEN run[r].prompt ELSE att[a].prompt
    BY <1>2, <1>a, <2>1 DEF PreparedBy
  <2>4. history[p] \in Seq(Attempt) /\ \A i \in DOMAIN history[p] : history[p][i] \in Attempt /\ history[p][i] # Fresh
    BY <1>a, <2>1, <2>2 DEF Histories
  <2>5. CASE p = run[r].prompt
    <3>1. history'[p] = Append(history[p], Fresh)
      BY <1>2, <1>a, <2>2, <2>5 DEF PreparedBy
    <3>2. \A i \in DOMAIN history'[p] : att'[history'[p][i]].prompt = p
      BY <2>1, <2>3, <2>4, <2>5, <3>1, Appended DEF Histories
    <3>3. ASSUME NEW a \in Attempt, att'[a].prompt = p PROVE \E i \in DOMAIN history'[p] : history'[p][i] = a
      <4>1. CASE a = Fresh
        BY <2>1, <2>4, <3>1, <4>1, Appended
      <4>2. CASE a # Fresh
        <5>1. PICK i \in DOMAIN history[p] : history[p][i] = a
          BY <2>3, <3>3, <4>2 DEF Histories
        <5> QED
          BY <2>1, <2>4, <3>1, <5>1, Appended
      <4> QED
        BY <4>1, <4>2
    <3> QED
      BY <3>2, <3>3
  <2>6. CASE p # run[r].prompt
    <3>1. history'[p] = history[p]
      BY <1>2, <1>a, <2>6 DEF PreparedBy
    <3> QED
      BY <2>1, <2>3, <2>4, <2>6, <3>1 DEF Histories
  <2> QED
    BY <2>5, <2>6
<1> QED
  BY <1>1, <1>2, PromptsMove DEF Histories

LEMMA MessageAttemptsStep ==
  ASSUME Typed, RunShape, Records, Histories, MessageAttempts, [Next]_vars PROVE MessageAttempts'
<1>a. att \in [Attempt -> AttemptRow]
  BY DEF Typed
<1>b. \A a \in Attempt : att[a].state = "failed" => att'[a].state = "failed"
  BY RecordKept DEF RecordStays
<1>1. CASE SamePrompts
  BY <1>1, <1>b DEF SamePrompts, MessageAttempts
<1>2. ASSUME NEW r \in Run, PreparedBy(r) PROVE MessageAttempts'
  <2>1. Fresh \in Attempt
    BY <1>2, FreshIsNew DEF PreparedBy
  <2>2. \A a \in Attempt : att'[a].prompt = IF a = Fresh THEN run[r].prompt ELSE att[a].prompt
    BY <1>2, <1>a, <2>1 DEF PreparedBy
  <2>3. ASSUME NEW a \in Attempt, run[r].prompt \in Message, att[a].prompt = run[r].prompt PROVE att'[a].state = "failed"
    BY <1>2, <1>b, <2>3 DEF PreparedBy, MayPrepare, Histories, Prompt
  <2> QED
    BY <1>b, <2>2, <2>3 DEF MessageAttempts
<1> QED
  BY <1>1, <1>2, PromptsMove

\* A message is submitted to its conversation at most once, if prompts wait for startup recovery
\* (assertMessageDeliveryAvailable in prepareAttempt): property MessageTypedOnce.
THEOREM MessagesAreTypedOnce ==
  ASSUME EarlyDispatch = FALSE
  PROVE  Spec => []MessageTypedOnce
<1>1. Init => Histories /\ MessageAttempts
  BY DeliveryAssumption DEF Init, Histories, MessageAttempts, NoAttempt, Prompt
<1>2. ASSUME DInv, Histories, MessageAttempts, [Next]_vars PROVE (Histories /\ MessageAttempts)'
  BY <1>2, HistoriesStep, MessageAttemptsStep DEF DInv
<1>3. ASSUME DInv, MessageAttempts, FailedWasNotTyped PROVE MessageTypedOnce
  <2>1. clicked \subseteq Attempt
    BY <1>3 DEF DInv, Typed
  <2> QED
    BY <1>3, <2>1 DEF MessageAttempts, FailedWasNotTyped, MessageTypedOnce
<1> QED
  BY <1>1, <1>2, <1>3, DeliveryInvariant, FailuresWereNotTyped, PTL DEF Spec

-----------------------------------------------------------------------------
(* The order of the records *)

\* Every record there is is listed.
Ordered == order \in Seq(Attempt) /\ ToSet(order) = {a \in Attempt : att[a].state # "none"}

\* A sequence over the elements of another is of the same kind.
LEMMA Rearranged ==
  ASSUME NEW s \in Seq(Attempt), NEW o \in [DOMAIN s -> ToSet(s)]
  PROVE  o \in Seq(Attempt)
<1>1. DOMAIN s = 1 .. Len(s) /\ Len(s) \in Nat /\ \A i \in DOMAIN s : s[i] \in Attempt
  OBVIOUS
<1>2. ToSet(s) \subseteq Attempt
  BY <1>1 DEF ToSet
<1> QED
  BY <1>1, <1>2

LEMMA OrderStep ==
  ASSUME Typed, Records, Records', Ordered, [Next]_vars PROVE Ordered'
<1>a. att \in [Attempt -> AttemptRow] /\ order \in Seq(Attempt)
  BY DEF Typed, Ordered
<1>r. /\ \A a \in Attempt : a \in ToSet(order) <=> att[a].prompt # Null
      /\ \A a \in Attempt : att'[a].state # "none" <=> att'[a].prompt # Null
      /\ ToSet(order) \subseteq Attempt
  BY DEF Records, Ordered
<1>1. ASSUME NEW r \in Run, NEW fate \in Fate, Prepare(r, fate), order' # order PROVE Ordered'
  <2>1. /\ order' = Append(order, Fresh) /\ \E b \in Attempt : att[b].state = "none"
        /\ att' = [att EXCEPT ![Fresh] = [state |-> "prepared", prompt |-> run[r].prompt, epoch |-> run[r].epoch]]
    BY <1>1 DEF Prepare
  <2>2. Fresh \in Attempt
    BY <2>1, FreshIsNew
  <2>3. ToSet(order') = ToSet(order) \cup {Fresh} /\ order' \in Seq(Attempt)
    BY <2>1, <2>2, <1>a, Appended DEF ToSet
  <2>4. \A a \in Attempt : att'[a].state # "none" <=> att[a].state # "none" \/ a = Fresh
    BY <2>1, <2>2, <1>a
  <2> QED
    BY <2>2, <2>3, <2>4 DEF Ordered
<1>2. ASSUME SamePrompts, order' \in Seq(Attempt), ToSet(order') = ToSet(order) PROVE Ordered'
  BY <1>2, <1>r DEF SamePrompts, Ordered
<1>3. ASSUME NEW fresh \in BOOLEAN, NEW fate \in Fate, RecoveryApply(fresh, fate), order' # order PROVE Ordered'
  <2>1. order' \in [DOMAIN order -> ToSet(order)] /\ ToSet(order') = ToSet(order)
    BY <1>3 DEF RecoveryApply, Reordered
  <2>2. order' \in Seq(Attempt)
    BY <2>1, <1>a, Rearranged
  <2>3. SamePrompts
    BY <1>3, <1>a DEF RecoveryApply, SamePrompts, AttemptRow
  <2> QED
    BY <2>1, <2>2, <2>3, <1>2
<1>4. CASE order' = order
  <2>1. \A a \in Attempt : att[a].state # "none" <=> att'[a].state # "none"
    <3>1. ASSUME NEW r \in Run, NEW fate \in Fate, Prepare(r, fate) PROVE att' = att
      <4>1. order # Append(order, Fresh)
        <5>1. \E b \in Attempt : att[b].state = "none"
          BY <3>1 DEF Prepare
        <5> QED
          BY <5>1, <1>a, FreshIsNew, Appended
      <4> QED
        BY <3>1, <4>1, <1>4 DEF Prepare
    <3>2. CASE SamePrompts
      BY <3>2, <1>r DEF SamePrompts, Records
    <3>3. SamePrompts \/ \E r \in Run, fate \in Fate : Prepare(r, fate)
      BY OthersKeepPrompts
    <3> QED
      BY <3>1, <3>2, <3>3
  <2> QED
    BY <1>4, <2>1 DEF Ordered
<1> QED
  BY <1>1, <1>3, <1>4, WhoWrites

\* Every variable keeps its type, and the order lists the records there are: whatever is prepared,
\* recovered, dropped or delivered late, no record is lost from it or listed without one.
THEOREM DeliveryTypes == Spec => []TypeOK
<1>1. Init => Ordered
  BY DEF Init, Ordered, NoAttempt, ToSet
<1>2. ASSUME DInv, DInv', Ordered, [Next]_vars PROVE Ordered'
  BY <1>2, OrderStep DEF DInv
<1>3. ASSUME DInv, Ordered PROVE TypeOK
  BY <1>3 DEF DInv, Typed, Ordered, TypeOK, AttemptRow, PageRow, RecoveryRow
<1> QED
  BY <1>1, <1>2, <1>3, DeliveryInvariant, PTL DEF Spec

-----------------------------------------------------------------------------
(* Tasks, and the promise *)

\* The last attempt of a task that has one
LEMMA LastAttempt ==
  ASSUME Typed, NEW t \in Task, history[t] # <<>>
  PROVE  Last(history[t]) \in Attempt
<1>1. history[t] \in Seq(Attempt)
  BY DEF Typed, Prompt
<1> QED
  BY <1>1 DEF Last

LEMMA DisposedStays ==
  ASSUME Typed, [Next]_vars, NEW a \in Attempt, Disposed(a) PROVE Disposed(a)'
BY RecordKept, RecordsTyped DEF Disposed, RecordStays

LEMMA RetriesStep ==
  ASSUME Typed, TaskAttempts, [Next]_vars, NEW t \in Task, retry'[t] # Null PROVE retry'[t] \in asked'
<1>1. retry \in [Task -> Attempt \cup {Null}] /\ asked \subseteq asked'
  BY RecordsTyped DEF Typed
<1>2. ASSUME NEW u \in Task, RequestRetry(u) PROVE retry'[t] \in asked'
  BY <1>1, <1>2 DEF RequestRetry, TaskAttempts
<1> QED
  BY <1>1, <1>2, WhoWrites DEF TaskAttempts

LEMMA PlannersStep ==
  ASSUME Typed, RunShape, Records, Histories, TaskAttempts, OneTaskRun, [Next]_vars,
         NEW r \in Run, run'[r].prompt \in Task, run'[r].pc \in BeforeAttempt,
         NEW a \in Attempt, att'[a].prompt = run'[r].prompt
  PROVE  Disposed(a)'
<1>a. run[r] \in RunRow /\ att \in [Attempt -> AttemptRow]
  BY DEF Typed
<1>1. ASSUME NEW p \in Prompt, Plan(r, p), run'[r].prompt = p PROVE Disposed(a)'
  <2>1. att[a].prompt = p /\ p \in Task /\ TaskReady(p)
    BY <1>1 DEF Plan, documentVars
  <2>2. CASE a = Last(history[p])
    <3>1. history[p] # <<>>
      BY <2>1, <1>1 DEF Histories
    <3>2. retry[p] = a /\ a # Null
      BY <2>1, <2>2, <3>1, LedgerNull DEF TaskReady, Attempt
    <3>3. a \in asked
      BY <2>1, <3>2 DEF TaskAttempts
    <3> QED
      BY <3>3, DisposedStays DEF Disposed
  <2>3. CASE a # Last(history[p])
    BY <2>1, <2>3, DisposedStays DEF TaskAttempts
  <2> QED
    BY <2>2, <2>3
<1>2. ASSUME run[r].pc \in BeforeAttempt, run'[r].prompt = run[r].prompt PROVE Disposed(a)'
  <2>1. CASE SamePrompts
    BY <1>2, <2>1, DisposedStays DEF SamePrompts, TaskAttempts
  <2>2. ASSUME NEW q \in Run, PreparedBy(q) PROVE Disposed(a)'
    <3>1. Fresh \in Attempt /\ q # r
      BY <2>2, FreshIsNew DEF PreparedBy
    <3>2. a # Fresh
      BY <1>a, <1>2, <2>2, <3>1 DEF PreparedBy, OneTaskRun
    <3>3. att[a].prompt = run[r].prompt
      BY <1>a, <1>2, <2>2, <3>2 DEF PreparedBy
    <3> QED
      BY <1>2, <3>3, DisposedStays DEF TaskAttempts
  <2> QED
    BY <2>1, <2>2, PromptsMove
<1>k. ASSUME NEW pc, Kept(r, pc) PROVE run'[r].pc = pc /\ run'[r].prompt = run[r].prompt
  BY <1>a, <1>k DEF Kept, RunRow
<1>3. run'[r] # NoRun
  BY DEF NoRun, BeforeAttempt
<1>4. ASSUME NEW p \in Prompt,
             run'[r] = [NoRun EXCEPT !.pc = "planned", !.prompt = p, !.version = IF p \in Task THEN version[p] ELSE 0]
      PROVE  run'[r].prompt = p
  BY <1>4 DEF NoRun
<1>5. ASSUME run[r].pc = "queued", NEW pc, run'[r] = [run[r] EXCEPT !.pc = pc, !.epoch = page.epoch]
      PROVE  run[r].pc \in BeforeAttempt /\ run'[r].prompt = run[r].prompt
  BY <1>5, <1>a DEF RunRow, BeforeAttempt
<1>6. run'[r].attempt = Null
  BY RunShapeStep DEF RunShape, BeforeAttempt, HoldsAttempt
<1>7. ASSUME run'[r] = [run[r] EXCEPT !.attempt = Fresh, !.pc = IF run[r].pc = "refusing" THEN "refused" ELSE "prepared"],
             Prepare(r, "done")
      PROVE  FALSE
  <2>1. run'[r].attempt = Fresh
    BY <1>7, <1>a DEF RunRow
  <2> QED
    BY <1>6, <1>7, <2>1, FreshIsNew, LedgerNull DEF Prepare, Attempt
<1>9. CASE run'[r] = run[r]
  BY <1>2, <1>9
<1>10. ASSUME NEW answer, run'[r] = [run[r] EXCEPT !.pc = "answered", !.answer = answer] PROVE FALSE
  BY <1>10, <1>a DEF RunRow, BeforeAttempt
<1>11. ASSUME run'[r] = [run[r] EXCEPT !.pc = "sent", !.written = TRUE] PROVE FALSE
  BY <1>11, <1>a DEF RunRow, BeforeAttempt
<1>12. ASSUME NEW pc \in {"caught", "planned-op", "marked", "dispatched-op", "recorded", "judged"}, Kept(r, pc) PROVE FALSE
  BY <1>12, <1>k DEF BeforeAttempt
<1>13. ASSUME run[r].pc = "planned", Kept(r, "queued") PROVE run[r].pc \in BeforeAttempt /\ run'[r].prompt = run[r].prompt
  BY <1>13, <1>k DEF BeforeAttempt
<1> QED
  BY <1>1, <1>2, <1>3, <1>4, <1>5, <1>7, <1>9, <1>10, <1>11, <1>12, <1>13, RunMoves DEF RunMove

LEMMA TaskAttemptsStep ==
  ASSUME Typed, RunShape, Records, Histories, TaskAttempts, OneTaskRun, [Next]_vars PROVE TaskAttempts'
<1>a. att \in [Attempt -> AttemptRow] /\ history \in [Prompt -> Seq(Attempt)]
  BY DEF Typed
<1>1. ASSUME NEW a \in Attempt, att'[a].prompt \in Task PROVE Disposed(a)' \/ a = Last(history'[att'[a].prompt])
  <2>1. CASE SamePrompts
    BY <1>1, <2>1, DisposedStays DEF SamePrompts, TaskAttempts
  <2>2. ASSUME NEW r \in Run, PreparedBy(r) PROVE Disposed(a)' \/ a = Last(history'[att'[a].prompt])
    <3>1. Fresh \in Attempt
      BY <2>2, FreshIsNew DEF PreparedBy
    <3>2. run[r].prompt \in Prompt /\ run[r].pc \in BeforeAttempt
      BY <2>2 DEF PreparedBy, RunShape, BeforeAttempt
    <3>3. CASE a = Fresh
      <4>1. att'[a].prompt = run[r].prompt
        BY <1>a, <2>2, <3>1, <3>3 DEF PreparedBy
      <4>2. history'[run[r].prompt] = Append(history[run[r].prompt], Fresh)
        BY <1>a, <2>2, <3>2 DEF PreparedBy
      <4>3. history[run[r].prompt] \in Seq(Attempt)
        BY <1>a, <3>2
      <4> QED
        BY <3>1, <3>3, <4>1, <4>2, <4>3, Appended
    <3>4. CASE a # Fresh
      <4>1. att'[a].prompt = att[a].prompt
        BY <1>a, <2>2, <3>1, <3>4 DEF PreparedBy
      <4>2. CASE att[a].prompt = run[r].prompt
        BY <1>1, <4>1, <4>2, <3>2, DisposedStays DEF TaskAttempts
      <4>3. CASE att[a].prompt # run[r].prompt
        <5>1. history'[att[a].prompt] = history[att[a].prompt]
          BY <1>1, <4>1, <1>a, <2>2, <4>3 DEF PreparedBy, Prompt
        <5> QED
          BY <1>1, <4>1, <5>1, DisposedStays DEF TaskAttempts
      <4> QED
        BY <4>2, <4>3
    <3> QED
      BY <3>3, <3>4
  <2> QED
    BY <2>1, <2>2, PromptsMove
<1> QED
  BY <1>1, RetriesStep, PlannersStep DEF TaskAttempts

\* An attempt is made only after attempts that failed or that somebody looked at.
LEMMA PromisedAttempt ==
  ASSUME Typed, RunShape, Records, Histories, TaskAttempts, [Next]_vars, NEW r \in Run, PreparedBy(r)
  PROVE  Promise!Attempted
<1> DEFINE p == run[r].prompt
<1>a. att \in [Attempt -> AttemptRow]
  BY DEF Typed
<1>1. Fresh \in Attempt /\ att[Fresh].state = "none" /\ att[Fresh].prompt = Null
  BY FreshIsNew DEF PreparedBy, Records
<1>2. p \in Prompt /\ run[r].pc \in BeforeAttempt
  BY DEF PreparedBy, RunShape, BeforeAttempt
<1>3. ASSUME NEW b \in Attempt, att[b].prompt = p PROVE Verdict(b) = "failed" \/ b \in asked
  <2>1. CASE p \in Message
    <3>1. PICK i \in DOMAIN history[p] : history[p][i] = b
      BY <1>2, <1>3 DEF Histories
    <3>2. att[b].state = "failed"
      BY <2>1, <3>1 DEF PreparedBy, MayPrepare
    <3> QED
      BY <3>2 DEF Verdict
  <2>2. CASE p \in Task
    <3>1. Disposed(b)
      BY <1>2, <1>3, <2>2 DEF TaskAttempts
    <3> QED
      BY <3>1 DEF Disposed, Verdict
  <2> QED
    BY <1>2, <2>1, <2>2 DEF Prompt
<1>4. \A a \in Attempt : att'[a] = IF a = Fresh THEN [state |-> "prepared", prompt |-> p, epoch |-> run[r].epoch] ELSE att[a]
  BY <1>a, <1>1 DEF PreparedBy
<1>5. [a \in Attempt |-> att'[a].prompt] = [[a \in Attempt |-> att[a].prompt] EXCEPT ![Fresh] = p]
  <2>1. \A a \in Attempt : att'[a].prompt = IF a = Fresh THEN p ELSE att[a].prompt
    BY <1>4
  <2> HIDE DEF p
  <2> QED
    BY <2>1, <1>1
<1>6. ASSUME NEW a \in Attempt PROVE Verdict(a)' = Verdict(a)
  <2>1. CASE a = Fresh
    <3>1. att'[a].state = "prepared" /\ att[a].state = "none"
      BY <1>1, <1>4, <2>1
    <3> QED
      BY <3>1 DEF Verdict
  <2>2. CASE a # Fresh
    BY <1>4, <2>2 DEF Verdict
  <2> QED
    BY <2>1, <2>2
<1>7. clicked' = clicked /\ asked' = asked
  BY DEF PreparedBy
<1>8. [a \in Attempt |-> Verdict(a)]' = [a \in Attempt |-> Verdict(a)]
  BY <1>6
<1> QED
  BY <1>1, <1>2, <1>3, <1>5, <1>7, <1>8 DEF Promise!Attempted

\* The verdicts that a step gives are true and follow the ones before.
LEMMA PromisedVerdict ==
  ASSUME EarlyDispatch = FALSE, DInv, KeepsStep, [Next]_vars, NEW a \in Attempt, SamePrompts
  PROVE  /\ Promise!Follows(Verdict(a), Verdict(a)')
         /\ Verdict(a)' = "failed" => a \notin clicked'
         /\ Verdict(a)' = "delivered" => a \in clicked'
<1> USE DEF DInv
<1>a. att[a] \in AttemptRow /\ att'[a] \in AttemptRow
  BY RecordsTyped DEF Typed
<1>b. KeepsStep' /\ Truthful' /\ Records'
  BY KeepsStepStep, TruthfulStep, RecordsStep
<1>1. Verdict(a)' = "failed" => att'[a].state = "failed"
  BY <1>a DEF Verdict, AttemptRow, AttemptState
<1>2. Verdict(a)' = "delivered" => att'[a].state = "acknowledged"
  BY <1>a DEF Verdict, AttemptRow, AttemptState
<1>3. Verdict(a)' = "failed" => a \notin clicked'
  BY <1>1, <1>b DEF KeepsStep, OnPage
<1>4. Verdict(a)' = "delivered" => a \in clicked'
  BY <1>2, <1>b DEF Truthful
<1>5. CASE att'[a].state = att[a].state
  <2>1. Verdict(a)' = Verdict(a)
    BY <1>5 DEF Verdict
  <2> QED
    BY <2>1, <1>3, <1>4 DEF Promise!Follows
<1>6. CASE att[a].state = "none"
  <2>1. att'[a].prompt = Null
    BY <1>6 DEF SamePrompts, Records
  <2>2. att'[a].state = "none"
    BY <2>1, <1>b DEF Records
  <2> QED
    BY <1>5, <1>6, <2>2
<1>7. ASSUME att[a].state \in {"prepared", "dispatched"} PROVE Promise!Follows(Verdict(a), Verdict(a)')
  <2>1. Verdict(a) = "open"
    BY <1>7 DEF Verdict
  <2>2. Verdict(a)' \in {"open", "failed", "delivered", "unknown", "replied"}
    BY <1>a DEF Verdict, AttemptRow, AttemptState
  <2> QED
    BY <2>1, <2>2 DEF Promise!Follows
<1>8. ASSUME NEW s \in AttemptState, Advances(a, s), att[a].state \in {"acknowledged", "uncertain"}
      PROVE  Promise!Follows(Verdict(a), Verdict(a)')
  <2>1. att'[a].state = s /\ s \in Allowed[att[a].state]
    BY <1>8, <1>a DEF Advances, AttemptRow
  <2>2. CASE att[a].state = "uncertain"
    <3>1. att'[a].state = "reply-observed"
      BY <2>1, <2>2 DEF Allowed, AttemptState
    <3> QED
      BY <2>2, <3>1 DEF Verdict, Promise!Follows
  <2>3. CASE att[a].state = "acknowledged"
    <3>1. a \in OnPage'
      BY <2>3, PageTyped DEF Truthful, OnPage
    <3>2. att'[a].state \in {"reply-observed", "uncertain"}
      BY <2>1, <2>3, <3>1, <1>b DEF Allowed, AttemptState, KeepsStep
    <3> QED
      BY <2>3, <3>2 DEF Verdict, Promise!Follows
  <2> QED
    BY <1>8, <2>2, <2>3
<1>9. ASSUME Recovers(a), att[a].state \in {"acknowledged", "uncertain"} PROVE Promise!Follows(Verdict(a), Verdict(a)')
  <2>1. PICK fresh \in BOOLEAN : att'[a] = [att[a] EXCEPT !.state = RecoveredState(a, fresh)]
    BY <1>9 DEF Recovers
  <2>2. RecoveredState(a, fresh) \in {att[a].state, "acknowledged", "uncertain"}
        /\ (att[a].state = "uncertain" => RecoveredState(a, fresh) = "uncertain")
    BY <1>9 DEF RecoveredState, Candidate, InFlightState
  <2>3. att'[a].state = RecoveredState(a, fresh)
    BY <2>1, <1>a DEF AttemptRow
  <2> QED
    BY <1>9, <2>2, <2>3 DEF Verdict, Promise!Follows
<1>10. ASSUME NEW r \in Run, Prepares(r, a) PROVE att[a].state = "none"
  BY <1>10, FreshIsNew DEF Prepares
<1>11. att[a].state \in {"failed", "reply-observed"} => att'[a].state = att[a].state
  BY RecordKept DEF RecordStays
<1> QED
  BY <1>a, <1>3, <1>4, <1>5, <1>6, <1>7, <1>8, <1>9, <1>10, <1>11, AttMoves DEF AttMove, AttemptRow, AttemptState

LEMMA PromisedStep ==
  ASSUME EarlyDispatch = FALSE, DInv, KeepsStep, Histories, TaskAttempts, [Next]_vars
  PROVE  [Promise!PNext]_(Promise!pvars)
<1> USE DEF DInv
<1>1. ASSUME NEW r \in Run, PreparedBy(r) PROVE Promise!PNext
  BY <1>1, PromisedAttempt DEF Promise!PNext
<1>2. ASSUME SamePrompts PROVE [a \in Attempt |-> att'[a].prompt] = [a \in Attempt |-> att[a].prompt]
  BY <1>2 DEF SamePrompts
<1>3. ASSUME NEW a \in Attempt, PageClicks(a) PROVE Promise!PNext
  <2>1. att' = att /\ asked' = asked /\ clicked' = clicked \cup {a} /\ a \notin clicked /\ a \in OnPage
    BY <1>3 DEF PageClicks, PageOnly, documentVars, OnPage
  <2>2. att[a].state \notin {"none", "failed"} /\ att[a].prompt # Null
    BY <2>1 DEF KeepsStep, Records
  <2>3. Verdict(a) # "failed"
    BY <2>2 DEF Verdict
  <2>4. [b \in Attempt |-> att'[b].prompt] = [b \in Attempt |-> att[b].prompt]
        /\ [b \in Attempt |-> Verdict(b)]' = [b \in Attempt |-> Verdict(b)]
    BY <2>1 DEF Verdict
  <2> QED
    BY <2>1, <2>2, <2>3, <2>4 DEF Promise!PNext, Promise!Typed
<1>4. ASSUME NEW t \in Task, RequestRetry(t) PROVE Promise!PNext
  <2> DEFINE a == Last(history[t])
  <2>1. history[t] # <<>> /\ att[a].state \in {"failed", "uncertain"}
    BY <1>4 DEF RequestRetry, LastState
  <2>2. a \in Attempt
    BY <2>1, LastAttempt
  <2>3. Verdict(a) \in {"failed", "unknown"}
    BY <2>1 DEF Verdict
  <2>4. att' = att /\ clicked' = clicked /\ asked' = asked \cup {a}
    BY <1>4 DEF RequestRetry, serviceVars
  <2>5. [b \in Attempt |-> att'[b].prompt] = [b \in Attempt |-> att[b].prompt]
        /\ [b \in Attempt |-> Verdict(b)]' = [b \in Attempt |-> Verdict(b)]
    BY <2>4 DEF Verdict
  <2> QED
    BY <2>2, <2>3, <2>4, <2>5 DEF Promise!PNext, Promise!Asked
<1>5. ASSUME SamePrompts, clicked' = clicked, asked' = asked PROVE Promise!PNext
  <2>1. \A a \in Attempt : /\ Promise!Follows(Verdict(a), Verdict(a)')
                           /\ Verdict(a)' = "failed" => a \notin clicked
                           /\ Verdict(a)' = "delivered" => a \in clicked
    BY <1>5, PromisedVerdict
  <2> QED
    BY <1>2, <1>5, <2>1 DEF Promise!PNext, Promise!Judged
<1>6. clicked' = clicked \/ \E a \in Attempt : PageClicks(a)
  BY WhoWrites
<1>7. asked' = asked \/ \E t \in Task : RequestRetry(t)
  BY WhoWrites
<1> QED
  BY <1>1, <1>3, <1>4, <1>5, <1>6, <1>7, PromptsMove

\* Prompt delivery keeps its promise (property ImplementsPromise) if prompts wait for startup recovery
\* and no two planner runs take up one task at a time: every attempt is judged once and truthfully, and
\* a prompt is attempted again only after attempts known not to have been typed or looked at by a human.
THEOREM DeliveryImplementsPromise ==
  ASSUME EarlyDispatch = FALSE
  PROVE  Spec /\ []OneTaskRun => ImplementsPromise
<1>1. Init => Promise!PInit
  <2> SUFFICES ASSUME Init PROVE Promise!PInit
    OBVIOUS
  <2>1. /\ [a \in Attempt |-> att[a].prompt] = [a \in Attempt |-> Null]
        /\ [a \in Attempt |-> Verdict(a)] = [a \in Attempt |-> "open"]
    BY DEF Init, NoAttempt, Verdict
  <2> QED
    BY <2>1 DEF Promise!PInit, Init
<1>2. Init => KeepsStep /\ Histories /\ TaskAttempts
  <2> SUFFICES ASSUME Init PROVE KeepsStep /\ Histories /\ TaskAttempts
    OBVIOUS
  <2>1. KeepsStep
    BY DEF Init, KeepsStep, NoRun, NoRecovery, OnPage
  <2>2. Histories
    BY DeliveryAssumption DEF Init, Histories, NoAttempt, Prompt
  <2>3. TaskAttempts
    BY DeliveryAssumption DEF Init, TaskAttempts, NoAttempt, NoRun, Prompt, BeforeAttempt
  <2> QED
    BY <2>1, <2>2, <2>3
<1>3. ASSUME DInv, KeepsStep, Histories, TaskAttempts, OneTaskRun, [Next]_vars
      PROVE  (KeepsStep /\ Histories /\ TaskAttempts)'
  BY <1>3, KeepsStepStep, HistoriesStep, TaskAttemptsStep DEF DInv
<1>4. ASSUME DInv, KeepsStep, Histories, TaskAttempts, [Next]_vars PROVE [Promise!PNext]_(Promise!pvars)
  BY <1>4, PromisedStep
<1> QED
  BY <1>1, <1>2, <1>3, <1>4, DeliveryInvariant, PTL DEF Spec, ImplementsPromise, Promise!PSpec

=============================================================================
