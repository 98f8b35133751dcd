--------------------------- MODULE PromptDelivery ---------------------------
(***************************************************************************)
(* How a prompt reaches a chat page: the extension's dispatcher            *)
(* (background.ts, taskDispatchRuntime.ts, messageBus.ts), the page's      *)
(* content script (content.ts), startup recovery (recovery.ts) and the     *)
(* Kernel's ledger of browser writes, composed for one slot and its tab.   *)
(*                                                                         *)
(* The service worker is asynchronous and may be killed at any await: each *)
(* action is the code between two awaits.  A call to the Kernel may be     *)
(* carried out and answered, carried out with its answer lost, or not be   *)
(* carried out (Fate).  The page types, reloads and replies on its own.    *)
(*                                                                         *)
(* Abstracted: which tab, role and conversation a prompt goes to (there is *)
(* one); the governor's verdict (any); observation revisions (a refused    *)
(* report is a report that does not happen); the reply policies of reviews *)
(* and structured results (a task here is done when its reply is observed).*)
(* "Slip" marks a mistake that breaks one of the properties.               *)
(***************************************************************************)
EXTENDS BrowserLedger, Sequences, SequencesExt, FiniteSets

CONSTANTS
  S, T,            \* the slot and the tab it occupies
  Task, Message,   \* what there is to deliver
  Run,             \* planner runs that may be under way at once
  Fate,            \* what may become of a call to the Kernel
  EarlyDispatch,   \* whether prompts may be dispatched before startup recovery ended
  MaxVersion       \* bound on changes of a task document

Prompt  == Task \cup Message
Attempt == OpId

ASSUME DeliveryAssumption ==
  /\ S \in Slot /\ T \in Tab /\ Task \cap Message = {} /\ Null \notin Task \cup Message
  /\ EarlyDispatch \in BOOLEAN /\ MaxEpoch >= 1
  /\ "done" \in Fate /\ Fate \subseteq {"done", "lost", "dropped"} /\ MaxVersion \in Nat

VARIABLES
  att,        \* work document: SendAttemptRecords; state "none" before prepareAttempt
  order,      \* work document: the order of the attempt records
  history,    \* work document: attemptIds of each task or message
  retry,      \* work document: retryAfterAttemptId of each task
  version,    \* work document: updatedAt of each task, as a counter
  run,        \* worker memory: a planner run and the dispatch it is in
  recovery,   \* worker memory: reconcileAfterRestart
  notice,     \* worker memory: replies being recorded
  page,       \* content script: contentEpoch, pending prompt, delivered ids; content:send
              \* messages on their way (inbox) and being handled (sending)
  clicked,    \* what the chat service was given: attempts whose prompt was submitted
  started,    \* ... of those, the ones it began to answer
  asked       \* attempts after which a human asked for a retry

documentVars == <<att, order, history, retry, version>>
serviceVars  == <<clicked, started>>
vars == <<host, op, documentVars, run, recovery, notice, page, serviceVars, asked>>

-----------------------------------------------------------------------------
AttemptState == {"prepared", "dispatched", "acknowledged", "reply-observed", "failed", "uncertain"}
InFlightState == {"prepared", "dispatched", "acknowledged"}

\* The states after which a run is in the tab's lane (TabOperationQueue)
Step == {"refusing", "refused", "observed", "prepared", "planned-op", "marked", "dispatched-op",
         "sent", "answered", "recorded", "caught", "judged"}
Answer == {"ok", "proved-not-started", "uncertain"}

RunRow == [ pc: {"idle", "planned", "queued"} \cup Step, prompt: Prompt \cup {Null},
            version: Nat, attempt: Attempt \cup {Null}, epoch: Epoch \cup {Null},
            written: BOOLEAN, answer: Answer \cup {Null} ]
NoRun == [ pc |-> "idle", prompt |-> Null, version |-> 0, attempt |-> Null, epoch |-> Null,
           written |-> FALSE, answer |-> Null ]
NoAttempt == [ state |-> "none", prompt |-> Null, epoch |-> Null ]

TypeOK ==
  /\ LedgerTypeOK
  /\ att \in [Attempt -> [state: AttemptState \cup {"none"}, prompt: Prompt \cup {Null},
                          epoch: Epoch \cup {Null}]]
  /\ order \in Seq(Attempt) /\ ToSet(order) = {a \in Attempt : att[a].state # "none"}
  /\ history \in [Prompt -> Seq(Attempt)]
  /\ retry \in [Task -> Attempt \cup {Null}] /\ version \in [Task -> 0 .. MaxVersion]
  /\ run \in [Run -> RunRow]
  /\ recovery.pc \in {"read", "probe", "apply", "done"}
  /\ notice \in [Attempt -> {"none", "sent", "marked"}]
  /\ page \in [epoch: Epoch, pending: Attempt \cup {Null}, baseline: Nat, inbox: SUBSET Attempt,
               sending: SUBSET Attempt, delivered: SUBSET Attempt, replies: Nat]
  /\ started \subseteq clicked /\ clicked \subseteq Attempt /\ asked \subseteq Attempt

NoRecovery == [pc |-> "done", seen |-> [a \in Attempt |-> "none"], pending |-> Null,
               delivered |-> {}, epoch |-> Null]

Init ==
  /\ host = [s \in Slot |-> IF s = S THEN [NoHost EXCEPT !.tab = T] ELSE NoHost]
  /\ op = [o \in OpId |-> NoOp]
  /\ att = [a \in Attempt |-> NoAttempt] /\ order = <<>> /\ history = [p \in Prompt |-> <<>>]
  /\ retry = [t \in Task |-> Null] /\ version = [t \in Task |-> 0]
  /\ run = [r \in Run |-> NoRun] /\ recovery = NoRecovery
  /\ notice = [a \in Attempt |-> "none"]
  /\ page = [epoch |-> 1, pending |-> Null, baseline |-> 0, inbox |-> {}, sending |-> {},
             delivered |-> {}, replies |-> 0]
  /\ clicked = {} /\ started = {} /\ asked = {}

-----------------------------------------------------------------------------
(* Attempt records *)

\* ALLOWED
Allowed ==
  [ state \in AttemptState \cup {"none"} |->
      CASE state = "prepared"     -> {"dispatched", "failed"}
        [] state = "dispatched"   -> {"acknowledged", "reply-observed", "failed", "uncertain"}
        [] state = "acknowledged" -> {"reply-observed", "failed", "uncertain"}
        [] state = "uncertain"    -> {"reply-observed"}
        [] OTHER                  -> {} ]

\* advanceAttempt: a transition that is not allowed leaves the record as it is.
Advanced(a, next) ==
  IF next \in Allowed[att[a].state] THEN [att EXCEPT ![a].state = next] ELSE att

\* transitionAttempt as a call with the given fate
Transition(a, next, fate) ==
  /\ att' = IF fate = "dropped" THEN att ELSE Advanced(a, next)
  /\ UNCHANGED <<order, history, retry, version>>

Generating == Cardinality(started) > page.replies

LastState(s) == IF s = <<>> THEN "none" ELSE att[Last(s)].state

-----------------------------------------------------------------------------
(* Planning (worker).  A plan is made from a snapshot of the work document and *)
(* acted on later. *)

Awake == EarlyDispatch \/ recovery.pc = "done"

\* deriveManagedTasks gives status "ready": not attempted yet, or a retry was asked for
TaskReady(t) ==
  history[t] # <<>> => /\ retry[t] = Last(history[t])
                       /\ LastState(history[t]) \in {"failed", "uncertain"}

\* attemptAllowsDispatch, on the tab's latest attempt
TabAllows(t) ==
  /\ LastState(order) \notin InFlightState
  /\ LastState(order) = "uncertain" => retry[t] = Last(order)

\* planMessageDispatch: no delivery of it is under way, done or in doubt, and the tab
\* has no unresolved attempt
MessageOpen(m) ==
  /\ \A i \in DOMAIN history[m] : att[history[m][i]].state \in {"prepared", "failed"}
  /\ LastState(order) \notin InFlightState \cup {"uncertain"}

\* runReadyTasks, dispatchMessage
Plan(r, p) ==
  /\ run[r].pc = "idle" /\ Awake /\ ~Generating
  /\ p \in Task => TaskReady(p) /\ TabAllows(p)
  /\ p \in Message => MessageOpen(p)
  /\ run' = [run EXCEPT ![r] = [NoRun EXCEPT !.pc = "planned", !.prompt = p,
                                  !.version = IF p \in Task THEN version[p] ELSE 0]]
  /\ UNCHANGED <<host, op, documentVars, recovery, notice, page, serviceVars, asked>>

\* inFlightTaskRevisions
InFlightRevision(t, v) ==
  \E r \in Run : run[r].pc \notin {"idle", "planned"} /\ run[r].prompt = t /\ run[r].version = v

\* dispatchReadyManagedTasks reaches the planned task (or a message goes straight to
\* the tab's queue): it is dropped if the same task revision is in flight.
Enqueue(r) ==
  /\ run[r].pc = "planned"
  /\ run' = [run EXCEPT ![r] =
       IF run[r].prompt \in Task /\ InFlightRevision(run[r].prompt, run[r].version)
       THEN NoRun ELSE [@ EXCEPT !.pc = "queued"]]
  /\ UNCHANGED <<host, op, documentVars, recovery, notice, page, serviceVars, asked>>

-----------------------------------------------------------------------------
(* dispatchToTabOnce (worker), one at a time per tab *)

LaneFree == \A r \in Run : run[r].pc \notin Step

Goes(r, pc) == run' = [run EXCEPT ![r].pc = pc]
Ends(r)     == run' = [run EXCEPT ![r] = NoRun]
OnAnswer(r, fate, pc) == Goes(r, IF fate = "done" THEN pc ELSE "caught")

KernelUnchanged == UNCHANGED <<host, op>>
Elsewhere == UNCHANGED <<recovery, notice, page, serviceVars, asked>>

\* The page's runtime is reported to the Kernel.
Reports ==
  /\ host' = [host EXCEPT ![S] = [@ EXCEPT !.epoch = page.epoch,
                                    !.quarantined = QuarantinedAfter(S, page.epoch)]]
  /\ op' = OpsAfter(S, page.epoch)

\* recoveryStateForTab and reportSlotRuntime; the page may look busy for other reasons
\* than an answer being generated.
Observe(r, pc) ==
  /\ run[r].pc = "queued" /\ LaneFree
  /\ pc \in {"observed", "refusing"} /\ (Generating => pc = "refusing")
  /\ Reports
  /\ run' = [run EXCEPT ![r] = [@ EXCEPT !.pc = pc, !.epoch = page.epoch]]
  /\ UNCHANGED documentVars /\ Elsewhere

\* The page or the Kernel cannot be reached, or the governor defers the dispatch.
GiveUp(r) ==
  /\ run[r].pc \in {"queued", "observed"}
  /\ run[r].pc = "queued" => LaneFree
  /\ Ends(r)
  /\ KernelUnchanged /\ UNCHANGED documentVars /\ Elsewhere

\* Slip: the ledger is not looked at again when the attempt is recorded.
MayPrepareUnchecked(p) == TRUE

\* assertMessageDeliveryAvailable, inside the mutation that adds the attempt
MayPrepare(p) ==
  p \in Message => \A i \in DOMAIN history[p] : att[history[p][i]].state = "failed"

Fresh == CHOOSE a \in Attempt : att[a].state = "none"

\* prepareAttempt.  If it throws, no attempt is held and the dispatch just ends.
Prepare(r, fate) ==
  LET p == run[r].prompt IN
  /\ run[r].pc \in {"observed", "refusing"}
  /\ \E a \in Attempt : att[a].state = "none"
  /\ p \in Task => version[p] < MaxVersion
  /\ IF MayPrepare(p) /\ fate # "dropped"
     THEN /\ att' = [att EXCEPT ![Fresh] = [state |-> "prepared", prompt |-> p, epoch |-> run[r].epoch]]
          /\ order' = Append(order, Fresh)
          /\ history' = [history EXCEPT ![p] = Append(@, Fresh)]
          /\ version' = [t \in Task |-> IF t = p THEN version[t] + 1 ELSE version[t]]
     ELSE UNCHANGED <<att, order, history, version>>
  /\ run' = [run EXCEPT ![r] =
       IF MayPrepare(p) /\ fate = "done"
       THEN [@ EXCEPT !.attempt = Fresh, !.pc = IF run[r].pc = "refusing" THEN "refused" ELSE "prepared"]
       ELSE NoRun]
  /\ UNCHANGED retry /\ KernelUnchanged /\ Elsewhere

\* The page is not idle: the attempt is recorded as failed and nothing is sent.
RecordRefusal(r, fate) ==
  /\ run[r].pc = "refused"
  /\ Transition(run[r].attempt, "failed", fate)
  /\ IF fate = "done" THEN Ends(r) ELSE Goes(r, "caught")
  /\ KernelUnchanged /\ Elsewhere

\* planNativeBrowserOperation
PlanOp(r, fate) ==
  LET a == run[r].attempt  e == run[r].epoch IN
  /\ run[r].pc = "prepared"
  /\ IF fate # "dropped" /\ Plannable(S, T, e) THEN PlanOperation(a, S, T, e) ELSE KernelUnchanged
  /\ Goes(r, IF fate = "done" /\ Plannable(S, T, e) THEN "planned-op" ELSE "caught")
  /\ UNCHANGED documentVars /\ Elsewhere

\* transitionAttempt(record, 'dispatched'): whether the record took it is not looked at.
Mark(r, fate) ==
  /\ run[r].pc = "planned-op"
  /\ Transition(run[r].attempt, "dispatched", fate)
  /\ OnAnswer(r, fate, "marked")
  /\ KernelUnchanged /\ Elsewhere

\* dispatchNativeBrowserOperation: an operation settled or dispatched before is returned.
DispatchOp(r, fate) ==
  LET a == run[r].attempt IN
  /\ run[r].pc = "marked"
  /\ IF fate # "dropped" /\ op[a].state = "planned" THEN DispatchOperation(a) ELSE KernelUnchanged
  /\ Goes(r, IF fate = "done" /\ (op[a].state = "planned" => Current(a))
             THEN "dispatched-op" ELSE "caught")
  /\ UNCHANGED documentVars /\ Elsewhere

\* chrome.tabs.sendMessage: from here on the write may have happened.
Send(r) ==
  /\ run[r].pc = "dispatched-op"
  /\ run' = [run EXCEPT ![r].pc = "sent", ![r].written = TRUE]
  /\ page' = [page EXCEPT !.inbox = @ \cup {run[r].attempt}]
  /\ KernelUnchanged /\ UNCHANGED <<documentVars, recovery, notice, serviceVars, asked>>

\* Slip: whatever is not an acceptance did not happen.
RecordedAsFailed(answer) == IF answer = "ok" THEN "acknowledged" ELSE "failed"

\* The attempt is advanced on the page's answer.
Recorded(answer) ==
  CASE answer = "ok" -> "acknowledged"
    [] answer = "proved-not-started" -> "failed"
    [] OTHER -> "uncertain"

Record(r, fate) ==
  /\ run[r].pc = "answered"
  /\ Transition(run[r].attempt, Recorded(run[r].answer), fate)
  /\ OnAnswer(r, fate, "recorded")
  /\ KernelUnchanged /\ Elsewhere

\* settleNativeBrowserOperation, if the ledger accepts the outcome
SettledWith(a, outcome, fate) ==
  IF fate # "dropped" /\ Settleable(a, outcome) THEN SettleOperation(a, outcome) ELSE KernelUnchanged

\* The operation is settled likewise.  Only a settlement "acknowledged" that fails is
\* noticed: the attempt is then recorded as uncertain.
Settle(r, fate) ==
  LET a == run[r].attempt  outcome == Recorded(run[r].answer) IN
  /\ run[r].pc = "recorded"
  /\ SettledWith(a, outcome, fate)
  /\ IF outcome = "acknowledged" /\ (fate # "done" \/ ~(Settleable(a, outcome) \/ op[a].outcome = outcome))
     THEN Goes(r, "caught") ELSE Ends(r)
  /\ UNCHANGED documentVars /\ Elsewhere

\* Slip: physicalWriteRequested is forgotten.
CaughtAsFailed(r) == "failed"

\* The catch of dispatchToTabOnce ignores what becomes of its own two calls.
Caught(r) == IF run[r].written THEN "uncertain" ELSE "failed"

CatchRecord(r, fate) ==
  /\ run[r].pc = "caught"
  /\ Transition(run[r].attempt, Caught(r), fate)
  /\ Goes(r, "judged")
  /\ KernelUnchanged /\ Elsewhere

CatchSettle(r, fate) ==
  /\ run[r].pc = "judged"
  /\ SettledWith(run[r].attempt, Caught(r), fate)
  /\ Ends(r)
  /\ UNCHANGED documentVars /\ Elsewhere

-----------------------------------------------------------------------------
(* The page (content.ts, sendPrompt) and the chat service *)

\* The answer reaches the worker if the run that asked still exists.
Respond(as, answer) ==
  run' = [r \in Run |-> IF run[r].pc = "sent" /\ run[r].attempt \in as
                        THEN [run[r] EXCEPT !.pc = "answered", !.answer = answer] ELSE run[r]]

PageOnly == KernelUnchanged /\ UNCHANGED <<documentVars, recovery, notice, asked>>

\* content:send is lost with the page it was sent to.
SendLost(a) ==
  /\ a \in page.inbox
  /\ page' = [page EXCEPT !.inbox = @ \ {a}]
  /\ Respond({a}, "uncertain")
  /\ PageOnly /\ UNCHANGED serviceVars

\* content:send is refused by another runtime, or by one that awaits another reply.
PageRefusesSend(a) ==
  /\ a \in page.inbox
  /\ att[a].epoch # page.epoch \/ page.pending \notin {Null, a}
  /\ page' = [page EXCEPT !.inbox = @ \ {a}]
  /\ Respond({a}, "uncertain")
  /\ PageOnly /\ UNCHANGED serviceVars

\* content:send begins: the pending prompt is noted with the number of replies so far.
PageReceives(a) ==
  /\ a \in page.inbox /\ att[a].epoch = page.epoch /\ page.pending \in {Null, a}
  /\ page' = [page EXCEPT !.inbox = @ \ {a}, !.sending = @ \cup {a}, !.pending = a,
                          !.baseline = page.replies]
  /\ PageOnly /\ UNCHANGED <<run, serviceVars>>

\* sendPrompt clicks the send button.
PageClicks(a) ==
  /\ a \in page.sending \ clicked /\ ~Generating
  /\ clicked' = clicked \cup {a}
  /\ PageOnly /\ UNCHANGED <<run, page, started>>

\* sendPrompt throws.  Before the click it proves that nothing was sent, after it only
\* that nothing confirmed it.  clearPendingPrompt either way.
PageFails(a) ==
  /\ a \in page.sending
  /\ page' = [page EXCEPT !.sending = @ \ {a}, !.pending = IF @ = a THEN Null ELSE @]
  /\ Respond({a}, IF a \in clicked THEN "uncertain" ELSE "proved-not-started")
  /\ PageOnly /\ UNCHANGED serviceVars

\* sendPrompt sees the submission accepted: rememberDelivered.
PageConfirms(a) ==
  /\ a \in page.sending \cap clicked
  /\ page' = [page EXCEPT !.sending = @ \ {a}, !.delivered = @ \cup {a}]
  /\ Respond({a}, "ok")
  /\ PageOnly /\ UNCHANGED serviceVars

\* The page is loaded again: a new content epoch; delivered ids survive in sessionStorage.
PageReload ==
  /\ page.epoch < MaxEpoch
  /\ page' = [page EXCEPT !.epoch = @ + 1, !.pending = Null, !.baseline = 0, !.sending = {}]
  /\ Respond(page.sending, "uncertain")
  /\ PageOnly /\ UNCHANGED serviceVars

\* content:changed
PageReports ==
  /\ Reports
  /\ UNCHANGED <<documentVars, run, recovery, notice, page, serviceVars, asked>>

\* The service begins to answer a submitted prompt, perhaps late ...
GenerationStarts(a) ==
  /\ a \in clicked \ started
  /\ started' = started \cup {a}
  /\ PageOnly /\ UNCHANGED <<run, page, clicked>>

\* ... and the answer is complete.
Reply ==
  /\ Generating
  /\ page' = [page EXCEPT !.replies = @ + 1]
  /\ PageOnly /\ UNCHANGED <<run, serviceVars>>

\* reportReplyIfReady and the runtime report it begins with in the worker
NoticeSent(a) ==
  /\ page.pending = a /\ notice[a] = "none" /\ ~Generating /\ page.replies > page.baseline
  /\ Reports
  /\ notice' = [notice EXCEPT ![a] = "sent"]
  /\ UNCHANGED <<documentVars, run, recovery, page, serviceVars, asked>>

\* markReplyObserved
NoticeMark(a, fate) ==
  /\ notice[a] = "sent"
  /\ Transition(a, "reply-observed", fate)
  /\ notice' = [notice EXCEPT ![a] =
       IF fate = "done" /\ Advanced(a, "reply-observed")[a].state = "reply-observed"
       THEN "marked" ELSE "none"]
  /\ KernelUnchanged /\ UNCHANGED <<run, recovery, page, serviceVars, asked>>

\* ... settles the operation and, if the page hears of it, the prompt is pending no more.
NoticeSettle(a, fate, heard) ==
  /\ notice[a] = "marked"
  /\ SettledWith(a, "reply-observed", fate)
  /\ notice' = [notice EXCEPT ![a] = "none"]
  /\ page' = [page EXCEPT !.pending = IF heard /\ @ = a THEN Null ELSE @]
  /\ UNCHANGED <<documentVars, run, recovery, serviceVars, asked>>

-----------------------------------------------------------------------------
(* Retries and restarts *)

\* requestTaskRetry
RequestRetry(t) ==
  /\ LastState(history[t]) \in {"failed", "uncertain"} /\ version[t] < MaxVersion
  /\ retry' = [retry EXCEPT ![t] = Last(history[t])]
  /\ version' = [version EXCEPT ![t] = @ + 1]
  /\ asked' = asked \cup {Last(history[t])}
  /\ UNCHANGED <<host, op, att, order, history, run, recovery, notice, page, serviceVars>>

\* The service worker is stopped and started again.
Restart ==
  /\ run' = [r \in Run |-> NoRun]
  /\ notice' = [a \in Attempt |-> "none"]
  /\ recovery' = [NoRecovery EXCEPT !.pc = "read"]
  /\ UNCHANGED <<host, op, documentVars, page, serviceVars, asked>>

RecoveryOnly == UNCHANGED <<host, op, run, notice, page, serviceVars, asked>>

\* Slip: attempts that were only prepared are nothing to recover.
CandidateIfDispatched(a) == att[a].state \in InFlightState \ {"prepared"}

\* restartRecoveryCandidates
Candidate(a) == att[a].state \in InFlightState

RecoveryRead ==
  /\ recovery.pc = "read"
  /\ recovery' = [recovery EXCEPT
       !.pc = IF \E a \in Attempt : Candidate(a) THEN "probe" ELSE "done",
       !.seen = [a \in Attempt |-> IF Candidate(a) THEN att[a].state ELSE "none"]]
  /\ UNCHANGED documentVars /\ RecoveryOnly

\* recoveryStateForTab: what the page remembers, or nothing of use
RecoveryProbe(heard) ==
  /\ recovery.pc = "probe"
  /\ recovery' = IF heard THEN [recovery EXCEPT !.pc = "apply", !.pending = page.pending,
                                  !.delivered = page.delivered, !.epoch = page.epoch]
                 ELSE [recovery EXCEPT !.pc = "apply"]
  /\ UNCHANGED documentVars /\ RecoveryOnly

\* recoverAttempt, for a record that is still as it was read; "fresh": the pending
\* prompt began less than SEND_STALE_MS ago.
RecoveredState(a, fresh) ==
  LET pending == recovery.pending = a  delivered == a \in recovery.delivered IN
  IF att[a].state # recovery.seen[a] \/ ~Candidate(a) THEN att[a].state
  ELSE IF att[a].state = "prepared" THEN "failed"
  ELSE IF att[a].epoch # recovery.epoch THEN "uncertain"
  ELSE IF pending /\ delivered THEN "acknowledged"
  ELSE IF pending /\ att[a].state = "dispatched" /\ fresh THEN "dispatched"
  ELSE "uncertain"

Stays(fresh) == {a \in Attempt : RecoveredState(a, fresh) = att[a].state}
Earlier(a, b) == \E i, j \in DOMAIN order : i < j /\ order[i] = a /\ order[j] = b

\* Slip: the records that change are taken out and not put back.
ReorderedWithout(fresh) ==
  LET kept == ToSet(order) \cap Stays(fresh) IN
  {o \in [1 .. Cardinality(kept) -> kept] :
     ToSet(o) = kept /\ \A i, j \in DOMAIN o : i < j => Earlier(o[i], o[j])}

\* The records that change move to the end; else the order is as before.
Reordered(fresh) ==
  {o \in [DOMAIN order -> ToSet(order)] :
     /\ ToSet(o) = ToSet(order)
     /\ \A i, j \in DOMAIN order : i < j =>
          IF o[i] \in Stays(fresh) THEN o[j] \in Stays(fresh) => Earlier(o[i], o[j])
          ELSE o[j] \notin Stays(fresh) /\ Earlier(o[i], o[j])}

\* applyRestartRecovery
RecoveryApply(fresh, fate) ==
  /\ recovery.pc = "apply"
  /\ recovery' = NoRecovery
  /\ IF fate = "dropped" THEN UNCHANGED <<att, order>>
     ELSE /\ att' = [a \in Attempt |-> [att[a] EXCEPT !.state = RecoveredState(a, fresh)]]
          /\ order' \in Reordered(fresh)
  /\ UNCHANGED <<history, retry, version>> /\ RecoveryOnly

-----------------------------------------------------------------------------
RunStep(r) ==
  \/ Enqueue(r) \/ GiveUp(r) \/ Send(r)
  \/ \E pc \in {"observed", "refusing"} : Observe(r, pc)
  \/ \E fate \in Fate :
       \/ Prepare(r, fate) \/ RecordRefusal(r, fate) \/ PlanOp(r, fate) \/ Mark(r, fate)
       \/ DispatchOp(r, fate) \/ Record(r, fate) \/ Settle(r, fate)
       \/ CatchRecord(r, fate) \/ CatchSettle(r, fate)

SendStep(a) ==
  SendLost(a) \/ PageRefusesSend(a) \/ PageReceives(a) \/ PageClicks(a) \/ PageFails(a) \/ PageConfirms(a)

NoticeStep(a) ==
  \/ NoticeSent(a)
  \/ \E fate \in Fate : NoticeMark(a, fate) \/ \E heard \in BOOLEAN : NoticeSettle(a, fate, heard)

Next ==
  \/ \E r \in Run : RunStep(r) \/ \E p \in Prompt : Plan(r, p)
  \/ \E a \in Attempt : SendStep(a) \/ NoticeStep(a) \/ GenerationStarts(a)
  \/ PageReload \/ PageReports \/ Reply
  \/ \E t \in Task : RequestRetry(t)
  \/ Restart \/ RecoveryRead
  \/ \E heard \in BOOLEAN : RecoveryProbe(heard)
  \/ \E fresh \in BOOLEAN, fate \in Fate : RecoveryApply(fresh, fate)

Spec == Init /\ [][Next]_vars

\* The worker and the page run; the browser stops an idle worker and starts it again,
\* and recovery completes in some of its lives.
Fairness ==
  /\ \A r \in Run : WF_vars(RunStep(r))
  /\ \A a \in Attempt : WF_vars(SendStep(a))
  /\ WF_vars(Restart)
  /\ SF_vars(RecoveryRead) /\ SF_vars(RecoveryProbe(TRUE))
  /\ SF_vars(RecoveryApply(FALSE, "done"))

FairSpec == Spec /\ Fairness

-----------------------------------------------------------------------------
(* Properties *)

\* What the records say of an attempt
Verdict(a) ==
  CASE att[a].state \in {"none", "prepared", "dispatched"} -> "open"
    [] att[a].state = "acknowledged"   -> "delivered"
    [] att[a].state = "uncertain"      -> "unknown"
    [] att[a].state = "reply-observed" -> "replied"
    [] OTHER                           -> att[a].state

Promise == INSTANCE DeliveryPromise WITH
  owner <- [a \in Attempt |-> att[a].prompt], typed <- clicked,
  verdict <- [a \in Attempt |-> Verdict(a)]

\* With workers killed, calls lost and pages reloaded at any point, every attempt is
\* judged once and truthfully, and a prompt is attempted again only after attempts
\* known not to have been typed or looked at by a human (dispatchToTabOnce, recovery).
ImplementsPromise == Promise!PSpec

\* A team message is submitted to a conversation at most once, however many
\* dispatchers plan it and whatever they and the page live through.
MessageTypedOnce ==
  \A m \in Message, a, b \in clicked : att[a].prompt = m /\ att[b].prompt = m => a = b

\* An attempt recorded as failed was not submitted: redelivering it is no duplicate.
FailedWasNotTyped == \A a \in clicked : att[a].state # "failed"

\* The Kernel's ledger never contradicts what happened on the page: a write settled
\* acknowledged or failed was, or was not, submitted, and one settled with a reply has
\* that reply in the attempt record.
LedgerIsTruthful ==
  \A a \in Attempt : op[a].state = "settled" =>
    /\ op[a].outcome = "acknowledged"   => a \in clicked
    /\ op[a].outcome = "failed"         => a \notin clicked
    /\ op[a].outcome = "reply-observed" => att[a].state = "reply-observed"

\* A task whose delivery is in doubt is attempted again only if somebody asked for it.
UncertainIsNotResent ==
  \A t \in Task : \A i \in DOMAIN history[t] :
    att[history[t][i]].state = "uncertain" /\ i < Len(history[t]) => history[t][i] \in asked

\* No attempt stays prepared or dispatched, blocking its tab, forever.
DeliveryConverges ==
  \A a \in Attempt : att[a].state \in {"prepared", "dispatched"}
                        ~> att[a].state \notin {"prepared", "dispatched"}

=============================================================================
