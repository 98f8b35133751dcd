---------------------------- MODULE WorkDocument ----------------------------
(***************************************************************************)
(* The Kernel's work document - tasks, messages and the attempts to send   *)
(* them - and everybody who writes it: the extension's mutation lane       *)
(* (backgroundWorkState.ts), its conversation rollover, which does not use *)
(* the lane (conversationRollover.ts), and the Kernel itself               *)
(* (workAuthority.ts, workAuthorityLegacy.ts).                             *)
(*                                                                         *)
(* The extension reads the whole document, decides, and sends back what    *)
(* changed with the revision it read.  On the way there are two retries:   *)
(* the extension posts a request again when the port to the native host is *)
(* lost (nativeControlPersistent.ts), and the native host writes it again  *)
(* when its pipe to gamd breaks (Program.cs).  Copies that were given up   *)
(* may still be handled, at any later time.                                *)
(*                                                                         *)
(* Abstracted: contents of tasks and messages except what links them to    *)
(* attempts; attempt states other than "open" (may still advance) and      *)
(* "closed"; the order of attempts in a list; hashes, which are the hashed *)
(* value.  "Slip" marks a mistake that breaks one of the properties.       *)
(***************************************************************************)
EXTENDS Naturals, Sequences, FiniteSets, FiniteSetsExt

CONSTANTS
  Task, Message,   \* ids of what is sent
  Attempt,         \* ids of attempts to send it
  Of,              \* the task or message an attempt is made for; Null: a prompt typed by hand
  Lane, Rollover,  \* the writes of the extension: each reads, decides and writes once
  Start,           \* documents to begin with
  Imports,         \* documents a human may import
  MaxBatch,        \* MAX_AUTOMATIC_BATCH_MUTATIONS
  MaxUnlinked,     \* MAX_UNLINKED_SEND_ATTEMPTS
  MaxTry, MaxForward, \* deliveries tried by the extension, and by the host for each of them
  MaxGen,          \* bound on restarts of the browser
  MaxLocal,        \* bound on the Kernel's own writes
  Null

Owner == Task \cup Message
Id    == Owner \cup Attempt
Call  == Lane \cup Rollover

ASSUME WorkAssumption ==
  /\ Task \cap Message = {} /\ Owner \cap Attempt = {} /\ Lane \cap Rollover = {}
  /\ Null \notin Id /\ Of \in [Attempt -> Owner \cup {Null}]
  /\ MaxBatch \in Nat /\ MaxUnlinked \in Nat \ {0}
  /\ MaxTry \in Nat \ {0} /\ MaxForward \in Nat \ {0} /\ MaxGen \in Nat \ {0} /\ MaxLocal \in Nat

VARIABLES
  rev,      \* Kernel: manager_work_meta.revision
  doc,      \* Kernel: manager_tasks, manager_messages, manager_attempts
  receipt,  \* Kernel: manager_work_mutations
  gen,      \* chrome.storage.session: nativeWorkTransport.v1
  call,     \* worker memory: reads and writes under way
  wire,     \* copies of requests that were written and may yet be handled
  log       \* history: the document after each revision, and the message it was written for

kernelVars == <<rev, doc, receipt, log>>
vars == <<kernelVars, gen, call, wire>>

-----------------------------------------------------------------------------
OwnerRow == [list: SUBSET Attempt, retry: Attempt \cup {Null}, done: BOOLEAN]
Absent   == [i \in Id |-> Null]
NewOwner == [list |-> {}, retry |-> Null, done |-> FALSE]

IsDocument(d) ==
  /\ d = [i \in Id |-> d[i]]
  /\ \A o \in Owner : d[o] = Null \/ d[o] \in OwnerRow
  /\ \A a \in Attempt : d[a] \in {"open", "closed", Null}

Form    == {"mutate", "batch", "replace"}
Refusal == {"revision", "sequence", "invalid"}
Answer  == {"ok", "error", "unavailable"} \cup Refusal

ASSUME DocumentAssumption ==
  /\ Null \notin OwnerRow /\ Null \notin {"open", "closed"} \cup Answer
  /\ \A d \in Start \cup Imports : IsDocument(d)

NoCall == [ pc |-> "idle", rev |-> 0, doc |-> Absent, msg |-> Null, want |-> Absent,
            try |-> 0, fwd |-> 0, told |-> Null, mint |-> Null, held |-> FALSE ]

\* The call has sent its request.
Sent(c) == call[c].try > 0

IsMessage(m) == /\ m.form \in Form /\ m.gen \in 1 .. MaxGen /\ m.seq \in Nat
                /\ DOMAIN m.body \subseteq Id

\* Rows are well formed, every revision has its log entry, and a receipt was given for
\* the revision its message asked for.
TypeOK ==
  /\ IsDocument(doc) /\ rev = Len(log) /\ rev \in Nat \ {0} /\ log[rev].doc = doc
  /\ \A r \in receipt : IsMessage(r.msg) /\ r.result = r.msg.seq /\ r.result <= rev
  /\ gen \in 1 .. MaxGen
  /\ \A c \in Call :
       /\ call[c].pc \in {"idle", "read", "waiting", "done", "gone"}
       /\ call[c].told \in Answer \cup {Null}
       /\ call[c].told # Null <=> call[c].pc = "done"
       /\ Sent(c) => IsMessage(call[c].msg) /\ call[c].msg.seq <= rev + 1
       /\ IsDocument(call[c].doc) /\ IsDocument(call[c].want)
  /\ wire \subseteq Call \X (1 .. MaxTry) \X (1 .. MaxForward)

Init ==
  /\ rev = 1 /\ receipt = {} /\ gen = 1 /\ wire = {}
  /\ \E d \in Start : doc = d /\ log = <<[by |-> {}, doc |-> d]>>
  /\ call = [c \in Call |-> NoCall]

-----------------------------------------------------------------------------
(* What the Kernel accepts *)

\* Attempts belong to what exists, and lists name attempts that are their owner's.
Linked(d) ==
  /\ \A a \in Attempt : d[a] # Null /\ Of[a] # Null => d[Of[a]] # Null
  /\ \A o \in Owner : d[o] # Null => \A a \in d[o].list : d[a] # Null /\ Of[a] = o

Written(m, d) == [i \in Id |-> IF i \in DOMAIN m.body THEN m.body[i] ELSE d[i]]

ASSUME StartAssumption == \A d \in Start : Linked(d)

\* Slip: a single document is not looked at.
AdmissibleIfMany(m) == m.form # "mutate" => Linked(Written(m, doc))

\* One document is checked by itself, several together with all that is there.
Admissible(m) ==
  IF m.form = "mutate"
    THEN \A a \in DOMAIN m.body \cap Attempt : Of[a] # Null => doc[Of[a]] # Null
    ELSE Linked(Written(m, doc))

Receipts(m) == {r \in receipt : r.msg = m}
Occupied(m) == \E r \in receipt : r.msg.gen = m.gen /\ r.msg.seq = m.seq

\* Slip: the revision is compared with >= .
VerdictIfNotAhead(m) ==
  IF Receipts(m) # {} THEN "ok" ELSE IF Occupied(m) THEN "sequence"
  ELSE IF m.seq > rev + 1 THEN "revision" ELSE IF ~Admissible(m) THEN "invalid" ELSE "ok"

\* Slip: the receipt is looked for after the revision was compared.
VerdictRevisionFirst(m) ==
  IF m.seq # rev + 1 THEN "revision" ELSE IF Receipts(m) # {} THEN "ok"
  ELSE IF Occupied(m) THEN "sequence" ELSE IF ~Admissible(m) THEN "invalid" ELSE "ok"

Verdict(m) ==
  IF Receipts(m) # {} THEN "ok"
  ELSE IF Occupied(m) THEN "sequence"
  ELSE IF m.seq # rev + 1 THEN "revision"
  ELSE IF ~Admissible(m) THEN "invalid" ELSE "ok"

Recorded(by, d) == /\ rev' = rev + 1 /\ doc' = d
                   /\ log' = Append(log, [by |-> by, doc |-> d])

\* upsert, batchUpsert, replace: the transaction
Handled(m) ==
  IF Verdict(m) = "ok" /\ Receipts(m) = {}
    THEN /\ Recorded({m}, Written(m, doc))
         /\ receipt' = receipt \cup {[msg |-> m, result |-> rev + 1]}
    ELSE UNCHANGED kernelVars

\* appendTask: a task of the organization's work enters once; a repeated call finds it.
AppendTask(t) ==
  /\ doc[t] = Null
  /\ Recorded({}, [doc EXCEPT ![t] = NewOwner])
  /\ UNCHANGED receipt

\* completeVerifiedClaim
CompleteVerifiedClaim(t) ==
  /\ doc[t] # Null /\ ~doc[t].done
  /\ Recorded({}, [doc EXCEPT ![t].done = TRUE])
  /\ UNCHANGED receipt

KernelWrites ==
  /\ Cardinality({i \in 2 .. Len(log) : log[i].by = {}}) < MaxLocal
  /\ \E t \in Task : AppendTask(t) \/ CompleteVerifiedClaim(t)
  /\ UNCHANGED <<gen, call, wire>>

-----------------------------------------------------------------------------
(* What the extension writes: from a document d, the next one, the request it  *)
(* is sent with and the attempt it is about *)

Loose(d) == {a \in Attempt : d[a] # Null /\ Of[a] = Null}

\* retainAttemptLedger: beyond MaxUnlinked, attempts that belong to nobody are dropped;
\* a, the last in the list, is kept.
Retained(d, a) ==
  LET excess == Cardinality(Loose(d)) - MaxUnlinked
  IN IF excess <= 0 THEN {d}
     ELSE {[i \in Id |-> IF i \in drop THEN Null ELSE d[i]] :
             drop \in kSubset(excess, Loose(d) \ {a})}

Changed(d, next) == {i \in Id : next[i] # d[i]}
Removes(d, next) == \E i \in Id : d[i] # Null /\ next[i] = Null

\* planWorkPatchMutations
PatchForm(d, next) ==
  IF Removes(d, next) \/ Cardinality(Changed(d, next)) > MaxBatch THEN "replace" ELSE "batch"

\* A document to write, of which the rows of "at" are sent
Edit(next, form, at, mint) == [next |-> next, form |-> form, at |-> at, mint |-> mint]

Replacement(next)    == Edit(next, "replace", Id, Null)
Mutation(next, a)    == Edit(next, "mutate", {a}, Null)
Patch(d, next, mint) == LET form == PatchForm(d, next)
                        IN Edit(next, form, IF form = "replace" THEN Id ELSE Changed(d, next), mint)

\* An id that no version has had and no call has made up
Fresh(a) == /\ \A i \in 1 .. Len(log) : log[i].doc[a] = Null
            /\ \A c \in Call : call[c].mint # a

\* A dispatcher in this worker's memory has the record
Held(a) == \E c \in Lane : call[c].mint = a /\ call[c].held

\* createTask, createMessage
Creations(d) == {Patch(d, [d EXCEPT ![o] = NewOwner], Null) : o \in {x \in Owner : d[x] = Null}}

\* syncWorkerRequestMessages: a message for each request, or answer, that has none
RequestMessages(d) ==
  {Patch(d, [i \in Id |-> IF i \in new THEN NewOwner ELSE d[i]], Null) :
     new \in (SUBSET {m \in Message : d[m] = Null}) \ {{}}}

\* setTaskDisposition, decideHumanTask, retryReviewLoop (two tasks), freezeMessageRecipients:
\* nothing of what they change is modelled, but they send the rows as they read them.
ContentEdits(d) ==
  LET there(kind) == {o \in kind : d[o] # Null}
  IN {Edit(d, "batch", at, Null) :
        at \in (UNION {kSubset(n, there(Task)) : n \in 1 .. 2}) \cup kSubset(1, there(Message))}

\* prepareAttempt
Preparations(d) ==
  UNION {LET linked == [i \in Id |-> IF i = a THEN "open"
                                     ELSE IF i = Of[a] THEN [d[i] EXCEPT !.list = @ \cup {a}]
                                     ELSE d[i]]
         IN {Patch(d, next, a) : next \in Retained(linked, a)} :
         a \in {x \in Attempt : Fresh(x) /\ (Of[x] # Null => d[Of[x]] # Null)}}

\* transitionAttempt, markReplyObserved: a record that is gone is written again from memory,
\* and then alone only if that drops nothing.
Transitions(d) ==
  UNION {LET closed == [d EXCEPT ![a] = "closed"]
         IN IF d[a] # Null THEN {Mutation(closed, a)}
            ELSE {IF Removes(d, next) THEN Patch(d, next, Null) ELSE Mutation(next, a) :
                    next \in Retained(closed, a)} :
         a \in {x \in Attempt : d[x] # Null \/ Held(x)}}

\* reconcileAfterRestart puts the attempt it closes last; unless it was, that is another
\* order, and a replacement.
Recoveries(d) ==
  UNION {UNION {{Replacement(next), Patch(d, next, Null)} :
                next \in Retained([d EXCEPT ![a] = "closed"], a)} :
         a \in {x \in Attempt : d[x] = "open"}}

\* requestTaskRetry
Retries(d) ==
  {Patch(d, [d EXCEPT ![Of[a]].retry = a], Null) :
     a \in {x \in Attempt : d[x] = "closed" /\ Of[x] \in Task /\ d[Of[x]].retry # x}}

\* importStateDocument
Importations(d) == {Patch(d, next, Null) : next \in Imports \ {d}}

LaneEdits(d) == Creations(d) \cup RequestMessages(d) \cup ContentEdits(d) \cup Preparations(d)
                  \cup Transitions(d) \cup Recoveries(d) \cup Retries(d) \cup Importations(d)

\* makeInterruptedAttemptRetryable
RolloverEdits(d) ==
  {Replacement([i \in Id |-> IF i = a THEN "closed"
                             ELSE IF i = Of[a] /\ i \in Task THEN [d[i] EXCEPT !.retry = a]
                             ELSE d[i]]) :
     a \in {x \in Attempt : d[x] = "open"}}

-----------------------------------------------------------------------------
(* The extension's calls *)

UnderWay(c) == call[c].pc \in {"read", "waiting"}

\* Slip: a write only waits for those that are being sent.
LaneFreeOnceRead(c) == c \in Lane => \A k \in Lane \ {c} : call[k].pc # "waiting"

\* serializeStateMutation: one at a time, from its read to its answer
LaneFree(c) == c \in Lane => \A k \in Lane \ {c} : ~UnderWay(k)

\* work.snapshot
Read(c) ==
  /\ call[c].pc = "idle" /\ LaneFree(c)
  /\ call' = [call EXCEPT ![c].pc = "read", ![c].rev = rev, ![c].doc = doc]
  /\ UNCHANGED <<kernelVars, gen, wire>>

\* There is nothing to write, or the decision or the read failed.
Decline(c) ==
  /\ call[c].pc = "read"
  /\ call' = [call EXCEPT ![c].pc = "gone"]
  /\ UNCHANGED <<kernelVars, gen, wire>>

Submit(c) ==
  /\ call[c].pc = "read"
  /\ \E e \in (IF c \in Lane THEN LaneEdits(call[c].doc) ELSE RolloverEdits(call[c].doc)) :
       call' = [call EXCEPT ![c].pc = "waiting", ![c].want = e.next, ![c].mint = e.mint,
                  ![c].try = 1, ![c].fwd = 1,
                  ![c].msg = [form |-> e.form, gen |-> gen, seq |-> call[c].rev + 1,
                              body |-> [i \in e.at |-> e.next[i]]]]
  /\ wire' = wire \cup {<<c, 1, 1>>}
  /\ UNCHANGED <<kernelVars, gen>>

\* What a caller that was told "ok" goes on with: the Kernel's snapshot, or what it sent
\* and the revision from the receipt (replaceWorkState)
Returned(c) ==
  IF call[c].msg.form = "replace" THEN [rev |-> rev', doc |-> doc']
  ELSE [rev |-> call[c].msg.seq, doc |-> call[c].want]

Answered(c, answer) ==
  [call EXCEPT ![c].pc = "done", ![c].told = answer,
     ![c].held = answer = "ok" /\ call[c].mint # Null,
     ![c].rev = IF answer = "ok" THEN Returned(c).rev ELSE @,
     ![c].doc = IF answer = "ok" THEN Returned(c).doc ELSE @]

Current(c) == <<c, call[c].try, call[c].fwd>>

\* gamd handles a copy of a request; its answer is heard if somebody still waits for
\* this copy's.
Handle(copy, heard) ==
  LET c == copy[1] IN
  /\ copy \in wire
  /\ Handled(call[c].msg)
  /\ wire' = wire \ {copy}
  /\ IF heard THEN /\ call[c].pc = "waiting" /\ copy = Current(c)
                   /\ call' = Answered(c, Verdict(call[c].msg))
              ELSE UNCHANGED call
  /\ UNCHANGED gen

\* The host's pipe to gamd breaks: PipeForwarder.Forward writes the request again, or
\* gives up, which the extension takes for an answer.
PipeBreaks(c) ==
  /\ call[c].pc = "waiting"
  /\ IF call[c].fwd < MaxForward
       THEN /\ call' = [call EXCEPT ![c].fwd = @ + 1]
            /\ wire' = wire \cup {<<c, call[c].try, call[c].fwd + 1>>}
       ELSE /\ call' = Answered(c, "error")
            /\ UNCHANGED wire
  /\ UNCHANGED <<kernelVars, gen>>

\* Slip: a lost port rejects nobody, and the call waits for a host that is gone.
PortLostSilently(c) ==
  /\ call[c].pc = "waiting"
  /\ call' = [call EXCEPT ![c].try = MaxTry, ![c].fwd = 0]
  /\ UNCHANGED <<kernelVars, gen, wire>>

\* The port to the host is lost: sendRetriedWorkRequest posts the same request to a new one.
PortLost(c) ==
  /\ call[c].pc = "waiting"
  /\ IF call[c].try < MaxTry
       THEN /\ call' = [call EXCEPT ![c].try = @ + 1, ![c].fwd = 1]
            /\ wire' = wire \cup {<<c, call[c].try + 1, 1>>}
       ELSE /\ call' = Answered(c, "unavailable")
            /\ UNCHANGED wire
  /\ UNCHANGED <<kernelVars, gen>>

\* The worker is killed, with or without the browser whose session storage it uses.
Restart ==
  /\ \E c \in Call : UnderWay(c) \/ call[c].held
  /\ call' = [c \in Call |-> [call[c] EXCEPT !.pc = IF UnderWay(c) THEN "gone" ELSE @,
                                             !.held = FALSE]]
  /\ gen' \in {gen, gen + 1} \cap (1 .. MaxGen)
  /\ UNCHANGED <<kernelVars, wire>>

Next ==
  \/ KernelWrites \/ Restart
  \/ \E c \in Call : Read(c) \/ Decline(c) \/ Submit(c) \/ PipeBreaks(c) \/ PortLost(c)
  \/ \E copy \in wire, heard \in BOOLEAN : Handle(copy, heard)

Spec == Init /\ [][Next]_vars

\* gamd answers what it is asked, and a host whose pipe broke notices: the pipe of a copy
\* that was handled without being heard is closed.
Attended(c) == \/ Handle(Current(c), TRUE)
               \/ Current(c) \notin wire /\ PipeBreaks(c)

FairSpec == Spec /\ \A c \in Call : WF_vars(Attended(c))

-----------------------------------------------------------------------------
(* Properties *)

\* Whoever writes, and whatever is delivered late or twice: attempts belong to tasks and
\* messages that exist, and lists name their owner's attempts (a document that broke this
\* would be refused from then on, workAuthority.ts applyBatch).
AttemptsAreLinked == Linked(doc)

\* The state a caller goes on with after "ok" - what it sent, or the snapshot it was
\* answered with - is what the document was at the revision it goes on with.
AnswersNameTheirVersion ==
  \A c \in Call : call[c].told = "ok" => log[call[c].rev].doc = call[c].doc

\* Writes of the lane never run into each other: one that is refused for its revision was
\* overtaken by the Kernel, by a rollover, or by a write of the lane whose answer was lost.
LaneRunsIntoOthersOnly ==
  \A c \in Lane : call[c].told \in {"revision", "sequence"} =>
    \E i \in call[c].msg.seq .. Len(log) :
      \A k \in Lane : call[k].msg \in log[i].by => call[k].told # "ok"

\* A completion recorded by the Kernel outlives every write of the extension, which never
\* mentions it: only an import takes it away.
CompletionIsKept ==
  [][\A t \in Task : doc[t] # Null /\ doc[t].done
       => (doc'[t] # Null /\ doc'[t].done) \/ doc' \in Imports]_vars

\* Attempts made for a task or a message are never dropped, whatever number of others is
\* (attemptLedger.ts): they are the evidence that a prompt was sent.
LinkedAttemptsAreKept ==
  [][\A a \in Attempt : Of[a] # Null /\ doc[a] # Null => doc'[a] # Null \/ doc' \in Imports]_vars

\* The document and what callers are told of it implement a log of versions.
Commits == INSTANCE CommitLog WITH
  Caller <- Call,
  asked <- [c \in Call |-> IF ~Sent(c) THEN {} ELSE
              {[id |-> call[c].msg, base |-> call[c].msg.seq - 1, want |-> call[c].want]}],
  told  <- [c \in Call |-> CASE call[c].told = Null -> "nothing"
                              [] call[c].told = "ok" -> "done"
                              [] call[c].told \in Refusal -> "refused"
                              [] call[c].told \in {"error", "unavailable"} -> "unknown"]
ImplementsCommitLog == Commits!CSpec

\* Every write that was sent ends: the lane does not wait for ever for an answer that
\* nobody will give.
WritesEnd == \A c \in Call : call[c].pc = "waiting" ~> call[c].pc # "waiting"
=============================================================================
