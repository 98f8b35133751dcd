--------------------------- MODULE PromptGovernor ---------------------------
(***************************************************************************)
(* The pacing of prompts: the persistent governor that every dispatch asks *)
(* before it types (promptDispatchGovernor.ts), what a dispatch does with  *)
(* its permit, and the reports of pages that give capacity back            *)
(* (background.ts).                                                        *)
(*                                                                         *)
(* Each operation of the governor runs alone, one after the other; between *)
(* them the clock moves, pages change, notices are handled and the worker  *)
(* may stop, which leaves what is stored.  A page is dispatched to by one  *)
(* caller at a time, who has given back what an earlier one reserved for   *)
(* it, so reservations are a set of pages.                                 *)
(*                                                                         *)
(* Abstracted: the attempt and its ledger (PromptDelivery), malformed      *)
(* stored values, prompts typed by hand, a clock that jumps; a timer that  *)
(* is due fires before the clock moves on.  "Slip" marks a mistake that    *)
(* breaks one of the properties.                                           *)
(***************************************************************************)
EXTENDS Naturals, Sequences, FiniteSets

CONSTANTS
  Page, Project, ProjectOf,       \* managed tabs, each of one AgentSlot, and their projects
  GlobalGap, ProjectGap, SlotGap, \* the least time between two prompts
  Window, MaxInWindow,            \* the rolling budget
  MaxGenerations,                 \* how many pages may generate
  MaxInline, Jitter,              \* how long a caller is made to wait, and by how much too long
  BaseBackoff, MaxBackoff,        \* after a rate-limit signal
  StrikeReset, Retention,         \* when strikes and times are forgotten
  MaxTime, MaxStops, MaxStrikes,  \* bounds
  Null

GovernorAssumption ==
  /\ ProjectOf \in [Page -> Project] /\ Null \notin Nat
  /\ Retention \in Nat /\ {GlobalGap, ProjectGap, SlotGap, Window} \subseteq 1 .. Retention
  /\ GlobalGap <= Window
  /\ {MaxInWindow, MaxGenerations, BaseBackoff} \subseteq Nat \ {0}
  /\ {MaxInline, Jitter, MaxBackoff, StrikeReset, MaxTime, MaxStops, MaxStrikes} \subseteq Nat

ASSUME TimesFit == GovernorAssumption

\* What the provers have to be told of powers, as far as the backoff needs them.
ASSUME PowersOfTwo == \A n \in 0 .. 20 : 2 ^ n \in Nat

VARIABLES
  now,
  stored,   \* the governor's state in chrome.storage.local
  cache,    \* its copy in the worker
  held,     \* generation reservations
  ask,      \* per page: the dispatch under way
  page,     \* per page: what it shows
  notices,  \* pages whose notice that they are not generating is still being reported
  reported, \* pages whose last report to the kernel was "generating"
  granted,  \* the permits so far
  stops

governorVars == <<now, stored, cache, held, ask, page, notices, reported, granted, stops>>

NoAsk    == [at |-> "idle", active |-> 0, spent |-> 0, wake |-> 0]
NoState  == [recent |-> <<>>, project |-> [x \in Project |-> Null], slot |-> [p \in Page |-> Null],
             until |-> 0, strikes |-> 0, limit |-> Null]
Times    == 0 .. MaxTime

TypeOK ==
  /\ now \in Times /\ stops \in 0 .. MaxStops
  /\ \A s \in {stored} \cup ({cache} \ {Null}) :
       /\ s.recent \in Seq(Times) /\ Len(s.recent) <= MaxInWindow + 1
       /\ s.project \in [Project -> Times \cup {Null}] /\ s.slot \in [Page -> Times \cup {Null}]
       /\ s.until \in Nat /\ s.strikes \in 0 .. MaxStrikes /\ s.limit \in Times \cup {Null}
  /\ held \subseteq Page /\ reported \subseteq Page /\ notices \subseteq Page
  /\ \A p \in Page : /\ ask[p].at \in {"idle", "asks", "sleeps", "permitted"}
                     /\ ask[p].spent \in 0 .. MaxInline
                     /\ page[p] \in {"idle", "generating", "limited"}

Init ==
  /\ now = 0 /\ stored = NoState /\ cache = Null /\ held = {} /\ reported = {} /\ granted = <<>> /\ stops = 0
  /\ ask = [p \in Page |-> NoAsk] /\ page = [p \in Page |-> "idle"] /\ notices = {}

-----------------------------------------------------------------------------
(* The governor's state *)

\* Times are in ascending order: those out of the window are the first ones.
Recent(times, t) == LET Old == {i \in DOMAIN times : times[i] + Window < t} IN
                    SubSeq(times, Cardinality(Old) + 1, Len(times))
Kept(last, t) == [k \in DOMAIN last |-> IF last[k] # Null /\ last[k] + Retention >= t THEN last[k] ELSE Null]

\* What is out of every window is forgotten whenever the state is read.
Normal(s, t) == [s EXCEPT !.recent = Recent(@, t), !.project = Kept(@, t), !.slot = Kept(@, t)]

State == Normal(IF cache = Null THEN stored ELSE cache, now)

\* Slip: the budget counts one too many.
LatestIgnoringWindow(s, p) ==
  {x \in {s.until} : x > now}
  \cup (IF s.recent = <<>> THEN {} ELSE {s.recent[Len(s.recent)] + GlobalGap})
  \cup (IF Len(s.recent) <= MaxInWindow THEN {} ELSE {s.recent[Len(s.recent) - MaxInWindow] + Window})
  \cup (IF s.project[ProjectOf[p]] = Null THEN {} ELSE {s.project[ProjectOf[p]] + ProjectGap})
  \cup (IF s.slot[p] = Null THEN {} ELSE {s.slot[p] + SlotGap})

\* Until when each of the limits asks a prompt to wait.
Waits(s, p) ==
  {x \in {s.until} : x > now}
  \cup (IF s.recent = <<>> THEN {} ELSE {s.recent[Len(s.recent)] + GlobalGap})
  \cup (IF Len(s.recent) < MaxInWindow THEN {} ELSE {s.recent[Len(s.recent) - MaxInWindow + 1] + Window})
  \cup (IF s.project[ProjectOf[p]] = Null THEN {} ELSE {s.project[ProjectOf[p]] + ProjectGap})
  \cup (IF s.slot[p] = Null THEN {} ELSE {s.slot[p] + SlotGap})

Reserved(s, p) == [s EXCEPT !.recent = Append(@, now), !.project[ProjectOf[p]] = now, !.slot[p] = now]

Save(s) == stored' = s /\ cache' = s

\* Storing fails: what was read stays as it was.
SaveFails == cache' = State /\ UNCHANGED stored

-----------------------------------------------------------------------------
(* Dispatches *)

Ask(p, a) == ask' = [ask EXCEPT ![p] = a]

Backoff(strikes) == LET long == BaseBackoff * 2 ^ (IF strikes > 21 THEN 20 ELSE strikes - 1) IN
                    IF long > MaxBackoff THEN MaxBackoff ELSE long

\* The page shows a rate-limit signal: nothing is sent, and all wait.
RateLimited(p) ==
  LET s       == State
      strikes == IF s.limit # Null /\ now <= s.limit + StrikeReset THEN s.strikes + 1 ELSE 1
      until   == now + Backoff(strikes) IN
  /\ ask[p].at = "idle" /\ page[p] = "limited" /\ strikes <= MaxStrikes
  /\ \/ Save([s EXCEPT !.strikes = strikes, !.limit = now, !.until = IF until > @ THEN until ELSE @])
     \/ SaveFails
  /\ held' = held \ {p} /\ reported' = reported \ {p}
  /\ UNCHANGED <<now, ask, page, notices, granted, stops>>

\* The page is idle: what is reserved for it is given back, and the kernel is asked how many
\* generate.  Guarded so that who may have to wait can be seen to the end of the wait.
Dispatch(p) ==
  /\ ask[p].at = "idle" /\ page[p] = "idle" /\ now + MaxInline <= MaxTime
  /\ held' = held \ {p} /\ reported' = reported \ {p}
  /\ Ask(p, [NoAsk EXCEPT !.at = "asks", !.active = Cardinality(reported')])
  /\ UNCHANGED <<now, stored, cache, page, notices, granted, stops>>

Due(p) == ask[p].at = "asks" \/ (ask[p].at = "sleeps" /\ ask[p].wake <= now)

Full(p) == ask[p].active + Cardinality(held) >= MaxGenerations
Blocking(p) == {x \in Waits(State, p) : x > now}
Latest(p) == CHOOSE x \in Blocking(p) : \A y \in Blocking(p) : y <= x

\* The state is stored before the permit is given.
Permit(p) ==
  /\ Due(p) /\ ~Full(p) /\ Blocking(p) = {}
  /\ Save(Reserved(State, p))
  /\ held' = held \cup {p} /\ granted' = Append(granted, [at |-> now, page |-> p])
  /\ Ask(p, [NoAsk EXCEPT !.at = "permitted"])
  /\ UNCHANGED <<now, page, notices, reported, stops>>

PermitFails(p) ==
  /\ Due(p) /\ ~Full(p) /\ Blocking(p) = {}
  /\ SaveFails /\ Ask(p, NoAsk)
  /\ UNCHANGED <<now, held, page, notices, reported, granted, stops>>

\* Slip: the time already spent is not counted.
WaitAgain(p) ==
  /\ Due(p) /\ ~Full(p) /\ Blocking(p) # {} /\ Latest(p) # State.until
  /\ \E wait \in (Latest(p) - now) .. (Latest(p) - now + Jitter) :
       Ask(p, [ask[p] EXCEPT !.at = "sleeps", !.wake = now + wait])
  /\ cache' = State
  /\ UNCHANGED <<now, stored, held, page, notices, reported, granted, stops>>

\* A wait that is short enough is waited for, all others and capacity are left to a later dispatch.
Wait(p) ==
  /\ Due(p) /\ ~Full(p) /\ Blocking(p) # {} /\ Latest(p) # State.until
  /\ \E wait \in (Latest(p) - now) .. (Latest(p) - now + Jitter) :
       /\ ask[p].spent + wait <= MaxInline
       /\ Ask(p, [ask[p] EXCEPT !.at = "sleeps", !.spent = @ + wait, !.wake = now + wait])
  /\ cache' = State
  /\ UNCHANGED <<now, stored, held, page, notices, reported, granted, stops>>

Defer(p) ==
  /\ Due(p)
  /\ \/ Full(p)
     \/ Blocking(p) # {} /\ (Latest(p) = State.until \/ ask[p].spent + Latest(p) - now + Jitter > MaxInline)
  /\ cache' = State /\ Ask(p, NoAsk)
  /\ UNCHANGED <<now, stored, held, page, notices, reported, granted, stops>>

\* The prompt is typed, or is not and that is known; or it is not known, or the attempt was not
\* recorded at all, and the reservation stays.
Send(p) ==
  /\ ask[p].at = "permitted" /\ Ask(p, NoAsk)
  /\ \/ page[p] = "idle" /\ page' = [page EXCEPT ![p] = "generating"] /\ UNCHANGED held
     \/ held' = held \ {p} /\ UNCHANGED page
     \/ UNCHANGED <<page, held>>
  /\ UNCHANGED <<now, stored, cache, notices, reported, granted, stops>>

-----------------------------------------------------------------------------
(* Pages, their notices, the clock and the worker *)

PageChanges(p) ==
  /\ \/ page[p] = "generating" /\ \E x \in {"idle", "limited"} : page' = [page EXCEPT ![p] = x]
     \/ page[p] = "limited" /\ page' = [page EXCEPT ![p] = "idle"]
  /\ UNCHANGED <<now, stored, cache, held, ask, notices, reported, granted, stops>>

\* The page tells what it shows.  The kernel is told, and after that a page that was not
\* generating gives its capacity back.
Notice(p) ==
  /\ IF page[p] = "generating" THEN reported' = reported \cup {p} /\ UNCHANGED notices
                               ELSE notices' = notices \cup {p} /\ UNCHANGED reported
  /\ UNCHANGED <<now, stored, cache, held, ask, page, granted, stops>>

Report(p) ==
  /\ p \in notices /\ notices' = notices \ {p}
  /\ reported' = reported \ {p} /\ held' = held \ {p}
  /\ UNCHANGED <<now, stored, cache, ask, page, granted, stops>>

Tick ==
  /\ now < MaxTime /\ ~\E p \in Page : Due(p)
  /\ now' = now + 1
  /\ UNCHANGED <<stored, cache, held, ask, page, notices, reported, granted, stops>>

WorkerStops ==
  /\ stops < MaxStops /\ stops' = stops + 1
  /\ cache' = Null /\ held' = {} /\ ask' = [p \in Page |-> NoAsk] /\ notices' = {}
  /\ UNCHANGED <<now, stored, page, reported, granted>>

GovernorStep(p) == Permit(p) \/ PermitFails(p) \/ Wait(p) \/ Defer(p)
Next == Tick \/ WorkerStops \/ \E p \in Page : \/ GovernorStep(p)
                                              \/ Dispatch(p) \/ RateLimited(p) \/ Send(p)
                                              \/ PageChanges(p) \/ Notice(p) \/ Report(p)

\* The clock moves whatever callers do, and the lane of the governor is served.
Fairness == SF_governorVars(Tick) /\ \A p \in Page : WF_governorVars(GovernorStep(p))
Spec == Init /\ [][Next]_governorVars /\ Fairness

-----------------------------------------------------------------------------
(* Properties *)

\* Whatever fails, stops or waits: permits keep their distance, overall, in a project and to a
\* page, and no window holds more than the budget.
Paced ==
  /\ \A i, j \in 1 .. Len(granted) : i < j =>
       LET gap == granted[j].at - granted[i].at
           Same(f) == f[granted[i].page] = f[granted[j].page] IN
       /\ gap >= GlobalGap
       /\ Same(ProjectOf) => gap >= ProjectGap
       /\ Same([p \in Page |-> p]) => gap >= SlotGap
       /\ j - i >= MaxInWindow => gap >= Window

\* The worker never acts on pacing that was not stored.
CacheIsStored == cache # Null => Normal(cache, now) = Normal(stored, now)

\* The records of pacing are what they seem, every permit keeps its distances and
\* the budget, and is given on pacing that was stored.
PermitsAreSound == TypeOK /\ Paced /\ CacheIsStored

\* Nobody is permitted to send before the backoff that the last signal seen has called for is over.
BackoffHonoured ==
  [][granted' # granted /\ stored.limit # Null => now >= stored.limit + Backoff(stored.strikes)]_governorVars

\* A caller is not kept waiting: it is permitted or told to come again.
AsksAreAnswered == \A p \in Page : ask[p].at \in {"asks", "sleeps"} ~> ask[p].at \in {"idle", "permitted"}

\* No more pages generate than the capacity, as long as the worker has not been stopped.
GenerationsBounded == stops = 0 => Cardinality({p \in Page : page[p] = "generating"}) <= MaxGenerations
=============================================================================
