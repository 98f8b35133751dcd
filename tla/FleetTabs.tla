------------------------------ MODULE FleetTabs ------------------------------
(***************************************************************************)
(* How the extension keeps one ChatGPT page per active AgentSlot:          *)
(* reconcileAgentFleetOnce (background.ts), the plan it follows (fleet.ts),*)
(* the map of pages it writes (fleetTabRegistry.ts), the role bindings     *)
(* that make a page a slot's (bindingStore.ts, bindingRegistry.ts), and    *)
(* the Kernel's reportAgentBrowser, which every action ends in.            *)
(*                                                                         *)
(* A pass reads the Kernel, then the pages, and carries its plan out slot  *)
(* by slot; every await of an action is a step of its own, between which   *)
(* the Kernel's supervisor, the user and the pages go on, and at which the *)
(* service worker may be stopped.  Passes, and the handling of a closed    *)
(* page, take turns in the registry's lane.  A page is listed once it has  *)
(* left "loading".  A page's conversation is named by the page that began  *)
(* it, 0 before it is durable.  Rollovers are in ConversationRollover; the *)
(* wording of a binding is left out: it is the slot.                       *)
(***************************************************************************)
EXTENDS Naturals, FiniteSets

CONSTANTS
  Slot,
  MaxPages,    \* bound: pages ever opened
  MaxOrders,   \* bound: suspensions and resumptions
  MaxFaults,   \* bound: what the user, a slow page, a stopped worker or browser does
  Nobody

FleetTabsConstants == {MaxPages, MaxOrders, MaxFaults} \subseteq Nat /\ Nobody \notin Slot

PageId == 1..MaxPages

VARIABLES
  kernel,   \* agent_slots: desired state, status, browser columns, conversation
  page,     \* Chrome's tabs
  held,     \* FleetTabRegistry: slot -> tab (chrome.storage.session)
  tabOf,    \* ephemeral bindings: tab -> slot (chrome.storage.session)
  chatOf,   \* persistent bindings: conversation -> slot (chrome.storage.local)
  pass,     \* reconcileAgentFleetOnce, as far as it has run
  closed,   \* onRemoved events that wait for the lane
  orders, faults

tabVars == <<kernel, page, held, tabOf, chatOf, pass, closed, orders, faults>>

KernelRow == [want : {"active", "suspended"}, status : {"working", "suspended"},
              browser : {"absent", "opening", "open", "closing"},
              page : 0..MaxPages, late : BOOLEAN, chat : 0..MaxPages]
PageRow == [at : {"none", "loading", "shown", "gone"}, busy : BOOLEAN, chat : 0..MaxPages]
Deed == [kind : {"none", "open", "close", "report-open", "report-absent"},
         page : 0..MaxPages, chat : 0..MaxPages, adopt : BOOLEAN]
Steps == {"idle", "look", "next", "record", "bind", "opening", "adopt", "report", "unbind",
          "remove", "forget", "absent"}

TabsTypeOK ==
  /\ kernel \in [Slot -> KernelRow] /\ page \in [PageId -> PageRow]
  /\ held \in [Slot -> 0..MaxPages]
  /\ tabOf \in [PageId -> Slot \cup {Nobody}] /\ chatOf \in [PageId -> Slot \cup {Nobody}]
  /\ pass \in [at : Steps, saw : [Slot -> KernelRow], todo : [Slot -> Deed],
               slot : Slot \cup {Nobody}]
  /\ closed \subseteq PageId /\ orders \in 0..MaxOrders /\ faults \in 0..MaxFaults

NewRow == [want |-> "active", status |-> "working", browser |-> "absent", page |-> 0,
           late |-> FALSE, chat |-> 0]
NoDeed == [kind |-> "none", page |-> 0, chat |-> 0, adopt |-> FALSE]
NoPass == [at |-> "idle", saw |-> [s \in Slot |-> NewRow], todo |-> [s \in Slot |-> NoDeed],
           slot |-> Nobody]

InitTabs ==
  /\ kernel = [s \in Slot |-> NewRow]
  /\ page = [p \in PageId |-> [at |-> "none", busy |-> FALSE, chat |-> 0]]
  /\ held = [s \in Slot |-> 0]
  /\ tabOf = [p \in PageId |-> Nobody] /\ chatOf = [p \in PageId |-> Nobody]
  /\ pass = NoPass /\ closed = {} /\ orders = 0 /\ faults = 0

Live(p) == page[p].at \in {"loading", "shown"}
Listed == {p \in PageId : page[p].at = "shown"}

-----------------------------------------------------------------------------
(* Whose page it is. *)

\* bindingStore.resolve: the conversation's binding first, then the page's own.
BindingOf(p) ==
  IF page[p].chat # 0 /\ chatOf[page[p].chat] # Nobody THEN chatOf[page[p].chat] ELSE tabOf[p]

Bound(s) == {p \in Listed : BindingOf(p) = s}

\* ownedTabForAgent: the mapped page if it is bound to the slot, else the only bound one.
Owned(s) ==
  IF held[s] \in Bound(s) THEN {held[s]}
  ELSE IF Cardinality(Bound(s)) = 1 THEN Bound(s) ELSE {}

\* The page the registry, or else the Kernel, holds for the slot.
Reserved(row, s) == IF held[s] # 0 THEN held[s] ELSE row.page

\* reconciliationTabForAgent: an unbound page is taken back on the Kernel's lease alone.
PageOf(row, s) ==
  LET r == Reserved(row, s) IN
  IF Owned(s) # {} THEN Owned(s)
  ELSE IF r # 0 /\ row.page = r /\ row.browser \in {"opening", "open"}
       THEN {p \in Listed : p = r /\ BindingOf(p) = Nobody} ELSE {}

\* filterFleetTaskTabs: the pages prompts may be sent to.
TaskPages == UNION {Owned(s) : s \in {t \in Slot : kernel[t].want = "active"}}

-----------------------------------------------------------------------------
(* planFleetReconciliation *)

\* The opening reservation still holds.
WaitsForPage(row, s) == row.browser = "opening" /\ Reserved(row, s) # 0 /\ ~row.late

\* Slip: a slot whose page has vanished is only opened again from "absent".
DeedUnreported(row, s) ==
  LET P == PageOf(row, s)
      p == CHOOSE q \in P : TRUE IN
  IF P # {} THEN IF row.want = "active"
                 THEN [kind |-> "report-open", page |-> p, chat |-> page[p].chat,
                       adopt |-> BindingOf(p) # s]
                 ELSE IF ~page[p].busy THEN [NoDeed EXCEPT !.kind = "close", !.page = p]
                      ELSE NoDeed
  ELSE IF row.want = "active" /\ row.browser = "absent"
       THEN [NoDeed EXCEPT !.kind = "open", !.chat = row.chat] ELSE NoDeed

\* What the pass will do for a slot, given the row it read.
DeedFor(row, s) ==
  LET P == PageOf(row, s)
      p == CHOOSE q \in P : TRUE IN
  IF P # {} THEN IF row.want = "active"
                 THEN [kind |-> "report-open", page |-> p, chat |-> page[p].chat,
                       adopt |-> BindingOf(p) # s]
                 ELSE IF ~page[p].busy THEN [NoDeed EXCEPT !.kind = "close", !.page = p]
                      ELSE NoDeed
  ELSE IF row.want = "active" /\ WaitsForPage(row, s) THEN NoDeed
  ELSE IF row.browser # "absent" THEN [NoDeed EXCEPT !.kind = "report-absent"]
  ELSE IF row.want = "active" THEN [NoDeed EXCEPT !.kind = "open", !.chat = row.chat]
  ELSE NoDeed

\* Resolving a listed page whose conversation has become durable moves its binding.
Promoted == {p \in Listed : page[p].chat # 0 /\ chatOf[page[p].chat] = Nobody /\ tabOf[p] # Nobody}

Promote(P) ==
  /\ tabOf' = [p \in PageId |-> IF p \in P THEN Nobody ELSE tabOf[p]]
  /\ chatOf' = [c \in PageId |->
       IF \E p \in P : page[p].chat = c
       THEN tabOf[CHOOSE p \in P : page[p].chat = c] ELSE chatOf[c]]

\* readNativeControlSnapshot
ReadKernel ==
  /\ pass.at = "idle" /\ closed = {}
  /\ pass' = [NoPass EXCEPT !.at = "look", !.saw = kernel]
  /\ UNCHANGED <<kernel, page, held, tabOf, chatOf, closed, orders, faults>>

\* managedTabs, then the plan.  Unless the pages' health forbids it, slots are opened.
Plan ==
  /\ pass.at = "look"
  /\ \E held_back \in BOOLEAN :
       LET deed(s) == DeedFor(pass.saw[s], s) IN
       /\ held_back => faults < MaxFaults
       /\ faults' = IF held_back THEN faults + 1 ELSE faults
       /\ pass' = [pass EXCEPT !.at = "next",
            !.todo = [s \in Slot |-> IF held_back /\ deed(s).kind = "open"
                                     THEN NoDeed ELSE deed(s)]]
  /\ Promote(Promoted)
  /\ UNCHANGED <<kernel, page, held, closed, orders>>

-----------------------------------------------------------------------------
(* reportAgentBrowser, in the Kernel. *)

\* The report is refused, by throwing, unless
Accepted(s, state, p, c) ==
  /\ state \in {"opening", "open"} => kernel[s].want = "active"
  /\ c # 0 => /\ kernel[s].chat \in {0, c}
              /\ \A t \in Slot \ {s} : kernel[t].chat # c
  /\ state # "absent" => \A t \in Slot \ {s} : kernel[t].page # p

Reported(s, state, p, c) ==
  [kernel EXCEPT ![s].browser = state, ![s].page = IF state = "absent" THEN 0 ELSE p,
     ![s].late = FALSE, ![s].chat = IF @ = 0 THEN c ELSE @,
     ![s].status = IF kernel[s].want = "active" THEN "working"
                   ELSE IF state = "absent" THEN "suspended" ELSE @]

-----------------------------------------------------------------------------
(* Carrying the plan out.  A step that throws ends its slot's action.      *)

Mine == pass.slot
My == pass.todo[pass.slot]
Done == [pass EXCEPT !.at = "next", !.slot = Nobody, !.todo[pass.slot] = NoDeed]
Goto(step) == [pass EXCEPT !.at = step]

Report(state, p, c, next) ==
  IF Accepted(Mine, state, p, c)
  THEN kernel' = Reported(Mine, state, p, c) /\ pass' = next
  ELSE kernel' = kernel /\ pass' = Done

FirstStep(kind) ==
  CASE kind = "open" -> "record" [] kind = "close" -> "unbind"
    [] kind = "report-open" -> "adopt" [] OTHER -> "absent"

\* chrome.tabs.create: the page exists before anything says whose it is.
CreatePage(s) ==
  /\ pass.at = "next" /\ pass.todo[s].kind = "open"
  /\ \E p \in PageId :
       /\ page[p].at = "none" /\ \A q \in 1..(p - 1) : page[q].at # "none"
       /\ page' = [page EXCEPT ![p] = [at |-> "loading", busy |-> FALSE,
                                       chat |-> pass.todo[s].chat]]
       /\ pass' = [pass EXCEPT !.at = FirstStep("open"), !.slot = s, !.todo[s].page = p]
  /\ UNCHANGED <<kernel, held, tabOf, chatOf, closed, orders, faults>>

RecordPage ==
  /\ pass.at = "record" /\ held' = [held EXCEPT ![Mine] = My.page] /\ pass' = Goto("bind")
  /\ UNCHANGED <<kernel, page, tabOf, chatOf, closed, orders, faults>>

\* bindingStore.update: by conversation when there is one, by tab otherwise.
UpdateBinding(p, c, s) ==
  /\ tabOf' = [tabOf EXCEPT ![p] = IF c = 0 THEN s ELSE Nobody]
  /\ chatOf' = [d \in PageId |-> IF d = c THEN s ELSE chatOf[d]]

\* bindingStore.clear, of a conversation and a tab.
ClearBinding(p, c) ==
  /\ tabOf' = [tabOf EXCEPT ![p] = Nobody]
  /\ chatOf' = [d \in PageId |-> IF d = c THEN Nobody ELSE chatOf[d]]

BindPage ==
  /\ pass.at = "bind" /\ UpdateBinding(My.page, My.chat, Mine) /\ pass' = Goto("opening")
  /\ UNCHANGED <<kernel, page, held, closed, orders, faults>>

ReportOpening ==
  /\ pass.at = "opening" /\ Report("opening", My.page, 0, Done)
  /\ UNCHANGED <<page, held, tabOf, chatOf, closed, orders, faults>>

\* report-open
HoldPage(s) ==
  /\ pass.at = "next" /\ pass.todo[s].kind = "report-open"
  /\ held' = [held EXCEPT ![s] = pass.todo[s].page]
  /\ pass' = [pass EXCEPT !.at = FirstStep("report-open"), !.slot = s]
  /\ UNCHANGED <<kernel, page, tabOf, chatOf, closed, orders, faults>>

AdoptPage ==
  /\ pass.at = "adopt"
  /\ IF My.adopt THEN UpdateBinding(My.page, My.chat, Mine) ELSE UNCHANGED <<tabOf, chatOf>>
  /\ pass' = Goto("report")
  /\ UNCHANGED <<kernel, page, held, closed, orders, faults>>

ReportOpen ==
  /\ pass.at = "report" /\ Report("open", My.page, My.chat, Done)
  /\ UNCHANGED <<page, held, tabOf, chatOf, closed, orders, faults>>

\* close
ReportClosing(s) ==
  /\ pass.at = "next" /\ pass.todo[s].kind = "close"
  /\ IF Accepted(s, "closing", pass.todo[s].page, 0)
     THEN /\ kernel' = Reported(s, "closing", pass.todo[s].page, 0)
          /\ pass' = [pass EXCEPT !.at = FirstStep("close"), !.slot = s]
     ELSE kernel' = kernel /\ pass' = [pass EXCEPT !.todo[s] = NoDeed]
  /\ UNCHANGED <<page, held, tabOf, chatOf, closed, orders, faults>>

UnbindPage ==
  /\ pass.at = "unbind" /\ ClearBinding(My.page, pass.saw[Mine].chat) /\ pass' = Goto("remove")
  /\ UNCHANGED <<kernel, page, held, closed, orders, faults>>

Gone(p) == page' = [page EXCEPT ![p].at = "gone", ![p].busy = FALSE]

\* chrome.tabs.remove; that the page is gone already is only an incident.
RemovePage ==
  /\ pass.at = "remove" /\ Gone(My.page) /\ pass' = Goto("forget")
  /\ closed' = IF Live(My.page) THEN closed \cup {My.page} ELSE closed
  /\ UNCHANGED <<kernel, held, tabOf, chatOf, orders, faults>>

ForgetPage ==
  /\ pass.at = "forget" /\ held' = [held EXCEPT ![Mine] = 0] /\ pass' = Goto("absent")
  /\ UNCHANGED <<kernel, page, tabOf, chatOf, closed, orders, faults>>

\* report-absent, and the end of close
ForgetLost(s) ==
  /\ pass.at = "next" /\ pass.todo[s].kind = "report-absent"
  /\ held' = [held EXCEPT ![s] = 0]
  /\ pass' = [pass EXCEPT !.at = FirstStep("report-absent"), !.slot = s]
  /\ UNCHANGED <<kernel, page, tabOf, chatOf, closed, orders, faults>>

ReportAbsent ==
  /\ pass.at = "absent" /\ Report("absent", 0, 0, Done)
  /\ UNCHANGED <<page, held, tabOf, chatOf, closed, orders, faults>>

EndPass ==
  /\ pass.at = "next" /\ \A s \in Slot : pass.todo[s].kind = "none"
  /\ pass' = NoPass
  /\ UNCHANGED <<kernel, page, held, tabOf, chatOf, closed, orders, faults>>

\* chrome.tabs.onRemoved, when its turn in the lane comes.
HandleClosed(p) ==
  /\ p \in closed /\ pass.at = "idle" /\ closed' = closed \ {p}
  /\ tabOf' = [tabOf EXCEPT ![p] = Nobody]
  /\ held' = [s \in Slot |-> IF held[s] = p THEN 0 ELSE held[s]]
  /\ UNCHANGED <<kernel, page, chatOf, pass, orders, faults>>

PassStep ==
  \/ Plan \/ RecordPage \/ BindPage \/ ReportOpening \/ AdoptPage \/ ReportOpen
  \/ UnbindPage \/ RemovePage \/ ForgetPage \/ ReportAbsent \/ EndPass
  \/ \E s \in Slot : CreatePage(s) \/ HoldPage(s) \/ ReportClosing(s) \/ ForgetLost(s)

-----------------------------------------------------------------------------
(* The rest of the world. *)

Loads(p) ==
  /\ page[p].at = "loading" /\ page' = [page EXCEPT ![p].at = "shown"]
  /\ UNCHANGED <<kernel, held, tabOf, chatOf, pass, closed, orders, faults>>

\* A prompt is sent to a slot's page; the answer makes its conversation durable.
Prompted(p) ==
  /\ p \in TaskPages /\ ~page[p].busy
  /\ page' = [page EXCEPT ![p].busy = TRUE]
  /\ UNCHANGED <<kernel, held, tabOf, chatOf, pass, closed, orders, faults>>

\* content:changed resolves the binding of the page it comes from.
Settles(p) ==
  /\ page[p].busy
  /\ page' = [page EXCEPT ![p].busy = FALSE, ![p].chat = IF @ = 0 THEN p ELSE @]
  /\ LET c == page'[p].chat IN
     IF chatOf[c] = Nobody /\ tabOf[p] # Nobody
     THEN tabOf' = [tabOf EXCEPT ![p] = Nobody] /\ chatOf' = [chatOf EXCEPT ![c] = tabOf[p]]
     ELSE UNCHANGED <<tabOf, chatOf>>
  /\ UNCHANGED <<kernel, held, pass, closed, orders, faults>>

\* suspendAgentSlot and resumeAgentSlot
Suspend(s) ==
  /\ kernel[s].want = "active" /\ orders < MaxOrders /\ orders' = orders + 1
  /\ kernel' = [kernel EXCEPT ![s].want = "suspended",
                  ![s].status = IF kernel[s].browser = "absent" THEN "suspended" ELSE @]
  /\ UNCHANGED <<page, held, tabOf, chatOf, pass, closed, faults>>

Resume(s) ==
  /\ kernel[s].want = "suspended" /\ orders < MaxOrders /\ orders' = orders + 1
  /\ kernel' = [kernel EXCEPT ![s].want = "active", ![s].status = "working"]
  /\ UNCHANGED <<page, held, tabOf, chatOf, pass, closed, faults>>

\* The opening grace runs out; before the page is there, that is a fault.
GraceEnds(s) ==
  LET slow == kernel[s].page \in PageId /\ page[kernel[s].page].at = "loading" IN
  /\ kernel[s].browser = "opening" /\ ~kernel[s].late
  /\ slow => faults < MaxFaults
  /\ faults' = IF slow THEN faults + 1 ELSE faults
  /\ kernel' = [kernel EXCEPT ![s].late = TRUE]
  /\ UNCHANGED <<page, held, tabOf, chatOf, pass, closed, orders>>

Fault == faults < MaxFaults /\ faults' = faults + 1

UserCloses(p) ==
  /\ Fault /\ Live(p) /\ Gone(p) /\ closed' = closed \cup {p}
  /\ UNCHANGED <<kernel, held, tabOf, chatOf, pass, orders>>

\* The user shows a slot's conversation in a page that was another's, or nobody's.
UserGoesTo(p, c) ==
  /\ Fault /\ p \in Listed /\ ~page[p].busy /\ c # page[p].chat /\ chatOf[c] # Nobody
  /\ page' = [page EXCEPT ![p].chat = c]
  /\ UNCHANGED <<kernel, held, tabOf, chatOf, pass, closed, orders>>

\* The service worker is stopped: what it had read, and events it had taken up, are lost.
WorkerStops ==
  /\ Fault /\ pass' = NoPass /\ closed' = {}
  /\ pass.at # "idle" \/ closed # {}
  /\ UNCHANGED <<kernel, page, held, tabOf, chatOf, orders>>

\* Chrome is started anew: its pages and its session storage are gone.
BrowserRestarts ==
  /\ Fault /\ pass' = NoPass /\ closed' = {}
  /\ page' = [p \in PageId |-> IF Live(p) THEN [page[p] EXCEPT !.at = "gone", !.busy = FALSE]
                             ELSE page[p]]
  /\ held' = [s \in Slot |-> 0] /\ tabOf' = [p \in PageId |-> Nobody]
  /\ UNCHANGED <<kernel, chatOf, orders>>

World ==
  \/ \E p \in PageId : Loads(p) \/ Prompted(p) \/ Settles(p) \/ UserCloses(p)
                     \/ \E c \in PageId : UserGoesTo(p, c)
  \/ \E s \in Slot : Suspend(s) \/ Resume(s) \/ GraceEnds(s)
  \/ WorkerStops \/ BrowserRestarts

TabsNext == ReadKernel \/ PassStep \/ (\E p \in PageId : HandleClosed(p)) \/ World

\* The alarm begins a pass again and again; pages load, answers end, time passes.
TabsFairness ==
  /\ WF_tabVars(ReadKernel) /\ WF_tabVars(PassStep)
  /\ \A p \in PageId : /\ WF_tabVars(HandleClosed(p))
                     /\ WF_tabVars(Loads(p)) /\ WF_tabVars(Settles(p))
  /\ \A s \in Slot : WF_tabVars(GraceEnds(s) /\ faults' = faults)

TabsSpec == InitTabs /\ [][TabsNext]_tabVars /\ TabsFairness

-----------------------------------------------------------------------------
(* Properties *)

\* The Kernel has a page for every slot that is not absent, and no page and no conversation for two.
PagesAreOfOneSlot ==
  /\ \A s \in Slot : kernel[s].page = 0 <=> kernel[s].browser = "absent"
  /\ \A s, t \in Slot : s # t => /\ kernel[s].page # kernel[t].page \/ kernel[s].page = 0
                                 /\ kernel[s].chat # kernel[t].chat \/ kernel[s].chat = 0

\* The extension closes no page, and forgets the binding of no conversation, but that of a slot
\* which the Kernel has been told is closing it, whatever became of the slot, the page and the
\* worker since the pass was planned.
ClosesAsReported ==
  [][faults' = faults =>
       /\ \A p \in PageId : Live(p) /\ ~Live(p)' =>
            \E s \in Slot : kernel[s].browser = "closing" /\ kernel[s].page = p
       /\ \A c \in PageId : chatOf[c] # Nobody /\ chatOf'[c] = Nobody =>
            \E s \in Slot : kernel[s].browser = "closing" /\ kernel[s].chat = c]_tabVars

\* No slot has two pages.
OnePagePerSlot ==
  \A p, q \in PageId : Live(p) /\ Live(q) /\ BindingOf(p) # Nobody /\ BindingOf(p) = BindingOf(q)
                     => p = q

Served(s) ==
  kernel[s].browser = "open" /\ kernel[s].page # 0 /\ Live(kernel[s].page)
  /\ BindingOf(kernel[s].page) = s

\* A slot that stays active comes to have a page that is open, bound to it and
\* known to the Kernel, and keeps it, whatever fault fell on whatever step,
\* unless it has come to have a second page.
ActiveSlotIsServed ==
  []OnePagePerSlot => \A s \in Slot : <>[](kernel[s].want = "active") => <>[]Served(s)

\* A slot that stays suspended comes to be stopped in the Kernel with no page
\* left bound to it, though it was suspended at any step of the opening.
SuspendedSlotIsClosed ==
  []OnePagePerSlot => \A s \in Slot : <>[](kernel[s].want = "suspended") =>
    <>[](kernel[s].status = "suspended" /\ \A p \in PageId : Live(p) => BindingOf(p) # s)

\* README.md:36: a suspended slot's page is closed.
SuspendedPagesClose ==
  \A s \in Slot : <>[](kernel[s].want = "suspended") =>
    <>[](\A p \in PageId : Live(p) => BindingOf(p) # s)
=============================================================================
