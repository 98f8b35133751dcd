------------------------ MODULE ChangeRequestsProofs ------------------------
(***************************************************************************)
(* Theorems about ChangeRequests for every value of its constants: any     *)
(* number of tasks, agents, dimensions and promotions by hand, and no      *)
(* bound on pushes of others or on stops of gamd.                          *)
(*                                                                         *)
(* Each step changes one of four parts of the state - the world, the       *)
(* changes, the reviews or the promotions - and the call under way.  The   *)
(* order is: types, which part a step may change and how (StepsMove), then *)
(* one lemma per part of the invariant and part of the state.              *)
(***************************************************************************)
EXTENDS ChangeRequests, TLAPS

(* Types *)

Change == (Tasks \cup {None}) \X Nat

BranchRow == [base : SUBSET Change, head : Nat, by : Slot \cup {None}, agent : Agent \cup {None}]
CrRow == [ status : {"none", "open", "changes-requested", "approved", "queued", "integrated"},
           head : Nat, rev : Nat, base : SUBSET Change ]
LatestRow == [verdict : {"none", "approve", "request-changes"}, head : Nat]
EntryRow == [ status : {"none", "queued", "validating", "integrated", "failed"},
              head : Nat, base : SUBSET Change, cand : SUBSET Change ]
RequestRow == [status : {"none", "open", "changes-requested", "rejected", "approved"}, head : Nat]
SlotRow == [state : SlotState, by : Agent \cup {None}]
WorkState == {"none", "created", "materialized", "claimed", "decided", "completed"}
PromoRow == [ status : {"none", "pending", "approved", "rejected", "promoted"},
              task : Tasks \cup {None}, head : Nat, cand : SUBSET Change, parent : SUBSET Change ]
CallRow == [ op : {"idle", "handover", "promote"},
             step : {"-", "change", "request", "work", "bind", "review", "queue", "prepare",
                     "decide", "ref", "mark", "observe", "complete"},
             task : Tasks \cup {None}, rev : Nat ]

WorldTyped ==
  /\ target \subseteq Change
  /\ branch \in [Tasks -> BranchRow] /\ verified \in [Tasks -> SUBSET Nat]
  /\ seat \in [Agent -> Slot \cup {None}]
ChangesTyped ==
  /\ cr \in [Tasks -> CrRow] /\ latest \in [Tasks -> LatestRow] /\ entry \in [Tasks -> EntryRow]
ReviewsTyped ==
  /\ request \in [Tasks -> [Rev -> RequestRow]]
  /\ reviewSlot \in [Tasks -> [Rev -> [Dim -> SlotRow]]]
  /\ work \in [Tasks -> [Rev -> [Dim -> WorkState]]]
PromosTyped == promo \in [Key -> PromoRow]

Typed == WorldTyped /\ ChangesTyped /\ ReviewsTyped /\ PromosTyped /\ coord \in CallRow

-----------------------------------------------------------------------------
(* The invariant *)

\* How far a task has come: its branch, what was verified of it, and its change.
Tips(t) ==
  /\ Tip(t) <= MaxHead /\ verified[t] \subseteq 1 .. Tip(t)
  /\ Tip(t) > 0 => branch[t].by # None
  /\ cr[t].head <= Tip(t) /\ cr[t].rev <= cr[t].head

\* A change and its queue entry are of verified heads, and agree.
Agrees(t) ==
  /\ cr[t].status # "none" => cr[t].head \in verified[t] /\ cr[t].rev >= 1
  /\ entry[t].status # "none" => entry[t].head \in verified[t]
  /\ entry[t].status \in {"queued", "validating"} =>
       /\ cr[t].status = "queued" /\ cr[t].head = entry[t].head
       /\ latest[t] = [verdict |-> "approve", head |-> entry[t].head]

\* What is merged holds the head it was made for.
Holds(t) ==
  /\ entry[t].status = "validating" => At(t, entry[t].head) \subseteq entry[t].cand
  /\ entry[t].status = "integrated" => At(t, entry[t].head) \subseteq target

\* Of each task, commit c has verified work or none.
Sound(c, known) ==
  \A t \in Tasks : LET In == {n \in 1 .. MaxHead : <<t, n>> \in c} IN
    In # {} => \E n \in In : n \in known[t] /\ \A m \in In : m <= n

\* A branch begins at a commit the target was at, before any work on it.
Based(t) ==
  /\ branch[t].base \subseteq target /\ Sound(branch[t].base, verified)
  /\ \A i \in Nat : <<t, i>> \notin branch[t].base

Merged ==
  /\ Sound(target, verified)
  /\ \A t \in Tasks : Based(t)
  /\ \A t \in Tasks, i \in Nat : <<t, i>> \in target => i \in 1 .. Tip(t)

\* A promotion is of a verified head and moves the target forward.
Promotes(k) ==
  promo[k].status # "none" =>
    /\ promo[k].task \in Tasks /\ promo[k].head \in verified[promo[k].task]
    /\ promo[k].cand = At(promo[k].task, promo[k].head) /\ promo[k].parent \subseteq promo[k].cand
    /\ promo[k].status = "promoted" => promo[k].cand \subseteq target

\* A dimension is there with its request, somebody has it or decided it, and a
\* request is approved by all of them.
Reviewed(t, r) ==
  /\ \A d \in Dim : /\ reviewSlot[t][r][d].state = "none" <=> request[t][r].status = "none"
                    /\ reviewSlot[t][r][d].by = None <=> reviewSlot[t][r][d].state \in {"none", "open"}
  /\ request[t][r].status = "approved" => \A d \in Dim : reviewSlot[t][r][d].state = "approved"
  /\ promo[<<t, r>>].status # "none" => request[t][r].status = "approved"

\* What the coordination under way has made sure of.
Coordinated ==
  /\ coord.op # "idle" => coord.task \in Tasks
  /\ coord.op = "handover" /\ coord.step \in {"work", "bind"} => coord.rev \in Rev
  /\ coord.op = "promote" =>
       /\ coord.rev \in Rev /\ request[coord.task][coord.rev].status = "approved"
       /\ coord.step = "mark" => /\ promo[<<coord.task, coord.rev>>].status = "approved"
                                /\ promo[<<coord.task, coord.rev>>].cand \subseteq target

CInv ==
  /\ Typed /\ Coordinated /\ Merged
  /\ \A t \in Tasks : Tips(t) /\ Agrees(t) /\ Holds(t)
  /\ \A k \in Key : Promotes(k)
  /\ \A t \in Tasks, r \in Rev : Reviewed(t, r)

-----------------------------------------------------------------------------
(* Which part of the state a step changes, and how *)

WorldMove ==
  /\ \/ \E t \in Tasks, a \in Agent : StartWork(t, a)
     \/ \E t \in Tasks : Commits(t) \/ ClaimVerified(t)
     \/ OthersPush
     \/ \E a \in Agent : Moves(a)
     \/ \E k \in Key : MoveRef(k) /\ UNCHANGED <<branch, verified, seat>>
  /\ UNCHANGED <<changeVars, reviewVars, promo>>

ChangeStep(t) ==
  \/ OpenChange(t) /\ UNCHANGED <<latest, entry>>
  \/ UpdateChange(t) /\ UNCHANGED <<latest, entry>>
  \/ \E v \in {"approve", "request-changes"} : ReviewChange(t, v) /\ UNCHANGED entry
  \/ QueueChange(t) /\ UNCHANGED latest
  \/ PrepareCandidate(t) /\ UNCHANGED latest
  \/ ObserveIntegration(t) /\ UNCHANGED latest
ChangeMove == (\E t \in Tasks : ChangeStep(t)) /\ UNCHANGED <<worldVars, reviewVars, promo>>

ReviewMove ==
  /\ \/ \E t \in Tasks, r \in Rev, d \in Dim, a \in Agent : ClaimSlot(t, r, d, a)
     \/ \E t \in Tasks, r \in Rev, d \in Dim, x \in {"approved", "changes-requested", "rejected"} :
          DecideSlot(t, r, d, x)
     \/ HandOverRequest \/ HandOverWork \/ HandOverBind \/ PromoteComplete
  /\ UNCHANGED <<worldVars, changeVars, promo>>

\* A new promotion, by hand or by the coordinator.
Requested(k) ==
  /\ promo[k].status = "none"
  /\ \E t \in Tasks, n \in Nat, c \in SUBSET Change, parent \in SUBSET Change :
       /\ VerifiedCommit(t, n, c) /\ Fits(c, parent)
       /\ promo' = [promo EXCEPT ![k] = Promotion("pending", t, n, c, parent)]
  /\ k \in HandKey \/ (coord.op = "promote" /\ k = <<coord.task, coord.rev>>)
PromoMove ==
  /\ \E k \in Key :
       \/ Requested(k)
       \/ \E d \in {"approved", "rejected"} : DecidePromotion(k, d)
       \/ promo[k].status = "approved" /\ promo[k].cand \subseteq target /\ MarkPromoted(k)
  /\ UNCHANGED <<worldVars, changeVars, reviewVars>>

StandStill == UNCHANGED <<worldVars, changeVars, reviewVars, promo>>

LEMMA KeyOfCall ==
  ASSUME Coordinated, coord.op = "promote"
  PROVE  <<coord.task, coord.rev>> \in Key /\ coord.task \in Tasks /\ coord.rev \in Rev
BY DEF Coordinated, Key

LEMMA RequestsMove ==
  ASSUME Typed, NEW k \in Key, NEW t \in Tasks, NEW n \in Nat, NEW c \in SUBSET Change,
         NEW parent \in SUBSET Change, RequestPromotion(k, t, n, c, parent),
         k \in HandKey \/ (coord.op = "promote" /\ k = <<coord.task, coord.rev>>)
  PROVE  promo' = promo \/ Requested(k)
BY DEF RequestPromotion, Requestable, Requested

LEMMA WorldStepMoves == WorldStep => WorldMove
BY DEF WorldStep, WorldMove, StartWork, Commits, ClaimVerified, OthersPush, Moves

LEMMA ReviewStepMoves == ReviewStep => ReviewMove
<1>1. ASSUME NEW t \in Tasks, NEW r \in Rev, NEW d \in Dim, NEW a \in Agent, ClaimSlot(t, r, d, a)
      PROVE  UNCHANGED <<worldVars, changeVars, promo>>
  BY <1>1 DEF ClaimSlot
<1>2. ASSUME NEW t \in Tasks, NEW r \in Rev, NEW d \in Dim,
             NEW x \in {"approved", "changes-requested", "rejected"}, DecideSlot(t, r, d, x)
      PROVE  UNCHANGED <<worldVars, changeVars, promo>>
  BY <1>2 DEF DecideSlot
<1> QED
  BY <1>1, <1>2 DEF ReviewStep, ReviewMove

LEMMA HandOverMoves ==
  ASSUME Coordinated, HandOverStep PROVE ChangeMove \/ ReviewMove \/ StandStill
<1>1. CASE \E t \in Tasks : StartHandOver(t)
  BY <1>1 DEF StartHandOver, StandStill
<1>2. CASE HandOverChange
  <2>1. coord.task \in Tasks
    BY <1>2 DEF HandOverChange, Coordinates, Coordinated
  <2> QED
    BY <1>2, <2>1 DEF HandOverChange, ChangeMove, ChangeStep, StandStill, changeVars
<1>3. CASE HandOverRequest \/ HandOverWork \/ HandOverBind
  <2>1. UNCHANGED <<worldVars, changeVars, promo>>
    BY <1>3 DEF HandOverRequest, HandOverWork, HandOverBind
  <2> QED
    BY <1>3, <2>1 DEF ReviewMove
<1> QED
  BY <1>1, <1>2, <1>3 DEF HandOverStep

LEMMA PromoteMoves ==
  ASSUME Typed, Coordinated, PromoteStep
  PROVE  WorldMove \/ ChangeMove \/ ReviewMove \/ PromoMove \/ StandStill
<1>0. <<coord.task, coord.rev>> \in Key /\ coord.task \in Tasks /\ coord.rev \in Rev /\ coord.op = "promote"
  <2>1. coord.op = "promote"
    BY DEF PromoteStep, PromoteReview, PromoteQueue, PromotePrepare, PromoteRequest, PromoteDecide,
           PromoteRef, PromoteMark, PromoteObserve, PromoteComplete, Coordinates
  <2> QED
    BY <2>1, KeyOfCall
<1>1. CASE PromoteReview
  BY <1>0, <1>1 DEF PromoteReview, ChangeMove, ChangeStep, StandStill, changeVars
<1>2. CASE PromoteQueue
  BY <1>0, <1>2 DEF PromoteQueue, ChangeMove, ChangeStep, StandStill, changeVars
<1>3. CASE PromotePrepare
  BY <1>0, <1>3 DEF PromotePrepare, ChangeMove, ChangeStep, StandStill, changeVars
<1>4. CASE PromoteRequest
  <2>1. /\ cr[coord.task].head \in Nat /\ entry[coord.task].cand \in SUBSET Change
        /\ entry[coord.task].base \in SUBSET Change
    BY <1>0 DEF Typed, ChangesTyped, CrRow, EntryRow
  <2>2. promo' = promo \/ Requested(<<coord.task, coord.rev>>)
    BY <1>0, <1>4, <2>1, RequestsMove DEF PromoteRequest
  <2> QED
    BY <1>0, <1>4, <2>2 DEF PromoteRequest, PromoMove, StandStill
<1>5. CASE PromoteDecide
  BY <1>0, <1>5 DEF PromoteDecide, PromoMove, StandStill
<1>6. CASE PromoteRef
  BY <1>0, <1>6 DEF PromoteRef, WorldMove, StandStill, worldVars
<1>7. CASE PromoteMark
  BY <1>0, <1>7 DEF PromoteMark, PromoMove, Coordinates, Coordinated
<1>8. CASE PromoteObserve
  BY <1>0, <1>8 DEF PromoteObserve, ChangeMove, ChangeStep, StandStill, changeVars
<1>9. CASE PromoteComplete
  BY <1>9 DEF PromoteComplete, ReviewMove
<1> QED
  BY <1>1, <1>2, <1>3, <1>4, <1>5, <1>6, <1>7, <1>8, <1>9 DEF PromoteStep

LEMMA HandMoves ==
  ASSUME Typed, Merged, \A t \in Tasks : Tips(t), HandStep
  PROVE  WorldMove \/ ChangeMove \/ PromoMove \/ StandStill
<1>1. ASSUME NEW t \in Tasks, ByHand(t) PROVE ChangeMove
  BY <1>1 DEF ByHand, ChangeMove, ChangeStep
<1>2. ASSUME NEW k \in HandKey, PromotionByHand(k) PROVE WorldMove \/ PromoMove \/ StandStill
  <2>0. k \in Key /\ UNCHANGED <<branch, verified, seat, moves, changeVars, reviewVars, coord>>
    BY <1>2 DEF PromotionByHand, Key
  <2>1. ASSUME NEW t \in Tasks, NEW n \in 1 .. MaxHead, RequestPromotion(k, t, n, At(t, n), target),
               UNCHANGED target
        PROVE  PromoMove \/ StandStill
    <3>1. At(t, n) \in SUBSET Change /\ target \in SUBSET Change /\ n \in Nat
      <4>1. branch[t].base \in SUBSET Change
        BY DEF Typed, WorldTyped, BranchRow
      <4> QED
        BY <4>1 DEF At, Change, Typed, WorldTyped
    <3>2. promo' = promo \/ Requested(k)
      BY <2>0, <2>1, <3>1, RequestsMove
    <3> QED
      BY <2>0, <2>1, <3>2 DEF PromoMove, StandStill, worldVars
  <2>2. ASSUME NEW d \in {"approved", "rejected"}, DecidePromotion(k, d), UNCHANGED target
        PROVE  PromoMove
    BY <2>0, <2>2 DEF PromoMove, worldVars
  <2>3. ASSUME MoveRef(k), UNCHANGED promo PROVE WorldMove
    BY <2>0, <2>3 DEF WorldMove
  <2>4. ASSUME promo[k].status = "approved", target = promo[k].cand, MarkPromoted(k), UNCHANGED target
        PROVE  PromoMove
    BY <2>0, <2>4 DEF PromoMove, worldVars
  <2> QED
    BY <1>2, <2>1, <2>2, <2>3, <2>4 DEF PromotionByHand
<1> QED
  BY <1>1, <1>2 DEF HandStep

LEMMA StepsMove ==
  ASSUME CInv, [ChangeNext]_crVars
  PROVE  WorldMove \/ ChangeMove \/ ReviewMove \/ PromoMove \/ StandStill
<1>1. CASE Interrupted \/ UNCHANGED crVars
  BY <1>1 DEF Interrupted, crVars, StandStill
<1> QED
  BY <1>1, WorldStepMoves, ReviewStepMoves, HandOverMoves, PromoteMoves, HandMoves DEF ChangeNext, CInv

-----------------------------------------------------------------------------
(* The world: what was merged stays, and is verified *)

LEMMA MaxIsNat ==
  ASSUME ChangeConstants PROVE MaxHead \in Nat \ {0} /\ MaxForeign \in Nat /\ None \notin Tasks
BY DEF ChangeConstants

\* What a commit of a task is made of.
LEMMA CommitIs ==
  ASSUME Typed, NEW t \in Tasks, NEW n \in Nat
  PROVE  /\ At(t, n) \subseteq Change /\ branch[t].base \subseteq At(t, n)
         /\ \A q \in Tasks, i \in Nat : <<q, i>> \in At(t, n) <=>
              <<q, i>> \in branch[t].base \/ (q = t /\ i \in 1 .. n)
<1>1. branch[t].base \in SUBSET Change
  BY DEF Typed, WorldTyped, BranchRow
<1> QED
  BY <1>1 DEF At, Change

\* More verified claims make no commit unsound.
LEMMA SoundGrows ==
  ASSUME NEW c, NEW k1, NEW k2, \A t \in Tasks : k1[t] \subseteq k2[t], Sound(c, k1)
  PROVE  Sound(c, k2)
<1> SUFFICES ASSUME NEW t \in Tasks, {n \in 1 .. MaxHead : <<t, n>> \in c} # {}
             PROVE  \E n \in {i \in 1 .. MaxHead : <<t, i>> \in c} :
                      n \in k2[t] /\ \A m \in {i \in 1 .. MaxHead : <<t, i>> \in c} : m <= n
  BY DEF Sound
<1>1. PICK n \in {i \in 1 .. MaxHead : <<t, i>> \in c} :
        n \in k1[t] /\ \A m \in {i \in 1 .. MaxHead : <<t, i>> \in c} : m <= n
  BY DEF Sound
<1> QED
  BY <1>1

\* Two commits with the same work of the tasks are as sound as each other.
LEMMA SoundAlike ==
  ASSUME NEW c1, NEW c2, NEW known, Sound(c1, known),
         \A t \in Tasks, i \in 1 .. MaxHead : <<t, i>> \in c2 <=> <<t, i>> \in c1
  PROVE  Sound(c2, known)
<1> SUFFICES ASSUME NEW t \in Tasks
             PROVE  {n \in 1 .. MaxHead : <<t, n>> \in c2} = {n \in 1 .. MaxHead : <<t, n>> \in c1}
  BY DEF Sound
<1> QED
  OBVIOUS

\* A verified commit is sound: it has its own verified work on top of a sound base.
LEMMA CommitIsSound ==
  ASSUME Typed, Merged, MaxHead \in Nat, NEW t \in Tasks, Tips(t), NEW n \in verified[t]
  PROVE  Sound(At(t, n), verified)
<1>1. n \in Nat /\ n \in 1 .. Tip(t) /\ Tip(t) \in Nat /\ n \in 1 .. MaxHead
  BY DEF Tips, Typed, WorldTyped, BranchRow, Tip
<1>2. Based(t)
  BY DEF Merged
<1>3. ASSUME NEW q \in Tasks
      PROVE  LET In == {i \in 1 .. MaxHead : <<q, i>> \in At(t, n)} IN
             In # {} => \E i \in In : i \in verified[q] /\ \A m \in In : m <= i
  <2>1. CASE q = t
    <3>1. \A i \in 1 .. MaxHead : <<q, i>> \in At(t, n) <=> i \in 1 .. n
      BY <2>1, <1>1, <1>2, CommitIs DEF Based
    <3> QED
      BY <2>1, <3>1, <1>1
  <2>2. CASE q # t
    <3>1. \A i \in 1 .. MaxHead : <<q, i>> \in At(t, n) <=> <<q, i>> \in branch[t].base
      BY <2>2, <1>1, CommitIs
    <3>2. {i \in 1 .. MaxHead : <<q, i>> \in At(t, n)}
            = {i \in 1 .. MaxHead : <<q, i>> \in branch[t].base}
      BY <3>1
    <3>3. Sound(branch[t].base, verified)
      BY <1>2 DEF Based
    <3> QED
      BY <3>2, <3>3 DEF Sound
  <2> QED
    BY <2>1, <2>2
<1> QED
  BY <1>3 DEF Sound

\* What the world only adds to.
Grown ==
  /\ target \subseteq target'
  /\ \A t \in Tasks : /\ verified[t] \subseteq verified'[t] /\ Tip(t) <= Tip(t)'
                     /\ \A n \in verified[t] : At(t, n)' = At(t, n)

LEMMA WorldGrows ==
  ASSUME ChangeConstants, CInv, WorldMove PROVE Grown /\ WorldTyped' /\ \A t \in Tasks : Tips(t)'
<1> USE DEF CInv
<1>0. \A t \in Tasks : /\ branch[t] \in BranchRow /\ verified[t] \in SUBSET Nat /\ Tip(t) \in Nat
                      /\ branch[t].base \in SUBSET Change
  BY DEF Typed, WorldTyped, BranchRow, Tip
<1>c. \A t \in Tasks : cr[t].head \in Nat
  BY DEF Typed, ChangesTyped, CrRow
<1>u. UNCHANGED <<cr, latest, entry, promo>>
  BY DEF WorldMove, changeVars
<1>1. ASSUME NEW t \in Tasks, NEW a \in Agent, StartWork(t, a)
      PROVE  Grown /\ WorldTyped' /\ \A q \in Tasks : Tips(q)'
  <2>1. Tip(t) = 0 /\ verified[t] = {}
    BY <1>0, <1>1 DEF StartWork, Tips
  <2>2. seat[a] \in Slot \cup {None} /\ target \in SUBSET Change
    BY DEF Typed, WorldTyped
  <2>3. /\ branch' = [branch EXCEPT ![t] = [base |-> target, head |-> 0, by |-> seat[a], agent |-> a]]
        /\ UNCHANGED <<target, verified, seat>>
    BY <1>1 DEF StartWork
  <2>4. WorldTyped'
    BY <2>2, <2>3 DEF WorldTyped, BranchRow, Typed
  <2>5. Tip(t)' = 0 /\ \A q \in Tasks \ {t} : branch'[q] = branch[q]
    BY <2>3 DEF Tip, Typed, WorldTyped
  <2>6. Grown
    BY <2>1, <2>3, <2>5, <1>0 DEF Grown, At, Tip
  <2>7. \A q \in Tasks : Tips(q)'
    BY <2>1, <2>3, <2>5, <1>0, <1>u DEF Tips, Tip
  <2> QED
    BY <2>4, <2>6, <2>7
<1>2. ASSUME NEW t \in Tasks, Commits(t) PROVE Grown /\ WorldTyped' /\ \A q \in Tasks : Tips(q)'
  <2>3. /\ branch' = [branch EXCEPT ![t].head = branch[t].head + 1] /\ branch[t].by # None
        /\ Tip(t) < MaxHead /\ UNCHANGED <<target, verified, seat>>
    BY <1>2 DEF Commits
  <2>4. /\ branch'[t].head = branch[t].head + 1 /\ branch'[t].by = branch[t].by
        /\ branch'[t].base = branch[t].base
        /\ branch'[t] \in BranchRow /\ \A q \in Tasks \ {t} : branch'[q] = branch[q]
    BY <2>3, <1>0 DEF BranchRow, Typed, WorldTyped, Tip
  <2>5. WorldTyped'
    BY <2>3, <2>4 DEF WorldTyped, Typed
  <2>6. Grown
    BY <2>3, <2>4, <1>0 DEF Grown, At, Tip
  <2>7. \A q \in Tasks : Tips(q)'
    <3>1. ASSUME NEW q \in Tasks, q # t PROVE Tips(q)'
      BY <2>3, <2>4, <3>1, <1>u DEF Tips, Tip
    <3>2. Tips(t)'
      BY <2>3, <2>4, <1>0, <1>c, <1>u, MaxIsNat DEF Tips, Tip
    <3> QED
      BY <3>1, <3>2
  <2> QED
    BY <2>5, <2>6, <2>7
<1>3. ASSUME NEW t \in Tasks, ClaimVerified(t) PROVE Grown /\ WorldTyped' /\ \A q \in Tasks : Tips(q)'
  <2>3. /\ verified' = [verified EXCEPT ![t] = verified[t] \cup {Tip(t)}]
        /\ Tip(t) > 0 /\ UNCHANGED <<target, branch, seat>>
    BY <1>3 DEF ClaimVerified
  <2>4. verified'[t] = verified[t] \cup {Tip(t)} /\ \A q \in Tasks \ {t} : verified'[q] = verified[q]
    BY <2>3 DEF Typed, WorldTyped
  <2>5. WorldTyped'
    BY <2>3, <2>4, <1>0 DEF WorldTyped, Typed
  <2>6. Grown
    BY <2>3, <2>4, <1>0 DEF Grown, At, Tip
  <2>7. \A q \in Tasks : Tips(q)'
    <3>1. ASSUME NEW q \in Tasks, q # t PROVE Tips(q)'
      BY <2>3, <2>4, <3>1, <1>u DEF Tips, Tip
    <3>2. Tips(t)'
      BY <2>3, <2>4, <1>0, <1>u DEF Tips, Tip
    <3> QED
      BY <3>1, <3>2
  <2> QED
    BY <2>5, <2>6, <2>7
<1>4. CASE OthersPush
  <2>3. target \subseteq target' /\ UNCHANGED <<branch, verified, seat>> /\ target' \subseteq Change
    BY <1>4, MaxIsNat DEF OthersPush, Change, Typed, WorldTyped
  <2> QED
    BY <2>3, <1>0, <1>u DEF Grown, At, Tip, Tips, WorldTyped, Typed
<1>5. ASSUME NEW a \in Agent, Moves(a) PROVE Grown /\ WorldTyped' /\ \A q \in Tasks : Tips(q)'
  <2>1. UNCHANGED <<target, branch, verified>> /\ seat' \in [Agent -> Slot \cup {None}]
    BY <1>5 DEF Moves, Typed, WorldTyped
  <2> QED
    BY <2>1, <1>0, <1>u DEF Grown, At, Tip, Tips, WorldTyped, Typed
<1>6. ASSUME NEW k \in Key, MoveRef(k), UNCHANGED <<branch, verified, seat>>
      PROVE  Grown /\ WorldTyped' /\ \A q \in Tasks : Tips(q)'
  <2>1. promo[k].parent \subseteq promo[k].cand /\ promo[k].cand \in SUBSET Change
    BY <1>6 DEF MoveRef, Movable, Promotes, Typed, PromosTyped, PromoRow
  <2>2. target \subseteq target' /\ target' = promo[k].cand
    BY <1>6, <2>1 DEF MoveRef, Movable
  <2> QED
    BY <2>1, <2>2, <1>6, <1>0, <1>u DEF Grown, At, Tip, Tips, WorldTyped, Typed
<1> QED
  BY <1>1, <1>2, <1>3, <1>4, <1>5, <1>6 DEF WorldMove

LEMMA WorldMerges ==
  ASSUME ChangeConstants, CInv, WorldMove PROVE Merged'
<1> USE DEF CInv
<1>0. \A t \in Tasks : /\ branch[t] \in BranchRow /\ verified[t] \in SUBSET Nat /\ Tip(t) \in Nat
                      /\ branch[t].base \in SUBSET Change
  BY DEF Typed, WorldTyped, BranchRow, Tip
<1>g. /\ target \subseteq target'
      /\ \A t \in Tasks : verified[t] \subseteq verified'[t] /\ Tip(t) <= Tip(t)' /\ Tip(t)' \in Nat
  BY WorldGrows DEF Grown, WorldTyped, BranchRow, Tip
<1>m. /\ Sound(target, verified) /\ \A t \in Tasks : Based(t)
      /\ \A t \in Tasks, i \in Nat : <<t, i>> \in target => i \in 1 .. Tip(t)
  BY DEF Merged
<1>1. Sound(target', verified)
  <2>1. CASE target' = target
    BY <2>1, <1>m
  <2>2. CASE OthersPush
    <3>1. \A t \in Tasks, i \in 1 .. MaxHead : <<t, i>> \in target' <=> <<t, i>> \in target
      BY <2>2, MaxIsNat DEF OthersPush
    <3> QED
      BY <3>1, <1>m, SoundAlike
  <2>3. ASSUME NEW k \in Key, MoveRef(k) PROVE Sound(target', verified)
    <3>1. /\ promo[k].task \in Tasks /\ promo[k].head \in verified[promo[k].task]
          /\ target' = At(promo[k].task, promo[k].head)
      BY <2>3 DEF MoveRef, Movable, Promotes
    <3> QED
      BY <3>1, CommitIsSound, MaxIsNat
  <2> QED
    BY <2>1, <2>2, <2>3 DEF WorldMove, StartWork, Commits, ClaimVerified, Moves
<1>2. Sound(target', verified')
  BY <1>1, <1>g, SoundGrows
<1>3. ASSUME NEW t \in Tasks PROVE Based(t)'
  <2>1. CASE branch'[t].base = branch[t].base
    <3>1. Sound(branch'[t].base, verified')
      BY <2>1, <1>g, <1>m, SoundGrows DEF Based
    <3> QED
      BY <2>1, <3>1, <1>g, <1>m DEF Based
  <2>2. ASSUME NEW a \in Agent, StartWork(t, a) PROVE Based(t)'
    <3>1. branch'[t].base = target /\ target' = target /\ Tip(t) = 0
      BY <2>2, <1>0 DEF StartWork, Typed, WorldTyped, Tips
    <3> QED
      BY <3>1, <1>2, <1>m DEF Based
  <2>3. \/ branch'[t].base = branch[t].base
        \/ \E a \in Agent : StartWork(t, a)
    <3>1. ASSUME NEW q \in Tasks, NEW a \in Agent, StartWork(q, a), q # t PROVE branch'[t].base = branch[t].base
      BY <3>1 DEF StartWork, Typed, WorldTyped
    <3>2. ASSUME NEW q \in Tasks, Commits(q) PROVE branch'[t].base = branch[t].base
      BY <3>2, <1>0 DEF Commits, Typed, WorldTyped, BranchRow
    <3> QED
      BY <3>1, <3>2 DEF WorldMove, ClaimVerified, OthersPush, Moves
  <2> QED
    BY <2>1, <2>2, <2>3
<1>4. ASSUME NEW t \in Tasks, NEW i \in Nat, <<t, i>> \in target' PROVE i \in 1 .. Tip(t)'
  <2>1. i \in 1 .. Tip(t)
    <3>1. CASE target' = target
      BY <3>1, <1>4, <1>m
    <3>2. CASE OthersPush
      BY <3>2, <1>4, <1>m, MaxIsNat DEF OthersPush
    <3>3. ASSUME NEW k \in Key, MoveRef(k) PROVE i \in 1 .. Tip(t)
      <4>1. /\ promo[k].task \in Tasks /\ promo[k].head \in verified[promo[k].task]
            /\ target' = At(promo[k].task, promo[k].head)
        BY <3>3 DEF MoveRef, Movable, Promotes
      <4>2. promo[k].head \in 1 .. Tip(promo[k].task) /\ promo[k].head \in Nat
        BY <4>1, <1>0 DEF Tips
      <4>3. <<t, i>> \in branch[promo[k].task].base \/ (t = promo[k].task /\ i \in 1 .. promo[k].head)
        BY <4>1, <4>2, <1>4, CommitIs
      <4>4. branch[promo[k].task].base \subseteq target
        BY <4>1, <1>m DEF Based
      <4>5. CASE <<t, i>> \in branch[promo[k].task].base
        BY <4>4, <4>5, <1>m
      <4>6. CASE t = promo[k].task /\ i \in 1 .. promo[k].head
        BY <4>2, <4>6, <1>0
      <4> QED
        BY <4>3, <4>5, <4>6
    <3> QED
      BY <3>1, <3>2, <3>3 DEF WorldMove, StartWork, Commits, ClaimVerified, Moves
  <2> QED
    BY <2>1, <1>0, <1>g
<1> QED
  BY <1>2, <1>3, <1>4 DEF Merged

\* What the world does leaves every record as true as it was.
LEMMA WorldKeeps ==
  ASSUME ChangeConstants, CInv, WorldMove
  PROVE  /\ WorldTyped' /\ ChangesTyped' /\ ReviewsTyped' /\ PromosTyped'
         /\ \A t \in Tasks : Agrees(t)' /\ Holds(t)'
         /\ \A k \in Key : Promotes(k)'
         /\ \A t \in Tasks, r \in Rev : Reviewed(t, r)'
<1> USE DEF CInv
<1>u. UNCHANGED <<cr, latest, entry, request, reviewSlot, work, promo>>
  BY DEF WorldMove, changeVars, reviewVars
<1>g. Grown /\ WorldTyped'
  BY WorldGrows
<1>1. ChangesTyped' /\ ReviewsTyped' /\ PromosTyped'
  BY <1>u DEF Typed, ChangesTyped, ReviewsTyped, PromosTyped
<1>2. ASSUME NEW t \in Tasks PROVE Agrees(t)'
  BY <1>u, <1>g DEF Agrees, Grown
<1>3. ASSUME NEW t \in Tasks PROVE Holds(t)'
  <2>1. PICK n : n = entry[t].head
    OBVIOUS
  <2>2. entry[t].status # "none" => At(t, n)' = At(t, n)
    BY <2>1, <1>g DEF Agrees, Grown
  <2> QED
    BY <2>1, <2>2, <1>u, <1>g DEF Holds, Grown, At
<1>4. ASSUME NEW k \in Key PROVE Promotes(k)'
  <2>1. PICK p : p = promo[k]
    OBVIOUS
  <2>2. p.status # "none" => At(p.task, p.head)' = At(p.task, p.head)
    BY <2>1, <1>g DEF Promotes, Grown
  <2> QED
    BY <2>1, <2>2, <1>u, <1>g DEF Promotes, Grown, At
<1>5. ASSUME NEW t \in Tasks, NEW r \in Rev PROVE Reviewed(t, r)'
  BY <1>u DEF Reviewed
<1> QED
  BY <1>1, <1>2, <1>3, <1>4, <1>5, <1>g DEF Typed

-----------------------------------------------------------------------------
(* The changes: a queued head is the reviewed one, and a merge holds it *)

LEMMA ChangeKeeps ==
  ASSUME ChangeConstants, CInv, NEW t \in Tasks, ChangeStep(t), UNCHANGED worldVars
  PROVE  ChangesTyped' /\ \A q \in Tasks : Tips(q)' /\ Agrees(q)' /\ Holds(q)'
<1> USE DEF CInv
<1>w. UNCHANGED <<target, branch, verified>>
  BY DEF worldVars
<1>0. /\ cr[t] \in CrRow /\ entry[t] \in EntryRow /\ latest[t] \in LatestRow
      /\ branch[t] \in BranchRow /\ Tip(t) \in Nat /\ verified[t] \subseteq 1 .. Tip(t)
      /\ target \in SUBSET Change
  BY DEF Typed, ChangesTyped, WorldTyped, BranchRow, Tips, Tip
<1>t. Tips(t) /\ Agrees(t) /\ Holds(t)
  OBVIOUS
\* It is enough to look at the task itself.
<1>q. ASSUME NEW c \in CrRow, NEW l \in LatestRow, NEW e \in EntryRow,
             cr' = [cr EXCEPT ![t] = c], latest' = [latest EXCEPT ![t] = l], entry' = [entry EXCEPT ![t] = e],
             c.head <= Tip(t), c.rev <= c.head,
             c.status # "none" => c.head \in verified[t] /\ c.rev >= 1,
             e.status # "none" => e.head \in verified[t],
             e.status \in {"queued", "validating"} =>
               /\ c.status = "queued" /\ c.head = e.head
               /\ l = [verdict |-> "approve", head |-> e.head],
             e.status = "validating" => At(t, e.head) \subseteq e.cand,
             e.status = "integrated" => At(t, e.head) \subseteq target
      PROVE  ChangesTyped' /\ \A q \in Tasks : Tips(q)' /\ Agrees(q)' /\ Holds(q)'
  <2>1. cr'[t] = c /\ latest'[t] = l /\ entry'[t] = e
    BY <1>q DEF Typed, ChangesTyped
  <2>2. \A q \in Tasks \ {t} : cr'[q] = cr[q] /\ latest'[q] = latest[q] /\ entry'[q] = entry[q]
    BY <1>q DEF Typed, ChangesTyped
  <2>3. ChangesTyped'
    BY <1>q DEF Typed, ChangesTyped
  <2>4. ASSUME NEW q \in Tasks, q # t PROVE Tips(q)' /\ Agrees(q)' /\ Holds(q)'
    BY <2>2, <2>4, <1>w DEF Tips, Agrees, Holds, Tip, At
  <2>5. Tips(t)' /\ Agrees(t)' /\ Holds(t)'
    BY <2>1, <1>q, <1>w, <1>t DEF Tips, Agrees, Holds, Tip, At
  <2> QED
    BY <2>3, <2>4, <2>5
<1>s. cr = [cr EXCEPT ![t] = cr[t]] /\ latest = [latest EXCEPT ![t] = latest[t]] /\ entry = [entry EXCEPT ![t] = entry[t]]
  BY DEF Typed, ChangesTyped
<1>1. CASE OpenChange(t) /\ UNCHANGED <<latest, entry>>
  <2>1. PICK c : c = [status |-> "open", head |-> Tip(t), rev |-> 1, base |-> branch[t].base]
    OBVIOUS
  <2>2. /\ cr' = [cr EXCEPT ![t] = c] /\ cr[t].status = "none" /\ Tip(t) \in verified[t]
        /\ latest' = [latest EXCEPT ![t] = latest[t]] /\ entry' = [entry EXCEPT ![t] = entry[t]]
    BY <1>1, <2>1, <1>s DEF OpenChange, Openable
  <2>3. c \in CrRow /\ c.status = "open" /\ c.head = Tip(t) /\ c.rev = 1
    BY <2>1, <1>0 DEF CrRow, BranchRow
  <2>4. c.head <= Tip(t) /\ c.rev <= c.head /\ c.rev >= 1 /\ c.head \in verified[t]
    BY <2>2, <2>3, <1>0
  <2>5. entry[t].status \notin {"queued", "validating"} /\ (entry[t].status # "none" => entry[t].head \in verified[t])
        /\ (entry[t].status = "integrated" => At(t, entry[t].head) \subseteq target)
    BY <2>2, <1>t DEF Agrees, Holds
  <2> QED
    BY <2>2, <2>3, <2>4, <2>5, <1>0, <1>q
<1>2. CASE UpdateChange(t) /\ UNCHANGED <<latest, entry>>
  <2>1. PICK c : c = [cr[t] EXCEPT !.head = Tip(t), !.rev = cr[t].rev + 1, !.status = "open"]
    OBVIOUS
  <2>2. /\ cr' = [cr EXCEPT ![t] = c] /\ cr[t].status \in {"open", "changes-requested"}
        /\ cr[t].head # Tip(t) /\ Tip(t) \in verified[t]
        /\ latest' = [latest EXCEPT ![t] = latest[t]] /\ entry' = [entry EXCEPT ![t] = entry[t]]
    BY <1>2, <2>1, <1>s, <1>0 DEF UpdateChange, Typed, ChangesTyped, CrRow
  <2>3. c \in CrRow /\ c.status = "open" /\ c.head = Tip(t) /\ c.rev = cr[t].rev + 1
    <3>1. cr[t] \in CrRow /\ cr[t].rev + 1 \in Nat /\ Tip(t) \in Nat
      BY <1>0 DEF CrRow
    <3>2. PICK n : n = Tip(t)
      OBVIOUS
    <3> QED
      BY <2>1, <3>1, <3>2 DEF CrRow
  <2>4. c.rev <= c.head /\ c.rev >= 1
    BY <2>2, <2>3, <1>0, <1>t DEF Tips, CrRow
  <2>5. entry[t].status \notin {"queued", "validating"} /\ (entry[t].status # "none" => entry[t].head \in verified[t])
        /\ (entry[t].status = "integrated" => At(t, entry[t].head) \subseteq target)
    BY <2>2, <1>t DEF Agrees, Holds
  <2>6. c.head <= Tip(t) /\ c.head \in verified[t]
    BY <2>2, <2>3, <1>0
  <2> QED
    BY <2>2, <2>3, <2>4, <2>5, <2>6, <1>0, <1>q
<1>3. ASSUME NEW v \in {"approve", "request-changes"}, ReviewChange(t, v), UNCHANGED entry
      PROVE  ChangesTyped' /\ \A q \in Tasks : Tips(q)' /\ Agrees(q)' /\ Holds(q)'
  <2>1. PICK c : c = [cr[t] EXCEPT !.status = IF v = "approve" THEN "approved" ELSE "changes-requested"]
    OBVIOUS
  <2>2. PICK l : l = [verdict |-> v, head |-> cr[t].head]
    OBVIOUS
  <2>3. /\ cr' = [cr EXCEPT ![t] = c] /\ cr[t].status = "open"
        /\ latest' = [latest EXCEPT ![t] = l] /\ entry' = [entry EXCEPT ![t] = entry[t]]
    BY <1>3, <2>1, <2>2, <1>s, <1>0 DEF ReviewChange, Typed, ChangesTyped, CrRow
  <2>4. /\ c \in CrRow /\ c.status \in {"approved", "changes-requested"} /\ c.head = cr[t].head /\ c.rev = cr[t].rev
        /\ l \in LatestRow
    BY <2>1, <2>2, <1>0 DEF CrRow, LatestRow
  <2> QED
    BY <2>3, <2>4, <1>0, <1>t, <1>q DEF Agrees, Holds, Tips
<1>4. CASE QueueChange(t) /\ UNCHANGED latest
  <2>1. PICK c : c = [cr[t] EXCEPT !.status = "queued"]
    OBVIOUS
  <2>2. PICK e : e = [NoEntry EXCEPT !.status = "queued", !.head = cr[t].head]
    OBVIOUS
  <2>3. /\ cr' = [cr EXCEPT ![t] = c] /\ Approved(t)
        /\ latest' = [latest EXCEPT ![t] = latest[t]] /\ entry' = [entry EXCEPT ![t] = e]
    BY <1>4, <2>1, <2>2, <1>s, <1>0 DEF QueueChange, Typed, ChangesTyped, CrRow
  <2>4. /\ c \in CrRow /\ c.status = "queued" /\ c.head = cr[t].head /\ c.rev = cr[t].rev
        /\ e \in EntryRow /\ e.status = "queued" /\ e.head = cr[t].head
    <3>1. NoEntry \in EntryRow
      BY DEF NoEntry, EntryRow
    <3> QED
      BY <2>1, <2>2, <3>1, <1>0 DEF CrRow, EntryRow
  <2> QED
    BY <2>3, <2>4, <1>0, <1>t, <1>q DEF Agrees, Approved, Tips
<1>5. CASE PrepareCandidate(t) /\ UNCHANGED latest
  <2>0. /\ entry[t].status = "queued" /\ cr[t].status = "queued" /\ cr[t].head = entry[t].head
        /\ entry[t].head \in Nat
    BY <1>5, <1>0 DEF PrepareCandidate, EntryRow
  <2>1. ASSUME NEW x \in Candidates(t), x # None,
               entry' = [entry EXCEPT ![t].status = "validating", ![t].base = target, ![t].cand = x], cr' = cr
        PROVE  ChangesTyped' /\ \A q \in Tasks : Tips(q)' /\ Agrees(q)' /\ Holds(q)'
    <3>1. x \in SUBSET Change /\ At(t, entry[t].head) \subseteq x
      BY <2>0, <2>1, <1>0, CommitIs DEF Candidates
    <3>2. PICK e : e = [entry[t] EXCEPT !.status = "validating", !.base = target, !.cand = x]
      OBVIOUS
    <3>3. /\ cr' = [cr EXCEPT ![t] = cr[t]] /\ latest' = [latest EXCEPT ![t] = latest[t]]
          /\ entry' = [entry EXCEPT ![t] = e]
      BY <1>5, <2>1, <3>2, <1>s, <1>0 DEF Typed, ChangesTyped, EntryRow
    <3>4. e \in EntryRow /\ e.status = "validating" /\ e.head = entry[t].head /\ e.cand = x
      BY <3>1, <3>2, <1>0 DEF EntryRow
    <3> QED
      BY <2>0, <3>1, <3>3, <3>4, <1>0, <1>t, <1>q DEF Agrees, Tips
  <2>2. ASSUME entry' = [entry EXCEPT ![t].status = "failed"], cr' = [cr EXCEPT ![t].status = "changes-requested"]
        PROVE  ChangesTyped' /\ \A q \in Tasks : Tips(q)' /\ Agrees(q)' /\ Holds(q)'
    <3>1. PICK c : c = [cr[t] EXCEPT !.status = "changes-requested"]
      OBVIOUS
    <3>2. PICK e : e = [entry[t] EXCEPT !.status = "failed"]
      OBVIOUS
    <3>3. /\ cr' = [cr EXCEPT ![t] = c] /\ latest' = [latest EXCEPT ![t] = latest[t]]
          /\ entry' = [entry EXCEPT ![t] = e]
      BY <1>5, <2>2, <3>1, <3>2, <1>s, <1>0 DEF Typed, ChangesTyped, EntryRow, CrRow
    <3>4. /\ c \in CrRow /\ c.status = "changes-requested" /\ c.head = cr[t].head /\ c.rev = cr[t].rev
          /\ e \in EntryRow /\ e.status = "failed" /\ e.head = entry[t].head
      BY <3>1, <3>2, <1>0 DEF EntryRow, CrRow
    <3> QED
      BY <2>0, <3>3, <3>4, <1>0, <1>t, <1>q DEF Agrees, Tips
  <2> QED
    BY <1>5, <2>1, <2>2 DEF PrepareCandidate
<1>6. CASE ObserveIntegration(t) /\ UNCHANGED latest
  <2>1. PICK c : c = [cr[t] EXCEPT !.status = "integrated"]
    OBVIOUS
  <2>2. PICK e : e = [entry[t] EXCEPT !.status = "integrated"]
    OBVIOUS
  <2>3. /\ cr' = [cr EXCEPT ![t] = c] /\ latest' = [latest EXCEPT ![t] = latest[t]]
        /\ entry' = [entry EXCEPT ![t] = e]
    BY <1>6, <2>1, <2>2, <1>s, <1>0 DEF ObserveIntegration, Typed, ChangesTyped, EntryRow, CrRow
  <2>4. /\ c \in CrRow /\ c.status = "integrated" /\ c.head = cr[t].head /\ c.rev = cr[t].rev
        /\ e \in EntryRow /\ e.status = "integrated" /\ e.head = entry[t].head
    BY <2>1, <2>2, <1>0 DEF EntryRow, CrRow
  <2>5. entry[t].status = "validating" /\ At(t, entry[t].head) \subseteq target
    BY <1>6, <1>t DEF ObserveIntegration, Integrated, Holds
  <2> QED
    BY <2>3, <2>4, <2>5, <1>0, <1>t, <1>q DEF Agrees, Tips
<1> QED
  BY <1>1, <1>2, <1>3, <1>4, <1>5, <1>6 DEF ChangeStep

-----------------------------------------------------------------------------
(* The reviews: an approved request was approved in every dimension *)

LEMMA ReviewRows ==
  ASSUME Typed, NEW t \in Tasks, NEW r \in Rev
  PROVE  /\ request[t][r] \in RequestRow /\ request[t] \in [Rev -> RequestRow]
         /\ reviewSlot[t] \in [Rev -> [Dim -> SlotRow]] /\ reviewSlot[t][r] \in [Dim -> SlotRow]
         /\ work[t] \in [Rev -> [Dim -> WorkState]] /\ work[t][r] \in [Dim -> WorkState]
BY DEF Typed, ReviewsTyped

\* It is enough to look at the request, its dimensions and its work items.
LEMMA OneRequestMoves ==
  ASSUME CInv, NEW t \in Tasks, NEW r \in Rev, NEW q \in RequestRow, NEW s \in [Dim -> SlotRow],
         NEW w \in [Dim -> WorkState],
         request' = [request EXCEPT ![t][r] = q], reviewSlot' = [reviewSlot EXCEPT ![t][r] = s],
         work' = [work EXCEPT ![t][r] = w], UNCHANGED promo,
         \A d \in Dim : /\ s[d].state = "none" <=> q.status = "none"
                        /\ s[d].by = None <=> s[d].state \in {"none", "open"},
         q.status = "approved" => \A d \in Dim : s[d].state = "approved",
         promo[<<t, r>>].status # "none" => q.status = "approved"
  PROVE  ReviewsTyped' /\ \A u \in Tasks, v \in Rev : Reviewed(u, v)'
<1> USE DEF CInv
<1>1. request'[t][r] = q /\ reviewSlot'[t][r] = s
  BY ReviewRows DEF Typed, ReviewsTyped
<1>2. \A u \in Tasks, v \in Rev : <<u, v>> # <<t, r>> => request'[u][v] = request[u][v] /\ reviewSlot'[u][v] = reviewSlot[u][v]
  BY ReviewRows DEF Typed, ReviewsTyped
<1>3. request' \in [Tasks -> [Rev -> RequestRow]]
  BY DEF Typed, ReviewsTyped
<1>4. reviewSlot' \in [Tasks -> [Rev -> [Dim -> SlotRow]]]
  BY DEF Typed, ReviewsTyped
<1>5. work' \in [Tasks -> [Rev -> [Dim -> WorkState]]]
  BY DEF Typed, ReviewsTyped
<1>6. Reviewed(t, r)'
  BY <1>1 DEF Reviewed
<1>7. ASSUME NEW u \in Tasks, NEW v \in Rev, <<u, v>> # <<t, r>> PROVE Reviewed(u, v)'
  BY <1>2, <1>7 DEF Reviewed
<1> QED
  BY <1>3, <1>4, <1>5, <1>6, <1>7 DEF ReviewsTyped

LEMMA OutcomeIs ==
  ASSUME NEW s
  PROVE  /\ Outcome(s) \in {"open", "changes-requested", "rejected", "approved"}
         /\ Outcome(s) = "approved" => \A d \in Dim : s[d].state = "approved"
BY DEF Outcome

LEMMA ReviewKeeps ==
  ASSUME ChangeConstants, CInv, ReviewMove
  PROVE  ReviewsTyped' /\ \A u \in Tasks, v \in Rev : Reviewed(u, v)'
<1> USE DEF CInv
<1>p. UNCHANGED <<cr, promo>>
  BY DEF ReviewMove, changeVars
<1>r. \A t \in Tasks, r \in Rev : Reviewed(t, r)
  OBVIOUS
<1>s. \A t \in Tasks, r \in Rev : /\ request = [request EXCEPT ![t][r] = request[t][r]]
                                 /\ reviewSlot = [reviewSlot EXCEPT ![t][r] = reviewSlot[t][r]]
                                 /\ work = [work EXCEPT ![t][r] = work[t][r]]
  BY DEF Typed, ReviewsTyped
\* Work items alone tell nothing about a request.
<1>w. ASSUME NEW t \in Tasks, NEW r \in Rev, NEW w \in [Dim -> WorkState],
             work' = [work EXCEPT ![t][r] = w], UNCHANGED <<request, reviewSlot>>
      PROVE  ReviewsTyped' /\ \A u \in Tasks, v \in Rev : Reviewed(u, v)'
  <2>1. work' \in [Tasks -> [Rev -> [Dim -> WorkState]]]
    BY <1>w DEF Typed, ReviewsTyped
  <2> QED
    BY <2>1, <1>w, <1>p DEF Typed, ReviewsTyped, Reviewed
<1>1. ASSUME NEW t \in Tasks, NEW r \in Rev, NEW d \in Dim, NEW a \in Agent, ClaimSlot(t, r, d, a)
      PROVE  ReviewsTyped' /\ \A u \in Tasks, v \in Rev : Reviewed(u, v)'
  <2>0. /\ request[t][r] \in RequestRow /\ reviewSlot[t][r] \in [Dim -> SlotRow] /\ work[t][r] \in [Dim -> WorkState]
        /\ Reviewed(t, r) /\ a # None
    BY ReviewRows, <1>r DEF ChangeConstants
  <2>1. PICK s : s = [reviewSlot[t][r] EXCEPT ![d] = [state |-> "claimed", by |-> a]]
    OBVIOUS
  <2>2. PICK w : w = [work[t][r] EXCEPT ![d] = IF work[t][r][d] = "materialized" THEN "claimed" ELSE work[t][r][d]]
    OBVIOUS
  <2>3. request[t][r].status = "open" /\ reviewSlot[t][r][d].state = "open" /\ request' = request
    BY <1>1 DEF ClaimSlot
  <2>4. reviewSlot' = [reviewSlot EXCEPT ![t][r][d] = [state |-> "claimed", by |-> a]]
    BY <1>1 DEF ClaimSlot
  <2>5. work' = [work EXCEPT ![t][r][d] = IF work[t][r][d] = "materialized" THEN "claimed" ELSE work[t][r][d]]
    BY <1>1 DEF ClaimSlot
  <2>6. reviewSlot' = [reviewSlot EXCEPT ![t][r] = s] /\ work' = [work EXCEPT ![t][r] = w]
    BY <2>1, <2>2, <2>4, <2>5
  <2>7. s \in [Dim -> SlotRow] /\ w \in [Dim -> WorkState]
    BY <2>0, <2>1, <2>2 DEF SlotRow, SlotState, WorkState
  <2>8. /\ \A x \in Dim : /\ s[x].state = "none" <=> request[t][r].status = "none"
                          /\ s[x].by = None <=> s[x].state \in {"none", "open"}
    BY <2>0, <2>1, <2>3 DEF Reviewed
  <2>9. promo[<<t, r>>].status = "none"
    BY <2>0, <2>3 DEF Reviewed
  <2> QED
    BY <2>0, <2>3, <2>6, <2>7, <2>8, <2>9, <1>s, <1>p, OneRequestMoves
<1>2. ASSUME NEW t \in Tasks, NEW r \in Rev, NEW d \in Dim,
             NEW x \in {"approved", "changes-requested", "rejected"}, DecideSlot(t, r, d, x)
      PROVE  ReviewsTyped' /\ \A u \in Tasks, v \in Rev : Reviewed(u, v)'
  <2>0. /\ request[t][r] \in RequestRow /\ reviewSlot[t][r] \in [Dim -> SlotRow] /\ work[t][r] \in [Dim -> WorkState]
        /\ Reviewed(t, r) /\ reviewSlot[t][r][d] \in SlotRow
    BY ReviewRows, <1>r
  <2>1. PICK s : s = [reviewSlot[t][r] EXCEPT ![d] = [reviewSlot[t][r][d] EXCEPT !.state = x]]
    OBVIOUS
  <2>2. PICK w : w = [work[t][r] EXCEPT ![d] = IF work[t][r][d] \in {"materialized", "claimed"}
                                                 THEN "decided" ELSE work[t][r][d]]
    OBVIOUS
  <2>3. reviewSlot[t][r][d].state = "claimed"
    BY <1>2 DEF DecideSlot
  <2>4. reviewSlot' = [reviewSlot EXCEPT ![t][r][d].state = x]
    BY <1>2 DEF DecideSlot
  <2>5. work' = [work EXCEPT ![t][r][d] = IF work[t][r][d] \in {"materialized", "claimed"}
                                            THEN "decided" ELSE work[t][r][d]]
    BY <1>2 DEF DecideSlot
  <2>6. reviewSlot' = [reviewSlot EXCEPT ![t][r] = s] /\ work' = [work EXCEPT ![t][r] = w]
    BY <2>1, <2>2, <2>4, <2>5
  <2>7. s \in [Dim -> SlotRow] /\ w \in [Dim -> WorkState]
    BY <2>0, <2>1, <2>2 DEF SlotRow, SlotState, WorkState
  <2>a. reviewSlot'[t][r] = s
    BY <2>6, ReviewRows DEF Typed, ReviewsTyped
  <2>b. request' = [request EXCEPT ![t][r].status = Outcome(reviewSlot'[t][r])]
    BY <1>2 DEF DecideSlot
  <2>c. PICK q : q = [request[t][r] EXCEPT !.status = Outcome(s)]
    OBVIOUS
  <2>d. request' = [request EXCEPT ![t][r] = q] /\ q \in RequestRow /\ q.status = Outcome(s)
    BY <2>0, <2>a, <2>b, <2>c, OutcomeIs DEF RequestRow
  <2>e. request[t][r].status # "none" /\ request[t][r].status # "approved"
    BY <2>0, <2>3 DEF Reviewed
  <2>8. /\ \A y \in Dim : /\ s[y].state = "none" <=> q.status = "none"
                          /\ s[y].by = None <=> s[y].state \in {"none", "open"}
    <3>1. q.status # "none"
      BY <2>d, OutcomeIs
    <3>2. s[d].state = x /\ s[d].by = reviewSlot[t][r][d].by
      BY <2>0, <2>1 DEF SlotRow
    <3>3. \A y \in Dim \ {d} : s[y] = reviewSlot[t][r][y]
      BY <2>0, <2>1
    <3> QED
      BY <3>1, <3>2, <3>3, <2>0, <2>3, <2>e DEF Reviewed
  <2>9. promo[<<t, r>>].status = "none"
    BY <2>0, <2>e DEF Reviewed
  <2> QED
    BY <2>6, <2>7, <2>8, <2>9, <2>d, <1>p, OutcomeIs, OneRequestMoves
<1>3. CASE HandOverRequest
  <2>1. PICK t \in Tasks : t = coord.task
    BY <1>3 DEF HandOverRequest, Coordinates, Coordinated
  <2>2. CASE UNCHANGED <<request, reviewSlot>>
    BY <1>3, <2>2, <1>p DEF HandOverRequest, Typed, ReviewsTyped, Reviewed
  <2>3. CASE ~UNCHANGED <<request, reviewSlot>>
    <3>1. PICK r : r = cr[t].rev
      OBVIOUS
    <3>2. cr[t].status # "none" /\ request[t][r].status = "none"
      BY <1>3, <2>1, <2>3, <3>1 DEF HandOverRequest
    <3>3. r \in Rev /\ cr[t] \in CrRow
      BY <3>1, <3>2, MaxIsNat DEF Rev, Agrees, Tips, Typed, ChangesTyped, CrRow, WorldTyped, BranchRow, Tip
    <3>4. /\ request' = [request EXCEPT ![t][r] = [status |-> "open", head |-> cr[t].head]]
          /\ reviewSlot' = [reviewSlot EXCEPT ![t][r] = [d \in Dim |-> [state |-> "open", by |-> None]]]
          /\ work' = [work EXCEPT ![t][r] = work[t][r]]
      BY <1>3, <2>1, <2>3, <3>1, <3>3, <1>s DEF HandOverRequest
    <3>5. PICK q : q = [status |-> "open", head |-> cr[t].head]
      OBVIOUS
    <3>6. PICK s : s = [d \in Dim |-> [state |-> "open", by |-> None]]
      OBVIOUS
    <3>7. q \in RequestRow /\ q.status = "open" /\ s \in [Dim -> SlotRow] /\ work[t][r] \in [Dim -> WorkState]
      BY <3>3, <3>5, <3>6, ReviewRows DEF RequestRow, SlotRow, SlotState, CrRow
    <3>8. promo[<<t, r>>].status = "none"
      BY <3>2, <3>3, <1>r DEF Reviewed
    <3>9. /\ request' = [request EXCEPT ![t][r] = q] /\ reviewSlot' = [reviewSlot EXCEPT ![t][r] = s]
          /\ \A d \in Dim : s[d].state = "open" /\ s[d].by = None
      BY <3>4, <3>5, <3>6
    <3>a. /\ \A d \in Dim : /\ s[d].state = "none" <=> q.status = "none"
                            /\ s[d].by = None <=> s[d].state \in {"none", "open"}
          /\ q.status # "approved" /\ UNCHANGED promo
      BY <3>7, <3>9, <1>p
    <3>b. work' = [work EXCEPT ![t][r] = work[t][r]]
      BY <3>4
    <3>c. \A z \in [Dim -> WorkState] : work' = [work EXCEPT ![t][r] = z] =>
            ReviewsTyped' /\ \A u \in Tasks, v \in Rev : Reviewed(u, v)'
      BY <3>3, <3>7, <3>8, <3>9, <3>a, OneRequestMoves
    <3> QED
      BY <3>7, <3>b, <3>c
  <2> QED
    BY <2>2, <2>3
<1>4. CASE HandOverWork \/ HandOverBind
  <2>1. coord.task \in Tasks /\ coord.rev \in Rev
    BY <1>4 DEF HandOverWork, HandOverBind, Coordinates, Coordinated
  <2>2. UNCHANGED <<request, reviewSlot>>
    BY <1>4 DEF HandOverWork, HandOverBind
  <2>3. \/ work' = work
        \/ \E d \in Dim : work' = [work EXCEPT ![coord.task][coord.rev][d] = "created"]
        \/ \E d \in Dim : work' = [work EXCEPT ![coord.task][coord.rev][d] = "materialized"]
    <3>1. CASE HandOverWork
      BY <3>1 DEF HandOverWork
    <3>2. CASE HandOverBind
      BY <3>2 DEF HandOverBind
    <3> QED
      BY <1>4, <3>1, <3>2
  <2>4. ASSUME NEW d \in Dim, NEW x \in WorkState, work' = [work EXCEPT ![coord.task][coord.rev][d] = x]
        PROVE  ReviewsTyped' /\ \A u \in Tasks, v \in Rev : Reviewed(u, v)'
    <3>1. PICK w : w = [work[coord.task][coord.rev] EXCEPT ![d] = x]
      OBVIOUS
    <3>2. w \in [Dim -> WorkState] /\ work' = [work EXCEPT ![coord.task][coord.rev] = w]
      BY <2>1, <2>4, <3>1, ReviewRows
    <3> QED
      BY <2>1, <2>2, <3>2, <1>w
  <2>5. CASE work' = work
    BY <2>2, <2>5, <1>p DEF Typed, ReviewsTyped, Reviewed
  <2>6. "created" \in WorkState /\ "materialized" \in WorkState
    BY DEF WorkState
  <2> QED
    BY <2>3, <2>4, <2>5, <2>6
<1>5. CASE PromoteComplete
  <2>1. coord.task \in Tasks /\ coord.rev \in Rev
    BY <1>5 DEF PromoteComplete, Coordinates, Coordinated
  <2>2. PICK w : w = [d \in Dim |-> IF work[coord.task][coord.rev][d] = "decided" THEN "completed"
                                    ELSE work[coord.task][coord.rev][d]]
    OBVIOUS
  <2>3. work' = [work EXCEPT ![coord.task][coord.rev] = w] /\ UNCHANGED <<request, reviewSlot>>
    BY <1>5, <2>2 DEF PromoteComplete
  <2>4. w \in [Dim -> WorkState]
    BY <2>1, <2>2, ReviewRows DEF WorkState
  <2> QED
    BY <2>1, <2>3, <2>4, <1>w
<1> QED
  BY <1>1, <1>2, <1>3, <1>4, <1>5 DEF ReviewMove

-----------------------------------------------------------------------------
(* The promotions: what counts as done is in the target, and was approved *)

LEMMA PromoKeeps ==
  ASSUME ChangeConstants, CInv, PromoMove
  PROVE  /\ PromosTyped' /\ \A k \in Key : Promotes(k)'
         /\ \A t \in Tasks, r \in Rev : Reviewed(t, r)'
<1> USE DEF CInv
<1>w. UNCHANGED <<target, branch, verified, request, reviewSlot>>
  BY DEF PromoMove, worldVars, reviewVars
<1>r. \A t \in Tasks, r \in Rev : Reviewed(t, r)
  OBVIOUS
\* It is enough to look at the promotion itself.
<1>q. ASSUME NEW k \in Key, NEW p \in PromoRow, promo' = [promo EXCEPT ![k] = p],
             p.status # "none", p.task \in Tasks, p.head \in verified[p.task], p.cand = At(p.task, p.head),
             p.parent \subseteq p.cand, p.status = "promoted" => p.cand \subseteq target,
             \A t \in Tasks, r \in Rev : k = <<t, r>> => request[t][r].status = "approved"
      PROVE  /\ PromosTyped' /\ \A q \in Key : Promotes(q)'
             /\ \A t \in Tasks, r \in Rev : Reviewed(t, r)'
  <2>1. promo'[k] = p /\ \A q \in Key \ {k} : promo'[q] = promo[q]
    BY <1>q DEF Typed, PromosTyped
  <2>2. PromosTyped'
    BY <1>q DEF Typed, PromosTyped
  <2>3. Promotes(k)'
    BY <2>1, <1>q, <1>w DEF Promotes, At
  <2>4. ASSUME NEW q \in Key, q # k PROVE Promotes(q)'
    <3>1. Promotes(q)
      OBVIOUS
    <3> QED
      BY <2>1, <2>4, <3>1, <1>w DEF Promotes, At
  <2>5. ASSUME NEW t \in Tasks, NEW r \in Rev PROVE Reviewed(t, r)'
    <3>1. <<t, r>> \in Key /\ Reviewed(t, r)
      BY <1>r DEF Key
    <3>2. CASE k = <<t, r>>
      BY <3>1, <3>2, <1>q, <1>w DEF Reviewed
    <3>3. CASE k # <<t, r>>
      BY <3>1, <3>3, <2>1, <1>w DEF Reviewed
    <3> QED
      BY <3>2, <3>3
  <2> QED
    BY <2>2, <2>3, <2>4, <2>5
<1>a. ASSUME NEW k \in Key, promo[k].status # "none", NEW t \in Tasks, NEW r \in Rev, k = <<t, r>>
      PROVE  request[t][r].status = "approved"
  BY <1>a, <1>r DEF Reviewed
<1>1. ASSUME NEW k \in Key, Requested(k)
      PROVE  /\ PromosTyped' /\ \A q \in Key : Promotes(q)'
             /\ \A t \in Tasks, r \in Rev : Reviewed(t, r)'
  <2>1. PICK t \in Tasks, n \in Nat, c \in SUBSET Change, parent \in SUBSET Change :
          /\ VerifiedCommit(t, n, c) /\ Fits(c, parent)
          /\ promo' = [promo EXCEPT ![k] = Promotion("pending", t, n, c, parent)]
    BY <1>1 DEF Requested
  <2>2. PICK p : p = Promotion("pending", t, n, c, parent)
    OBVIOUS
  <2>3. /\ p \in PromoRow /\ p.status = "pending" /\ p.task = t /\ p.head = n /\ p.cand = c /\ p.parent = parent
    BY <2>2 DEF Promotion, PromoRow
  <2>4. ASSUME NEW u \in Tasks, NEW r \in Rev, k = <<u, r>> PROVE request[u][r].status = "approved"
    <3>1. k \notin HandKey
      <4>1. r \in Nat
        BY MaxIsNat DEF Rev
      <4> QED
        BY <2>4, <4>1 DEF ChangeConstants
    <3>2. coord.op = "promote" /\ coord.task = u /\ coord.rev = r
      BY <1>1, <2>4, <3>1 DEF Requested
    <3> QED
      BY <3>2 DEF Coordinated
  <2>5. n \in verified[t] /\ c = At(t, n) /\ parent \subseteq c
    BY <2>1 DEF VerifiedCommit, Fits
  <2> QED
    BY <2>1, <2>2, <2>3, <2>4, <2>5, <1>q
<1>2. ASSUME NEW k \in Key, NEW x \in {"approved", "rejected", "promoted"},
             promo[k].status \in {"pending", "approved"}, promo' = [promo EXCEPT ![k].status = x],
             x = "promoted" => promo[k].cand \subseteq target
      PROVE  /\ PromosTyped' /\ \A q \in Key : Promotes(q)'
             /\ \A t \in Tasks, r \in Rev : Reviewed(t, r)'
  <2>1. PICK p : p = [promo[k] EXCEPT !.status = x]
    OBVIOUS
  <2>2. promo[k] \in PromoRow /\ Promotes(k)
    BY DEF Typed, PromosTyped
  <2>3. /\ p \in PromoRow /\ p.status = x /\ p.task = promo[k].task /\ p.head = promo[k].head
        /\ p.cand = promo[k].cand /\ p.parent = promo[k].parent
    BY <2>1, <2>2 DEF PromoRow
  <2>4. promo' = [promo EXCEPT ![k] = p]
    BY <1>2, <2>1
  <2>5. /\ p.status # "none" /\ p.task \in Tasks /\ p.head \in verified[p.task] /\ p.cand = At(p.task, p.head)
        /\ p.parent \subseteq p.cand /\ (p.status = "promoted" => p.cand \subseteq target)
    BY <1>2, <2>2, <2>3 DEF Promotes
  <2>6. \A t \in Tasks, r \in Rev : k = <<t, r>> => request[t][r].status = "approved"
    BY <1>2, <1>a
  <2> QED
    BY <2>3, <2>4, <2>5, <2>6, <1>q
<1>3. ASSUME NEW k \in Key, NEW d \in {"approved", "rejected"}, DecidePromotion(k, d)
      PROVE  /\ PromosTyped' /\ \A q \in Key : Promotes(q)'
             /\ \A t \in Tasks, r \in Rev : Reviewed(t, r)'
  BY <1>3, <1>2 DEF DecidePromotion
<1>4. ASSUME NEW k \in Key, promo[k].status = "approved", promo[k].cand \subseteq target, MarkPromoted(k)
      PROVE  /\ PromosTyped' /\ \A q \in Key : Promotes(q)'
             /\ \A t \in Tasks, r \in Rev : Reviewed(t, r)'
  BY <1>4, <1>2 DEF MarkPromoted
<1> QED
  BY <1>1, <1>3, <1>4 DEF PromoMove

-----------------------------------------------------------------------------
(* The call: what the coordinator has seen still holds at its next step *)

\* As long as it goes on with the same request, nobody takes back its approval.
LEMMA CallGoesOn ==
  ASSUME CInv, coord' \in CallRow, coord'.op = coord.op, coord'.task = coord.task, coord'.rev = coord.rev,
         coord.op = "promote", request' = request,
         coord'.step = "mark" => /\ promo'[<<coord.task, coord.rev>>].status = "approved"
                                /\ promo'[<<coord.task, coord.rev>>].cand \subseteq target'
  PROVE  Coordinated'
BY DEF Coordinated, CInv

LEMMA StepIsCall ==
  ASSUME coord \in CallRow,
         NEW s \in {"-", "change", "request", "work", "bind", "review", "queue", "prepare",
                    "decide", "ref", "mark", "observe", "complete"}, Then(s)
  PROVE  coord' \in CallRow /\ coord'.op = coord.op /\ coord'.task = coord.task /\ coord'.rev = coord.rev /\ coord'.step = s
BY DEF Then, CallRow

LEMMA GivenUp ==
  ASSUME GivesUp PROVE coord' \in CallRow /\ Coordinated'
BY DEF GivesUp, NoCoord, CallRow, Coordinated

LEMMA HandOverCalls ==
  ASSUME ChangeConstants, CInv, HandOverStep PROVE coord' \in CallRow /\ Coordinated'
<1> USE DEF CInv, Typed
<1>1. ASSUME NEW t \in Tasks, StartHandOver(t) PROVE coord' \in CallRow /\ Coordinated'
  BY <1>1 DEF StartHandOver, CallRow, Coordinated
<1>2. CASE HandOverChange
  <2>1. coord.task \in Tasks /\ coord.op = "handover"
    BY <1>2 DEF HandOverChange, Coordinates, Coordinated
  <2>2. CASE Then("request")
    <3>1. coord' \in CallRow /\ coord'.op = "handover" /\ coord'.task = coord.task /\ coord'.step = "request"
      BY <2>1, <2>2, StepIsCall
    <3> QED
      BY <2>1, <3>1 DEF Coordinated
  <2> QED
    BY <1>2, <2>2, GivenUp DEF HandOverChange
<1>3. CASE HandOverRequest
  <2>1. coord.task \in Tasks /\ coord.op = "handover"
    BY <1>3 DEF HandOverRequest, Coordinates, Coordinated
  <2>2. CASE GivesUp
    BY <2>2, GivenUp
  <2>3. CASE ~GivesUp
    <3>1. PICK t \in Tasks : t = coord.task
      BY <2>1
    <3>2. cr[t].status # "none" /\ coord' = [coord EXCEPT !.step = "work", !.rev = cr[t].rev]
      BY <1>3, <2>3, <3>1 DEF HandOverRequest
    <3>3. cr[t].rev \in Rev /\ cr[t].rev \in Nat
      BY <3>2, MaxIsNat DEF Rev, Agrees, Tips, ChangesTyped, CrRow, WorldTyped, BranchRow, Tip
    <3>4. coord' \in CallRow /\ coord'.op = "handover" /\ coord'.task = t /\ coord'.rev \in Rev
      BY <2>1, <3>1, <3>2, <3>3 DEF CallRow
    <3> QED
      BY <3>4 DEF Coordinated
  <2> QED
    BY <2>2, <2>3
<1>4. CASE HandOverWork \/ HandOverBind
  <2>1. coord.task \in Tasks /\ coord.op = "handover" /\ coord.rev \in Rev
    BY <1>4 DEF HandOverWork, HandOverBind, Coordinates, Coordinated
  <2>2. ASSUME NEW s \in {"work", "bind"}, Then(s) PROVE coord' \in CallRow /\ Coordinated'
    <3>1. coord' \in CallRow /\ coord'.op = "handover" /\ coord'.task = coord.task /\ coord'.rev = coord.rev
      BY <2>1, <2>2, StepIsCall
    <3> QED
      BY <2>1, <3>1 DEF Coordinated
  <2>3. GivesUp \/ Then("bind") \/ Then("work")
    BY <1>4 DEF HandOverWork, HandOverBind
  <2> QED
    BY <2>2, <2>3, GivenUp
<1> QED
  BY <1>1, <1>2, <1>3, <1>4 DEF HandOverStep

LEMMA PromoteCalls ==
  ASSUME ChangeConstants, CInv, PromoteStep PROVE coord' \in CallRow /\ Coordinated'
<1> USE DEF CInv, Typed
<1>0. coord.op = "promote" /\ request' = request
  BY DEF PromoteStep, PromoteReview, PromoteQueue, PromotePrepare, PromoteRequest, PromoteDecide,
         PromoteRef, PromoteMark, PromoteObserve, PromoteComplete, Coordinates, reviewVars
<1>1. ASSUME NEW s \in {"queue", "prepare", "request", "decide", "ref", "observe", "complete"}, Then(s)
      PROVE  coord' \in CallRow /\ Coordinated'
  <2>1. coord' \in CallRow /\ coord'.op = coord.op /\ coord'.task = coord.task /\ coord'.rev = coord.rev /\ coord'.step = s
    BY <1>1, StepIsCall
  <2> QED
    BY <1>0, <2>1, CallGoesOn
<1>2. CASE Then("mark") /\ PromoteRef
  <2>1. coord' \in CallRow /\ coord'.op = coord.op /\ coord'.task = coord.task /\ coord'.rev = coord.rev
    BY <1>2, StepIsCall
  <2>2. PICK k \in Key : k = <<coord.task, coord.rev>>
    BY <1>0, KeyOfCall
  <2>3. promo' = promo /\ promo[k].status = "approved" /\ target' = promo[k].cand
    <3>1. promo' = promo
      BY <1>2 DEF PromoteRef
    <3>2. coord'.step = "mark"
      BY <1>2, StepIsCall
    <3>3. ~Then("observe") /\ ~GivesUp
      <4>1. ~Then("observe")
        BY <3>2, StepIsCall
      <4> QED
        BY <3>2, <4>1 DEF GivesUp, NoCoord
    <3> QED
      BY <1>2, <2>2, <3>1, <3>3 DEF PromoteRef, MoveRef
  <2> QED
    BY <1>0, <2>1, <2>2, <2>3, CallGoesOn
<1> QED
  BY <1>0, <1>1, <1>2, GivenUp DEF PromoteStep, PromoteReview, PromoteQueue, PromotePrepare, PromoteRequest,
     PromoteDecide, PromoteRef, PromoteMark, PromoteObserve, PromoteComplete

\* Where the coordinator does not move, what it has seen holds on.
LEMMA CallStays ==
  ASSUME ChangeConstants, CInv, UNCHANGED <<coord, request, promo>>, target \subseteq target'
  PROVE  coord' \in CallRow /\ Coordinated'
BY DEF CInv, Typed, Coordinated

LEMMA CallKeeps ==
  ASSUME ChangeConstants, CInv, [ChangeNext]_crVars PROVE coord' \in CallRow /\ Coordinated'
<1> USE DEF CInv
<1>1. CASE WorldStep
  <2>1. UNCHANGED <<coord, request, promo>>
    BY <1>1 DEF WorldStep, StartWork, Commits, ClaimVerified, OthersPush, Moves, reviewVars
  <2>2. target \subseteq target'
    BY <1>1, WorldStepMoves, WorldGrows DEF Grown
  <2> QED
    BY <2>1, <2>2, CallStays
<1>2. CASE ReviewStep
  <2>1. ASSUME NEW t \in Tasks, NEW r \in Rev, NEW d \in Dim, NEW a \in Agent, ClaimSlot(t, r, d, a)
        PROVE  coord' \in CallRow /\ Coordinated'
    <3>1. coord.op = "idle" /\ coord' = coord
      BY <2>1 DEF ClaimSlot, Free
    <3> QED
      BY <3>1 DEF Coordinated, Typed
  <2>2. ASSUME NEW t \in Tasks, NEW r \in Rev, NEW d \in Dim,
               NEW x \in {"approved", "changes-requested", "rejected"}, DecideSlot(t, r, d, x)
        PROVE  coord' \in CallRow /\ Coordinated'
    <3>1. coord' = IF request'[t][r].status = "approved"
                    THEN [op |-> "promote", step |-> "review", task |-> t, rev |-> r] ELSE NoCoord
      BY <2>2 DEF DecideSlot
    <3>2. CASE request'[t][r].status = "approved"
      <4>1. coord' = [op |-> "promote", step |-> "review", task |-> t, rev |-> r] /\ r \in Nat
        BY <3>1, <3>2, MaxIsNat DEF Rev
      <4> QED
        BY <3>2, <4>1 DEF Coordinated, CallRow
    <3> QED
      BY <3>1, <3>2, GivenUp DEF GivesUp
  <2> QED
    BY <1>2, <2>1, <2>2 DEF ReviewStep
<1>3. CASE HandStep
  <2>1. coord.op = "idle" /\ coord' = coord
    BY <1>3 DEF HandStep, ByHand, PromotionByHand, Free
  <2> QED
    BY <2>1 DEF Coordinated, Typed
<1>4. CASE Interrupted
  BY <1>4, GivenUp DEF Interrupted
<1>5. CASE UNCHANGED crVars
  BY <1>5, CallStays DEF crVars, reviewVars, worldVars
<1> QED
  BY <1>1, <1>2, <1>3, <1>4, <1>5, HandOverCalls, PromoteCalls DEF ChangeNext

-----------------------------------------------------------------------------
(* The theorems *)

LEMMA InvInit == ASSUME ChangeConstants, InitChanges PROVE CInv
<1> USE DEF InitChanges
<1>1. Typed
  <2>1. WorldTyped
    BY DEF WorldTyped, BranchRow, ChangeConstants
  <2>2. ChangesTyped
    BY DEF ChangesTyped, CrRow, LatestRow, EntryRow, NoCR, NoReview, NoEntry
  <2>3. ReviewsTyped
    BY DEF ReviewsTyped, RequestRow, SlotRow, SlotState, WorkState, NoRequest, NoSlot
  <2>4. PromosTyped /\ coord \in CallRow
    BY DEF PromosTyped, PromoRow, CallRow, NoPromo, NoCoord
  <2> QED
    BY <2>1, <2>2, <2>3, <2>4 DEF Typed
<1>2. Coordinated
  BY DEF Coordinated, NoCoord
<1>3. Merged
  BY MaxIsNat DEF Merged, Sound, Based
<1>4. ASSUME NEW t \in Tasks PROVE Tips(t) /\ Agrees(t) /\ Holds(t)
  BY MaxIsNat DEF Tips, Agrees, Holds, Tip, NoCR, NoEntry
<1>5. ASSUME NEW k \in Key PROVE Promotes(k)
  BY DEF Promotes, NoPromo
<1>6. ASSUME NEW t \in Tasks, NEW r \in Rev PROVE Reviewed(t, r)
  <2>1. <<t, r>> \in Key
    BY DEF Key
  <2> QED
    BY <2>1 DEF Reviewed, NoSlot, NoRequest, NoPromo
<1> QED
  BY <1>1, <1>2, <1>3, <1>4, <1>5, <1>6 DEF CInv

LEMMA InvKept == ASSUME ChangeConstants, CInv, [ChangeNext]_crVars PROVE CInv'
<1>c. coord' \in CallRow /\ Coordinated'
  BY CallKeeps
<1>1. CASE WorldMove
  BY <1>1, <1>c, WorldGrows, WorldMerges, WorldKeeps DEF CInv, Typed
<1>s. ASSUME UNCHANGED <<target, branch, verified, seat>>
      PROVE  WorldTyped' /\ Merged'
  BY <1>s DEF CInv, Typed, WorldTyped, Merged, Based, Tip
<1>t. ASSUME UNCHANGED <<target, branch, verified, cr, latest, entry>>
      PROVE  ChangesTyped' /\ \A t \in Tasks : Tips(t)' /\ Agrees(t)' /\ Holds(t)'
  BY <1>t DEF CInv, Typed, ChangesTyped, Tips, Agrees, Holds, Tip, At
<1>r. ASSUME UNCHANGED <<request, reviewSlot, work, promo>>
      PROVE  ReviewsTyped' /\ \A t \in Tasks, r \in Rev : Reviewed(t, r)'
  BY <1>r DEF CInv, Typed, ReviewsTyped, Reviewed
<1>p. ASSUME UNCHANGED <<target, branch, verified, promo>>
      PROVE  PromosTyped' /\ \A k \in Key : Promotes(k)'
  BY <1>p DEF CInv, Typed, PromosTyped, Promotes, At
<1>2. CASE ChangeMove
  <2>1. UNCHANGED <<target, branch, verified, seat, request, reviewSlot, work, promo, worldVars>>
    BY <1>2 DEF ChangeMove, worldVars, reviewVars
  <2>2. ChangesTyped' /\ \A t \in Tasks : Tips(t)' /\ Agrees(t)' /\ Holds(t)'
    BY <1>2, <2>1, ChangeKeeps DEF ChangeMove
  <2> QED
    BY <2>1, <2>2, <1>c, <1>s, <1>r, <1>p DEF CInv, Typed
<1>3. CASE ReviewMove
  <2>1. UNCHANGED <<target, branch, verified, seat, cr, latest, entry, promo>>
    BY <1>3 DEF ReviewMove, worldVars, changeVars
  <2> QED
    BY <2>1, <1>3, <1>c, <1>s, <1>t, <1>p, ReviewKeeps DEF CInv, Typed
<1>4. CASE PromoMove
  <2>1. UNCHANGED <<target, branch, verified, seat, cr, latest, entry, request, reviewSlot, work>>
    BY <1>4 DEF PromoMove, worldVars, changeVars, reviewVars
  <2>2. ReviewsTyped'
    BY <2>1 DEF CInv, Typed, ReviewsTyped
  <2> QED
    BY <2>1, <2>2, <1>4, <1>c, <1>s, <1>t, PromoKeeps DEF CInv, Typed
<1>5. CASE StandStill
  <2>1. UNCHANGED <<target, branch, verified, seat, cr, latest, entry, request, reviewSlot, work, promo>>
    BY <1>5 DEF StandStill, worldVars, changeVars, reviewVars
  <2> QED
    BY <2>1, <1>c, <1>s, <1>t, <1>r, <1>p DEF CInv, Typed
<1> QED
  BY <1>1, <1>2, <1>3, <1>4, <1>5, StepsMove

\* Every state the authorities and the coordinator reach, however often gamd stops between two
\* of their steps, satisfies the invariant above.
THEOREM ChangesInvariant == ChangeSpec => []CInv
<1> USE ChangeAssumption
<1>1. InitChanges => CInv
  BY InvInit
<1>2. CInv /\ [ChangeNext]_crVars => CInv'
  BY InvKept
<1> QED
  BY <1>1, <1>2, PTL DEF ChangeSpec

\* Every record has a status its table allows, and a dimension that somebody has or decided
\* belongs to a request.
THEOREM ChangesTypes == ChangeSpec => []ChangesTypeOK
<1> USE ChangeAssumption
<1>1. CInv => ChangesTypeOK
  <2> SUFFICES ASSUME CInv PROVE ChangesTypeOK
    OBVIOUS
  <2> USE DEF CInv, Typed
  <2>1. ASSUME NEW t \in Tasks
        PROVE  /\ Tip(t) \in 0 .. MaxHead /\ verified[t] \subseteq 1 .. Tip(t)
               /\ cr[t].status \in {"none", "open", "changes-requested", "approved", "queued", "integrated"}
               /\ cr[t].head \in 0 .. Tip(t) /\ cr[t].rev \in 0 .. MaxHead
               /\ latest[t].verdict \in {"none", "approve", "request-changes"}
               /\ entry[t].status \in {"none", "queued", "validating", "integrated", "failed"}
    <3>1. /\ cr[t] \in CrRow /\ latest[t] \in LatestRow /\ entry[t] \in EntryRow /\ branch[t] \in BranchRow
          /\ Tips(t)
      BY DEF ChangesTyped, WorldTyped
    <3>2. Tip(t) \in Nat /\ cr[t].head \in Nat /\ cr[t].rev \in Nat
      BY <3>1 DEF Tip, BranchRow, CrRow
    <3> QED
      BY <3>1, <3>2, MaxIsNat DEF Tips, CrRow, LatestRow, EntryRow
  <2>2. ASSUME NEW t \in Tasks, NEW r \in Rev
        PROVE  /\ request[t][r].status \in {"none", "open", "changes-requested", "rejected", "approved"}
               /\ \A d \in Dim : /\ reviewSlot[t][r][d].state \in SlotState
                                 /\ reviewSlot[t][r][d].state = "none" <=> request[t][r].status = "none"
                                 /\ reviewSlot[t][r][d].by = None <=> reviewSlot[t][r][d].state \in {"none", "open"}
                                 /\ work[t][r][d] \in WorkState
    <3>1. request[t][r] \in RequestRow /\ Reviewed(t, r) /\ work[t][r] \in [Dim -> WorkState]
      BY ReviewRows
    <3>2. reviewSlot[t][r] \in [Dim -> SlotRow]
      BY ReviewRows
    <3>3. \A d \in Dim : reviewSlot[t][r][d] \in SlotRow
      BY <3>2
    <3> QED
      BY <3>1, <3>3 DEF RequestRow, SlotRow, Reviewed
  <2>3. \A k \in Key : promo[k].status \in {"none", "pending", "approved", "rejected", "promoted"}
    BY DEF PromosTyped, PromoRow
  <2>4. coord.op \in {"idle", "handover", "promote"} /\ seat \in [Agent -> Slot \cup {None}]
    BY DEF CallRow, WorldTyped
  <2> QED
    BY <2>1, <2>2, <2>3, <2>4 DEF ChangesTypeOK, WorkState
<1> QED
  BY <1>1, ChangesInvariant, PTL

\* What waits to be merged is the head the latest review approved, whoever updates, reviews and
\* queues the change between two steps of the coordinator.
THEOREM QueuedHeadsAreReviewed == ChangeSpec => []QueueMatchesChange
<1> USE ChangeAssumption
<1>1. CInv => QueueMatchesChange
  BY DEF CInv, Agrees, QueueMatchesChange
<1> QED
  BY <1>1, ChangesInvariant, PTL

\* A promotion is marked and a change integrated only with their work in the target.
THEOREM RecordsStayTrue == ChangeSpec => []RecordsAreTrue
<1> USE ChangeAssumption
<1>1. CInv => RecordsAreTrue
  BY DEF CInv, Promotes, Holds, RecordsAreTrue
<1> QED
  BY <1>1, ChangesInvariant, PTL

\* No unverified commit of a task is the last of its work in the target, by whatever way it came.
THEOREM MergesAreVerified == ChangeSpec => []OnlyVerifiedIsMerged
<1> USE ChangeAssumption
<1>1. CInv => OnlyVerifiedIsMerged
  BY DEF CInv, Merged, Sound, OnlyVerifiedIsMerged
<1> QED
  BY <1>1, ChangesInvariant, PTL

\* An approved request was approved in every dimension, and the coordinator promotes no other.
THEOREM ApprovalsStayComplete == ChangeSpec => []ApprovalsAreComplete
<1> USE ChangeAssumption
<1>1. CInv => ApprovalsAreComplete
  BY DEF CInv, Reviewed, ApprovalsAreComplete
<1> QED
  BY <1>1, ChangesInvariant, PTL

\* What waits to be merged is the reviewed head, what counts as promoted or integrated is in the
\* target, what is in the target was verified, and approvals are of all dimensions: whatever the
\* authorities, the coordinator and others who push do between each other's steps.
THEOREM ChangesStaySound == ChangeSpec => []ChangesAreSound
<1> QED
  BY ChangesTypes, QueuedHeadsAreReviewed, RecordsStayTrue, MergesAreVerified, ApprovalsStayComplete, PTL
  DEF ChangesAreSound

\* The target branch only moves forward: no push of others and no promotion is ever undone.
THEOREM NothingMergedIsLost == ChangeSpec => NothingIsLost
<1> USE ChangeAssumption
<1>1. CInv /\ [ChangeNext]_crVars => [target \subseteq target']_crVars
  <2> SUFFICES ASSUME CInv, [ChangeNext]_crVars PROVE target \subseteq target'
    OBVIOUS
  <2>1. CASE WorldMove
    BY <2>1, WorldGrows DEF Grown
  <2>2. CASE ChangeMove \/ ReviewMove \/ PromoMove \/ StandStill
    BY <2>2 DEF ChangeMove, ReviewMove, PromoMove, StandStill, worldVars
  <2> QED
    BY <2>1, <2>2, StepsMove
<1> QED
  BY <1>1, ChangesInvariant, PTL DEF ChangeSpec, NothingIsLost

=============================================================================
