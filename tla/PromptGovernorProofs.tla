------------------------ MODULE PromptGovernorProofs ------------------------
(***************************************************************************)
(* Theorems about PromptGovernor and TaskGraph for every value of their    *)
(* constants.                                                              *)
(*                                                                         *)
(* However callers, pages, failed writes and restarts interleave, permits  *)
(* keep their distances and the budget, the worker's copy of the pacing is *)
(* the stored one, and no permit is given before a backoff is over.  The   *)
(* governor forgets: the argument relates what is stored to all the        *)
(* permits there have been; what was forgotten is too old to matter.       *)
(*                                                                         *)
(* However tasks are edited, retried and answered late, what is sent for   *)
(* a task goes by accepted answers of those it depends on.  The argument   *)
(* first solves the recursion that says what state a task is in, for a     *)
(* task waits for earlier ones only; then it follows a planner's sends     *)
(* from its snapshot to the attempt.                                       *)
(***************************************************************************)
EXTENDS PromptGovernor, TaskGraph, FiniteSetTheorems, SequenceTheorems, WellFoundedInduction, TLAPS

StateRow == [recent : Seq(Nat), project : [Project -> Nat \cup {Null}], slot : [Page -> Nat \cup {Null}],
             until : Nat, strikes : 0 .. MaxStrikes, limit : Nat \cup {Null}]
Counts   == {Cardinality(S) : S \in SUBSET Page} \cup {0}
AskRow   == [at : {"idle", "asks", "sleeps", "permitted"}, active : Counts, spent : 0 .. MaxInline, wake : Nat]
GrantRow == [at : Nat, page : Page]

Ascending(times) == \A i, j \in 1 .. Len(times) : i < j => times[i] < times[j]

\* The times that are in a window are those of the last permits, in their order.
Recalls(times) ==
  \E k \in 0 .. Len(granted) :
    /\ Len(times) = Len(granted) - k
    /\ \A i \in 1 .. Len(times) : times[i] = granted[i + k].at
    /\ \A i \in 1 .. k : granted[i].at + Window < now

\* The last time of each of f's values is that of its last permit, or was long ago.
Remembers(last, f) ==
  \A i \in 1 .. Len(granted) :
    LET x == last[f[granted[i].page]] IN
    IF x = Null THEN granted[i].at + Retention < now ELSE granted[i].at <= x

\* What holds of the stored state: it says what it has to of all the permits so far, of no
\* time to come, and the backoff it asks for is the one its strikes call for.
Truthful(s) ==
  /\ s \in StateRow
  /\ Recalls(s.recent) /\ Len(s.recent) <= MaxInWindow + 1
  /\ Remembers(s.project, ProjectOf) /\ Remembers(s.slot, [p \in Page |-> p])
  /\ \A x \in Project : s.project[x] # Null => s.project[x] <= now
  /\ \A p \in Page : s.slot[p] # Null => s.slot[p] <= now
  /\ s.limit # Null => /\ s.limit <= now /\ s.strikes >= 1
                       /\ s.until >= s.limit + Backoff(s.strikes)

\* The permits so far
Permitted ==
  /\ granted \in Seq(GrantRow)
  /\ \A i \in 1 .. Len(granted) : granted[i].at <= now
  /\ Paced

Shape ==
  /\ now \in Times /\ stops \in 0 .. MaxStops
  /\ held \subseteq Page /\ reported \subseteq Page /\ notices \subseteq Page
  /\ ask \in [Page -> AskRow] /\ page \in [Page -> {"idle", "generating", "limited"}]

\* The worker's copy is what is stored, as it was read some time ago.
Copied == cache # Null => \E t \in 0 .. now : cache = Normal(stored, t)

GInv == Shape /\ Permitted /\ Truthful(stored) /\ Copied

-----------------------------------------------------------------------------
(* Numbers, sequences and the forgetting of times *)

LEMMA ConstantsTyped ==
  /\ GlobalGap \in Nat \ {0} /\ ProjectGap \in Nat /\ SlotGap \in Nat /\ Window \in Nat /\ Retention \in Nat
  /\ GlobalGap <= Window /\ Window <= Retention /\ ProjectGap <= Retention /\ SlotGap <= Retention
  /\ MaxInWindow \in Nat \ {0} /\ BaseBackoff \in Nat /\ MaxBackoff \in Nat /\ StrikeReset \in Nat
  /\ MaxInline \in Nat /\ Jitter \in Nat /\ MaxTime \in Nat /\ MaxStops \in Nat /\ MaxStrikes \in Nat
  /\ ProjectOf \in [Page -> Project] /\ Null \notin Nat
<1>1. /\ {GlobalGap, ProjectGap, SlotGap, Window} \subseteq 1 .. Retention /\ Retention \in Nat
      /\ {MaxInWindow, MaxGenerations, BaseBackoff} \subseteq Nat \ {0}
      /\ {MaxInline, Jitter, MaxBackoff, StrikeReset, MaxTime, MaxStops, MaxStrikes} \subseteq Nat
  BY TimesFit DEF GovernorAssumption
<1>2. GlobalGap <= Window /\ ProjectOf \in [Page -> Project] /\ Null \notin Nat
  BY TimesFit DEF GovernorAssumption
<1>3. GlobalGap \in 1 .. Retention /\ ProjectGap \in 1 .. Retention /\ SlotGap \in 1 .. Retention /\ Window \in 1 .. Retention
  BY <1>1
<1>4. /\ MaxInWindow \in Nat \ {0} /\ BaseBackoff \in Nat /\ MaxBackoff \in Nat /\ StrikeReset \in Nat
      /\ MaxInline \in Nat /\ Jitter \in Nat /\ MaxTime \in Nat /\ MaxStops \in Nat /\ MaxStrikes \in Nat
  BY <1>1
<1> QED
  BY <1>1, <1>2, <1>3, <1>4

\* A set of numbers that is not empty has a least one.
LEMMA LeastExists ==
  ASSUME NEW S \in SUBSET Nat, S # {}
  PROVE  \E x \in S : \A y \in S : x <= y
<1>1. IsWellFoundedOn({ss \in Nat \X Nat : ss[1] < ss[2]}, Nat)
  BY NatLessThanWellFounded DEF OpToRel
<1>2. PICK x \in S : \A y \in S : ~(<<y, x>> \in {ss \in Nat \X Nat : ss[1] < ss[2]})
  BY <1>1, WFMin
<1>3. \A y \in S : ~(y < x)
  BY <1>2
<1> QED
  BY <1>3

\* One that has a bound has a greatest.
LEMMA GreatestExists ==
  ASSUME NEW S \in SUBSET Nat, S # {}, NEW n \in Nat, \A y \in S : y <= n
  PROVE  \E x \in S : \A y \in S : y <= x
<1> DEFINE Bounds == {b \in Nat : \A y \in S : y <= b}
<1>1. PICK b \in Bounds : \A c \in Bounds : b <= c
  <2>1. Bounds \in SUBSET Nat /\ Bounds # {}
    OBVIOUS
  <2> HIDE DEF Bounds
  <2> QED
    BY <2>1, LeastExists
<1>2. b \in Nat /\ \A y \in S : y <= b
  OBVIOUS
<1>3. b \in S
  <2> SUFFICES ASSUME b \notin S PROVE FALSE
    OBVIOUS
  <2>1. PICK z \in S : TRUE
    OBVIOUS
  <2>2. b # 0 /\ b - 1 \in Nat
    BY <1>2, <2>1
  <2>3. \A y \in S : y <= b - 1
    BY <1>2
  <2>4. b - 1 \in Bounds
    BY <2>2, <2>3
  <2> QED
    BY <1>1, <1>2, <2>4
<1> QED
  BY <1>2, <1>3

LEMMA SameSequence ==
  ASSUME NEW q \in Seq(Nat), NEW r \in Seq(Nat), Len(q) = Len(r), \A i \in 1 .. Len(q) : q[i] = r[i]
  PROVE  q = r
OBVIOUS

LEMMA SequenceOver ==
  ASSUME NEW S, NEW q \in Seq(Nat), \A i \in 1 .. Len(q) : q[i] \in S
  PROVE  q \in Seq(S)
<1>1. q \in [1 .. Len(q) -> S] /\ Len(q) \in Nat
  OBVIOUS
<1> QED
  BY <1>1

\* In ascending times those out of the window are the first ones.
LEMMA OldAreFirst ==
  ASSUME NEW q \in Seq(Nat), Ascending(q), NEW t \in Nat
  PROVE  \E k \in 0 .. Len(q) : \A i \in 1 .. Len(q) : q[i] + Window < t <=> i <= k
<1> DEFINE In == {i \in 1 .. Len(q) : ~(q[i] + Window < t)}
<1>0. Len(q) \in Nat /\ \A i \in 1 .. Len(q) : q[i] \in Nat
  OBVIOUS
<1>1. CASE In = {}
  <2> Len(q) \in 0 .. Len(q) /\ \A i \in 1 .. Len(q) : q[i] + Window < t /\ i <= Len(q)
    BY <1>0, <1>1
  <2> QED
    OBVIOUS
<1>2. CASE In # {}
  <2>1. In \in SUBSET Nat
    OBVIOUS
  <2>2. PICK m \in In : \A i \in In : m <= i
    <3> HIDE DEF In
    <3> QED
      BY <1>2, <2>1, LeastExists
  <2>3. m - 1 \in 0 .. Len(q) /\ m \in 1 .. Len(q) /\ ~(q[m] + Window < t)
    BY <1>0
  <2>4. ASSUME NEW i \in 1 .. Len(q) PROVE q[i] + Window < t <=> i <= m - 1
    <3>1. CASE i < m
      BY <1>0, <2>2, <2>3, <3>1
    <3>2. CASE i = m
      BY <1>0, <2>3, <3>2
    <3>3. CASE i > m
      <4>1. q[m] < q[i]
        BY <2>3, <3>3 DEF Ascending
      <4>2. Window \in Nat /\ q[m] \in Nat /\ q[i] \in Nat /\ m \in Nat /\ i \in Nat
        BY <1>0, <2>3, ConstantsTyped
      <4>3. ~(q[i] + Window < t) /\ ~(i <= m - 1)
        BY <2>3, <3>3, <4>1, <4>2
      <4> QED
        BY <4>3
    <3> QED
      BY <1>0, <2>3, <3>1, <3>2, <3>3
  <2> QED
    BY <2>3, <2>4
<1> QED
  BY <1>1, <1>2

LEMMA RecentIs ==
  ASSUME NEW q \in Seq(Nat), NEW t \in Nat, NEW k \in 0 .. Len(q),
         \A i \in 1 .. Len(q) : q[i] + Window < t <=> i <= k
  PROVE  /\ Recent(q, t) \in Seq(Nat) /\ Len(Recent(q, t)) = Len(q) - k
         /\ \A i \in 1 .. Len(q) - k : Recent(q, t)[i] = q[i + k]
<1>0. Len(q) \in Nat /\ k \in Nat
  OBVIOUS
<1>1. {i \in DOMAIN q : q[i] + Window < t} = 1 .. k
  BY <1>0
<1>2. Cardinality(1 .. k) = k
  BY <1>0, FS_Interval
<1>3. Recent(q, t) = SubSeq(q, k + 1, Len(q))
  BY <1>1, <1>2 DEF Recent
<1>4. \A i \in k + 1 .. Len(q) : q[i] \in Nat
  BY <1>0
<1>5. /\ SubSeq(q, k + 1, Len(q)) \in Seq(Nat)
      /\ Len(SubSeq(q, k + 1, Len(q))) = IF k + 1 <= Len(q) THEN Len(q) - (k + 1) + 1 ELSE 0
      /\ \A i \in 1 .. Len(q) - (k + 1) + 1 : SubSeq(q, k + 1, Len(q))[i] = q[(k + 1) + i - 1]
  BY <1>0, <1>4, SubSeqProperties
<1>6. Len(SubSeq(q, k + 1, Len(q))) = Len(q) - k
  BY <1>0, <1>5
<1>7. ASSUME NEW i \in 1 .. Len(q) - k PROVE SubSeq(q, k + 1, Len(q))[i] = q[i + k]
  <2>1. i \in 1 .. Len(q) - (k + 1) + 1 /\ (k + 1) + i - 1 = i + k
    BY <1>0
  <2> QED
    BY <1>5, <2>1
<1> QED
  BY <1>3, <1>5, <1>6, <1>7

\* What is forgotten in two goes is what is forgotten in one.
LEMMA RecentTwice ==
  ASSUME NEW q \in Seq(Nat), Ascending(q), NEW t \in Nat, NEW u \in Nat, t <= u
  PROVE  /\ Recent(q, t) \in Seq(Nat) /\ Ascending(Recent(q, t))
         /\ Recent(Recent(q, t), u) = Recent(q, u)
<1>1. PICK k \in 0 .. Len(q) : \A i \in 1 .. Len(q) : q[i] + Window < t <=> i <= k
  BY OldAreFirst
<1>2. PICK l \in 0 .. Len(q) : \A i \in 1 .. Len(q) : q[i] + Window < u <=> i <= l
  BY OldAreFirst
<1> DEFINE r == Recent(q, t)
<1>q. Len(q) \in Nat /\ \A i \in 1 .. Len(q) : q[i] \in Nat
  OBVIOUS
<1>0. Len(q) \in Nat /\ k \in Nat /\ l \in Nat /\ Window \in Nat /\ \A i \in 1 .. Len(q) : q[i] \in Nat
  BY <1>q, ConstantsTyped
<1>3. r \in Seq(Nat) /\ Len(r) = Len(q) - k /\ \A i \in 1 .. Len(q) - k : r[i] = q[i + k]
  BY <1>1, RecentIs
<1>4. k <= l
  <2>1. CASE k = 0
    BY <1>0, <2>1
  <2>2. CASE k # 0
    <3>1. k \in 1 .. Len(q) /\ q[k] + Window < t
      BY <1>0, <1>1, <2>2
    <3>2. q[k] + Window < u
      BY <1>0, <3>1
    <3> QED
      BY <1>2, <3>1, <3>2
  <2> QED
    BY <2>1, <2>2
<1> HIDE DEF r
<1>5. \A i \in 1 .. Len(r) : r[i] + Window < u <=> i <= l - k
  <2> SUFFICES ASSUME NEW i \in 1 .. Len(r) PROVE r[i] + Window < u <=> i <= l - k
    OBVIOUS
  <2>1. i + k \in 1 .. Len(q) /\ r[i] = q[i + k] /\ i \in Nat
    BY <1>0, <1>3
  <2> QED
    BY <1>0, <1>2, <2>1
<1>6. l - k \in 0 .. Len(r)
  BY <1>0, <1>3, <1>4
<1>7. /\ Recent(r, u) \in Seq(Nat) /\ Len(Recent(r, u)) = Len(r) - (l - k)
      /\ \A i \in 1 .. Len(r) - (l - k) : Recent(r, u)[i] = r[i + (l - k)]
  BY <1>3, <1>5, <1>6, RecentIs
<1>8. /\ Recent(q, u) \in Seq(Nat) /\ Len(Recent(q, u)) = Len(q) - l
      /\ \A i \in 1 .. Len(q) - l : Recent(q, u)[i] = q[i + l]
  BY <1>2, RecentIs
<1>9. Len(Recent(r, u)) = Len(Recent(q, u))
  BY <1>0, <1>3, <1>7, <1>8
<1>10. ASSUME NEW i \in 1 .. Len(Recent(r, u)) PROVE Recent(r, u)[i] = Recent(q, u)[i]
  <2>1. /\ i \in Nat /\ i \in 1 .. Len(q) - l /\ i \in 1 .. Len(r) - (l - k)
        /\ i + (l - k) \in 1 .. Len(q) - k /\ (i + (l - k)) + k = i + l
    BY <1>0, <1>3, <1>4, <1>7
  <2> QED
    BY <1>3, <1>7, <1>8, <2>1
<1>11. Ascending(r)
  <2> SUFFICES ASSUME NEW i \in 1 .. Len(r), NEW j \in 1 .. Len(r), i < j PROVE r[i] < r[j]
    BY DEF Ascending
  <2>1. i + k \in 1 .. Len(q) /\ j + k \in 1 .. Len(q) /\ i + k < j + k /\ r[i] = q[i + k] /\ r[j] = q[j + k]
    BY <1>0, <1>3
  <2> QED
    BY <2>1 DEF Ascending
<1>12. Recent(r, u) = Recent(q, u)
  BY <1>7, <1>8, <1>9, <1>10, SameSequence
<1> QED
  BY <1>3, <1>11, <1>12 DEF r

LEMMA KeptIs ==
  ASSUME NEW K, NEW last \in [K -> Nat \cup {Null}], NEW t \in Nat
  PROVE  /\ Kept(last, t) \in [K -> Nat \cup {Null}]
         /\ \A x \in K : Kept(last, t)[x] = IF last[x] # Null /\ last[x] + Retention >= t THEN last[x] ELSE Null
BY DEF Kept

LEMMA KeptTwice ==
  ASSUME NEW K, NEW last \in [K -> Nat \cup {Null}], NEW t \in Nat, NEW u \in Nat, t <= u
  PROVE  Kept(Kept(last, t), u) = Kept(last, u)
<1> DEFINE m == Kept(last, t)
<1>1. m \in [K -> Nat \cup {Null}] /\ \A x \in K : m[x] = IF last[x] # Null /\ last[x] + Retention >= t THEN last[x] ELSE Null
  BY KeptIs
<1> HIDE DEF m
<1>2. Kept(m, u) \in [K -> Nat \cup {Null}] /\ \A x \in K : Kept(m, u)[x] = IF m[x] # Null /\ m[x] + Retention >= u THEN m[x] ELSE Null
  BY <1>1, KeptIs
<1>3. Kept(last, u) \in [K -> Nat \cup {Null}] /\ \A x \in K : Kept(last, u)[x] = IF last[x] # Null /\ last[x] + Retention >= u THEN last[x] ELSE Null
  BY KeptIs
<1>4. ASSUME NEW x \in K PROVE Kept(m, u)[x] = Kept(last, u)[x]
  <2>1. Retention \in Nat /\ Null \notin Nat /\ last[x] \in Nat \cup {Null}
    BY ConstantsTyped
  <2>2. CASE last[x] = Null
    BY <1>1, <1>2, <1>3, <2>2
  <2>3. CASE last[x] \in Nat /\ last[x] + Retention >= t
    BY <1>1, <1>2, <1>3, <2>1, <2>3
  <2>4. CASE last[x] \in Nat /\ ~(last[x] + Retention >= t)
    BY <1>1, <1>2, <1>3, <2>1, <2>4
  <2> QED
    BY <2>1, <2>2, <2>3, <2>4
<1> QED
  BY <1>2, <1>3, <1>4 DEF m

\* A state that is read is the one that was stored, without what it has forgotten.
LEMMA NormalIs ==
  ASSUME NEW s \in StateRow, Ascending(s.recent), NEW t \in Nat
  PROVE  /\ Normal(s, t) \in StateRow /\ Ascending(Normal(s, t).recent)
         /\ Normal(s, t).recent = Recent(s.recent, t)
         /\ Normal(s, t).project = Kept(s.project, t) /\ Normal(s, t).slot = Kept(s.slot, t)
         /\ Normal(s, t).until = s.until /\ Normal(s, t).strikes = s.strikes /\ Normal(s, t).limit = s.limit
<1>0. /\ s.recent \in Seq(Nat) /\ s.project \in [Project -> Nat \cup {Null}]
      /\ s.slot \in [Page -> Nat \cup {Null}]
  BY DEF StateRow
<1>1. Recent(s.recent, t) \in Seq(Nat) /\ Ascending(Recent(s.recent, t))
  BY <1>0, RecentTwice
<1>2. Kept(s.project, t) \in [Project -> Nat \cup {Null}] /\ Kept(s.slot, t) \in [Page -> Nat \cup {Null}]
  BY <1>0, KeptIs
<1> QED
  BY <1>1, <1>2 DEF Normal, StateRow

LEMMA NormalTwice ==
  ASSUME NEW s \in StateRow, Ascending(s.recent), NEW t \in Nat, NEW u \in Nat, t <= u
  PROVE  Normal(Normal(s, t), u) = Normal(s, u)
<1>0. /\ s.recent \in Seq(Nat) /\ s.project \in [Project -> Nat \cup {Null}]
      /\ s.slot \in [Page -> Nat \cup {Null}]
  BY DEF StateRow
<1> DEFINE r == Normal(s, t)
<1>1. /\ r \in StateRow /\ Ascending(r.recent) /\ r.recent = Recent(s.recent, t)
      /\ r.project = Kept(s.project, t) /\ r.slot = Kept(s.slot, t)
      /\ r.until = s.until /\ r.strikes = s.strikes /\ r.limit = s.limit
  BY NormalIs
<1>2. /\ Normal(s, u) \in StateRow /\ Normal(s, u).recent = Recent(s.recent, u)
      /\ Normal(s, u).project = Kept(s.project, u) /\ Normal(s, u).slot = Kept(s.slot, u)
      /\ Normal(s, u).until = s.until /\ Normal(s, u).strikes = s.strikes /\ Normal(s, u).limit = s.limit
  BY NormalIs
<1> HIDE DEF r
<1>3. /\ Normal(r, u) \in StateRow /\ Normal(r, u).recent = Recent(r.recent, u)
      /\ Normal(r, u).project = Kept(r.project, u) /\ Normal(r, u).slot = Kept(r.slot, u)
      /\ Normal(r, u).until = r.until /\ Normal(r, u).strikes = r.strikes /\ Normal(r, u).limit = r.limit
  BY <1>1, NormalIs
<1>4. Recent(r.recent, u) = Recent(s.recent, u)
  BY <1>0, <1>1, RecentTwice
<1>5. Kept(r.project, u) = Kept(s.project, u) /\ Kept(r.slot, u) = Kept(s.slot, u)
  BY <1>0, <1>1, KeptTwice
<1>6. Normal(r, u) = Normal(s, u)
  <2> DEFINE a == Normal(r, u)
             b == Normal(s, u)
  <2>1. a \in StateRow /\ b \in StateRow
    BY <1>2, <1>3
  <2>2. /\ a.recent = b.recent /\ a.project = b.project /\ a.slot = b.slot
        /\ a.until = b.until /\ a.strikes = b.strikes /\ a.limit = b.limit
    BY <1>1, <1>2, <1>3, <1>4, <1>5
  <2> HIDE DEF a, b
  <2>3. /\ a = [recent |-> a.recent, project |-> a.project, slot |-> a.slot,
                 until |-> a.until, strikes |-> a.strikes, limit |-> a.limit]
        /\ b = [recent |-> b.recent, project |-> b.project, slot |-> b.slot,
                 until |-> b.until, strikes |-> b.strikes, limit |-> b.limit]
    BY <2>1 DEF StateRow
  <2> a = b
    BY <2>2, <2>3
  <2> QED
    BY DEF a, b
<1> QED
  BY <1>6 DEF r

-----------------------------------------------------------------------------
(* What is read, and what a permit waits for *)

LEMMA GrantsTyped ==
  ASSUME Permitted, now \in Nat
  PROVE  /\ Len(granted) \in Nat
         /\ \A i \in 1 .. Len(granted) : /\ granted[i] \in GrantRow /\ granted[i].at \in Nat
                                         /\ granted[i].page \in Page /\ granted[i].at <= now
<1>1. granted \in Seq(GrantRow) /\ \A i \in 1 .. Len(granted) : granted[i].at <= now
  BY DEF Permitted
<1>2. Len(granted) \in Nat /\ \A i \in 1 .. Len(granted) : granted[i] \in GrantRow
  BY <1>1
<1> QED
  BY <1>1, <1>2 DEF GrantRow

LEMMA NowTyped == ASSUME GInv PROVE now \in Nat /\ now <= MaxTime /\ MaxTime \in Nat
<1>1. MaxTime \in Nat
  BY ConstantsTyped
<1>2. now \in 0 .. MaxTime
  BY DEF GInv, Shape, Times
<1> QED
  BY <1>1, <1>2

\* Later permits were given later.
LEMMA GrantsAscend ==
  ASSUME GInv, NEW i \in 1 .. Len(granted), NEW j \in 1 .. Len(granted), i < j
  PROVE  granted[i].at < granted[j].at
<1>1. granted[i].at \in Nat /\ granted[j].at \in Nat /\ GlobalGap \in Nat \ {0}
  BY NowTyped, GrantsTyped, ConstantsTyped DEF GInv
<1>2. granted[j].at - granted[i].at >= GlobalGap
  BY DEF GInv, Permitted, Paced
<1> QED
  BY <1>1, <1>2

LEMMA StoredAscends == ASSUME GInv PROVE stored \in StateRow /\ Ascending(stored.recent)
<1>1. stored \in StateRow /\ Recalls(stored.recent)
  BY DEF GInv, Truthful
<1>2. PICK k \in 0 .. Len(granted) :
        /\ Len(stored.recent) = Len(granted) - k
        /\ \A i \in 1 .. Len(stored.recent) : stored.recent[i] = granted[i + k].at
  BY <1>1 DEF Recalls
<1>3. ASSUME NEW i \in 1 .. Len(stored.recent), NEW j \in 1 .. Len(stored.recent), i < j
      PROVE  stored.recent[i] < stored.recent[j]
  <2>1. Len(granted) \in Nat
    BY NowTyped, GrantsTyped DEF GInv
  <2>2. i + k \in 1 .. Len(granted) /\ j + k \in 1 .. Len(granted) /\ i + k < j + k
    BY <1>2, <1>3, <2>1
  <2>3. granted[i + k].at < granted[j + k].at
    BY <2>2, GrantsAscend
  <2> QED
    BY <1>2, <2>3
<1> QED
  BY <1>1, <1>3 DEF Ascending

\* Whether there is a copy or not, what is read is what is stored.
LEMMA StateIs == ASSUME GInv PROVE State = Normal(stored, now)
<1>1. CASE cache = Null
  BY <1>1 DEF State
<1>2. CASE cache # Null
  <2>1. PICK t \in 0 .. now : cache = Normal(stored, t)
    BY <1>2 DEF GInv, Copied
  <2>2. now \in Nat /\ t \in Nat /\ t <= now
    BY NowTyped
  <2>3. Normal(Normal(stored, t), now) = Normal(stored, now)
    BY <2>2, StoredAscends, NormalTwice
  <2> QED
    BY <1>2, <2>1, <2>3 DEF State
<1> QED
  BY <1>1, <1>2

\* Forgetting takes nothing away that still matters.
LEMMA StateTruthful ==
  ASSUME GInv
  PROVE  /\ Truthful(State) /\ Ascending(State.recent)
         /\ \A i \in 1 .. Len(State.recent) : State.recent[i] + Window >= now
         /\ \A x \in Project : State.project[x] # Null => State.project[x] + Retention >= now
         /\ \A p \in Page : State.slot[p] # Null => State.slot[p] + Retention >= now
         /\ State.until = stored.until /\ State.strikes = stored.strikes /\ State.limit = stored.limit
<1> DEFINE q == stored.recent
           s == Normal(stored, now)
<1>0. /\ now \in Nat /\ Len(granted) \in Nat /\ q \in Seq(Nat) /\ Len(q) \in Nat
      /\ stored \in StateRow /\ Ascending(q) /\ Truthful(stored)
      /\ Window \in Nat /\ Retention \in Nat /\ Null \notin Nat
      /\ \A i \in 1 .. Len(granted) : granted[i].at \in Nat /\ granted[i].page \in Page
  BY NowTyped, GrantsTyped, StoredAscends, ConstantsTyped DEF GInv, StateRow
<1>1. /\ s \in StateRow /\ Ascending(s.recent) /\ s.recent = Recent(q, now)
      /\ s.project = Kept(stored.project, now) /\ s.slot = Kept(stored.slot, now)
      /\ s.until = stored.until /\ s.strikes = stored.strikes /\ s.limit = stored.limit
  BY <1>0, NormalIs
<1>2. PICK l \in 0 .. Len(q) : \A i \in 1 .. Len(q) : q[i] + Window < now <=> i <= l
  BY <1>0, OldAreFirst
<1>3. /\ Len(s.recent) = Len(q) - l
      /\ \A i \in 1 .. Len(q) - l : s.recent[i] = q[i + l]
  <2>1. Len(Recent(q, now)) = Len(q) - l /\ \A i \in 1 .. Len(q) - l : Recent(q, now)[i] = q[i + l]
    BY <1>0, <1>2, RecentIs
  <2> QED
    BY <1>1, <2>1
<1>4. PICK k \in 0 .. Len(granted) :
        /\ Len(q) = Len(granted) - k
        /\ \A i \in 1 .. Len(q) : q[i] = granted[i + k].at
        /\ \A i \in 1 .. k : granted[i].at + Window < now
  BY <1>0 DEF Truthful, Recalls
<1>5. /\ stored.project \in [Project -> Nat \cup {Null}] /\ stored.slot \in [Page -> Nat \cup {Null}]
      /\ ProjectOf \in [Page -> Project]
  BY <1>0, ConstantsTyped DEF StateRow
<1>p. \A x \in Project : s.project[x] = IF stored.project[x] # Null /\ stored.project[x] + Retention >= now
                                          THEN stored.project[x] ELSE Null
  <2>1. \A x \in Project : Kept(stored.project, now)[x] =
          IF stored.project[x] # Null /\ stored.project[x] + Retention >= now THEN stored.project[x] ELSE Null
    <3>1. now \in Nat /\ stored.project \in [Project -> Nat \cup {Null}]
      BY <1>0, <1>5
    <3> QED
      BY <3>1, KeptIs
  <2> QED
    BY <1>1, <2>1
<1>g. \A p \in Page : s.slot[p] = IF stored.slot[p] # Null /\ stored.slot[p] + Retention >= now
                                    THEN stored.slot[p] ELSE Null
  <2>1. \A p \in Page : Kept(stored.slot, now)[p] =
          IF stored.slot[p] # Null /\ stored.slot[p] + Retention >= now THEN stored.slot[p] ELSE Null
    <3>1. now \in Nat /\ stored.slot \in [Page -> Nat \cup {Null}]
      BY <1>0, <1>5
    <3> QED
      BY <3>1, KeptIs
  <2> QED
    BY <1>1, <2>1
<1> HIDE DEF s, q
<1>6. Recalls(s.recent)
  <2>1. k + l \in 0 .. Len(granted) /\ Len(s.recent) = Len(granted) - (k + l)
    BY <1>0, <1>2, <1>3, <1>4
  <2>2. ASSUME NEW i \in 1 .. Len(s.recent) PROVE s.recent[i] = granted[i + (k + l)].at
    <3>1. i + l \in 1 .. Len(q) /\ (i + l) + k = i + (k + l) /\ i \in 1 .. Len(q) - l
      BY <1>0, <1>2, <1>3, <1>4
    <3> QED
      BY <1>3, <1>4, <3>1
  <2>3. ASSUME NEW i \in 1 .. k + l PROVE granted[i].at + Window < now
    <3>1. CASE i <= k
      BY <1>4, <2>3, <3>1
    <3>2. CASE i > k
      <4>1. i - k \in 1 .. Len(q) /\ i - k <= l /\ (i - k) + k = i
        BY <1>0, <1>2, <1>4, <2>3, <3>2
      <4>2. q[i - k] = granted[i].at /\ q[i - k] + Window < now
        BY <1>2, <1>4, <4>1
      <4> QED
        BY <4>2
    <3> QED
      BY <1>4, <2>3, <3>1, <3>2
  <2> QED
    BY <2>1, <2>2, <2>3 DEF Recalls
<1>7. ASSUME NEW i \in 1 .. Len(s.recent) PROVE s.recent[i] + Window >= now
  <2>1. i + l \in 1 .. Len(q) /\ ~(i + l <= l) /\ s.recent[i] = q[i + l]
    BY <1>0, <1>2, <1>3
  <2>2. ~(q[i + l] + Window < now) /\ q[i + l] \in Nat
    BY <1>0, <1>2, <2>1
  <2> QED
    BY <1>0, <2>1, <2>2
<1>8. Len(s.recent) <= MaxInWindow + 1
  BY <1>0, <1>2, <1>3, ConstantsTyped DEF Truthful, q
<1>9. Remembers(s.project, ProjectOf)
  <2> SUFFICES ASSUME NEW i \in 1 .. Len(granted)
               PROVE  LET x == s.project[ProjectOf[granted[i].page]] IN
                      IF x = Null THEN granted[i].at + Retention < now ELSE granted[i].at <= x
    BY DEF Remembers
  <2> DEFINE y == ProjectOf[granted[i].page]
             x == stored.project[y]
  <2>1. y \in Project /\ x \in Nat \cup {Null} /\ granted[i].at \in Nat
    BY <1>0, <1>5
  <2>2. IF x = Null THEN granted[i].at + Retention < now ELSE granted[i].at <= x
    BY <1>0 DEF Truthful, Remembers
  <2>3. s.project[y] = IF x # Null /\ x + Retention >= now THEN x ELSE Null
    BY <1>p, <2>1
  <2> HIDE DEF x
  <2> QED
    BY <1>0, <2>1, <2>2, <2>3
<1>10. Remembers(s.slot, [p \in Page |-> p])
  <2> SUFFICES ASSUME NEW i \in 1 .. Len(granted)
               PROVE  LET x == s.slot[[p \in Page |-> p][granted[i].page]] IN
                      IF x = Null THEN granted[i].at + Retention < now ELSE granted[i].at <= x
    BY DEF Remembers
  <2> DEFINE y == [p \in Page |-> p][granted[i].page]
             x == stored.slot[y]
  <2>1. y \in Page /\ x \in Nat \cup {Null} /\ granted[i].at \in Nat
    BY <1>0, <1>5
  <2>2. IF x = Null THEN granted[i].at + Retention < now ELSE granted[i].at <= x
    BY <1>0 DEF Truthful, Remembers
  <2>3. s.slot[y] = IF x # Null /\ x + Retention >= now THEN x ELSE Null
    BY <1>g, <2>1
  <2> HIDE DEF x
  <2> QED
    BY <1>0, <2>1, <2>2, <2>3
<1>11. /\ \A x \in Project : s.project[x] # Null => s.project[x] <= now
       /\ \A p \in Page : s.slot[p] # Null => s.slot[p] <= now
  BY <1>0, <1>p, <1>g DEF Truthful
<1>12. s.limit # Null => /\ s.limit <= now /\ s.strikes >= 1
                         /\ s.until >= s.limit + Backoff(s.strikes)
  BY <1>0, <1>1 DEF Truthful
<1>13. Truthful(s)
  BY <1>1, <1>6, <1>8, <1>9, <1>10, <1>11, <1>12 DEF Truthful
<1>14. State = s
  BY StateIs DEF s
<1> QED
  BY <1>1, <1>7, <1>p, <1>g, <1>13, <1>14

\* Whoever nothing asks to wait is far enough from all the permits there have been.
LEMMA FreeToSend ==
  ASSUME GInv, NEW p \in Page, Blocking(p) = {}
  PROVE  /\ \A i \in 1 .. Len(granted) :
              /\ granted[i].at + GlobalGap <= now
              /\ ProjectOf[granted[i].page] = ProjectOf[p] => granted[i].at + ProjectGap <= now
              /\ granted[i].page = p => granted[i].at + SlotGap <= now
              /\ i + MaxInWindow <= Len(granted) + 1 => granted[i].at + Window <= now
         /\ Len(State.recent) <= MaxInWindow
         /\ State.until <= now
<1> DEFINE s == State
           q == s.recent
<1>0. /\ Truthful(s) /\ Ascending(q) /\ \A i \in 1 .. Len(q) : q[i] + Window >= now
  BY StateTruthful
<1>1. \A x \in Waits(s, p) : ~(x > now)
  BY DEF Blocking
<1> HIDE DEF s
<1>2. /\ now \in Nat /\ Len(granted) \in Nat /\ Retention \in Nat /\ Window \in Nat /\ MaxInWindow \in Nat \ {0}
      /\ GlobalGap \in Nat /\ ProjectGap \in Nat /\ SlotGap \in Nat /\ Null \notin Nat
      /\ GlobalGap <= Window /\ ProjectGap <= Retention /\ SlotGap <= Retention
      /\ \A i \in 1 .. Len(granted) : granted[i].at \in Nat /\ granted[i].page \in Page /\ granted[i].at <= now
      /\ ProjectOf \in [Page -> Project]
  BY NowTyped, GrantsTyped, ConstantsTyped DEF GInv
<1>3. /\ q \in Seq(Nat) /\ Len(q) \in Nat /\ s.until \in Nat /\ \A i \in 1 .. Len(q) : q[i] \in Nat
      /\ s.project \in [Project -> Nat \cup {Null}] /\ s.slot \in [Page -> Nat \cup {Null}]
  BY <1>0 DEF Truthful, StateRow
<1>4. PICK k \in 0 .. Len(granted) :
        /\ Len(q) = Len(granted) - k
        /\ \A i \in 1 .. Len(q) : q[i] = granted[i + k].at
        /\ \A i \in 1 .. k : granted[i].at + Window < now
  BY <1>0 DEF Truthful, Recalls
<1>5. Len(q) # 0 => q[Len(q)] + GlobalGap <= now
  <2> SUFFICES ASSUME Len(q) # 0 PROVE q[Len(q)] + GlobalGap <= now
    OBVIOUS
  <2>1. q # <<>>
    BY <1>3
  <2>2. q[Len(q)] + GlobalGap \in Waits(s, p)
    BY <2>1 DEF Waits
  <2>3. q[Len(q)] \in Nat
    BY <1>3
  <2> QED
    BY <1>1, <1>2, <2>2, <2>3
<1>6. Len(q) >= MaxInWindow => q[Len(q) - MaxInWindow + 1] + Window <= now
  <2> SUFFICES ASSUME Len(q) >= MaxInWindow PROVE q[Len(q) - MaxInWindow + 1] + Window <= now
    OBVIOUS
  <2>1. ~(Len(q) < MaxInWindow)
    BY <1>2, <1>3
  <2>2. q[Len(q) - MaxInWindow + 1] + Window \in Waits(s, p)
    BY <2>1 DEF Waits
  <2>3. Len(q) - MaxInWindow + 1 \in 1 .. Len(q)
    BY <1>2, <1>3
  <2>4. q[Len(q) - MaxInWindow + 1] \in Nat
    BY <1>3, <2>3
  <2> QED
    BY <1>1, <1>2, <2>2, <2>4
<1>7. s.project[ProjectOf[p]] # Null => s.project[ProjectOf[p]] + ProjectGap <= now
  <2> SUFFICES ASSUME s.project[ProjectOf[p]] # Null PROVE s.project[ProjectOf[p]] + ProjectGap <= now
    OBVIOUS
  <2>1. s.project[ProjectOf[p]] + ProjectGap \in Waits(s, p)
    BY DEF Waits
  <2>2. s.project[ProjectOf[p]] \in Nat
    BY <1>2, <1>3
  <2> QED
    BY <1>1, <1>2, <2>1, <2>2
<1>8. s.slot[p] # Null => s.slot[p] + SlotGap <= now
  <2> SUFFICES ASSUME s.slot[p] # Null PROVE s.slot[p] + SlotGap <= now
    OBVIOUS
  <2>1. s.slot[p] + SlotGap \in Waits(s, p)
    BY DEF Waits
  <2>2. s.slot[p] \in Nat
    BY <1>2, <1>3
  <2> QED
    BY <1>1, <1>2, <2>1, <2>2
<1>9. s.until <= now
  <2> SUFFICES ASSUME s.until > now PROVE FALSE
    BY <1>2, <1>3
  <2>1. s.until \in Waits(s, p)
    BY DEF Waits
  <2> QED
    BY <1>1, <2>1
<1>10. ASSUME NEW i \in 1 .. Len(granted) PROVE granted[i].at + GlobalGap <= now
  <2>1. CASE i <= k
    BY <1>2, <1>4, <2>1
  <2>2. CASE i > k
    <3>1. i - k \in 1 .. Len(q) /\ (i - k) + k = i /\ Len(q) # 0 /\ Len(q) \in 1 .. Len(q)
      BY <1>2, <1>3, <1>4, <2>2
    <3>2. q[i - k] = granted[i].at /\ q[i - k] \in Nat /\ q[Len(q)] \in Nat
      BY <1>3, <1>4, <3>1
    <3>3. q[i - k] <= q[Len(q)]
      <4>1. CASE i - k = Len(q)
        BY <3>2, <4>1
      <4>2. CASE i - k < Len(q)
        BY <1>0, <3>1, <3>2, <4>2 DEF Ascending
      <4> QED
        BY <1>3, <3>1, <4>1, <4>2
    <3> QED
      BY <1>2, <1>5, <3>1, <3>2, <3>3
  <2> QED
    BY <1>4, <2>1, <2>2
<1>11. ASSUME NEW i \in 1 .. Len(granted), i + MaxInWindow <= Len(granted) + 1
       PROVE  granted[i].at + Window <= now
  <2>1. CASE i <= k
    BY <1>2, <1>4, <2>1
  <2>2. CASE i > k
    <3> DEFINE m == Len(q) - MaxInWindow + 1
    <3>1. /\ i - k \in 1 .. Len(q) /\ (i - k) + k = i /\ Len(q) >= MaxInWindow
          /\ m \in 1 .. Len(q) /\ i - k <= m
      BY <1>2, <1>3, <1>4, <1>11, <2>2
    <3>2. q[i - k] = granted[i].at /\ q[i - k] \in Nat /\ q[m] \in Nat
      BY <1>3, <1>4, <3>1
    <3>3. q[i - k] <= q[m]
      <4>1. CASE i - k = m
        BY <3>2, <4>1
      <4>2. CASE i - k < m
        <5>1. q[i - k] < q[m]
          BY <1>0, <3>1, <4>2 DEF Ascending
        <5> QED
          BY <3>2, <5>1
      <4>3. i - k \in Int /\ m \in Int /\ i - k <= m
        BY <3>1
      <4> HIDE DEF m
      <4> QED
        BY <4>1, <4>2, <4>3
    <3>4. q[m] + Window <= now
      BY <1>6, <3>1
    <3> HIDE DEF m
    <3> QED
      BY <1>2, <3>2, <3>3, <3>4
  <2> QED
    BY <1>4, <2>1, <2>2
<1>12. ASSUME NEW i \in 1 .. Len(granted), ProjectOf[granted[i].page] = ProjectOf[p]
       PROVE  granted[i].at + ProjectGap <= now
  <2> DEFINE x == s.project[ProjectOf[p]]
  <2>1. x \in Nat \cup {Null}
    BY <1>2, <1>3
  <2>2. IF x = Null THEN granted[i].at + Retention < now ELSE granted[i].at <= x
    BY <1>0, <1>12 DEF Truthful, Remembers
  <2>3. x # Null => x + ProjectGap <= now
    BY <1>7
  <2>4. granted[i].at \in Nat
    BY <1>2
  <2> HIDE DEF x
  <2> QED
    BY <1>2, <2>1, <2>2, <2>3, <2>4
<1>13. ASSUME NEW i \in 1 .. Len(granted), granted[i].page = p
       PROVE  granted[i].at + SlotGap <= now
  <2> DEFINE x == s.slot[p]
  <2>1. x \in Nat \cup {Null}
    BY <1>3
  <2>2. IF x = Null THEN granted[i].at + Retention < now ELSE granted[i].at <= x
    BY <1>0, <1>13 DEF Truthful, Remembers
  <2>3. x # Null => x + SlotGap <= now
    BY <1>8
  <2>4. granted[i].at \in Nat
    BY <1>2
  <2> HIDE DEF x
  <2> QED
    BY <1>2, <2>1, <2>2, <2>3, <2>4
<1>14. Len(q) <= MaxInWindow
  <2> SUFFICES ASSUME Len(q) > MaxInWindow PROVE FALSE
    BY <1>2, <1>3
  <2> DEFINE m == Len(q) - MaxInWindow + 1
  <2>1. Len(q) >= MaxInWindow /\ m \in 1 .. Len(q) /\ 1 \in 1 .. Len(q) /\ 1 < m
    BY <1>2, <1>3
  <2>2. q[1] < q[m] /\ q[1] + Window >= now
    BY <1>0, <2>1 DEF Ascending
  <2>3. q[m] + Window <= now
    BY <1>6, <2>1
  <2> DEFINE first == q[1]
             later == q[m]
  <2>4. first \in Nat /\ later \in Nat /\ now \in Nat /\ Window \in Nat
    BY <1>2, <1>3, <2>1
  <2>5. first < later /\ first + Window >= now /\ later + Window <= now
    BY <2>2, <2>3
  <2> HIDE DEF first, later
  <2> QED
    BY <2>4, <2>5
<1> QED
  BY <1>9, <1>10, <1>11, <1>12, <1>13, <1>14 DEF s

\* The wait that is the longest is one of those asked for.
LEMMA LatestIs ==
  ASSUME GInv, NEW p \in Page, Blocking(p) # {}
  PROVE  Latest(p) \in Nat /\ Latest(p) > now
<1> DEFINE s == State
           q == s.recent
           B == Blocking(p)
<1>1. Truthful(s)
  BY StateTruthful
<1>2. /\ q \in Seq(Nat) /\ Len(q) \in Nat /\ s.until \in Nat /\ \A i \in 1 .. Len(q) : q[i] \in Nat
      /\ s.project \in [Project -> Nat \cup {Null}] /\ s.slot \in [Page -> Nat \cup {Null}]
  BY <1>1 DEF Truthful, StateRow
<1>3. /\ GlobalGap \in Nat /\ ProjectGap \in Nat /\ SlotGap \in Nat /\ Window \in Nat
      /\ MaxInWindow \in Nat \ {0} /\ ProjectOf \in [Page -> Project] /\ now \in Nat
  BY ConstantsTyped, NowTyped
<1>4. \E n \in Nat : B \subseteq 0 .. n
  <2> DEFINE a == IF q = <<>> THEN 0 ELSE q[Len(q)] + GlobalGap
             b == IF Len(q) < MaxInWindow THEN 0 ELSE q[Len(q) - MaxInWindow + 1] + Window
             c == IF s.project[ProjectOf[p]] = Null THEN 0 ELSE s.project[ProjectOf[p]] + ProjectGap
             d == IF s.slot[p] = Null THEN 0 ELSE s.slot[p] + SlotGap
  <2>1. a \in Nat
    <3>1. CASE q # <<>>
      <4> Len(q) \in 1 .. Len(q)
        BY <1>2, <3>1
      <4> QED
        BY <1>2, <1>3, <3>1
    <3> QED
      BY <3>1
  <2>2. b \in Nat
    <3>1. CASE ~(Len(q) < MaxInWindow)
      <4> Len(q) - MaxInWindow + 1 \in 1 .. Len(q)
        BY <1>2, <1>3, <3>1
      <4> QED
        BY <1>2, <1>3, <3>1
    <3> QED
      BY <3>1
  <2>3. c \in Nat
    BY <1>2, <1>3
  <2>4. d \in Nat
    BY <1>2, <1>3
  <2>5. B \subseteq {s.until, a, b, c, d}
    BY DEF Blocking, Waits
  <2> HIDE DEF a, b, c, d, B
  <2>6. s.until + a + b + c + d \in Nat /\ {s.until, a, b, c, d} \subseteq 0 .. (s.until + a + b + c + d)
    BY <1>2, <2>1, <2>2, <2>3, <2>4
  <2> QED
    BY <2>5, <2>6
<1>5. PICK n \in Nat : B \subseteq 0 .. n
  BY <1>4
<1>6. B \in SUBSET Nat /\ B # {} /\ \A y \in B : y <= n
  BY <1>5
<1> HIDE DEF B
<1>7. \E x \in B : \A y \in B : y <= x
  BY <1>6, GreatestExists
<1>8. Latest(p) \in B
  BY <1>7 DEF Latest, B
<1> QED
  BY <1>6, <1>8 DEF B, Blocking

\* A state in which there is nothing to forget is what it is read as.
LEMMA NormalFixed ==
  ASSUME NEW s \in StateRow, Ascending(s.recent), NEW t \in Nat,
         \A i \in 1 .. Len(s.recent) : s.recent[i] + Window >= t,
         \A x \in Project : s.project[x] # Null => s.project[x] + Retention >= t,
         \A p \in Page : s.slot[p] # Null => s.slot[p] + Retention >= t
  PROVE  Normal(s, t) = s
<1>t. /\ s.recent \in Seq(Nat) /\ s.project \in [Project -> Nat \cup {Null}]
      /\ s.slot \in [Page -> Nat \cup {Null}]
  BY DEF StateRow
<1>0. /\ s.recent \in Seq(Nat) /\ s.project \in [Project -> Nat \cup {Null}]
      /\ s.slot \in [Page -> Nat \cup {Null}] /\ Len(s.recent) \in Nat
      /\ \A i \in 1 .. Len(s.recent) : s.recent[i] \in Nat
      /\ Window \in Nat
  <2>1. Window \in Nat
    BY ConstantsTyped
  <2> QED
    BY <1>t, <2>1
<1>1. Recent(s.recent, t) = s.recent
  <2>1. \A i \in 1 .. Len(s.recent) : s.recent[i] + Window < t <=> i <= 0
    BY <1>0
  <2>2. 0 \in 0 .. Len(s.recent)
    BY <1>0
  <2>3. /\ Recent(s.recent, t) \in Seq(Nat) /\ Len(Recent(s.recent, t)) = Len(s.recent) - 0
        /\ \A i \in 1 .. Len(s.recent) - 0 : Recent(s.recent, t)[i] = s.recent[i + 0]
    BY <1>0, <2>1, <2>2, RecentIs
  <2>4. Len(Recent(s.recent, t)) = Len(s.recent) /\ \A i \in 1 .. Len(s.recent) : Recent(s.recent, t)[i] = s.recent[i]
    BY <1>0, <2>3
  <2> QED
    BY <1>0, <2>3, <2>4, SameSequence
<1>2. Kept(s.project, t) = s.project
  BY <1>0 DEF Kept
<1>3. Kept(s.slot, t) = s.slot
  BY <1>0 DEF Kept
<1> QED
  BY <1>1, <1>2, <1>3 DEF Normal, StateRow

LEMMA BackoffTyped ==
  ASSUME NEW n \in Nat \ {0} PROVE Backoff(n) \in Nat
<1>1. (IF n > 21 THEN 20 ELSE n - 1) \in 0 .. 20
  OBVIOUS
<1>2. 2 ^ (IF n > 21 THEN 20 ELSE n - 1) \in Nat
  BY <1>1, PowersOfTwo
<1>3. BaseBackoff \in Nat /\ MaxBackoff \in Nat
  BY ConstantsTyped
<1> DEFINE b == 2 ^ (IF n > 21 THEN 20 ELSE n - 1)
<1>4. Backoff(n) = IF BaseBackoff * b > MaxBackoff THEN MaxBackoff ELSE BaseBackoff * b
  BY DEF Backoff
<1> HIDE DEF b
<1>5. b \in Nat
  BY <1>2 DEF b
<1>6. BaseBackoff * b \in Nat
  BY <1>3, <1>5
<1> QED
  BY <1>3, <1>4, <1>6

-----------------------------------------------------------------------------
(* The steps *)

Pacing == Permitted /\ Truthful(stored) /\ Copied

\* A step that reads, or that has nothing to do with the pacing.
LEMMA ReadKeeps ==
  ASSUME GInv, UNCHANGED <<now, stored, granted>>, cache' \in {cache, Null, State}
  PROVE  Pacing'
<1>1. Permitted'
  BY DEF GInv, Permitted, Paced
<1>2. Truthful(stored)'
  BY DEF GInv, Truthful, Recalls, Remembers
<1>3. Copied'
  <2>1. CASE cache' = cache
    BY <2>1 DEF GInv, Copied
  <2>2. CASE cache' = Null
    BY <2>2 DEF Copied
  <2>3. CASE cache' = State
    <3>1. now \in 0 .. now /\ cache' = Normal(stored, now)
      BY <2>3, NowTyped, StateIs
    <3> QED
      BY <3>1 DEF Copied
  <2> QED
    BY <2>1, <2>2, <2>3
<1> QED
  BY <1>1, <1>2, <1>3 DEF Pacing

LEMMA TickKeeps ==
  ASSUME GInv, Tick PROVE Pacing'
<1>a. now \in Nat /\ now' = now + 1 /\ UNCHANGED <<stored, cache, granted>>
  BY NowTyped DEF Tick
<1>b. Window \in Nat /\ Retention \in Nat /\ Null \notin Nat
  BY ConstantsTyped
<1>c. \A i \in 1 .. Len(granted) : granted[i].at \in Nat /\ granted[i].page \in Page
  BY <1>a, GrantsTyped DEF GInv
<1>0. /\ now \in Nat /\ now' = now + 1 /\ UNCHANGED <<stored, cache, granted>>
      /\ Window \in Nat /\ Retention \in Nat /\ Null \notin Nat
      /\ \A i \in 1 .. Len(granted) : granted[i].at \in Nat /\ granted[i].page \in Page
  BY <1>a, <1>b, <1>c
<1>1. Permitted'
  BY <1>0 DEF GInv, Permitted, Paced
<1>2. Truthful(stored)'
  <2>0. Truthful(stored) /\ stored \in StateRow
    BY DEF GInv, Truthful
  <2>1. /\ stored.project \in [Project -> Nat \cup {Null}] /\ stored.slot \in [Page -> Nat \cup {Null}]
        /\ stored.limit \in Nat \cup {Null} /\ ProjectOf \in [Page -> Project]
    BY <2>0, ConstantsTyped DEF StateRow
  <2>2. Recalls(stored.recent)'
    <3>1. PICK k \in 0 .. Len(granted) :
            /\ Len(stored.recent) = Len(granted) - k
            /\ \A i \in 1 .. Len(stored.recent) : stored.recent[i] = granted[i + k].at
            /\ \A i \in 1 .. k : granted[i].at + Window < now
      BY <2>0 DEF Truthful, Recalls
    <3>2. \A i \in 1 .. k : granted[i].at + Window < now'
      <4> SUFFICES ASSUME NEW i \in 1 .. k PROVE granted[i].at + Window < now'
        OBVIOUS
      <4>1. i \in 1 .. Len(granted)
        BY <1>0, <3>1, GrantsTyped DEF GInv
      <4> QED
        BY <1>0, <3>1, <4>1
    <3> QED
      BY <1>0, <3>1, <3>2 DEF Recalls
  <2>3. Remembers(stored.project, ProjectOf)' /\ Remembers(stored.slot, [p \in Page |-> p])'
    <3> SUFFICES ASSUME NEW i \in 1 .. Len(granted)
                 PROVE  /\ LET x == stored.project[ProjectOf[granted[i].page]] IN
                           IF x = Null THEN granted[i].at + Retention < now' ELSE granted[i].at <= x
                        /\ LET x == stored.slot[[p \in Page |-> p][granted[i].page]] IN
                           IF x = Null THEN granted[i].at + Retention < now' ELSE granted[i].at <= x
      BY <1>0 DEF Remembers
    <3> QED
      BY <1>0, <2>0 DEF Truthful, Remembers
  <2>4. /\ \A x \in Project : stored.project[x] # Null => stored.project[x] <= now'
        /\ \A p \in Page : stored.slot[p] # Null => stored.slot[p] <= now'
        /\ stored.limit # Null => stored.limit <= now'
    BY <1>0, <2>0, <2>1 DEF Truthful
  <2>5. /\ stored \in StateRow /\ Len(stored.recent) <= MaxInWindow + 1
        /\ stored.limit # Null => stored.strikes >= 1 /\ stored.until >= stored.limit + Backoff(stored.strikes)
    BY <2>0 DEF Truthful
  <2> QED
    BY <1>0, <2>2, <2>3, <2>4, <2>5 DEF Truthful
<1>3. Copied'
  BY <1>0 DEF GInv, Copied
<1> QED
  BY <1>1, <1>2, <1>3 DEF Pacing

\* What is stored together with the worker's copy has nothing to forget.
LEMMA SaveCopies ==
  ASSUME now \in Nat, UNCHANGED now, cache' = stored', stored' \in StateRow, Ascending(stored'.recent),
         \A i \in 1 .. Len(stored'.recent) : stored'.recent[i] + Window >= now,
         \A x \in Project : stored'.project[x] # Null => stored'.project[x] + Retention >= now,
         \A p \in Page : stored'.slot[p] # Null => stored'.slot[p] + Retention >= now
  PROVE  Copied'
<1>1. Normal(stored', now) = stored'
  BY NormalFixed
<1>2. now \in 0 .. now' /\ cache' = Normal(stored', now)
  BY <1>1
<1> QED
  BY <1>2 DEF Copied

\* A signal is stored with the backoff it calls for.
LEMMA SignalKeeps ==
  ASSUME GInv, NEW p \in Page, RateLimited(p) PROVE Pacing'
<1> DEFINE s == State
           strikes == IF s.limit # Null /\ now <= s.limit + StrikeReset THEN s.strikes + 1 ELSE 1
           until == now + Backoff(strikes)
<1>0. UNCHANGED <<now, granted>> /\ strikes <= MaxStrikes
  BY DEF RateLimited
<1>1. CASE SaveFails
  BY <1>0, <1>1, ReadKeeps DEF SaveFails
<1>2. CASE Save([s EXCEPT !.strikes = strikes, !.limit = now, !.until = IF until > @ THEN until ELSE @])
  <2>1. /\ Truthful(s) /\ Ascending(s.recent) /\ s \in StateRow
        /\ \A i \in 1 .. Len(s.recent) : s.recent[i] + Window >= now
        /\ \A x \in Project : s.project[x] # Null => s.project[x] + Retention >= now
        /\ \A x \in Page : s.slot[x] # Null => s.slot[x] + Retention >= now
    BY StateTruthful DEF Truthful
  <2>2. now \in Nat /\ Null \notin Nat /\ MaxStrikes \in Nat
    BY NowTyped, ConstantsTyped
  <2>3. /\ stored' = [s EXCEPT !.strikes = strikes, !.limit = now, !.until = IF until > @ THEN until ELSE @]
        /\ cache' = stored'
    BY <1>2 DEF Save
  <2> HIDE DEF s
  <2>4. /\ s.strikes \in Nat /\ s.until \in Nat /\ s.recent \in Seq(Nat)
        /\ s.project \in [Project -> Nat \cup {Null}] /\ s.slot \in [Page -> Nat \cup {Null}]
    BY <2>1, <2>2 DEF StateRow
  <2>5. strikes \in Nat \ {0} /\ strikes \in 0 .. MaxStrikes
    BY <1>0, <2>2, <2>4
  <2> HIDE DEF strikes
  <2>6. Backoff(strikes) \in Nat
    BY <2>5, BackoffTyped
  <2> DEFINE later == IF until > s.until THEN until ELSE s.until
  <2>7. until \in Nat /\ later \in Nat /\ later >= until
    BY <2>2, <2>4, <2>6
  <2> HIDE DEF until
  <2>8. /\ stored'.recent = s.recent /\ stored'.project = s.project /\ stored'.slot = s.slot
        /\ stored'.strikes = strikes /\ stored'.limit = now /\ stored'.until = later
    BY <2>1, <2>3 DEF StateRow
  <2>9. stored' = [recent |-> s.recent, project |-> s.project, slot |-> s.slot,
                   until |-> later, strikes |-> strikes, limit |-> now]
    BY <2>1, <2>3 DEF StateRow
  <2> HIDE DEF later
  <2>10. stored' \in StateRow
    BY <2>2, <2>4, <2>5, <2>7, <2>9 DEF StateRow
  <2>11. Permitted'
    BY <1>0 DEF GInv, Permitted, Paced
  <2>12. stored'.limit <= now /\ stored'.strikes >= 1 /\ stored'.until >= stored'.limit + Backoff(stored'.strikes)
    BY <2>2, <2>5, <2>7, <2>8 DEF until
  <2>13. /\ Recalls(stored.recent)' /\ Len(stored'.recent) <= MaxInWindow + 1
         /\ Remembers(stored.project, ProjectOf)' /\ Remembers(stored.slot, [x \in Page |-> x])'
    BY <1>0, <2>1, <2>8 DEF Truthful, Recalls, Remembers
  <2>14. /\ \A x \in Project : stored'.project[x] # Null => stored'.project[x] <= now
         /\ \A x \in Page : stored'.slot[x] # Null => stored'.slot[x] <= now
    BY <2>1, <2>8 DEF Truthful
  <2>15. Truthful(stored)'
    BY <1>0, <2>10, <2>12, <2>13, <2>14 DEF Truthful
  <2>16. /\ Ascending(stored'.recent)
         /\ \A i \in 1 .. Len(stored'.recent) : stored'.recent[i] + Window >= now
         /\ \A x \in Project : stored'.project[x] # Null => stored'.project[x] + Retention >= now
         /\ \A x \in Page : stored'.slot[x] # Null => stored'.slot[x] + Retention >= now
    BY <2>1, <2>8
  <2>17. Copied'
    BY <1>0, <2>2, <2>3, <2>10, <2>16, SaveCopies
  <2> QED
    BY <2>11, <2>15, <2>17 DEF Pacing
<1>3. \/ Save([s EXCEPT !.strikes = strikes, !.limit = now, !.until = IF until > @ THEN until ELSE @])
      \/ SaveFails
  BY DEF RateLimited
<1> QED
  BY <1>1, <1>2, <1>3

\* A permit is reserved before it is given, and keeps its distances.
LEMMA PermitKeeps ==
  ASSUME GInv, NEW p \in Page, Permit(p) PROVE Pacing'
<1> DEFINE s == State
           q == s.recent
           n == Len(granted)
           g == [at |-> now, page |-> p]
<1>1. /\ Truthful(s) /\ Ascending(q) /\ s \in StateRow
      /\ \A i \in 1 .. Len(q) : q[i] + Window >= now
      /\ \A x \in Project : s.project[x] # Null => s.project[x] + Retention >= now
      /\ \A x \in Page : s.slot[x] # Null => s.slot[x] + Retention >= now
  BY StateTruthful DEF Truthful
<1>2. /\ \A i \in 1 .. n :
              /\ granted[i].at + GlobalGap <= now
              /\ ProjectOf[granted[i].page] = ProjectOf[p] => granted[i].at + ProjectGap <= now
              /\ granted[i].page = p => granted[i].at + SlotGap <= now
              /\ i + MaxInWindow <= n + 1 => granted[i].at + Window <= now
      /\ Len(q) <= MaxInWindow
  BY FreeToSend DEF Permit
<1>3. /\ now' = now /\ granted' = Append(granted, g) /\ cache' = stored'
      /\ stored' = [s EXCEPT !.recent = Append(@, now), !.project[ProjectOf[p]] = now, !.slot[p] = now]
  BY DEF Permit, Save, Reserved
<1> HIDE DEF s
<1>4. /\ now \in Nat /\ n \in Nat /\ Null \notin Nat /\ ProjectOf \in [Page -> Project]
      /\ GlobalGap \in Nat \ {0} /\ ProjectGap \in Nat /\ SlotGap \in Nat /\ Window \in Nat /\ Retention \in Nat
      /\ MaxInWindow \in Nat
      /\ \A i \in 1 .. n : granted[i] \in GrantRow /\ granted[i].at \in Nat /\ granted[i].page \in Page
  BY NowTyped, ConstantsTyped, GrantsTyped DEF GInv
<1>5. /\ q \in Seq(Nat) /\ s.project \in [Project -> Nat \cup {Null}] /\ s.slot \in [Page -> Nat \cup {Null}]
      /\ s.until \in Nat /\ s.strikes \in 0 .. MaxStrikes /\ s.limit \in Nat \cup {Null}
  BY <1>1 DEF StateRow
<1>6. /\ granted' \in Seq(GrantRow) /\ Len(granted') = n + 1 /\ granted'[n + 1] = g
      /\ \A i \in 1 .. n : granted'[i] = granted[i]
  <2>1. granted \in Seq(GrantRow) /\ g \in GrantRow
    BY <1>4 DEF GInv, Permitted, GrantRow
  <2> HIDE DEF g
  <2> QED
    BY <1>3, <2>1
<1>7. g.at = now /\ g.page = p
  OBVIOUS
<1> HIDE DEF g
<1> DEFINE project == [s.project EXCEPT ![ProjectOf[p]] = now]
           slot == [s.slot EXCEPT ![p] = now]
           recent == Append(q, now)
<1>8. stored' = [recent |-> recent, project |-> project, slot |-> slot,
                 until |-> s.until, strikes |-> s.strikes, limit |-> s.limit]
  BY <1>1, <1>3 DEF StateRow
<1>9. /\ recent \in Seq(Nat) /\ Len(recent) = Len(q) + 1 /\ recent[Len(q) + 1] = now
      /\ \A i \in 1 .. Len(q) : recent[i] = q[i]
  BY <1>4, <1>5
<1>10. /\ project \in [Project -> Nat \cup {Null}] /\ project[ProjectOf[p]] = now
       /\ \A x \in Project \ {ProjectOf[p]} : project[x] = s.project[x]
  BY <1>4, <1>5
<1>11. /\ slot \in [Page -> Nat \cup {Null}] /\ slot[p] = now
       /\ \A x \in Page \ {p} : slot[x] = s.slot[x]
  BY <1>4, <1>5
<1> HIDE DEF project, slot, recent
<1>12. /\ stored'.recent = recent /\ stored'.project = project /\ stored'.slot = slot
       /\ stored'.until = s.until /\ stored'.strikes = s.strikes /\ stored'.limit = s.limit
       /\ stored' \in StateRow
  BY <1>5, <1>8, <1>9, <1>10, <1>11 DEF StateRow
<1>k. PICK k \in 0 .. n :
        /\ Len(q) = n - k
        /\ \A i \in 1 .. Len(q) : q[i] = granted[i + k].at
        /\ \A i \in 1 .. k : granted[i].at + Window < now
  BY <1>1 DEF Truthful, Recalls
<1>13. Recalls(stored.recent)'
  <2>1. k \in 0 .. Len(granted') /\ Len(recent) = Len(granted') - k
    BY <1>4, <1>6, <1>9, <1>k
  <2>2. ASSUME NEW i \in 1 .. Len(recent) PROVE recent[i] = granted'[i + k].at
    <3>1. CASE i \in 1 .. Len(q)
      <4>1. i + k \in 1 .. n
        BY <1>4, <1>k, <3>1
      <4> QED
        BY <1>6, <1>9, <1>k, <3>1, <4>1
    <3>2. CASE i = Len(q) + 1
      <4>1. i + k = n + 1
        BY <1>4, <1>k, <3>2
      <4> QED
        BY <1>6, <1>7, <1>9, <3>2, <4>1
    <3> QED
      BY <1>4, <1>9, <1>k, <3>1, <3>2
  <2>3. \A i \in 1 .. k : i \in 1 .. n
    BY <1>4, <1>k
  <2>4. \A i \in 1 .. k : granted'[i].at + Window < now
    BY <1>6, <1>k, <2>3
  <2> QED
    BY <1>3, <1>12, <2>1, <2>2, <2>4 DEF Recalls
<1>14. Remembers(stored.project, ProjectOf)'
  <2> SUFFICES ASSUME NEW i \in 1 .. n + 1
               PROVE  LET x == project[ProjectOf[granted'[i].page]] IN
                      IF x = Null THEN granted'[i].at + Retention < now ELSE granted'[i].at <= x
    BY <1>3, <1>6, <1>12 DEF Remembers
  <2>1. CASE i = n + 1
    BY <1>4, <1>6, <1>7, <1>10, <2>1
  <2>2. CASE i \in 1 .. n /\ ProjectOf[granted[i].page] = ProjectOf[p]
    <3>1. granted'[i] = granted[i] /\ granted[i].at <= now
      BY <1>6, <2>2 DEF GInv, Permitted
    <3> QED
      BY <1>4, <1>10, <2>2, <3>1
  <2>3. CASE i \in 1 .. n /\ ProjectOf[granted[i].page] # ProjectOf[p]
    <3>1. ProjectOf[granted[i].page] \in Project \ {ProjectOf[p]}
      BY <1>4, <2>3
    <3>2. LET x == s.project[ProjectOf[granted[i].page]] IN
          IF x = Null THEN granted[i].at + Retention < now ELSE granted[i].at <= x
      BY <1>1, <2>3 DEF Truthful, Remembers
    <3> QED
      BY <1>6, <1>10, <2>3, <3>1, <3>2
  <2> QED
    BY <1>4, <2>1, <2>2, <2>3
<1>15. Remembers(stored.slot, [x \in Page |-> x])'
  <2> SUFFICES ASSUME NEW i \in 1 .. n + 1
               PROVE  LET x == slot[[y \in Page |-> y][granted'[i].page]] IN
                      IF x = Null THEN granted'[i].at + Retention < now ELSE granted'[i].at <= x
    BY <1>3, <1>6, <1>12 DEF Remembers
  <2>1. CASE i = n + 1
    BY <1>4, <1>6, <1>7, <1>11, <2>1
  <2>2. CASE i \in 1 .. n /\ granted[i].page = p
    <3>1. granted'[i] = granted[i] /\ granted[i].at <= now
      BY <1>6, <2>2 DEF GInv, Permitted
    <3> QED
      BY <1>4, <1>11, <2>2, <3>1
  <2>3. CASE i \in 1 .. n /\ granted[i].page # p
    <3>1. granted[i].page \in Page \ {p}
      BY <1>4, <2>3
    <3>2. LET x == s.slot[[y \in Page |-> y][granted[i].page]] IN
          IF x = Null THEN granted[i].at + Retention < now ELSE granted[i].at <= x
      BY <1>1, <2>3 DEF Truthful, Remembers
    <3> QED
      BY <1>6, <1>11, <2>3, <3>1, <3>2
  <2> QED
    BY <1>4, <2>1, <2>2, <2>3
<1>16. /\ \A x \in Project : /\ project[x] # Null => project[x] <= now
                             /\ project[x] # Null => project[x] + Retention >= now
       /\ \A x \in Page : /\ slot[x] # Null => slot[x] <= now
                          /\ slot[x] # Null => slot[x] + Retention >= now
  <2>1. ASSUME NEW x \in Project, project[x] # Null PROVE project[x] <= now /\ project[x] + Retention >= now
    <3>1. CASE x = ProjectOf[p]
      BY <1>4, <1>10, <3>1
    <3>2. CASE x # ProjectOf[p]
      BY <1>1, <1>10, <2>1, <3>2 DEF Truthful
    <3> QED
      BY <3>1, <3>2
  <2>2. ASSUME NEW x \in Page, slot[x] # Null PROVE slot[x] <= now /\ slot[x] + Retention >= now
    <3>1. CASE x = p
      BY <1>4, <1>11, <3>1
    <3>2. CASE x # p
      BY <1>1, <1>11, <2>2, <3>2 DEF Truthful
    <3> QED
      BY <3>1, <3>2
  <2> QED
    BY <2>1, <2>2
<1>17. Truthful(stored)'
  <2>1. Len(recent) <= MaxInWindow + 1
    BY <1>2, <1>4, <1>5, <1>9
  <2>2. s.limit # Null => s.limit <= now /\ s.strikes >= 1 /\ s.until >= s.limit + Backoff(s.strikes)
    BY <1>1 DEF Truthful
  <2> QED
    BY <1>3, <1>12, <1>13, <1>14, <1>15, <1>16, <2>1, <2>2 DEF Truthful
<1>18. Copied'
  <2>1. Ascending(recent)
    <3> SUFFICES ASSUME NEW i \in 1 .. Len(q) + 1, NEW j \in 1 .. Len(q) + 1, i < j
                 PROVE  recent[i] < recent[j]
      BY <1>9 DEF Ascending
    <3>0. i \in 1 .. Len(q) /\ Len(q) \in Nat
      BY <1>5
    <3>1. CASE j \in 1 .. Len(q)
      BY <1>1, <1>9, <3>0, <3>1 DEF Ascending
    <3>2. CASE j = Len(q) + 1
      <4>1. i + k \in 1 .. n /\ q[i] = granted[i + k].at
        BY <1>4, <1>k, <3>0
      <4>2. granted[i + k].at + GlobalGap <= now /\ granted[i + k].at \in Nat
        BY <1>2, <1>4, <4>1
      <4>3. recent[i] = granted[i + k].at /\ recent[j] = now
        BY <1>9, <3>0, <3>2, <4>1
      <4> DEFINE before == granted[i + k].at
      <4>4. before + GlobalGap <= now /\ before \in Nat /\ now \in Nat /\ GlobalGap \in Nat \ {0}
        BY <1>4, <4>2
      <4> HIDE DEF before
      <4>5. before < now
        BY <4>4
      <4> QED
        BY <4>3, <4>5 DEF before
    <3> QED
      BY <3>0, <3>1, <3>2
  <2>2. ASSUME NEW i \in 1 .. Len(recent) PROVE recent[i] + Window >= now
    <3>1. CASE i \in 1 .. Len(q)
      BY <1>1, <1>9, <3>1
    <3>2. CASE i = Len(q) + 1
      BY <1>4, <1>9, <3>2
    <3> QED
      BY <1>5, <1>9, <3>1, <3>2
  <2> QED
    BY <1>3, <1>4, <1>12, <1>16, <2>1, <2>2, SaveCopies
<1>19. Permitted'
  <2>1. \A i \in 1 .. Len(granted') : granted'[i].at <= now'
    <3> SUFFICES ASSUME NEW i \in 1 .. n + 1 PROVE granted'[i].at <= now
      BY <1>3, <1>6
    <3>1. CASE i \in 1 .. n
      BY <1>6, <3>1 DEF GInv, Permitted
    <3>2. CASE i = n + 1
      BY <1>4, <1>6, <1>7, <3>2
    <3> QED
      BY <1>4, <3>1, <3>2
  <2>2. Paced'
    <3> SUFFICES ASSUME NEW i \in 1 .. n + 1, NEW j \in 1 .. n + 1, i < j
                 PROVE  LET gap == granted'[j].at - granted'[i].at
                            Same(f) == f[granted'[i].page] = f[granted'[j].page] IN
                        /\ gap >= GlobalGap
                        /\ Same(ProjectOf) => gap >= ProjectGap
                        /\ Same([x \in Page |-> x]) => gap >= SlotGap
                        /\ j - i >= MaxInWindow => gap >= Window
      BY <1>6 DEF Paced
    <3>0. i \in 1 .. n /\ granted'[i] = granted[i] /\ granted[i].at \in Nat /\ granted[i].page \in Page
      BY <1>4, <1>6
    <3>1. CASE j \in 1 .. n
      <4>1. granted'[j] = granted[j]
        BY <1>6, <3>1
      <4> QED
        BY <3>0, <3>1, <4>1 DEF GInv, Permitted, Paced
    <3>2. CASE j = n + 1
      <4>1. granted'[j].at = now /\ granted'[j].page = p
        BY <1>6, <1>7, <3>2
      <4>2. /\ granted[i].at + GlobalGap <= now
            /\ ProjectOf[granted[i].page] = ProjectOf[p] => granted[i].at + ProjectGap <= now
            /\ granted[i].page = p => granted[i].at + SlotGap <= now
            /\ i + MaxInWindow <= n + 1 => granted[i].at + Window <= now
        BY <1>2, <3>0
      <4>3. j - i >= MaxInWindow => i + MaxInWindow <= n + 1
        BY <1>4, <3>2
      <4> DEFINE before == granted[i].at
                 gap == granted'[j].at - granted'[i].at
      <4>4. before \in Nat /\ now \in Nat /\ {GlobalGap, ProjectGap, SlotGap, Window} \subseteq Nat
            /\ gap = now - before
        BY <1>4, <3>0, <4>1
      <4> HIDE DEF before
      <4>5. \A distance \in Nat : before + distance <= now => now - before >= distance
        BY <4>4
      <4>6. gap >= GlobalGap
        BY <4>2, <4>4, <4>5 DEF before
      <4>7. ProjectOf[granted'[i].page] = ProjectOf[granted'[j].page] => gap >= ProjectGap
        BY <3>0, <4>1, <4>2, <4>4, <4>5 DEF before
      <4>8. granted'[i].page = granted'[j].page => gap >= SlotGap
        BY <3>0, <4>1, <4>2, <4>4, <4>5 DEF before
      <4>9. [x \in Page |-> x][granted'[i].page] = granted'[i].page
            /\ [x \in Page |-> x][granted'[j].page] = granted'[j].page
        BY <1>4, <3>0, <4>1
      <4>10. j - i >= MaxInWindow => gap >= Window
        BY <4>2, <4>3, <4>4, <4>5 DEF before
      <4> HIDE DEF gap
      <4> QED
        BY <4>6, <4>7, <4>8, <4>9, <4>10 DEF gap
    <3> QED
      BY <1>4, <3>1, <3>2
  <2> QED
    BY <1>6, <2>1, <2>2 DEF Permitted
<1> QED
  BY <1>17, <1>18, <1>19 DEF Pacing

\* A dispatch changes only what its page asks for.
LEMMA AskTyped ==
  ASSUME ask \in [Page -> AskRow], NEW p \in Page, NEW a \in AskRow, ask' = [ask EXCEPT ![p] = a]
  PROVE  ask' \in [Page -> AskRow]
OBVIOUS

LEMMA NoAskTyped == NoAsk \in AskRow /\ [NoAsk EXCEPT !.at = "permitted"] \in AskRow
<1>1. MaxInline \in Nat
  BY ConstantsTyped
<1> QED
  BY <1>1 DEF NoAsk, AskRow, Counts

LEMMA ShapeKeeps ==
  ASSUME GInv, [Next]_governorVars PROVE Shape'
<1>0. /\ now \in 0 .. MaxTime /\ stops \in 0 .. MaxStops
      /\ held \subseteq Page /\ reported \subseteq Page /\ notices \subseteq Page
      /\ ask \in [Page -> AskRow] /\ page \in [Page -> {"idle", "generating", "limited"}]
  BY DEF GInv, Shape, Times
<1>n. now \in Nat /\ MaxTime \in Nat /\ MaxInline \in Nat /\ MaxStops \in Nat /\ Jitter \in Nat
  BY NowTyped, ConstantsTyped
<1>1. CASE Tick
  BY <1>0, <1>1, <1>n DEF Tick, Shape, Times
<1>2. CASE WorkerStops
  <2>1. ask' \in [Page -> AskRow]
    BY <1>2, NoAskTyped DEF WorkerStops
  <2>2. stops' \in 0 .. MaxStops
    BY <1>0, <1>2, <1>n DEF WorkerStops
  <2> QED
    BY <1>0, <1>2, <2>1, <2>2 DEF WorkerStops, Shape, Times
<1>3. ASSUME NEW p \in Page, Permit(p) PROVE Shape'
  <2>1. ask' \in [Page -> AskRow]
    BY <1>0, <1>3, NoAskTyped, AskTyped DEF Permit, Ask
  <2> QED
    BY <1>0, <1>3, <2>1 DEF Permit, Shape, Times
<1>4. ASSUME NEW p \in Page, PermitFails(p) \/ Defer(p) PROVE Shape'
  <2>1. ask' \in [Page -> AskRow]
    BY <1>0, <1>4, NoAskTyped, AskTyped DEF PermitFails, Defer, Ask
  <2> QED
    BY <1>0, <1>4, <2>1 DEF PermitFails, Defer, Shape, Times
<1>5. ASSUME NEW p \in Page, Wait(p) PROVE Shape'
  <2>1. Latest(p) \in Nat /\ Latest(p) > now
    BY <1>5, LatestIs DEF Wait
  <2>2. PICK wait \in (Latest(p) - now) .. (Latest(p) - now + Jitter) :
          /\ ask[p].spent + wait <= MaxInline
          /\ ask' = [ask EXCEPT ![p] = [ask[p] EXCEPT !.at = "sleeps", !.spent = @ + wait, !.wake = now + wait]]
    BY <1>5 DEF Wait, Ask
  <2>3. wait \in Nat
    BY <1>n, <2>1, <2>2
  <2>4. ask[p] \in AskRow /\ ask[p].spent \in Nat
    BY <1>0, <1>n DEF AskRow
  <2>5. [ask[p] EXCEPT !.at = "sleeps", !.spent = @ + wait, !.wake = now + wait] \in AskRow
    <3>1. ask[p].spent + wait \in 0 .. MaxInline /\ now + wait \in Nat
      BY <1>n, <2>2, <2>3, <2>4
    <3> QED
      BY <2>4, <3>1 DEF AskRow
  <2>6. ask' \in [Page -> AskRow]
    BY <1>0, <2>2, <2>5, AskTyped
  <2> QED
    BY <1>0, <1>5, <2>6 DEF Wait, Shape, Times
<1>6. ASSUME NEW p \in Page, Dispatch(p) PROVE Shape'
  <2>1. reported' \in SUBSET Page
    BY <1>0, <1>6 DEF Dispatch
  <2>2. [NoAsk EXCEPT !.at = "asks", !.active = Cardinality(reported')] \in AskRow
    <3> DEFINE c == Cardinality(reported')
    <3>1. c \in Counts
      BY <2>1 DEF Counts
    <3> HIDE DEF c
    <3>2. [NoAsk EXCEPT !.at = "asks", !.active = c] \in AskRow
      BY <3>1, NoAskTyped DEF AskRow
    <3> QED
      BY <3>2 DEF c
  <2>3. ask' \in [Page -> AskRow]
    BY <1>0, <1>6, <2>2, AskTyped DEF Dispatch, Ask
  <2> QED
    BY <1>0, <1>6, <2>3 DEF Dispatch, Shape, Times
<1>7. ASSUME NEW p \in Page, RateLimited(p) PROVE Shape'
  BY <1>0, <1>7 DEF RateLimited, Shape, Times
<1>8. ASSUME NEW p \in Page, Send(p) PROVE Shape'
  <2>1. ask' \in [Page -> AskRow]
    BY <1>0, <1>8, NoAskTyped, AskTyped DEF Send, Ask
  <2> QED
    BY <1>0, <1>8, <2>1 DEF Send, Shape, Times
<1>9. ASSUME NEW p \in Page, PageChanges(p) \/ Notice(p) \/ Report(p) PROVE Shape'
  BY <1>0, <1>9 DEF PageChanges, Notice, Report, Shape, Times
<1>10. CASE UNCHANGED governorVars
  BY <1>0, <1>10 DEF governorVars, Shape, Times
<1> QED
  BY <1>1, <1>2, <1>3, <1>4, <1>5, <1>6, <1>7, <1>8, <1>9, <1>10 DEF Next, GovernorStep

LEMMA PacingKeeps ==
  ASSUME GInv, [Next]_governorVars PROVE Pacing'
<1>1. ASSUME NEW p \in Page, \/ PermitFails(p) \/ Wait(p) \/ Defer(p) \/ Dispatch(p) \/ Send(p)
                             \/ PageChanges(p) \/ Notice(p) \/ Report(p)
      PROVE  Pacing'
  <2>1. UNCHANGED <<now, stored, granted>> /\ cache' \in {cache, State}
    BY <1>1 DEF PermitFails, SaveFails, Wait, Defer, Dispatch, Send, PageChanges, Notice, Report
  <2> QED
    BY <2>1, ReadKeeps
<1>2. CASE WorkerStops
  <2>1. UNCHANGED <<now, stored, granted>> /\ cache' = Null
    BY <1>2 DEF WorkerStops
  <2> QED
    BY <2>1, ReadKeeps
<1>3. CASE UNCHANGED governorVars
  <2>1. UNCHANGED <<now, stored, granted>> /\ cache' = cache
    BY <1>3 DEF governorVars
  <2> QED
    BY <2>1, ReadKeeps
<1> QED
  BY <1>1, <1>2, <1>3, TickKeeps, SignalKeeps, PermitKeeps DEF Next, GovernorStep

LEMMA InvInit == ASSUME Init PROVE GInv
<1> USE DEF Init
<1>0. Null \notin Nat /\ MaxTime \in Nat /\ MaxStops \in Nat /\ MaxStrikes \in Nat /\ MaxInWindow \in Nat
  BY ConstantsTyped
<1>1. Shape
  BY <1>0, NoAskTyped DEF Shape, Times
<1>2. granted = <<>> /\ Len(granted) = 0 /\ granted \in Seq(GrantRow)
  OBVIOUS
<1>3. Permitted
  BY <1>2 DEF Permitted, Paced
<1>4. stored \in StateRow
  BY <1>0 DEF NoState, StateRow
<1>5. /\ stored.recent = <<>> /\ stored.limit = Null
      /\ \A x \in Project : stored.project[x] = Null
      /\ \A x \in Page : stored.slot[x] = Null
  BY DEF NoState
<1>6. Recalls(stored.recent)
  <2>1. Len(stored.recent) = 0 /\ 0 \in 0 .. Len(granted)
    BY <1>2, <1>5
  <2> QED
    BY <1>2, <2>1 DEF Recalls
<1>7. Remembers(stored.project, ProjectOf) /\ Remembers(stored.slot, [p \in Page |-> p])
  BY <1>2 DEF Remembers
<1>8. Truthful(stored)
  BY <1>0, <1>4, <1>5, <1>6, <1>7 DEF Truthful
<1>9. Copied
  BY DEF Copied
<1> QED
  BY <1>1, <1>3, <1>8, <1>9 DEF GInv

\* No time that is remembered is one to come.
LEMMA TimesArePast ==
  ASSUME GInv
  PROVE  /\ \A i \in 1 .. Len(stored.recent) : stored.recent[i] \in Times
         /\ stored.project \in [Project -> Times \cup {Null}] /\ stored.slot \in [Page -> Times \cup {Null}]
         /\ stored.limit \in Times \cup {Null}
<1>0. /\ now \in Nat /\ now <= MaxTime /\ MaxTime \in Nat /\ Len(granted) \in Nat /\ Null \notin Nat
      /\ \A i \in 1 .. Len(granted) : granted[i].at \in Nat /\ granted[i].at <= now
      /\ Truthful(stored)
  BY NowTyped, GrantsTyped, ConstantsTyped DEF GInv
<1>1. /\ stored.recent \in Seq(Nat) /\ stored.project \in [Project -> Nat \cup {Null}]
      /\ stored.slot \in [Page -> Nat \cup {Null}] /\ stored.limit \in Nat \cup {Null}
  BY <1>0 DEF Truthful, StateRow
<1>2. PICK k \in 0 .. Len(granted) :
        /\ Len(stored.recent) = Len(granted) - k
        /\ \A i \in 1 .. Len(stored.recent) : stored.recent[i] = granted[i + k].at
  BY <1>0 DEF Truthful, Recalls
<1>3. ASSUME NEW i \in 1 .. Len(stored.recent) PROVE stored.recent[i] \in Times
  <2>1. i + k \in 1 .. Len(granted)
    BY <1>0, <1>2
  <2> QED
    BY <1>0, <1>2, <2>1 DEF Times
<1>4. /\ \A x \in Project : stored.project[x] \in Times \cup {Null}
      /\ \A x \in Page : stored.slot[x] \in Times \cup {Null}
      /\ stored.limit \in Times \cup {Null}
  BY <1>0, <1>1 DEF Truthful, Times
<1> QED
  BY <1>1, <1>3, <1>4

\* The copy in the worker is of the same form as what is stored.
LEMMA CopyTyped ==
  ASSUME GInv, NEW s \in {stored} \cup ({cache} \ {Null})
  PROVE  /\ s.recent \in Seq(Times) /\ Len(s.recent) <= MaxInWindow + 1
         /\ s.project \in [Project -> Times \cup {Null}] /\ s.slot \in [Page -> Times \cup {Null}]
         /\ s.until \in Nat /\ s.strikes \in 0 .. MaxStrikes /\ s.limit \in Times \cup {Null}
<1>0. /\ stored.recent \in Seq(Nat) /\ Len(stored.recent) \in Nat /\ Len(stored.recent) <= MaxInWindow + 1
      /\ stored.until \in Nat /\ stored.strikes \in 0 .. MaxStrikes /\ stored \in StateRow
  BY DEF GInv, Truthful, StateRow
<1>1. CASE s = stored
  BY <1>0, <1>1, TimesArePast, SequenceOver
<1>2. CASE cache # Null /\ s = cache
  <2>1. PICK t \in 0 .. now : cache = Normal(stored, t)
    BY <1>2 DEF GInv, Copied
  <2>2. t \in Nat /\ MaxInWindow \in Nat
    BY NowTyped, ConstantsTyped
  <2>3. /\ s.recent = Recent(stored.recent, t)
        /\ s.project = Kept(stored.project, t) /\ s.slot = Kept(stored.slot, t)
        /\ s.until = stored.until /\ s.strikes = stored.strikes /\ s.limit = stored.limit
    BY <1>2, <2>1, <2>2, StoredAscends, NormalIs
  <2>4. PICK k \in 0 .. Len(stored.recent) :
          \A i \in 1 .. Len(stored.recent) : stored.recent[i] + Window < t <=> i <= k
    BY <1>0, <2>2, StoredAscends, OldAreFirst
  <2>5. /\ s.recent \in Seq(Nat) /\ Len(s.recent) = Len(stored.recent) - k
        /\ \A i \in 1 .. Len(stored.recent) - k : s.recent[i] = stored.recent[i + k]
    <3>1. /\ Recent(stored.recent, t) \in Seq(Nat)
          /\ Len(Recent(stored.recent, t)) = Len(stored.recent) - k
          /\ \A i \in 1 .. Len(stored.recent) - k : Recent(stored.recent, t)[i] = stored.recent[i + k]
      BY <1>0, <2>2, <2>4, RecentIs
    <3> QED
      BY <2>3, <3>1
  <2>6. \A i \in 1 .. Len(s.recent) : s.recent[i] \in Times
    <3> SUFFICES ASSUME NEW i \in 1 .. Len(s.recent) PROVE s.recent[i] \in Times
      OBVIOUS
    <3>1. i \in 1 .. Len(stored.recent) - k
      BY <2>5
    <3>2. i + k \in 1 .. Len(stored.recent)
      BY <1>0, <3>1
    <3>3. s.recent[i] = stored.recent[i + k]
      BY <2>5, <3>1
    <3> QED
      BY <3>2, <3>3, TimesArePast
  <2>7. s.recent \in Seq(Times) /\ Len(s.recent) <= MaxInWindow + 1
    <3>1. s.recent \in Seq(Times)
      BY <2>5, <2>6, SequenceOver
    <3>2. Len(s.recent) = Len(stored.recent) - k
      BY <2>5
    <3> DEFINE n == Len(stored.recent)
    <3>3. n \in Nat /\ n <= MaxInWindow + 1 /\ MaxInWindow \in Nat /\ k \in 0 .. n
      BY <1>0, <2>2
    <3> HIDE DEF n
    <3>4. n - k <= MaxInWindow + 1
      BY <3>3
    <3> QED
      BY <3>1, <3>2, <3>4 DEF n
  <2>8. s.project \in [Project -> Times \cup {Null}] /\ s.slot \in [Page -> Times \cup {Null}]
    BY <2>3, TimesArePast DEF Kept
  <2> QED
    BY <1>0, <2>3, <2>7, <2>8, TimesArePast
<1> QED
  BY <1>1, <1>2

-----------------------------------------------------------------------------
(* The theorems *)

\* The inductive invariant of the governor
THEOREM GovernorInvariant == Spec => []GInv
<1>1. GInv /\ [Next]_governorVars => GInv'
  BY ShapeKeeps, PacingKeeps DEF GInv, Pacing
<1> QED
  BY InvInit, <1>1, PTL DEF Spec

\* However many pages ask at once, whatever fails to be stored and whenever the worker is
\* stopped: permits keep their distances and no window holds more than the budget
\* (planPromptDispatch, reserveDispatch), and the worker's copy of the pacing is never ahead
\* of what is stored (readState, writeState).
THEOREM PermitsStaySound == Spec => []PermitsAreSound
<1>1. ASSUME GInv PROVE TypeOK
  <2>1. \A p \in Page : /\ ask[p].at \in {"idle", "asks", "sleeps", "permitted"}
                        /\ ask[p].spent \in 0 .. MaxInline
                        /\ page[p] \in {"idle", "generating", "limited"}
    BY <1>1 DEF GInv, Shape, AskRow
  <2>2. /\ now \in Times /\ stops \in 0 .. MaxStops
        /\ held \subseteq Page /\ reported \subseteq Page /\ notices \subseteq Page
    BY <1>1 DEF GInv, Shape
  <2> QED
    BY <1>1, <2>1, <2>2, CopyTyped DEF TypeOK
<1>2. ASSUME GInv PROVE CacheIsStored
  <2> SUFFICES ASSUME cache # Null PROVE Normal(cache, now) = Normal(stored, now)
    BY DEF CacheIsStored
  <2> QED
    BY <1>2, StateIs DEF State
<1>3. GInv => PermitsAreSound
  BY <1>1, <1>2 DEF PermitsAreSound, GInv, Permitted
<1> QED
  BY <1>3, GovernorInvariant, PTL

\* No permit is given while the backoff lasts that the last signal seen has called for,
\* also by a worker that was started since (noteRateLimitSerialized, planPromptDispatch).
THEOREM BackoffIsHonoured == Spec => BackoffHonoured
<1> DEFINE Honoured == granted' # granted /\ stored.limit # Null => now >= stored.limit + Backoff(stored.strikes)
<1>1. ASSUME GInv, [Next]_governorVars PROVE [Honoured]_governorVars
  <2> SUFFICES ASSUME granted' # granted, stored.limit # Null
               PROVE  now >= stored.limit + Backoff(stored.strikes)
    OBVIOUS
  <2>1. PICK p \in Page : Permit(p)
    BY <1>1 DEF Next, GovernorStep, Tick, WorkerStops, PermitFails, Wait, Defer, Dispatch, RateLimited, Send,
                PageChanges, Notice, Report, governorVars
  <2>2. State.until <= now /\ State.until = stored.until
    BY <1>1, <2>1, FreeToSend, StateTruthful DEF Permit
  <2>3. /\ stored.until >= stored.limit + Backoff(stored.strikes) /\ stored.strikes >= 1
        /\ stored.strikes \in 0 .. MaxStrikes /\ stored.limit \in Nat /\ stored.until \in Nat
    BY <1>1 DEF GInv, Truthful, StateRow
  <2>4. now \in Nat /\ MaxStrikes \in Nat
    BY <1>1, NowTyped, ConstantsTyped
  <2>5. Backoff(stored.strikes) \in Nat
    BY <2>3, <2>4, BackoffTyped
  <2> QED
    BY <2>2, <2>3, <2>4, <2>5
<1> QED
  BY <1>1, GovernorInvariant, PTL DEF Spec, BackoffHonoured

-----------------------------------------------------------------------------
(* The graph of tasks *)

\* What a planner has decided to send; the version of the task is only compared.
SendRow(x) == [task: Tasks, tab: Pages, at: {"planned", "begun", "sending"}, key: {x.key}, grounds: [Tasks -> Nat]]

PlansTyped == plan = [r \in Run |-> plan[r]] /\ \A x \in Sends : x \in SendRow(x) /\ x.task \in Created

\* A task waits for earlier ones.
DepsAreEarlier == \A t \in Created : PolicyFits(t) /\ graph[t].deps \subseteq Created /\ \A d \in graph[t].deps : d < t

\* What is being sent is the last attempt of its page, and nothing else is being sent there.
SendingIsNewest ==
  \A x \in Sends : x.at = "sending" =>
    /\ newest[x.tab] # None /\ newest[x.tab][1] = x.task
    /\ \A y \in Sends : y.at = "sending" /\ y.tab = x.tab => x = y

\* What d answered in its attempt n, or what stands for it, was accepted.
Accepted(d, n) ==
  \/ Answered(d, n)
  \/ task[d].ended = "skipped"
  \/ graph[d].kind = "human" /\ task[d].verdict = "approve"
  \/ graph[d].policy = "verified-claim" /\ task[d].machine

SendsAreGrounded == \A x \in Sends : \A d \in graph[x.task].deps : Accepted(d, x.grounds[d])

\* GraphTypeOK without the plans
RowsTyped ==
  /\ graph \in Shapes /\ restarts \in 0 .. MaxRestarts /\ IsFiniteSet(Made) /\ Attempts <= MaxTries
  /\ task \in [Tasks -> TaskRow \cup {None}] /\ newest \in [Pages -> (Tasks \X Nat) \cup {None}]
  /\ \A t \in Created : /\ task[t].retry \in 0 .. Len(Tries(t))
                        /\ \A i \in DOMAIN Tries(t) : Tries(t)[i].state = "replied" <=> Tries(t)[i].reply # NoReply
  /\ \A p \in Pages : newest[p] # None => /\ newest[p][1] \in Created
                                         /\ newest[p][2] \in DOMAIN Tries(newest[p][1])

ShapeInv == RowsTyped /\ PlansTyped /\ DepsAreEarlier /\ SendingIsNewest

GraphInv == ShapeInv /\ GroundsAreSound /\ SendsAreGrounded

LEMMA TypesSplit ==
  ASSUME RowsTyped, PlansTyped
  PROVE  GraphTypeOK
<1>1. ASSUME NEW r \in Run, NEW x \in plan[r]
      PROVE  x.task \in Created /\ x.tab \in Pages /\ x.at \in {"planned", "begun", "sending"}
  <2>1. x \in Sends
    BY DEF Sends
  <2>. QED BY <2>1 DEF PlansTyped, SendRow
<1>. QED BY <1>1 DEF GraphTypeOK, RowsTyped

LEMMA GraphConstantsTyped ==
  /\ IsFiniteSet(Tasks) /\ Tasks \subseteq Nat \ {0} /\ IsFiniteSet(Pages) /\ Pages \subseteq Nat
  /\ MaxTries \in Nat /\ MaxEnded \in Nat /\ MaxRestarts \in Nat
  /\ \A g \in Shapes : \A t \in Tasks : g[t] \in Input
  /\ None \notin Pages /\ None \notin Tasks \X Nat /\ None \notin TaskRow
<1>1. Cardinality(Tasks) \in Nat /\ Tasks = 1 .. Cardinality(Tasks)
  BY GraphAssumption, FS_CardinalityType DEF GraphConstants
<1>. QED BY <1>1, GraphAssumption DEF GraphConstants

\* The states of the tasks are what the states of their dependencies make them: the recursion
\* has a solution, because a task waits for earlier ones.
LEMMA StatusSolves ==
  ASSUME RowsTyped, DepsAreEarlier
  PROVE  Status = [t \in Created |-> Shows(t, {Status[d] : d \in graph[t].deps})]
<1> DEFINE Upto(n) == {t \in Created : t <= n}
           Solves(f, S) == f = [t \in S |-> Shows(t, {f[d] : d \in graph[t].deps})]
           Good(n) == \E f : Solves(f, Upto(n))
           Bad == {n \in Nat : ~Good(n)}
<1>0. Created \subseteq Tasks /\ Tasks \subseteq Nat \ {0} /\ Tasks = 1 .. Cardinality(Tasks) /\ Cardinality(Tasks) \in Nat
  BY GraphConstantsTyped, GraphAssumption, FS_CardinalityType DEF Created, GraphConstants
<1>1. ASSUME Bad # {} PROVE FALSE
  <2>1. PICK n \in Bad : \A m \in Bad : n <= m
    BY <1>1, LeastExists
  <2>2. n # 0 => Good(n - 1)
    <3> HIDE DEF Good
    <3>1. n \in Nat /\ \A m \in Nat : ~Good(m) => n <= m
      BY <2>1
    <3>2. n # 0 => n - 1 \in Nat /\ ~(n <= n - 1)
      BY <3>1
    <3>. QED BY <3>1, <3>2
  <2>3. PICK f : n # 0 => Solves(f, Upto(n - 1))
    BY <2>2
  <2> DEFINE g == [t \in Upto(n) |-> IF t < n THEN f[t] ELSE Shows(t, {f[d] : d \in graph[t].deps})]
  <2>4. ASSUME NEW t \in Upto(n) PROVE \A d \in graph[t].deps : d \in Upto(n) /\ g[d] = f[d]
    <3>1. t \in Created /\ t \in Nat /\ t <= n /\ n \in Nat
      BY <1>0, <2>1
    <3>2. ASSUME NEW d \in graph[t].deps PROVE d \in Created /\ d \in Nat /\ d < t
      BY <3>1, <1>0 DEF DepsAreEarlier
    <3>3. ASSUME NEW d \in graph[t].deps PROVE d \in Upto(n) /\ d < n
      BY <3>1, <3>2
    <3>. QED BY <3>3
  <2>5. ASSUME NEW t \in Upto(n) PROVE {g[d] : d \in graph[t].deps} = {f[d] : d \in graph[t].deps}
    BY <2>4
  <2>6. ASSUME NEW t \in Upto(n), t < n PROVE f[t] = Shows(t, {f[d] : d \in graph[t].deps})
    <3>1. n # 0 /\ t \in Upto(n - 1)
      BY <2>6, <1>0, <2>1
    <3>. QED BY <3>1, <2>3
  <2>7. Solves(g, Upto(n))
    <3>1. ASSUME NEW t \in Upto(n) PROVE g[t] = Shows(t, {g[d] : d \in graph[t].deps})
      BY <2>5, <2>6
    <3> HIDE DEF Upto
    <3>. QED BY <3>1
  <2>. QED BY <2>7, <2>1
<1>2. PICK f : Solves(f, Upto(Cardinality(Tasks)))
  BY <1>0, <1>1
<1>3. Upto(Cardinality(Tasks)) = Created
  <2>1. ASSUME NEW t \in Created PROVE t <= Cardinality(Tasks)
    BY <1>0
  <2>. QED BY <2>1
<1>. QED BY <1>2, <1>3 DEF Status

LEMMA CreatedRows ==
  ASSUME RowsTyped, NEW t \in Created
  PROVE  /\ t \in Tasks /\ t \in Nat /\ task[t] \in TaskRow /\ task[t] # None /\ graph[t] \in Input
         /\ Tries(t) \in Seq(Try) /\ Len(Tries(t)) \in Nat /\ DOMAIN Tries(t) = 1 .. Len(Tries(t))
         /\ Tries(t) # <<>> => Len(Tries(t)) \in DOMAIN Tries(t) /\ Newest(t) \in Try
<1>1. t \in Tasks /\ t \in Nat /\ task[t] # None /\ task[t] \in TaskRow
  BY GraphConstantsTyped DEF RowsTyped, Created
<1>2. graph[t] \in Input
  BY <1>1, GraphConstantsTyped DEF RowsTyped
<1>3. Tries(t) \in Seq(Try)
  BY <1>1 DEF TaskRow, Tries
<1>4. Len(Tries(t)) \in Nat /\ DOMAIN Tries(t) = 1 .. Len(Tries(t))
  BY <1>3
<1>5. ASSUME Tries(t) # <<>> PROVE Len(Tries(t)) \in DOMAIN Tries(t) /\ Newest(t) \in Try
  BY <1>3, <1>5 DEF Newest
<1>. QED BY <1>1, <1>2, <1>3, <1>4, <1>5

\* What an attempt is worth.
LEMMA Evaluations ==
  ASSUME RowsTyped, NEW t \in Created
  PROVE  /\ Evaluated(t) \in {"none", "running", "error", "uncertain", "completed", "refused", "malformed"}
         /\ Evaluated(t) = "none" => Tries(t) = <<>>
         /\ Evaluated(t) = "completed" =>
              \/ graph[t].policy = "verified-claim" /\ task[t].machine
              \/ Answered(t, Len(Tries(t)))
<1>0. Tries(t) # <<>> =>
        /\ Len(Tries(t)) \in DOMAIN Tries(t) /\ Newest(t) = Tries(t)[Len(Tries(t))]
        /\ Newest(t).state \in {"open", "replied", "failed", "uncertain"}
        /\ Newest(t).reply \in {"none", "good", "fail", "malformed"}
        /\ Newest(t).state = "replied" => Newest(t).reply # "none"
  BY CreatedRows DEF Try, RowsTyped, NoReply, Newest
<1>1. CASE graph[t].policy = "verified-claim" /\ task[t].machine
  BY <1>1 DEF Evaluated
<1>2. CASE ~(graph[t].policy = "verified-claim" /\ task[t].machine) /\ Tries(t) = <<>>
  BY <1>2 DEF Evaluated
<1>3. CASE ~(graph[t].policy = "verified-claim" /\ task[t].machine) /\ Tries(t) # <<>>
  <2>1. CASE Newest(t).state = "open"
    <3>1. Evaluated(t) = "running"
      BY <1>3, <2>1 DEF Evaluated
    <3>. QED BY <3>1
  <2>2. CASE Newest(t).state = "failed"
    <3>1. Evaluated(t) = "error"
      BY <1>3, <2>2 DEF Evaluated
    <3>. QED BY <3>1
  <2>3. CASE Newest(t).state = "uncertain"
    <3>1. Evaluated(t) = "uncertain"
      BY <1>3, <2>3 DEF Evaluated
    <3>. QED BY <3>1
  <2>4. CASE Newest(t).state = "replied"
    <3>1. Evaluated(t) = ByPolicy(t)
      BY <1>3, <2>4 DEF Evaluated
    <3>2. CASE graph[t].policy = "verified-claim"
      BY <3>1, <3>2 DEF ByPolicy
    <3>3. CASE graph[t].policy # "verified-claim" /\ Newest(t).reply = "good"
      BY <1>0, <1>3, <3>1, <3>3 DEF ByPolicy, Answered
    <3>4. CASE graph[t].policy # "verified-claim" /\ Newest(t).reply = "fail"
      BY <3>1, <3>4 DEF ByPolicy
    <3>5. CASE graph[t].policy # "verified-claim" /\ Newest(t).reply = "malformed"
      BY <3>1, <3>5 DEF ByPolicy
    <3>. QED BY <1>0, <1>3, <2>4, <3>2, <3>3, <3>4, <3>5
  <2>. QED BY <1>0, <1>3, <2>1, <2>2, <2>3, <2>4
<1>. QED BY <1>1, <1>2, <1>3

\* What a task shows.
LEMMA Showing ==
  ASSUME RowsTyped, NEW t \in Created, NEW states
  PROVE  /\ Shows(t, states) = "ready" =>
              /\ task[t].ended = "no" /\ graph[t].kind # "human"
              /\ Evaluated(t) = "none" \/ RetryRequested(t)
              /\ states \subseteq {"completed", "skipped"}
         /\ Shows(t, states) = "completed" => Accepted(t, Len(Tries(t)))
         /\ Shows(t, states) = "skipped" => Accepted(t, Len(Tries(t)))
         /\ Shows(t, states) = "waiting-human" => task[t].ended = "no" /\ task[t].verdict = "none"
         /\ task[t].ended # "no" => Shows(t, states) = task[t].ended
<1>0. /\ task[t].ended \in {"no", "skipped", "cancelled"} /\ task[t].verdict \in {"none", "approve", "reject"}
  BY CreatedRows DEF TaskRow
<1>1. CASE task[t].ended # "no"
  BY <1>0, <1>1 DEF Shows, Accepted
<1>2. CASE task[t].ended = "no" /\ Evaluated(t) # "none" /\ ~RetryRequested(t)
  <2>1. Shows(t, states) = Shown(t)
    BY <1>2 DEF Shows
  <2>2. Shown(t) \in {"running", "error", "attention", "completed"}
    BY <1>2, Evaluations DEF Shown
  <2>3. Shown(t) = "completed" => Evaluated(t) = "completed"
    BY Evaluations DEF Shown
  <2>4. Evaluated(t) = "completed" => Accepted(t, Len(Tries(t)))
    BY Evaluations DEF Accepted
  <2>. QED BY <1>2, <2>1, <2>2, <2>3, <2>4
<1>3. CASE task[t].ended = "no" /\ ~(Evaluated(t) # "none" /\ ~RetryRequested(t))
  <2>1. Shows(t, states) = AfterDependencies(t, states)
    BY <1>3 DEF Shows
  <2>2. CASE states \cap Blockers # {}
    BY <1>3, <2>1, <2>2 DEF AfterDependencies
  <2>3. CASE states \cap Blockers = {} /\ ~(states \subseteq {"completed", "skipped"})
    BY <1>3, <2>1, <2>3 DEF AfterDependencies
  <2>4. CASE states \cap Blockers = {} /\ states \subseteq {"completed", "skipped"} /\ graph[t].kind = "human"
    <3>1. Shows(t, states) = HumanSays(t)
      BY <2>1, <2>4 DEF AfterDependencies
    <3>. QED BY <1>0, <1>3, <2>4, <3>1 DEF HumanSays, Accepted
  <2>5. CASE states \cap Blockers = {} /\ states \subseteq {"completed", "skipped"} /\ graph[t].kind # "human"
    <3>1. Shows(t, states) = "ready"
      BY <2>1, <2>5 DEF AfterDependencies
    <3>. QED BY <1>3, <2>5, <3>1
  <2>. QED BY <2>2, <2>3, <2>4, <2>5
<1>. QED BY <1>1, <1>2, <1>3

LEMMA StatusShows ==
  ASSUME RowsTyped, DepsAreEarlier, NEW t \in Created
  PROVE  Status[t] = Shows(t, {Status[d] : d \in graph[t].deps})
<1> HIDE DEF Status
<1>. QED BY StatusSolves

\* What is ready waits for nothing that was not accepted, and may have another attempt.
LEMMA ReadyIsFounded ==
  ASSUME RowsTyped, DepsAreEarlier, NEW t \in Ready
  PROVE  /\ t \in Created
         /\ \A d \in graph[t].deps : d \in Created /\ Accepted(d, Len(Tries(d)))
         /\ IsReview(t) => Len(Tries(t)) < graph[t].rounds
<1> HIDE DEF Status
<1>1. t \in Created /\ Status[t] = "ready"
  BY DEF Ready
<1>2. /\ graph[t].kind # "human"
      /\ Evaluated(t) = "none" \/ RetryRequested(t)
      /\ \A d \in graph[t].deps : Status[d] \in {"completed", "skipped"}
  <2>1. Shows(t, {Status[d] : d \in graph[t].deps}) = "ready"
    BY <1>1, StatusShows
  <2>. QED BY <1>1, <2>1, Showing
<1>3. ASSUME NEW d \in graph[t].deps PROVE d \in Created /\ Accepted(d, Len(Tries(d)))
  <2>1. d \in Created
    BY <1>1 DEF DepsAreEarlier
  <2>2. Shows(d, {Status[e] : e \in graph[d].deps}) \in {"completed", "skipped"}
    BY <1>2, <2>1, StatusShows
  <2>. QED BY <2>1, <2>2, Showing
<1>4. ASSUME IsReview(t) PROVE Len(Tries(t)) < graph[t].rounds
  <2>1. graph[t].policy = "review-pass" /\ graph[t].rounds \in 1 .. 10 /\ graph[t].kind = "review"
    BY <1>1, <1>4 DEF DepsAreEarlier, PolicyFits, IsReview
  <2>2. CASE Evaluated(t) = "none"
    <3>1. Tries(t) = <<>>
      BY <1>1, <2>2, Evaluations
    <3>. QED BY <2>1, <3>1
  <2>3. CASE RetryRequested(t)
    <3>1. Retryable(t)
      BY <2>1, <2>3 DEF RetryRequested, RevisionAsked
    <3>2. ~Exhausted(t)
      BY <3>1 DEF Retryable
    <3>3. Len(Tries(t)) \in Nat
      BY <1>1, CreatedRows
    <3>. QED BY <1>4, <2>1, <3>2, <3>3 DEF Exhausted
  <2>. QED BY <1>2, <2>2, <2>3
<1>. QED BY <1>1, <1>3, <1>4

\* What no step takes back
TriesKept ==
  /\ graph' = graph /\ Created \subseteq Created'
  /\ \A t \in Created :
       /\ \A i \in DOMAIN Tries(t) :
            /\ i \in DOMAIN Tries(t)' /\ Tries(t)'[i].grounds = Tries(t)[i].grounds
            /\ Tries(t)[i].reply = "good" => Tries(t)'[i].reply = "good"
       /\ task[t].ended = "skipped" => task'[t].ended = "skipped"
       /\ task[t].verdict = "approve" => task'[t].verdict = "approve"
       /\ task[t].machine => task'[t].machine

\* What becomes of an attempt that was made: it is on its page, and is not opened again.
Later(old, new) ==
  /\ new \in Try /\ new.tab = old.tab /\ new.grounds = old.grounds
  /\ new.state = "open" => old.state = "open"
  /\ old.reply = "good" => new.reply = "good"
  /\ new.state = "replied" <=> new.reply # NoReply

\* What becomes of a task that has no further attempt
LaterRow(old, new) ==
  /\ new \in TaskRow /\ DOMAIN new.tries = DOMAIN old.tries /\ Len(new.tries) = Len(old.tries)
  /\ \A i \in DOMAIN old.tries : Later(old.tries[i], new.tries[i])
  /\ new.retry \in 0 .. Len(old.tries)
  /\ old.ended = "skipped" => new.ended = "skipped"
  /\ old.verdict = "approve" => new.verdict = "approve"
  /\ old.machine => new.machine

\* A step without a new task or attempt
StepsBack ==
  /\ graph' = graph /\ newest' = newest /\ restarts' \in 0 .. MaxRestarts
  /\ task' \in [Tasks -> TaskRow \cup {None}] /\ Created' = Created
  /\ \A t \in Created : LaterRow(task[t], task'[t])

LEMMA SameAttempts ==
  ASSUME Created' = Created, \A t \in Created : DOMAIN Tries(t)' = DOMAIN Tries(t)
  PROVE  Made' = Made /\ Attempts' = Attempts
<1>1. {{t} \X DOMAIN Tries(t) : t \in Created}' = {{t} \X DOMAIN Tries(t) : t \in Created}
  OBVIOUS
<1>. QED BY <1>1 DEF Attempts, Made

LEMMA LaterSelf ==
  ASSUME RowsTyped, NEW t \in Created
  PROVE  LaterRow(task[t], task[t])
<1>1. \A i \in DOMAIN Tries(t) : Tries(t)[i] \in Try /\ (Tries(t)[i].state = "replied" <=> Tries(t)[i].reply # NoReply)
  BY CreatedRows DEF RowsTyped
<1>2. task[t].retry \in 0 .. Len(Tries(t))
  BY DEF RowsTyped
<1>. QED BY <1>1, <1>2, CreatedRows DEF LaterRow, Later, Tries

LEMMA StepsBackKeep ==
  ASSUME RowsTyped, StepsBack
  PROVE  RowsTyped' /\ TriesKept
<1>1. Created' = Created /\ graph' = graph /\ newest' = newest
  BY DEF StepsBack
<1>2. ASSUME NEW t \in Created
      PROVE  /\ DOMAIN Tries(t)' = DOMAIN Tries(t) /\ Len(Tries(t)') = Len(Tries(t))
             /\ task'[t].retry \in 0 .. Len(Tries(t))
             /\ \A i \in DOMAIN Tries(t) : Later(Tries(t)[i], Tries(t)'[i])
  BY DEF StepsBack, LaterRow, Tries
<1>3. Attempts' = Attempts /\ Made' = Made
  BY <1>1, <1>2, SameAttempts
<1>4. ASSUME NEW t \in Created', NEW i \in DOMAIN Tries(t)'
      PROVE  Tries(t)'[i].state = "replied" <=> Tries(t)'[i].reply # NoReply
  BY <1>1, <1>2 DEF Later
<1>5. ASSUME NEW p \in Pages, newest'[p] # None
      PROVE  (newest[p][1] \in Created /\ newest[p][2] \in DOMAIN Tries(newest[p][1]))'
  <2>1. newest[p][1] \in Created /\ newest[p][2] \in DOMAIN Tries(newest[p][1])
    BY <1>1, <1>5 DEF RowsTyped
  <2>2. Tries(newest[p][1])' = task'[newest'[p][1]].tries
    BY DEF Tries
  <2>3. DOMAIN task'[newest[p][1]].tries = DOMAIN Tries(newest[p][1])
    BY <1>2, <2>1 DEF Tries
  <2>. QED BY <1>1, <2>1, <2>2, <2>3
<1>6. RowsTyped'
  <2>1. /\ graph' \in Shapes /\ restarts' \in 0 .. MaxRestarts
        /\ task' \in [Tasks -> TaskRow \cup {None}] /\ newest' \in [Pages -> (Tasks \X Nat) \cup {None}]
    BY DEF StepsBack, RowsTyped
  <2>2. ASSUME NEW t \in Created' PROVE task'[t].retry \in 0 .. Len(Tries(t)')
    BY <1>1, <1>2
  <2>3. Attempts' <= MaxTries /\ IsFiniteSet(Made')
    BY <1>3 DEF RowsTyped
  <2>. QED BY <1>4, <1>5, <2>1, <2>2, <2>3 DEF RowsTyped
<1>7. TriesKept
  <2>1. ASSUME NEW t \in Created, NEW i \in DOMAIN Tries(t)
        PROVE  /\ i \in DOMAIN Tries(t)' /\ Tries(t)'[i].grounds = Tries(t)[i].grounds
               /\ Tries(t)[i].reply = "good" => Tries(t)'[i].reply = "good"
    BY <1>2 DEF Later
  <2>2. ASSUME NEW t \in Created
        PROVE  /\ task[t].ended = "skipped" => task'[t].ended = "skipped"
               /\ task[t].verdict = "approve" => task'[t].verdict = "approve"
               /\ task[t].machine => task'[t].machine
    BY DEF StepsBack, LaterRow
  <2>. QED BY <1>1, <2>1, <2>2 DEF TriesKept
<1>. QED BY <1>6, <1>7

LEMMA RowsStepBack ==
  ASSUME RowsTyped, NEW t \in Created, NEW row, LaterRow(task[t], row),
         task' = [task EXCEPT ![t] = row], graph' = graph, newest' = newest, restarts' = restarts
  PROVE  StepsBack
<1>0. task \in [Tasks -> TaskRow \cup {None}] /\ t \in Tasks /\ row \in TaskRow /\ row # None /\ task[t] # None
  BY CreatedRows, GraphConstantsTyped DEF RowsTyped, LaterRow
<1>1. task' \in [Tasks -> TaskRow \cup {None}]
  BY <1>0
<1>2. task'[t] = row /\ \A u \in Tasks \ {t} : task'[u] = task[u]
  BY <1>0
<1>3. Created' = Created
  BY <1>0, <1>2 DEF Created
<1>4. ASSUME NEW u \in Created PROVE LaterRow(task[u], task'[u])
  <2>1. CASE u = t
    BY <1>2, <2>1
  <2>2. CASE u # t
    <3>1. u \in Tasks
      BY CreatedRows
    <3>. QED BY <1>2, <2>2, <3>1, LaterSelf
  <2>. QED BY <2>1, <2>2
<1>5. restarts' \in 0 .. MaxRestarts
  BY DEF RowsTyped
<1>. QED BY <1>1, <1>3, <1>4, <1>5 DEF StepsBack

LEMMA SideRow ==
  ASSUME RowsTyped, NEW t \in Created, NEW row \in TaskRow,
         row.tries = task[t].tries, row.retry \in 0 .. Len(Tries(t)),
         task[t].ended = "skipped" => row.ended = "skipped",
         task[t].verdict = "approve" => row.verdict = "approve",
         task[t].machine => row.machine
  PROVE  LaterRow(task[t], row)
<1>1. LaterRow(task[t], task[t])
  BY LaterSelf
<1>2. \A i \in DOMAIN task[t].tries : Later(task[t].tries[i], row.tries[i])
  BY <1>1 DEF LaterRow
<1>. QED BY <1>2 DEF LaterRow, Tries

LEMMA RequestTaskRetryKeeps ==
  ASSUME ShapeInv, NEW t \in Tasks, RequestTaskRetry(t)
  PROVE  StepsBack /\ plan' = plan
<1> DEFINE row == [task[t] EXCEPT !.retry = Len(Tries(t))]
<1>1. t \in Created /\ RowsTyped /\ task' = [task EXCEPT ![t] = row] /\ UNCHANGED <<graph, newest, plan, restarts>>
  BY DEF ShapeInv, RequestTaskRetry, Edit
<1>2. task[t] \in TaskRow /\ Len(Tries(t)) \in Nat
  BY <1>1, CreatedRows
<1>3. row \in TaskRow /\ row.tries = task[t].tries /\ row.retry = Len(Tries(t)) /\ row.ended = task[t].ended
      /\ row.verdict = task[t].verdict /\ row.machine = task[t].machine
  BY <1>2 DEF TaskRow
<1>4. LaterRow(task[t], row)
  <2> HIDE DEF row
  <2>1. row.retry \in 0 .. Len(Tries(t))
    BY <1>1, <1>2, <1>3
  <2>. QED BY <1>1, <1>2, <1>3, <2>1, SideRow
<1>. QED BY <1>1, <1>4, RowsStepBack

LEMMA CompleteVerifiedClaimKeeps ==
  ASSUME ShapeInv, NEW t \in Tasks, CompleteVerifiedClaim(t)
  PROVE  StepsBack /\ plan' = plan
<1> DEFINE row == [task[t] EXCEPT !.machine = TRUE]
<1>1. t \in Created /\ RowsTyped /\ task' = [task EXCEPT ![t] = row] /\ UNCHANGED <<graph, newest, plan, restarts>>
  BY DEF ShapeInv, CompleteVerifiedClaim, Edit
<1>2. task[t] \in TaskRow /\ task[t].retry \in 0 .. Len(Tries(t))
  BY <1>1, CreatedRows DEF RowsTyped
<1>3. row \in TaskRow /\ row.tries = task[t].tries /\ row.retry = task[t].retry /\ row.ended = task[t].ended
      /\ row.verdict = task[t].verdict /\ row.machine
  BY <1>2 DEF TaskRow
<1>4. LaterRow(task[t], row)
  <2> HIDE DEF row
  <2>1. row \in TaskRow /\ row.tries = task[t].tries /\ row.retry \in 0 .. Len(Tries(t))
    BY <1>2, <1>3
  <2>2. /\ task[t].ended = "skipped" => row.ended = "skipped"
        /\ task[t].verdict = "approve" => row.verdict = "approve"
        /\ task[t].machine => row.machine
    BY <1>3
  <2>. QED BY <1>1, <2>1, <2>2, SideRow, Zenon
<1>. QED BY <1>1, <1>4, RowsStepBack

\* What was skipped or cancelled stays so.
LEMMA EndKeeps ==
  ASSUME ShapeInv, NEW t \in Tasks, SkipTask(t) \/ CancelTask(t)
  PROVE  StepsBack /\ plan' = plan
<1> HIDE DEF Status
<1>1. /\ t \in Created /\ RowsTyped /\ DepsAreEarlier /\ UNCHANGED <<graph, newest, plan, restarts>>
      /\ Status[t] # "skipped"
  BY DEF ShapeInv, SkipTask, CancelTask, Edit
<1>2. PICK e \in {"skipped", "cancelled"} : task' = [task EXCEPT ![t] = [task[t] EXCEPT !.ended = e]]
  BY DEF SkipTask, CancelTask, Edit
<1> DEFINE row == [task[t] EXCEPT !.ended = e]
<1>3. task[t] \in TaskRow /\ task[t].retry \in 0 .. Len(Tries(t))
  BY <1>1, CreatedRows DEF RowsTyped
<1>4. row \in TaskRow /\ row.tries = task[t].tries /\ row.retry = task[t].retry
      /\ row.verdict = task[t].verdict /\ row.machine = task[t].machine
  BY <1>3 DEF TaskRow
<1>5. task[t].ended # "skipped"
  <2>1. Status[t] = Shows(t, {Status[d] : d \in graph[t].deps})
    BY <1>1, StatusShows
  <2>. QED BY <1>1, <2>1, Showing
<1>6. LaterRow(task[t], row)
  <2> HIDE DEF row
  <2>1. row.retry \in 0 .. Len(Tries(t))
    BY <1>1, <1>3, <1>4, <1>5
  <2>. QED BY <1>1, <1>3, <1>4, <1>5, <2>1, SideRow
<1>. QED BY <1>1, <1>2, <1>6, RowsStepBack

\* What a human approved stays approved.
LEMMA DecideHumanTaskKeeps ==
  ASSUME ShapeInv, NEW t \in Tasks, DecideHumanTask(t)
  PROVE  StepsBack /\ plan' = plan
<1> HIDE DEF Status
<1>1. t \in Created /\ RowsTyped /\ DepsAreEarlier /\ UNCHANGED <<graph, newest, plan, restarts>>
      /\ Status[t] = "waiting-human"
  BY DEF ShapeInv, DecideHumanTask, Edit
<1>2. PICK v \in {"approve", "reject"} :
        task' = [task EXCEPT ![t] = [task[t] EXCEPT !.verdict = v, !.judged = Grounds(t)]]
  BY DEF DecideHumanTask, Edit
<1> DEFINE row == [task[t] EXCEPT !.verdict = v, !.judged = Grounds(t)]
<1>3. task[t] \in TaskRow /\ task[t].retry \in 0 .. Len(Tries(t))
  BY <1>1, CreatedRows DEF RowsTyped
<1>4. Grounds(t) \in [Tasks -> Nat]
  <2>1. \A d \in graph[t].deps : d \in Created /\ Len(Tries(d)) \in Nat
    BY <1>1, CreatedRows DEF DepsAreEarlier
  <2>. QED BY <2>1 DEF Grounds
<1>5. row \in TaskRow /\ row.tries = task[t].tries /\ row.retry = task[t].retry
      /\ row.ended = task[t].ended /\ row.machine = task[t].machine
  <2> HIDE DEF Grounds
  <2>. QED BY <1>3, <1>4 DEF TaskRow
<1>6. task[t].verdict # "approve"
  <2>1. Status[t] = Shows(t, {Status[d] : d \in graph[t].deps})
    BY <1>1, StatusShows
  <2>2. task[t].verdict = "none"
    BY <1>1, <2>1, Showing
  <2>. QED BY <2>2
<1>7. LaterRow(task[t], row)
  <2> HIDE DEF row
  <2>1. row.retry \in 0 .. Len(Tries(t))
    BY <1>1, <1>3, <1>5, <1>6
  <2>. QED BY <1>1, <1>3, <1>5, <1>6, <2>1, SideRow
<1>. QED BY <1>1, <1>2, <1>7, RowsStepBack

LEMMA RetryReviewLoopKeeps ==
  ASSUME ShapeInv, NEW t \in Tasks, RetryReviewLoop(t)
  PROVE  StepsBack /\ plan' = plan
<1> DEFINE d == graph[t].target
           first == [task[t] EXCEPT !.retry = Len(Tries(t))]
           second == [task[d] EXCEPT !.retry = Len(Tries(d)), !.revised = TRUE]
<1>1. t \in Created /\ RowsTyped /\ UNCHANGED <<graph, newest, plan, restarts>> /\ IsReview(t)
  BY DEF ShapeInv, RetryReviewLoop
<1>2. d \in Created /\ d # t /\ t \in Tasks /\ d \in Tasks
  <2>1. d \in graph[t].deps /\ t \in Nat
    BY <1>1, CreatedRows DEF ShapeInv, DepsAreEarlier, PolicyFits, IsReview
  <2>2. d \in Created /\ d < t
    BY <1>1, <2>1 DEF ShapeInv, DepsAreEarlier
  <2>3. d \in Tasks /\ d # t
    <3>1. d \in Tasks /\ d \in Nat
      BY <1>1, <2>2, CreatedRows
    <3>. QED BY <2>1, <2>2, <3>1
  <2>. QED BY <2>2, <2>3
<1>3. task[t] \in TaskRow /\ task[d] \in TaskRow /\ Len(Tries(t)) \in Nat /\ Len(Tries(d)) \in Nat
      /\ task \in [Tasks -> TaskRow \cup {None}]
  BY <1>1, <1>2, CreatedRows DEF RowsTyped
<1>4. task'[t] = first /\ task'[d] = second /\ \A u \in Tasks \ {t, d} : task'[u] = task[u]
  BY <1>2, <1>3 DEF RetryReviewLoop
<1>5. DOMAIN task' = Tasks /\ task' = [u \in Tasks |-> task'[u]]
  BY <1>3 DEF RetryReviewLoop
<1>6. first \in TaskRow /\ first.tries = task[t].tries /\ first.retry = Len(Tries(t)) /\ first.ended = task[t].ended
      /\ first.verdict = task[t].verdict /\ first.machine = task[t].machine
  BY <1>3 DEF TaskRow
<1>7. second \in TaskRow /\ second.tries = task[d].tries /\ second.retry = Len(Tries(d)) /\ second.ended = task[d].ended
      /\ second.verdict = task[d].verdict /\ second.machine = task[d].machine
  BY <1>3 DEF TaskRow
<1>8. LaterRow(task[t], first) /\ LaterRow(task[d], second)
  <2> HIDE DEF first, second, d
  <2>1. LaterRow(task[t], first)
    BY <1>1, <1>3, <1>6, SideRow
  <2>2. LaterRow(task[d], second)
    BY <1>1, <1>2, <1>3, <1>7, SideRow
  <2>. QED BY <2>1, <2>2
<1> HIDE DEF first, second, d
<1>9. task' \in [Tasks -> TaskRow \cup {None}]
  BY <1>2, <1>3, <1>4, <1>5, <1>6, <1>7
<1>10. Created' = Created
  <2>1. None \notin TaskRow
    BY GraphConstantsTyped
  <2>2. \A u \in Tasks : task'[u] # None <=> task[u] # None
    BY <1>3, <1>4, <1>6, <1>7, <2>1
  <2>. QED BY <2>2 DEF Created
<1>11. ASSUME NEW u \in Created PROVE LaterRow(task[u], task'[u])
  <2>1. CASE u \in {t, d}
    BY <1>4, <1>8, <2>1
  <2>2. CASE u \notin {t, d}
    <3>1. task'[u] = task[u]
      BY <1>1, <1>4, <2>2, CreatedRows
    <3>. QED BY <1>1, <3>1, LaterSelf
  <2>. QED BY <2>1, <2>2
<1>12. restarts' \in 0 .. MaxRestarts
  BY <1>1 DEF RowsTyped
<1>. QED BY <1>1, <1>9, <1>10, <1>11, <1>12 DEF StepsBack

LEMMA TriesRow ==
  ASSUME RowsTyped, NEW t \in Created, NEW tries \in Seq(Try), Len(tries) = Len(Tries(t)),
         \A i \in DOMAIN Tries(t) : Later(Tries(t)[i], tries[i])
  PROVE  LaterRow(task[t], [task[t] EXCEPT !.tries = tries])
<1> DEFINE row == [task[t] EXCEPT !.tries = tries]
<1>1. task[t] \in TaskRow /\ task[t].retry \in 0 .. Len(Tries(t)) /\ DOMAIN Tries(t) = 1 .. Len(Tries(t))
  BY CreatedRows DEF RowsTyped
<1>2. row \in TaskRow /\ row.tries = tries /\ row.retry = task[t].retry /\ row.ended = task[t].ended
      /\ row.verdict = task[t].verdict /\ row.machine = task[t].machine
  BY <1>1 DEF TaskRow
<1>3. DOMAIN tries = DOMAIN Tries(t)
  BY <1>1
<1> HIDE DEF row
<1>4. LaterRow(task[t], row)
  BY <1>1, <1>2, <1>3 DEF LaterRow, Tries
<1>. QED BY <1>4 DEF row

LEMMA TryRow ==
  ASSUME RowsTyped, NEW t \in Created, NEW i \in DOMAIN Tries(t), NEW new, Later(Tries(t)[i], new)
  PROVE  LaterRow(task[t], [task[t] EXCEPT !.tries = [Tries(t) EXCEPT ![i] = new]])
<1> DEFINE tries == [Tries(t) EXCEPT ![i] = new]
<1>1. Tries(t) \in Seq(Try) /\ new \in Try
  BY CreatedRows DEF Later
<1>2. tries \in Seq(Try) /\ Len(tries) = Len(Tries(t)) /\ tries[i] = new
      /\ \A j \in DOMAIN Tries(t) \ {i} : tries[j] = Tries(t)[j]
  BY <1>1
<1>3. \A j \in DOMAIN Tries(t) : Later(Tries(t)[j], Tries(t)[j])
  BY LaterSelf DEF LaterRow, Tries
<1>4. \A j \in DOMAIN Tries(t) : Later(Tries(t)[j], tries[j])
  BY <1>2, <1>3
<1> HIDE DEF tries
<1>5. LaterRow(task[t], [task[t] EXCEPT !.tries = tries])
  BY <1>2, <1>4, TriesRow
<1>. QED BY <1>5 DEF tries

LEMMA ReplyObservedKeeps ==
  ASSUME ShapeInv, NEW t \in Tasks, NEW i, ReplyObserved(t, i)
  PROVE  StepsBack /\ plan' = plan
<1>1. t \in Created /\ RowsTyped /\ i \in DOMAIN Tries(t) /\ Tries(t)[i].state \in {"open", "uncertain"}
      /\ UNCHANGED <<graph, newest, plan, restarts>>
  BY DEF ShapeInv, ReplyObserved, Edit
<1>2. PICK x \in Replies(t) :
        task' = [task EXCEPT ![t] = [task[t] EXCEPT !.tries[i].state = "replied", !.tries[i].reply = x]]
  BY DEF ReplyObserved, Edit
<1>3. x \in {"good", "fail", "malformed"}
  BY DEF Replies
<1> DEFINE old == Tries(t)[i]
           new == [old EXCEPT !.state = "replied", !.reply = x]
           row == [task[t] EXCEPT !.tries[i].state = "replied", !.tries[i].reply = x]
<1>4. old \in Try /\ old.reply = "none" /\ task[t] \in TaskRow /\ Tries(t) \in Seq(Try)
  BY <1>1, CreatedRows DEF RowsTyped, NoReply
<1>5. Later(old, new)
  BY <1>1, <1>3, <1>4 DEF Later, Try, NoReply
<1>6. row = [task[t] EXCEPT !.tries = [Tries(t) EXCEPT ![i] = new]]
  BY <1>1, <1>4 DEF TaskRow, Try, Tries
<1> HIDE DEF row, new, old
<1>7. LaterRow(task[t], row)
  BY <1>1, <1>5, <1>6, TryRow DEF old
<1>. QED BY <1>1, <1>2, <1>7, RowsStepBack DEF row

LEMMA SentKeeps ==
  ASSUME ShapeInv, NEW r \in Run, NEW x \in plan[r], Sent(r, x)
  PROVE  StepsBack
<1> DEFINE t == x.task
           i == newest[x.tab][2]
<1>1. x \in Sends /\ x.at = "sending" /\ RowsTyped /\ UNCHANGED <<graph, newest, restarts>>
  BY DEF Sends, ShapeInv, Sent
<1>2. t \in Created /\ i \in DOMAIN Tries(t)
  <2>1. t \in Created /\ x.tab \in Pages /\ newest[x.tab] # None /\ newest[x.tab][1] = t
    BY <1>1 DEF ShapeInv, PlansTyped, SendRow, SendingIsNewest
  <2>. QED BY <1>1, <2>1 DEF RowsTyped
<1>3. PICK state \in {"open", "failed", "uncertain"} :
        task' = [task EXCEPT ![t].tries[i] = Advanced(@, state)]
  BY DEF Sent
<1> DEFINE old == Tries(t)[i]
           new == Advanced(old, state)
           row == [task[t] EXCEPT !.tries = [Tries(t) EXCEPT ![i] = new]]
<1>4. old \in Try /\ (old.state = "replied" <=> old.reply # NoReply)
  BY <1>1, <1>2, CreatedRows DEF RowsTyped
<1>5. Later(old, new)
  <2>1. CASE old.state = "open"
    BY <1>4, <2>1 DEF Advanced, Later, Try, NoReply
  <2>2. CASE old.state # "open"
    BY <1>4, <2>2 DEF Advanced, Later
  <2>. QED BY <2>1, <2>2
<1>6. task' = [task EXCEPT ![t] = row]
  BY <1>3 DEF Tries
<1> HIDE DEF new, old, i
<1>7. LaterRow(task[t], row)
  BY <1>1, <1>2, <1>5, TryRow DEF old
<1> HIDE DEF row, t
<1>. QED BY <1>1, <1>2, <1>6, <1>7, RowsStepBack

LEMMA RestartKeeps ==
  ASSUME ShapeInv, Restart
  PROVE  StepsBack /\ plan' = [r \in Run |-> {}]
<1>1. RowsTyped /\ UNCHANGED <<graph, newest>> /\ plan' = [r \in Run |-> {}] /\ restarts' \in 0 .. MaxRestarts
  BY GraphConstantsTyped DEF ShapeInv, Restart, RowsTyped
<1> DEFINE opened == {a \in Created \X (1 .. MaxTries) : a[2] \in DOMAIN Tries(a[1]) /\ Tries(a[1])[a[2]].state = "open"}
<1> DEFINE sent == {newest[x.tab] : x \in {y \in Sends : y.at = "sending"}}
           Judging(failed, uncertain) ==
             task' = [t \in Tasks |-> IF t \in Created THEN [task[t] EXCEPT !.tries =
                        [i \in DOMAIN Tries(t) |-> [Tries(t)[i] EXCEPT !.state =
                           IF <<t, i>> \in failed THEN "failed" ELSE IF <<t, i>> \in uncertain THEN "uncertain"
                           ELSE Tries(t)[i].state]]] ELSE None]
<1>2. PICK failed \in SUBSET opened, uncertain \in SUBSET opened : Judging(failed, uncertain)
  <2>1. PICK failed \in SUBSET (opened \cap sent) : \E uncertain \in SUBSET (opened \ failed) : Judging(failed, uncertain)
    BY Zenon DEF Restart
  <2>2. PICK uncertain \in SUBSET (opened \ failed) : Judging(failed, uncertain)
    BY <2>1
  <2> HIDE DEF Judging, opened, sent
  <2>. QED BY <2>1, <2>2
<1> DEFINE Judged(t, i) == IF <<t, i>> \in failed THEN "failed" ELSE IF <<t, i>> \in uncertain THEN "uncertain"
                           ELSE Tries(t)[i].state
           TriesOf(t) == [i \in DOMAIN Tries(t) |-> [Tries(t)[i] EXCEPT !.state = Judged(t, i)]]
           Row(t) == [task[t] EXCEPT !.tries = TriesOf(t)]
<1>3. ASSUME NEW t \in Created, NEW i \in DOMAIN Tries(t)
      PROVE  Later(Tries(t)[i], [Tries(t)[i] EXCEPT !.state = Judged(t, i)])
  <2>1. Tries(t)[i] \in Try /\ (Tries(t)[i].state = "replied" <=> Tries(t)[i].reply # NoReply)
    BY <1>1, CreatedRows DEF RowsTyped
  <2>2. CASE <<t, i>> \in failed \cup uncertain
    <3>1. Tries(t)[i].state = "open" /\ Judged(t, i) \in {"failed", "uncertain"}
      BY <2>2
    <3> HIDE DEF Judged
    <3>. QED BY <2>1, <3>1 DEF Later, Try, NoReply
  <2>3. CASE <<t, i>> \notin failed \cup uncertain
    <3>1. Judged(t, i) = Tries(t)[i].state
      BY <2>3
    <3>2. [Tries(t)[i] EXCEPT !.state = Tries(t)[i].state] = Tries(t)[i]
      BY <2>1 DEF Try
    <3> HIDE DEF Judged
    <3>. QED BY <2>1, <3>1, <3>2 DEF Later
  <2>. QED BY <2>2, <2>3
<1>4. ASSUME NEW t \in Created PROVE LaterRow(task[t], Row(t))
  <2>1. TriesOf(t) \in Seq(Try) /\ Len(TriesOf(t)) = Len(Tries(t))
        /\ \A i \in DOMAIN Tries(t) : Later(Tries(t)[i], TriesOf(t)[i])
    <3>1. DOMAIN Tries(t) = 1 .. Len(Tries(t)) /\ Len(Tries(t)) \in Nat
      BY <1>1, CreatedRows
    <3>2. \A i \in DOMAIN Tries(t) : TriesOf(t)[i] \in Try /\ Later(Tries(t)[i], TriesOf(t)[i])
      <4>1. ASSUME NEW i \in DOMAIN Tries(t)
            PROVE  TriesOf(t)[i] = [Tries(t)[i] EXCEPT !.state = Judged(t, i)]
        OBVIOUS
      <4>2. ASSUME NEW try, NEW next, Later(try, next) PROVE next \in Try
        BY <4>2 DEF Later
      <4> HIDE DEF TriesOf, Judged
      <4>. QED BY <1>3, <4>1, <4>2
    <3>3. DOMAIN TriesOf(t) = 1 .. Len(Tries(t))
      BY <3>1
    <3> HIDE DEF TriesOf
    <3>4. TriesOf(t) = [i \in 1 .. Len(Tries(t)) |-> TriesOf(t)[i]]
      BY <3>3 DEF TriesOf
    <3>5. TriesOf(t) \in [1 .. Len(Tries(t)) -> Try]
      BY <3>1, <3>2, <3>4
    <3>. QED BY <3>1, <3>2, <3>5
  <2> HIDE DEF TriesOf
  <2>. QED BY <1>1, <2>1, TriesRow
<1>5. ASSUME NEW t \in Created PROVE task'[t] = Row(t)
  BY <1>1, <1>2, CreatedRows
<1> HIDE DEF Row, TriesOf, Judged
<1>6. task' \in [Tasks -> TaskRow \cup {None}]
  <2>1. ASSUME NEW t \in Tasks PROVE task'[t] \in TaskRow \cup {None}
    <3>1. CASE t \in Created
      BY <1>4, <1>5, <3>1 DEF LaterRow
    <3>2. CASE t \notin Created
      BY <1>2, <3>2
    <3>. QED BY <3>1, <3>2
  <2>2. task' = [t \in Tasks |-> task'[t]]
    BY <1>2
  <2>. QED BY <2>1, <2>2
<1>7. Created' = Created
  <2>1. ASSUME NEW t \in Created PROVE task'[t] # None
    BY <1>4, <1>5, GraphConstantsTyped DEF LaterRow
  <2>2. ASSUME NEW t \in Tasks \ Created PROVE task'[t] = None
    BY <1>2
  <2>. QED BY <2>1, <2>2 DEF Created
<1>. QED BY <1>1, <1>4, <1>5, <1>6, <1>7 DEF StepsBack

LEMMA CreateTaskKeeps ==
  ASSUME ShapeInv, NEW t \in Tasks, CreateTask(t)
  PROVE  RowsTyped' /\ TriesKept /\ DepsAreEarlier' /\ Created' = Created \cup {t} /\ Tries(t)' = <<>>
         /\ newest' = newest /\ plan' = plan /\ \A u \in Created : Tries(u)' = Tries(u)
<1>1. /\ RowsTyped /\ DepsAreEarlier /\ UNCHANGED <<graph, newest, plan, restarts>>
      /\ task' = [task EXCEPT ![t] = NewTask] /\ Created = 1 .. (t - 1) /\ Valid(Created \cup {t})
  BY TypesSplit DEF ShapeInv, CreateTask, Edit
<1>2. /\ task \in [Tasks -> TaskRow \cup {None}] /\ t \in Nat \ {0} /\ t \notin Created /\ Created \subseteq Tasks
      /\ Tasks \subseteq Nat
  BY <1>1, GraphConstantsTyped DEF RowsTyped, Created
<1>3. NewTask \in TaskRow /\ NewTask # None /\ NewTask.tries = <<>> /\ NewTask.retry = 0
  <2>1. <<>> \in Seq(Try) /\ NoGrounds \in [Tasks -> Nat]
    BY DEF NoGrounds
  <2>2. NewTask \in TaskRow /\ NewTask.tries = <<>> /\ NewTask.retry = 0
    <3> HIDE DEF NoGrounds
    <3>. QED BY <2>1 DEF NewTask, TaskRow
  <2>. QED BY <2>2, GraphConstantsTyped
<1>4. task' \in [Tasks -> TaskRow \cup {None}] /\ task'[t] = NewTask /\ \A u \in Tasks \ {t} : task'[u] = task[u]
  <2> HIDE DEF NewTask
  <2>. QED BY <1>1, <1>2, <1>3
<1>5. Created' = Created \cup {t}
  BY <1>2, <1>3, <1>4 DEF Created
<1>6. Tries(t)' = <<>> /\ \A u \in Created : task'[u] = task[u] /\ Tries(u)' = Tries(u)
  BY <1>2, <1>3, <1>4 DEF Tries
<1>7. Attempts' = Attempts /\ Made' = Made
  <2>1. \A u \in Created : {u} \X DOMAIN Tries(u)' = {u} \X DOMAIN Tries(u)
    BY <1>6
  <2>2. DOMAIN Tries(t)' = {}
    BY <1>6
  <2>3. (UNION {{u} \X DOMAIN Tries(u) : u \in Created})' = UNION {{u} \X DOMAIN Tries(u) : u \in Created}
    BY <1>5, <2>1, <2>2
  <2>. QED BY <2>3 DEF Attempts, Made
<1>8. RowsTyped'
  <2>1. ASSUME NEW u \in Created'
        PROVE  /\ task'[u].retry \in 0 .. Len(Tries(u)')
               /\ \A i \in DOMAIN Tries(u)' : Tries(u)'[i].state = "replied" <=> Tries(u)'[i].reply # NoReply
    <3>1. CASE u = t
      BY <1>3, <1>4, <1>6, <3>1
    <3>2. CASE u # t
      <4>1. u \in Created
        BY <1>5, <3>2
      <4>. QED BY <1>1, <1>6, <4>1 DEF RowsTyped
    <3>. QED BY <3>1, <3>2
  <2>2. ASSUME NEW p \in Pages, newest'[p] # None
        PROVE  (newest[p][1] \in Created /\ newest[p][2] \in DOMAIN Tries(newest[p][1]))'
    <3>1. newest[p][1] \in Created /\ newest[p][2] \in DOMAIN Tries(newest[p][1])
      BY <1>1, <2>2 DEF RowsTyped
    <3>2. Tries(newest[p][1])' = task'[newest'[p][1]].tries /\ Tries(newest[p][1]) = task[newest[p][1]].tries
      BY DEF Tries
    <3>. QED BY <1>1, <1>5, <1>6, <3>1, <3>2
  <2>3. /\ graph' \in Shapes /\ restarts' \in 0 .. MaxRestarts /\ newest' \in [Pages -> (Tasks \X Nat) \cup {None}]
        /\ Attempts' <= MaxTries /\ IsFiniteSet(Made')
    BY <1>1, <1>7 DEF RowsTyped
  <2>. QED BY <1>4, <2>1, <2>2, <2>3 DEF RowsTyped
<1>9. TriesKept
  BY <1>1, <1>5, <1>6 DEF TriesKept
<1>10. DepsAreEarlier'
  <2>1. ASSUME NEW u \in Created' PROVE (PolicyFits(u) /\ graph[u].deps \subseteq Created /\ \A d \in graph[u].deps : d < u)'
    <3>1. CASE u \in Created
      BY <1>1, <1>5, <3>1 DEF DepsAreEarlier, PolicyFits
    <3>2. CASE u = t
      <4>1. PolicyFits(t) /\ graph[t].deps \subseteq Created \cup {t}
        BY <1>1 DEF Valid
      <4>2. t \notin graph[t].deps
        <5>1. {t} \in (SUBSET (Created \cup {t})) \ {{}}
          OBVIOUS
        <5>2. graph[t].deps \cap {t} = {}
          BY <1>1, <5>1 DEF Valid
        <5>. QED BY <5>2
      <4>3. ASSUME NEW d \in graph[t].deps PROVE d < t
        BY <1>1, <1>2, <4>1, <4>2
      <4>. QED BY <1>1, <1>5, <3>2, <4>1, <4>3 DEF PolicyFits
    <3>. QED BY <1>5, <3>1, <3>2
  <2>. QED BY <2>1 DEF DepsAreEarlier
<1>. QED BY <1>1, <1>5, <1>6, <1>8, <1>9, <1>10

\* An attempt that is made is the last of its task and of its page.
LEMMA PrepareAttemptKeeps ==
  ASSUME ShapeInv, NEW r \in Run, NEW x \in plan[r], PrepareAttempt(r, x)
  PROVE  /\ RowsTyped' /\ TriesKept /\ Created' = Created /\ x.task \in Created /\ x.tab \in Pages
         /\ \A t \in Created \ {x.task} : Tries(t)' = Tries(t)
         /\ Tries(x.task)' = Append(Tries(x.task),
              [state |-> "open", reply |-> NoReply, tab |-> x.tab, grounds |-> x.grounds])
         /\ newest' = [newest EXCEPT ![x.tab] = <<x.task, Len(Tries(x.task)) + 1>>]
<1> DEFINE t == x.task
           n == Len(Tries(t))
           new == [state |-> "open", reply |-> NoReply, tab |-> x.tab, grounds |-> x.grounds]
           tries == Append(Tries(t), new)
           row == [task[t] EXCEPT !.tries = tries]
<1>1. /\ RowsTyped /\ PlansTyped /\ Attempts < MaxTries /\ UNCHANGED <<graph, restarts>>
      /\ task' = [task EXCEPT ![t] = row] /\ newest' = [newest EXCEPT ![x.tab] = <<t, n + 1>>]
  BY DEF ShapeInv, PrepareAttempt, Tries
<1>2. t \in Created /\ t \in Tasks /\ x.tab \in Pages /\ x.grounds \in [Tasks -> Nat]
  <2>1. x \in Sends
    BY DEF Sends
  <2>. QED BY <1>1, <2>1 DEF PlansTyped, SendRow
<1>3. task[t] \in TaskRow /\ Tries(t) \in Seq(Try) /\ n \in Nat /\ DOMAIN Tries(t) = 1 .. n
      /\ task \in [Tasks -> TaskRow \cup {None}] /\ newest \in [Pages -> (Tasks \X Nat) \cup {None}]
  BY <1>1, <1>2, CreatedRows DEF RowsTyped
<1>4. new \in Try
  BY <1>2 DEF Try, NoReply
<1>5. /\ tries \in Seq(Try) /\ Len(tries) = n + 1 /\ DOMAIN tries = 1 .. (n + 1) /\ tries[n + 1] = new
      /\ \A i \in 1 .. n : tries[i] = Tries(t)[i]
  <2> HIDE DEF new
  <2>. QED BY <1>3, <1>4
<1>6. row \in TaskRow /\ row.tries = tries /\ row.retry = task[t].retry /\ row.ended = task[t].ended
      /\ row.verdict = task[t].verdict /\ row.machine = task[t].machine
  <2> HIDE DEF tries
  <2>. QED BY <1>3, <1>5 DEF TaskRow
<1> HIDE DEF tries
<1>7. task' \in [Tasks -> TaskRow \cup {None}] /\ task'[t] = row /\ \A u \in Tasks \ {t} : task'[u] = task[u]
  <2> HIDE DEF row
  <2>. QED BY <1>1, <1>2, <1>3, <1>6
<1> HIDE DEF row
<1>8. Created' = Created
  BY <1>2, <1>6, <1>7, GraphConstantsTyped DEF Created
<1>9. Tries(t)' = tries /\ \A u \in Created \ {t} : task'[u] = task[u] /\ Tries(u)' = Tries(u)
  BY <1>6, <1>7 DEF Tries, Created
<1>10. Made' = Made \cup {<<t, n + 1>>}
  <2>1. ASSUME NEW u \in Created \ {t} PROVE {u} \X DOMAIN Tries(u)' = {u} \X DOMAIN Tries(u)
    BY <1>9
  <2>2. {t} \X DOMAIN Tries(t)' = ({t} \X DOMAIN Tries(t)) \cup {<<t, n + 1>>}
    <3>1. DOMAIN Tries(t)' = DOMAIN Tries(t) \cup {n + 1}
      BY <1>3, <1>5, <1>9
    <3>. QED BY <3>1
  <2>3. ASSUME NEW a PROVE a \in Made' <=> a \in Made \cup {<<t, n + 1>>}
    <3>1. a \in Made <=> \E u \in Created : a \in {u} \X DOMAIN Tries(u)
      BY DEF Made
    <3>2. a \in Made' <=> \E u \in Created : a \in {u} \X DOMAIN Tries(u)'
      BY <1>8 DEF Made
    <3>. QED BY <1>2, <2>1, <2>2, <3>1, <3>2
  <2>. QED BY <2>3
<1>11. IsFiniteSet(Made') /\ Attempts' <= MaxTries
  <2>1. IsFiniteSet(Made) /\ Cardinality(Made) \in Nat /\ Cardinality(Made) < MaxTries
    BY <1>1, FS_CardinalityType DEF RowsTyped, Attempts
  <2>2. IsFiniteSet(Made') /\ Cardinality(Made') <= Cardinality(Made) + 1
    <3>1. /\ IsFiniteSet(Made \cup {<<t, n + 1>>})
          /\ Cardinality(Made \cup {<<t, n + 1>>}) =
               IF <<t, n + 1>> \in Made THEN Cardinality(Made) ELSE Cardinality(Made) + 1
      BY <2>1, FS_AddElement
    <3>. QED BY <1>10, <2>1, <3>1
  <2>3. Cardinality(Made') \in Nat
    BY <2>2, FS_CardinalityType
  <2>. QED BY <2>1, <2>2, <2>3, GraphConstantsTyped DEF Attempts
<1>12. RowsTyped'
  <2>1. ASSUME NEW u \in Created'
        PROVE  /\ task'[u].retry \in 0 .. Len(Tries(u)')
               /\ \A i \in DOMAIN Tries(u)' : Tries(u)'[i].state = "replied" <=> Tries(u)'[i].reply # NoReply
    <3>1. CASE u = t
      <4>1. task[t].retry \in 0 .. n
        BY <1>1, <1>2 DEF RowsTyped
      <4>2. task'[u].retry \in 0 .. Len(Tries(u)')
        BY <1>3, <1>5, <1>6, <1>7, <1>9, <3>1, <4>1
      <4>3. ASSUME NEW i \in DOMAIN Tries(u)' PROVE Tries(u)'[i].state = "replied" <=> Tries(u)'[i].reply # NoReply
        <5>1. CASE i = n + 1
          BY <1>5, <1>9, <3>1, <5>1 DEF NoReply
        <5>2. CASE i # n + 1
          <6>1. i \in 1 .. n /\ Tries(u)'[i] = Tries(t)[i]
            BY <1>3, <1>5, <1>9, <3>1, <4>3, <5>2
          <6>. QED BY <1>1, <1>2, <1>3, <6>1 DEF RowsTyped
        <5>. QED BY <5>1, <5>2
      <4>. QED BY <4>2, <4>3
    <3>2. CASE u # t
      BY <1>1, <1>8, <1>9, <3>2 DEF RowsTyped
    <3>. QED BY <3>1, <3>2
  <2>2. ASSUME NEW p \in Pages, newest'[p] # None
        PROVE  (newest[p][1] \in Created /\ newest[p][2] \in DOMAIN Tries(newest[p][1]))'
    <3>0. Tries(newest[p][1])' = task'[newest'[p][1]].tries
      BY DEF Tries
    <3>1. CASE p = x.tab
      <4>1. newest'[p][1] = t /\ newest'[p][2] = n + 1
        BY <1>1, <1>3, <3>1
      <4>. QED BY <1>2, <1>3, <1>5, <1>8, <1>9, <3>0, <4>1 DEF Tries
    <3>2. CASE p # x.tab
      <4>1. newest'[p] = newest[p]
        BY <1>1, <1>3, <3>2
      <4>2. newest[p][1] \in Created /\ newest[p][2] \in DOMAIN Tries(newest[p][1])
        BY <1>1, <2>2, <4>1 DEF RowsTyped
      <4>3. \A u \in Created : \A i \in DOMAIN Tries(u) : i \in DOMAIN Tries(u)'
        BY <1>3, <1>5, <1>9
      <4>4. newest[p][2] \in DOMAIN task'[newest[p][1]].tries
        BY <4>2, <4>3 DEF Tries
      <4>. QED BY <1>8, <3>0, <4>1, <4>2, <4>4
    <3>. QED BY <3>1, <3>2
  <2>3. newest' \in [Pages -> (Tasks \X Nat) \cup {None}]
    BY <1>1, <1>2, <1>3
  <2>4. graph' \in Shapes /\ restarts' \in 0 .. MaxRestarts
    BY <1>1 DEF RowsTyped
  <2>. QED BY <1>7, <1>11, <2>1, <2>2, <2>3, <2>4 DEF RowsTyped
<1>13. TriesKept
  <2>1. ASSUME NEW u \in Created
        PROVE  /\ \A i \in DOMAIN Tries(u) :
                    /\ i \in DOMAIN Tries(u)' /\ Tries(u)'[i].grounds = Tries(u)[i].grounds
                    /\ Tries(u)[i].reply = "good" => Tries(u)'[i].reply = "good"
               /\ task[u].ended = "skipped" => task'[u].ended = "skipped"
               /\ task[u].verdict = "approve" => task'[u].verdict = "approve"
               /\ task[u].machine => task'[u].machine
    <3>1. CASE u = t
      <4>1. \A i \in DOMAIN Tries(t) : i \in DOMAIN Tries(t)' /\ Tries(t)'[i] = Tries(t)[i]
        BY <1>3, <1>5, <1>9
      <4>2. /\ task'[t].ended = task[t].ended /\ task'[t].verdict = task[t].verdict
            /\ task'[t].machine = task[t].machine
        BY <1>6, <1>7, <1>9
      <4>. QED BY <3>1, <4>1, <4>2
    <3>2. CASE u # t
      BY <1>9, <3>2
    <3>. QED BY <3>1, <3>2
  <2>. QED BY <1>1, <1>8, <2>1 DEF TriesKept
<1>. QED BY <1>1, <1>2, <1>8, <1>9, <1>12, <1>13 DEF tries

-----------------------------------------------------------------------------
(* What is sent is sent on what was accepted *)

LEMMA AcceptedForGood ==
  ASSUME TriesKept, NEW d \in Created, NEW n, Accepted(d, n)
  PROVE  Accepted(d, n)'
<1>1. CASE Answered(d, n)
  BY <1>1 DEF Answered, TriesKept, Accepted
<1>2. CASE task[d].ended = "skipped"
  BY <1>2 DEF TriesKept, Accepted
<1>3. CASE graph[d].kind = "human" /\ task[d].verdict = "approve"
  BY <1>3 DEF TriesKept, Accepted
<1>4. CASE graph[d].policy = "verified-claim" /\ task[d].machine
  BY <1>4 DEF TriesKept, Accepted
<1>. QED BY <1>1, <1>2, <1>3, <1>4 DEF Accepted

LEMMA GroundsRemain ==
  ASSUME DepsAreEarlier, GroundsAreSound, TriesKept,
         \A t \in Created' \ Created : Tries(t)' = <<>>,
         \A t \in Created : \A i \in DOMAIN Tries(t)' :
           i \in DOMAIN Tries(t) \/ \A d \in graph[t].deps : Accepted(d, Tries(t)'[i].grounds[d])
  PROVE  GroundsAreSound'
<1>1. ASSUME NEW t \in Created', NEW i \in DOMAIN Tries(t)', NEW d \in graph'[t].deps
      PROVE  Accepted(d, Tries(t)[i].grounds[d])'
  <2>1. t \in Created /\ d \in Created /\ graph' = graph
    BY <1>1 DEF DepsAreEarlier, TriesKept
  <2> DEFINE n == Tries(t)'[i].grounds[d]
  <2>2. Accepted(d, n)
    <3>1. CASE i \in DOMAIN Tries(t)
      <4>1. n = Tries(t)[i].grounds[d]
        BY <2>1, <3>1 DEF TriesKept
      <4>2. Accepted(d, Tries(t)[i].grounds[d])
        BY <1>1, <2>1, <3>1 DEF GroundsAreSound, Accepted
      <4>. QED BY <4>1, <4>2
    <3>2. CASE i \notin DOMAIN Tries(t)
      BY <1>1, <2>1, <3>2
    <3>. QED BY <3>1, <3>2
  <2>3. PICK k : k = n
    OBVIOUS
  <2>4. Accepted(d, k)
    BY <2>2, <2>3
  <2>5. Accepted(d, k)'
    BY <2>1, <2>4, AcceptedForGood
  <2>. QED BY <2>3, <2>5 DEF Accepted, Answered
<1>. QED BY <1>1 DEF GroundsAreSound, Accepted

\* Where nothing is sent that was not planned before, what holds of the sends goes on.
LEMMA SendsRemain ==
  ASSUME ShapeInv, TriesKept, newest' = newest, plan' = [q \in Run |-> plan'[q]], Sends' \subseteq Sends
  PROVE  PlansTyped' /\ SendingIsNewest' /\ (SendsAreGrounded => SendsAreGrounded')
<1>1. PlansTyped'
  <2>1. ASSUME NEW x \in Sends' PROVE (x \in SendRow(x) /\ x.task \in Created)'
    BY DEF ShapeInv, PlansTyped, SendRow, TriesKept
  <2>. QED BY <2>1 DEF PlansTyped
<1>2. SendingIsNewest'
  BY DEF ShapeInv, SendingIsNewest
<1>3. ASSUME SendsAreGrounded PROVE SendsAreGrounded'
  <2>1. ASSUME NEW x \in Sends', NEW d \in graph'[x.task].deps PROVE Accepted(d, x.grounds[d])'
    <3>1. x \in Sends /\ x.task \in Created /\ graph' = graph
      BY DEF ShapeInv, PlansTyped, TriesKept
    <3>2. d \in Created
      BY <2>1, <3>1 DEF ShapeInv, DepsAreEarlier
    <3>3. Accepted(d, x.grounds[d])
      BY <1>3, <2>1, <3>1 DEF SendsAreGrounded
    <3>. QED BY <3>2, <3>3, AcceptedForGood
  <2>. QED BY <2>1 DEF SendsAreGrounded
<1>. QED BY <1>1, <1>2, <1>3

LEMMA DepsRemain ==
  ASSUME DepsAreEarlier, graph' = graph, Created' = Created
  PROVE  DepsAreEarlier'
BY DEF DepsAreEarlier, PolicyFits

\* A step back, with fewer sends
LEMMA StepsBackHold ==
  ASSUME GraphInv, StepsBack, plan' = [q \in Run |-> plan'[q]], \A q \in Run : plan'[q] \subseteq plan[q]
  PROVE  GraphInv' /\ TriesKept
<1>1. RowsTyped' /\ TriesKept /\ newest' = newest /\ graph' = graph /\ Created' = Created
  BY StepsBackKeep DEF GraphInv, ShapeInv, StepsBack
<1>2. Sends' \subseteq Sends
  BY DEF Sends
<1>3. PlansTyped' /\ SendingIsNewest' /\ SendsAreGrounded'
  BY <1>1, <1>2, SendsRemain DEF GraphInv
<1>4. DepsAreEarlier'
  BY <1>1, DepsRemain DEF GraphInv, ShapeInv
<1>5. GroundsAreSound'
  <2>1. ASSUME NEW t \in Created PROVE DOMAIN Tries(t)' = DOMAIN Tries(t)
    BY DEF StepsBack, LaterRow, Tries
  <2>. QED BY <1>1, <2>1, GroundsRemain DEF GraphInv, ShapeInv
<1>. QED BY <1>1, <1>3, <1>4, <1>5 DEF GraphInv, ShapeInv

LEMMA UnchangedStepsBack ==
  ASSUME RowsTyped, UNCHANGED <<graph, task, newest, restarts>>
  PROVE  StepsBack
<1>1. Created' = Created
  BY DEF Created
<1>2. \A t \in Created : LaterRow(task[t], task'[t])
  BY LaterSelf
<1>. QED BY <1>1, <1>2 DEF StepsBack, RowsTyped

LEMMA EndsOne ==
  ASSUME PlansTyped, NEW r \in Run, NEW x, Ends(r, x)
  PROVE  plan' = [q \in Run |-> plan'[q]] /\ \A q \in Run : plan'[q] \subseteq plan[q]
BY DEF PlansTyped, Ends

LEMMA BeginHolds ==
  ASSUME GraphInv, NEW r \in Run, Begin(r)
  PROVE  GraphInv' /\ TriesKept
<1> DEFINE begun == {[x EXCEPT !.at = "begun"] : x \in {y \in plan[r] : ~\E z \in Sends : z.at # "planned" /\ z.key = y.key}}
<1>1. UNCHANGED <<graph, task, newest, restarts>> /\ plan' = [plan EXCEPT ![r] = begun] /\ plan = [q \in Run |-> plan[q]]
  BY DEF Begin, GraphInv, ShapeInv, PlansTyped
<1>2. RowsTyped' /\ TriesKept /\ Created' = Created
  BY <1>1, UnchangedStepsBack, StepsBackKeep DEF GraphInv, ShapeInv, StepsBack
<1>3. plan' = [q \in Run |-> plan'[q]] /\ plan'[r] = begun /\ \A q \in Run \ {r} : plan'[q] = plan[q]
  <2> HIDE DEF begun
  <2>. QED BY <1>1
<1>4. ASSUME NEW y \in Sends'
      PROVE  y \in Sends \/ \E x \in Sends : y = [x EXCEPT !.at = "begun"]
  <2>1. PICK q \in Run : y \in plan'[q]
    BY <1>3 DEF Sends
  <2>2. CASE q = r
    BY <1>3, <2>1, <2>2 DEF Sends
  <2>3. CASE q # r
    BY <1>3, <2>1, <2>3 DEF Sends
  <2>. QED BY <2>2, <2>3
<1>5. ASSUME NEW x \in Sends, NEW y, y = [x EXCEPT !.at = "begun"]
      PROVE  y \in SendRow(y) /\ y.task = x.task /\ y.tab = x.tab /\ y.grounds = x.grounds /\ y.at = "begun"
  BY <1>5 DEF GraphInv, ShapeInv, PlansTyped, SendRow
<1>6. PlansTyped'
  <2>1. ASSUME NEW y \in Sends' PROVE (y \in SendRow(y) /\ y.task \in Created)'
    BY <1>2, <1>4, <1>5 DEF GraphInv, ShapeInv, PlansTyped, SendRow
  <2>. QED BY <1>3, <2>1 DEF PlansTyped
<1>7. SendingIsNewest'
  <2>1. ASSUME NEW y \in Sends', y.at = "sending" PROVE y \in Sends
    BY <1>4, <1>5, <2>1
  <2>. QED BY <1>1, <2>1 DEF GraphInv, ShapeInv, SendingIsNewest
<1>8. SendsAreGrounded'
  <2>1. ASSUME NEW y \in Sends', NEW d \in graph'[y.task].deps PROVE Accepted(d, y.grounds[d])'
    <3>1. PICK x \in Sends : x.task = y.task /\ x.grounds = y.grounds
      BY <1>4, <1>5
    <3>2. d \in Created /\ d \in graph[x.task].deps
      BY <1>1, <2>1, <3>1 DEF GraphInv, ShapeInv, PlansTyped, DepsAreEarlier
    <3>3. Accepted(d, x.grounds[d])
      BY <3>2 DEF GraphInv, SendsAreGrounded
    <3>4. Accepted(d, x.grounds[d])'
      BY <1>2, <3>2, <3>3, AcceptedForGood
    <3>. QED BY <3>1, <3>4
  <2>. QED BY <2>1 DEF SendsAreGrounded
<1>9. DepsAreEarlier'
  BY <1>1, <1>2, DepsRemain DEF GraphInv, ShapeInv
<1>10. GroundsAreSound'
  BY <1>1, <1>2, GroundsRemain DEF GraphInv, ShapeInv, Tries
<1>. QED BY <1>2, <1>6, <1>7, <1>8, <1>9, <1>10 DEF GraphInv, ShapeInv

\* What a planner decides to send
LEMMA PlansNew ==
  ASSUME RowsTyped, DepsAreEarlier, NEW r \in Run, RunReadyTasks(r)
  PROVE  \E idle \in SUBSET Pages : \E given \in Plans(idle) :
           plan' = [plan EXCEPT ![r] =
             {[task |-> t, tab |-> given[t], at |-> "planned", key |-> RevisionKey(t), grounds |-> Grounds(t)] :
                t \in {u \in Ready : given[u] # None}}]
BY DEF RunReadyTasks

LEMMA RunReadyTasksHolds ==
  ASSUME GraphInv, NEW r \in Run, RunReadyTasks(r)
  PROVE  GraphInv' /\ TriesKept
<1>1. UNCHANGED <<graph, task, newest, restarts>> /\ plan = [q \in Run |-> plan[q]] /\ RowsTyped /\ DepsAreEarlier
  BY DEF RunReadyTasks, GraphInv, ShapeInv, PlansTyped
<1>2. RowsTyped' /\ TriesKept /\ Created' = Created
  BY <1>1, UnchangedStepsBack, StepsBackKeep DEF StepsBack
<1>a. PICK idle \in SUBSET Pages : \E given \in Plans(idle) : plan' = [plan EXCEPT ![r] =
          {[task |-> t, tab |-> given[t], at |-> "planned", key |-> RevisionKey(t), grounds |-> Grounds(t)] :
             t \in {u \in Ready : given[u] # None}}]
  BY <1>1, PlansNew
<1>3. PICK given \in Plans(idle) : plan' = [plan EXCEPT ![r] =
          {[task |-> t, tab |-> given[t], at |-> "planned", key |-> RevisionKey(t), grounds |-> Grounds(t)] :
             t \in {u \in Ready : given[u] # None}}]
  BY <1>a
<1> DEFINE Row(t) == [task |-> t, tab |-> given[t], at |-> "planned", key |-> RevisionKey(t), grounds |-> Grounds(t)]
           sends == {Row(t) : t \in {u \in Ready : given[u] # None}}
<1>4. plan' = [q \in Run |-> plan'[q]] /\ plan'[r] = sends /\ \A q \in Run \ {r} : plan'[q] = plan[q]
  <2>1. plan' = [plan EXCEPT ![r] = sends]
    BY <1>3
  <2> HIDE DEF sends
  <2>. QED BY <1>1, <2>1
<1>5. ASSUME NEW y \in sends
      PROVE  /\ y \in SendRow(y) /\ y.task \in Created /\ y.at = "planned"
             /\ \A d \in graph[y.task].deps : d \in Created /\ Accepted(d, y.grounds[d])
  <2>1. PICK t \in Ready : y = Row(t) /\ given[t] # None
    BY <1>5
  <2>2. /\ t \in Created /\ t \in Tasks
        /\ \A d \in graph[t].deps : d \in Created /\ d \in Tasks /\ Len(Tries(d)) \in Nat /\ Accepted(d, Len(Tries(d)))
    BY <1>1, <2>1, ReadyIsFounded, CreatedRows
  <2>3. given[t] \in Pages
    BY <2>1 DEF Plans
  <2>4. Grounds(t) \in [Tasks -> Nat] /\ \A d \in graph[t].deps : Grounds(t)[d] = Len(Tries(d))
    BY <2>2 DEF Grounds
  <2>5. y.task = t /\ y.tab = given[t] /\ y.at = "planned" /\ y.grounds = Grounds(t) /\ y.key = RevisionKey(t)
    BY <2>1
  <2>6. y \in SendRow(y)
    <3> HIDE DEF Grounds, RevisionKey
    <3>. QED BY <2>1, <2>2, <2>3, <2>4 DEF SendRow
  <2>. QED BY <2>2, <2>4, <2>5, <2>6
<1>6. ASSUME NEW y \in Sends' PROVE y \in Sends \/ y \in sends
  BY <1>4 DEF Sends
<1> HIDE DEF sends
<1>7. PlansTyped'
  <2>1. ASSUME NEW y \in Sends' PROVE (y \in SendRow(y) /\ y.task \in Created)'
    BY <1>2, <1>5, <1>6 DEF GraphInv, ShapeInv, PlansTyped, SendRow
  <2>. QED BY <1>4, <2>1 DEF PlansTyped
<1>8. SendingIsNewest'
  <2>1. ASSUME NEW y \in Sends', y.at = "sending" PROVE y \in Sends
    BY <1>5, <1>6, <2>1
  <2>. QED BY <1>1, <2>1 DEF GraphInv, ShapeInv, SendingIsNewest
<1>9. SendsAreGrounded'
  <2>1. ASSUME NEW y \in Sends', NEW d \in graph'[y.task].deps PROVE Accepted(d, y.grounds[d])'
    <3>1. d \in graph[y.task].deps
      BY <1>1, <2>1
    <3>2. d \in Created /\ Accepted(d, y.grounds[d])
      <4>1. CASE y \in sends
        BY <1>5, <3>1, <4>1
      <4>2. CASE y \in Sends
        BY <3>1, <4>2 DEF GraphInv, ShapeInv, PlansTyped, DepsAreEarlier, SendsAreGrounded
      <4>. QED BY <1>6, <4>1, <4>2
    <3>. QED BY <1>2, <3>2, AcceptedForGood
  <2>. QED BY <2>1 DEF SendsAreGrounded
<1>10. DepsAreEarlier'
  BY <1>1, <1>2, DepsRemain
<1>11. GroundsAreSound'
  BY <1>1, <1>2, GroundsRemain DEF GraphInv, Tries
<1>. QED BY <1>2, <1>7, <1>8, <1>9, <1>10, <1>11 DEF GraphInv, ShapeInv

LEMMA PrepareAttemptHolds ==
  ASSUME GraphInv, NEW r \in Run, NEW x \in plan[r], PrepareAttempt(r, x)
  PROVE  GraphInv' /\ TriesKept
<1> DEFINE sent == [x EXCEPT !.at = "sending"]
           new == [state |-> "open", reply |-> NoReply, tab |-> x.tab, grounds |-> x.grounds]
<1>1. /\ RowsTyped' /\ TriesKept /\ Created' = Created /\ x.task \in Created /\ x.tab \in Pages
      /\ \A t \in Created \ {x.task} : Tries(t)' = Tries(t)
      /\ Tries(x.task)' = Append(Tries(x.task), new)
      /\ newest' = [newest EXCEPT ![x.tab] = <<x.task, Len(Tries(x.task)) + 1>>]
  BY PrepareAttemptKeeps DEF GraphInv
<1>2. /\ plan' = [plan EXCEPT ![r] = (plan[r] \ {x}) \cup {sent}] /\ plan = [q \in Run |-> plan[q]]
      /\ graph' = graph /\ RowsTyped /\ DepsAreEarlier /\ x \in Sends
      /\ ~\E y \in Sends : y.at = "sending" /\ y.tab = x.tab
  BY DEF PrepareAttempt, Goes, GraphInv, ShapeInv, PlansTyped, Sends
<1>3. plan' = [q \in Run |-> plan'[q]]
  <2> HIDE DEF sent
  <2>. QED BY <1>2
<1>4. ASSUME NEW y \in Sends' PROVE y \in Sends \/ y = sent
  <2> HIDE DEF sent
  <2>1. PICK q \in Run : y \in plan'[q]
    BY <1>3 DEF Sends
  <2>2. CASE q = r
    <3>1. plan'[q] = (plan[r] \ {x}) \cup {sent}
      BY <1>2, <2>2
    <3>. QED BY <2>1, <3>1 DEF Sends
  <2>3. CASE q # r
    <3>1. plan'[q] = plan[q]
      BY <1>2, <2>3
    <3>. QED BY <2>1, <3>1 DEF Sends
  <2>. QED BY <2>2, <2>3
<1>5. sent \in SendRow(sent) /\ sent.task = x.task /\ sent.tab = x.tab /\ sent.grounds = x.grounds /\ sent.at = "sending"
  BY <1>2 DEF GraphInv, ShapeInv, PlansTyped, SendRow
<1> HIDE DEF sent
<1>6. PlansTyped'
  <2>1. ASSUME NEW y \in Sends' PROVE (y \in SendRow(y) /\ y.task \in Created)'
    BY <1>1, <1>4, <1>5 DEF GraphInv, ShapeInv, PlansTyped, SendRow
  <2>. QED BY <1>3, <2>1 DEF PlansTyped
<1>7. /\ newest'[x.tab] # None /\ newest'[x.tab][1] = x.task
      /\ \A p \in Pages \ {x.tab} : newest'[p] = newest[p]
  <2>1. newest \in [Pages -> (Tasks \X Nat) \cup {None}] /\ x.task \in Tasks /\ Len(Tries(x.task)) \in Nat
    BY <1>1, <1>2, CreatedRows DEF RowsTyped
  <2>. QED BY <1>1, <2>1, GraphConstantsTyped
<1>8. SendingIsNewest'
  <2>1. ASSUME NEW y \in Sends', y.at = "sending"
        PROVE  newest'[y.tab] # None /\ newest'[y.tab][1] = y.task
    <3>1. CASE y = sent
      <4>1. y.tab = x.tab /\ y.task = x.task
        BY <1>5, <3>1
      <4>. QED BY <1>7, <4>1
    <3>2. CASE y \in Sends
      <4>1. y.tab # x.tab /\ y.tab \in Pages
        BY <1>2, <2>1, <3>2 DEF GraphInv, ShapeInv, PlansTyped, SendRow
      <4>. QED BY <1>7, <2>1, <3>2, <4>1 DEF GraphInv, ShapeInv, SendingIsNewest
    <3>. QED BY <1>4, <3>1, <3>2
  <2>2. ASSUME NEW y \in Sends', y.at = "sending", NEW z \in Sends', z.at = "sending", z.tab = y.tab
        PROVE  y = z
    BY <1>2, <1>4, <1>5, <2>2 DEF GraphInv, ShapeInv, SendingIsNewest
  <2>. QED BY <2>1, <2>2 DEF SendingIsNewest
<1>9. SendsAreGrounded'
  <2>1. ASSUME NEW y \in Sends', NEW d \in graph'[y.task].deps PROVE Accepted(d, y.grounds[d])'
    <3>1. PICK z \in Sends : z.task = y.task /\ z.grounds = y.grounds
      BY <1>2, <1>4, <1>5
    <3>2. d \in Created /\ d \in graph[z.task].deps
      BY <1>2, <2>1, <3>1 DEF GraphInv, ShapeInv, PlansTyped, DepsAreEarlier
    <3>3. Accepted(d, z.grounds[d])
      BY <3>2 DEF GraphInv, SendsAreGrounded
    <3>4. Accepted(d, z.grounds[d])'
      BY <1>1, <3>2, <3>3, AcceptedForGood
    <3>. QED BY <3>1, <3>4
  <2>. QED BY <2>1 DEF SendsAreGrounded
<1>10. DepsAreEarlier'
  BY <1>1, <1>2, DepsRemain
<1>11. GroundsAreSound'
  <2>1. ASSUME NEW t \in Created, NEW i \in DOMAIN Tries(t)', i \notin DOMAIN Tries(t), NEW d \in graph[t].deps
        PROVE  Accepted(d, Tries(t)'[i].grounds[d])
    <3>1. t = x.task
      BY <1>1, <2>1
    <3>2. Tries(t) \in Seq(Try) /\ DOMAIN Tries(t) = 1 .. Len(Tries(t)) /\ Len(Tries(t)) \in Nat
      BY <1>2, CreatedRows
    <3>3. Tries(t)'[i] = new
      <4> HIDE DEF new
      <4>. QED BY <1>1, <2>1, <3>1, <3>2
    <3>4. Accepted(d, x.grounds[d])
      BY <1>2, <2>1, <3>1 DEF GraphInv, SendsAreGrounded
    <3>. QED BY <3>3, <3>4
  <2>. QED BY <1>1, <1>2, <2>1, GroundsRemain DEF GraphInv
<1>. QED BY <1>1, <1>6, <1>8, <1>9, <1>10, <1>11 DEF GraphInv, ShapeInv

LEMMA CreateTaskHolds ==
  ASSUME GraphInv, NEW t \in Tasks, CreateTask(t)
  PROVE  GraphInv' /\ TriesKept
<1>1. RowsTyped' /\ TriesKept /\ DepsAreEarlier' /\ Created' = Created \cup {t} /\ Tries(t)' = <<>>
      /\ newest' = newest /\ plan' = plan /\ \A u \in Created : Tries(u)' = Tries(u)
  BY CreateTaskKeeps DEF GraphInv
<1>2. plan' = [q \in Run |-> plan'[q]] /\ Sends' = Sends
  BY <1>1 DEF GraphInv, ShapeInv, PlansTyped, Sends
<1>3. PlansTyped' /\ SendingIsNewest' /\ SendsAreGrounded'
  BY <1>1, <1>2, SendsRemain DEF GraphInv
<1>4. GroundsAreSound'
  BY <1>1, GroundsRemain DEF GraphInv, ShapeInv
<1>. QED BY <1>1, <1>3, <1>4 DEF GraphInv, ShapeInv

LEMMA GraphStep ==
  ASSUME GraphInv, [GraphNext]_graphVars
  PROVE  GraphInv' /\ TriesKept
<1>0. ShapeInv /\ RowsTyped /\ PlansTyped /\ plan = [q \in Run |-> plan[q]]
  BY DEF GraphInv, ShapeInv, PlansTyped
<1>a. ASSUME StepsBack, plan' = plan PROVE GraphInv' /\ TriesKept
  BY <1>0, <1>a, StepsBackHold
<1>1. CASE UNCHANGED graphVars
  BY <1>0, <1>1, <1>a, UnchangedStepsBack DEF graphVars
<1>2. ASSUME NEW t \in Tasks, Human(t) PROVE GraphInv' /\ TriesKept
  <2>1. CASE CreateTask(t)
    BY <2>1, CreateTaskHolds
  <2>2. CASE RequestTaskRetry(t)
    BY <1>0, <1>a, <2>2, RequestTaskRetryKeeps
  <2>3. CASE RetryReviewLoop(t)
    BY <1>0, <1>a, <2>3, RetryReviewLoopKeeps
  <2>4. CASE SkipTask(t) \/ CancelTask(t)
    BY <1>0, <1>a, <2>4, EndKeeps
  <2>5. CASE DecideHumanTask(t)
    BY <1>0, <1>a, <2>5, DecideHumanTaskKeeps
  <2>. QED BY <1>2, <2>1, <2>2, <2>3, <2>4, <2>5 DEF Human
<1>3. ASSUME NEW t \in Tasks, CompleteVerifiedClaim(t) PROVE GraphInv' /\ TriesKept
  BY <1>0, <1>3, <1>a, CompleteVerifiedClaimKeeps
<1>4. ASSUME NEW t \in Tasks, NEW i \in 1 .. MaxTries, ReplyObserved(t, i) PROVE GraphInv' /\ TriesKept
  BY <1>0, <1>4, <1>a, ReplyObservedKeeps
<1>5. ASSUME NEW r \in Run, RunReadyTasks(r) PROVE GraphInv' /\ TriesKept
  BY <1>5, RunReadyTasksHolds
<1>6. ASSUME NEW r \in Run, Begin(r) PROVE GraphInv' /\ TriesKept
  BY <1>6, BeginHolds
<1>7. ASSUME NEW r \in Run, NEW x \in plan[r], NotSent(r, x) PROVE GraphInv' /\ TriesKept
  <2>1. StepsBack
    BY <1>0, <1>7, UnchangedStepsBack DEF NotSent
  <2>. QED BY <1>0, <1>7, <2>1, EndsOne, StepsBackHold DEF NotSent
<1>8. ASSUME NEW r \in Run, NEW x \in plan[r], PrepareAttempt(r, x) PROVE GraphInv' /\ TriesKept
  BY <1>8, PrepareAttemptHolds
<1>9. ASSUME NEW r \in Run, NEW x \in plan[r], Sent(r, x) PROVE GraphInv' /\ TriesKept
  <2>1. StepsBack
    BY <1>0, <1>9, SentKeeps
  <2>. QED BY <1>0, <1>9, <2>1, EndsOne, StepsBackHold DEF Sent
<1>10. ASSUME Restart PROVE GraphInv' /\ TriesKept
  <2>1. StepsBack /\ plan' = [q \in Run |-> {}]
    BY <1>0, <1>10, RestartKeeps
  <2>. QED BY <2>1, StepsBackHold
<1>. QED BY <1>1, <1>2, <1>3, <1>4, <1>5, <1>6, <1>7, <1>8, <1>9, <1>10 DEF GraphNext, Planner

LEMMA GraphStart ==
  ASSUME InitGraph
  PROVE  GraphInv
<1>1. Created = {} /\ task \in [Tasks -> TaskRow \cup {None}] /\ newest = [p \in Pages |-> None]
      /\ plan = [r \in Run |-> {}] /\ graph \in Shapes /\ restarts = 0
  BY DEF InitGraph, Created
<1>2. Made = {} /\ IsFiniteSet(Made) /\ Attempts = 0
  BY <1>1, FS_EmptySet DEF Made, Attempts
<1>3. RowsTyped
  BY <1>1, <1>2, GraphConstantsTyped DEF RowsTyped
<1>4. Sends = {}
  BY <1>1 DEF Sends
<1>5. PlansTyped /\ SendingIsNewest /\ SendsAreGrounded
  BY <1>1, <1>4 DEF PlansTyped, SendingIsNewest, SendsAreGrounded
<1>. QED BY <1>1, <1>3, <1>5 DEF GraphInv, ShapeInv, DepsAreEarlier, GroundsAreSound

\* However many planners there are: tasks, attempts and plans are typed, and whatever was ever sent for
\* a task was sent on answers of its dependencies that had been accepted, or on what stood for them
\* (GroundsAreSound; deriveTaskStatuses, runReadyTasks, the retries and recovery).
THEOREM GroundsStaySound == GraphSpec => [](GraphTypeOK /\ GroundsAreSound)
<1>1. GraphInv /\ [GraphNext]_graphVars => GraphInv'
  BY GraphStep
<1>2. GraphInv => GraphTypeOK /\ GroundsAreSound
  BY TypesSplit DEF GraphInv, ShapeInv
<1>. QED BY GraphStart, <1>1, <1>2, PTL DEF GraphSpec

-----------------------------------------------------------------------------
(* Plans *)

\* Of two ready tasks one has its turn before the other.
LEMMA TurnsAreOrdered ==
  ASSUME RowsTyped, NEW idle \in SUBSET Pages, NEW t \in Ready, NEW u \in Ready
  PROVE  /\ Cardinality(Candidates(t, idle)) \in Nat
         /\ t # u => Before(idle, t, u) \/ Before(idle, u, t)
         /\ Before(idle, u, t) => Cardinality(Candidates(u, idle)) <= Cardinality(Candidates(t, idle))
<1> HIDE DEF Status
<1>1. \A v \in Ready : v \in Nat /\ IsFiniteSet(Candidates(v, idle)) /\ Cardinality(Candidates(v, idle)) \in Nat
  <2>1. IsFiniteSet(idle)
    BY GraphConstantsTyped, FS_Subset
  <2>2. \A v \in Ready : Candidates(v, idle) \subseteq idle
    BY DEF Candidates
  <2>3. \A v \in Ready : IsFiniteSet(Candidates(v, idle))
    BY <2>1, <2>2, FS_Subset
  <2>4. Ready \subseteq Nat
    BY CreatedRows DEF Ready
  <2>. QED BY <2>3, <2>4, FS_CardinalityType
<1>2. PICK m \in Nat, n \in Nat : m = Cardinality(Candidates(t, idle)) /\ n = Cardinality(Candidates(u, idle))
  BY <1>1
<1>3. /\ Before(idle, t, u) <=> m < n \/ (m = n /\ t < u)
      /\ Before(idle, u, t) <=> n < m \/ (n = m /\ u < t)
  BY <1>2 DEF Before
<1>4. t \in Nat /\ u \in Nat
  BY <1>1
<1>. QED BY <1>2, <1>3, <1>4

\* A task that is given a page is given one that suits it, and the others are not given it.
LEMMA PlansDiffer ==
  ASSUME RowsTyped, NEW idle \in SUBSET Pages, NEW given \in Plans(idle), NEW t \in Ready, given[t] # None
  PROVE  given[t] \in Candidates(t, idle) /\ \A u \in Ready \ {t} : given[u] # given[t]
<1> HIDE DEF Status
<1>1. DOMAIN given = Ready /\ None \notin idle /\ \A u \in Ready : Turn(given, u, idle)
  BY GraphConstantsTyped DEF Plans
<1>2. ASSUME NEW u \in Ready, given[u] # None
      PROVE  given[u] \in Candidates(u, idle) /\ \A v \in Ready : Before(idle, v, u) => given[u] # given[v]
  <2> DEFINE free == Candidates(u, idle) \ {given[v] : v \in {w \in DOMAIN given : Before(idle, w, u)}}
  <2>1. given[u] \in free
    BY <1>1, <1>2 DEF Turn
  <2>. QED BY <1>1, <2>1
<1>3. ASSUME NEW u \in Ready \ {t}, given[u] = given[t] PROVE FALSE
  BY <1>2, <1>3, TurnsAreOrdered
<1>. QED BY <1>2, <1>3

\* What planReadyDispatches decides is fair, whatever is ready and idle.
LEMMA PlansAreFair ==
  ASSUME RowsTyped
  PROVE  PlanIsFair
<1> HIDE DEF Status
<1>1. ASSUME NEW idle \in SUBSET Pages, NEW given \in Plans(idle), NEW t \in Ready, given[t] = None,
             NEW p \in Candidates(t, idle)
      PROVE  \E u \in Ready : given[u] = p /\ Cardinality(Candidates(u, idle)) <= Cardinality(Candidates(t, idle))
  <2>1. DOMAIN given = Ready /\ None \notin idle /\ Turn(given, t, idle)
    BY GraphConstantsTyped DEF Plans
  <2>2. None \notin Candidates(t, idle)
    BY <2>1 DEF Candidates
  <2>3. PICK u \in Ready : Before(idle, u, t) /\ given[u] = p
    BY <1>1, <2>1, <2>2 DEF Turn
  <2>. QED BY <2>3, TurnsAreOrdered
<1>2. ASSUME NEW idle \in SUBSET Pages, NEW given \in Plans(idle), NEW t \in Ready, given[t] # None
      PROVE  given[t] \in Candidates(t, idle) /\ \A u \in Ready \ {t} : given[u] # given[t]
  BY <1>2, PlansDiffer
<1>. QED BY <1>1, <1>2 DEF PlanIsFair

\* There is a number that no member of a finite set of numbers is above.
LEMMA FiniteIsBounded ==
  ASSUME NEW S \in SUBSET Nat, IsFiniteSet(S)
  PROVE  \E b \in Nat : \A x \in S : x <= b
<1>1. PICK n \in Nat : \E f : f \in Surjection(1 .. n, S)
  BY FS_NatSurjection, FS_CardinalityType DEF ExistsSurjection
<1>2. PICK f : f \in [1 .. n -> S] /\ \A x \in S : \E i \in 1 .. n : f[i] = x
  BY <1>1 DEF Surjection
<1> DEFINE Bound(k, b) == \A i \in 1 .. n : i <= k => f[i] <= b
           Bad == {k \in Nat : ~\E b \in Nat : Bound(k, b)}
<1>3. Bad = {}
  <2> SUFFICES ASSUME Bad # {} PROVE FALSE
    OBVIOUS
  <2>1. PICK k \in Bad : \A j \in Bad : k <= j
    <3> HIDE DEF Bad
    <3>1. Bad \in SUBSET Nat
      BY DEF Bad
    <3>. QED BY <3>1, LeastExists
  <2>2. k # 0
    <3>1. Bound(0, 0)
      OBVIOUS
    <3>. QED BY <3>1
  <2>3. PICK b \in Nat : Bound(k - 1, b)
    <3>1. k \in Nat /\ k - 1 \in Nat /\ ~(k <= k - 1)
      BY <2>2
    <3>2. k - 1 \notin Bad
      BY <2>1, <3>1
    <3>. QED BY <3>1, <3>2
  <2>4. CASE k \in 1 .. n
    <3>1. PICK c \in Nat : b <= c /\ f[k] <= c
      <4>1. f[k] \in Nat
        BY <1>2, <2>4
      <4>2. CASE b <= f[k]
        BY <4>1, <4>2
      <4>3. CASE f[k] <= b
        BY <4>1, <4>3
      <4>. QED BY <4>1, <4>2, <4>3
    <3>2. ASSUME NEW i \in 1 .. n, i <= k PROVE f[i] <= c
      <4>1. CASE i = k
        BY <3>1, <4>1
      <4>2. CASE i # k
        <5>1. i <= k - 1
          <6>1. i \in Nat /\ k \in Nat
            OBVIOUS
          <6>. QED BY <3>2, <4>2, <6>1
        <5>2. f[i] <= b
          BY <2>3, <5>1
        <5>3. f[i] \in Nat
          BY <1>2
        <5>. QED BY <3>1, <5>2, <5>3
      <4>. QED BY <4>1, <4>2
    <3>. QED BY <3>2
  <2>5. CASE k \notin 1 .. n
    <3>1. Bound(k, b)
      BY <2>2, <2>3, <2>5
    <3>. QED BY <3>1
  <2>. QED BY <2>4, <2>5
<1>4. PICK b \in Nat : Bound(n, b)
  BY <1>3
<1>5. \A x \in S : x <= b
  BY <1>2, <1>4
<1>. QED BY <1>5

LEMMA ReadyIsFinite ==
  ASSUME RowsTyped
  PROVE  IsFiniteSet(Ready) /\ Ready \subseteq Nat /\ Ready \subseteq Created
<1> HIDE DEF Status
<1>1. Ready \subseteq Created /\ Created \subseteq Tasks /\ Tasks \subseteq Nat /\ IsFiniteSet(Tasks)
  BY GraphConstantsTyped DEF Ready, Created
<1>. QED BY <1>1, FS_Subset

\* Of some ready tasks one has its turn first.
LEMMA FirstOf ==
  ASSUME RowsTyped, NEW idle \in SUBSET Pages, NEW T \in SUBSET Ready, T # {}
  PROVE  \E t \in T : \A u \in T : ~Before(idle, u, t)
<1> HIDE DEF Status
<1> DEFINE n(t) == Cardinality(Candidates(t, idle))
           N == {n(t) : t \in T}
<1>1. \A t \in T : t \in Nat /\ n(t) \in Nat
  BY TurnsAreOrdered, ReadyIsFinite
<1>2. N \in SUBSET Nat /\ N # {}
  BY <1>1
<1> HIDE DEF n
<1>3. PICK m \in N : \A k \in N : m <= k
  BY <1>2, LeastExists
<1> DEFINE M == {t \in T : n(t) = m}
<1>4. M \in SUBSET Nat /\ M # {}
  BY <1>1, <1>3
<1>5. PICK t \in M : \A u \in M : t <= u
  BY <1>4, LeastExists
<1>6. ASSUME NEW u \in T PROVE ~Before(idle, u, t)
  <2>1. n(u) \in Nat /\ n(t) = m /\ m \in Nat /\ m <= n(u) /\ u \in Nat /\ t \in Nat
    BY <1>1, <1>2, <1>3
  <2>2. n(u) = m => t <= u
    BY <1>5
  <2>3. ~(n(u) < n(t)) /\ ~(n(u) = n(t) /\ u < t)
    BY <2>1, <2>2
  <2>. QED BY <2>3 DEF Before, n
<1>. QED BY <1>6

\* The number of ready tasks a page would suit
Suits(p, idle) == Cardinality({u \in Ready : p \in Candidates(u, idle)})

LEMMA SuitsTyped ==
  ASSUME RowsTyped, NEW idle, NEW p
  PROVE  Suits(p, idle) \in Nat
<1> HIDE DEF Status
<1>1. {u \in Ready : p \in Candidates(u, idle)} \subseteq Ready
  OBVIOUS
<1>. QED BY <1>1, ReadyIsFinite, FS_Subset, FS_CardinalityType DEF Suits

LEMMA ScoresTyped ==
  ASSUME RowsTyped, NEW t \in Ready, NEW p \in Pages
  PROVE  graph[t].score[p] \in Nat
<1> HIDE DEF Status
<1>1. t \in Tasks
  BY ReadyIsFinite DEF Created
<1>2. graph[t] \in Input
  BY <1>1, GraphConstantsTyped DEF RowsTyped
<1>. QED BY <1>2 DEF Input

\* One page of those that are left is better than all the others, and only one.
LEMMA BestPage ==
  ASSUME RowsTyped, NEW idle \in SUBSET Pages, NEW t \in Ready, NEW free \in SUBSET Pages, free # {}
  PROVE  \E p \in free : \A q \in free \ {p} : Better(t, idle, p, q)
<1> HIDE DEF Status
<1> DEFINE s(p) == graph[t].score[p]
<1>1. \A p \in free : s(p) \in Nat /\ Suits(p, idle) \in Nat /\ p \in Nat
  BY ScoresTyped, SuitsTyped, GraphConstantsTyped
<1>2. PICK p1 \in free : \A q \in free : s(q) <= s(p1)
  <2> DEFINE All == {s(p) : p \in Pages}
             S == {s(p) : p \in free}
  <2>1. \E b \in Nat : \A x \in S : x <= b
    <3>1. PICK k \in Nat : \E f : f \in Surjection(1 .. k, free)
      <4>1. IsFiniteSet(free)
        BY GraphConstantsTyped, FS_Subset
      <4>. QED BY <4>1, FS_NatSurjection, FS_CardinalityType DEF ExistsSurjection
    <3>2. PICK f : f \in [1 .. k -> free] /\ \A x \in free : \E i \in 1 .. k : f[i] = x
      BY <3>1 DEF Surjection
    <3> DEFINE g == [i \in 1 .. k |-> s(f[i])]
    <3>3. g \in Surjection(1 .. k, S)
      BY <3>2 DEF Surjection
    <3>4. IsFiniteSet(S)
      BY <3>3, FS_NatSurjection DEF ExistsSurjection
    <3>5. S \in SUBSET Nat
      BY <1>1
    <3> HIDE DEF S
    <3>. QED BY <3>4, <3>5, FiniteIsBounded
  <2>2. S \in SUBSET Nat /\ S # {}
    BY <1>1
  <2>3. PICK x \in S : \A y \in S : y <= x
    <3> HIDE DEF S
    <3>. QED BY <2>1, <2>2, GreatestExists
  <2>. QED BY <2>3
<1> DEFINE P1 == {p \in free : s(p) = s(p1)}
           N == {Suits(p, idle) : p \in P1}
<1>3. N \in SUBSET Nat /\ N # {}
  BY <1>1
<1>4. PICK m \in N : \A k \in N : m <= k
  <2> HIDE DEF N
  <2>. QED BY <1>3, LeastExists
<1> DEFINE P2 == {p \in P1 : Suits(p, idle) = m}
<1>5. P2 \in SUBSET Nat /\ P2 # {}
  BY <1>1, <1>4
<1>6. PICK p \in P2 : \A q \in P2 : p <= q
  <2> HIDE DEF P2
  <2>. QED BY <1>5, LeastExists
<1>7. ASSUME NEW q \in free \ {p} PROVE Better(t, idle, p, q)
  <2>1. p \in free /\ s(p) = s(p1) /\ s(q) <= s(p) /\ Suits(p, idle) = m
    BY <1>2, <1>6
  <2>2. s(p) = s(q) => m <= Suits(q, idle)
    BY <1>4, <2>1
  <2>3. s(p) = s(q) /\ Suits(q, idle) = m => p <= q
    BY <1>6, <2>1
  <2>4. p # q /\ p \in Nat /\ q \in Nat /\ s(p) \in Nat /\ s(q) \in Nat
        /\ Suits(p, idle) \in Nat /\ Suits(q, idle) \in Nat
    BY <1>1, <2>1
  <2> HIDE DEF s
  <2>5. s(p) > s(q) \/ (s(p) = s(q) /\ (Suits(p, idle) < Suits(q, idle) \/ (Suits(p, idle) = Suits(q, idle) /\ p < q)))
    BY <2>1, <2>2, <2>3, <2>4
  <2>. QED BY <2>5 DEF Better, Suits, s
<1>. QED BY <1>6, <1>7

LEMMA BetterIsStrict ==
  ASSUME RowsTyped, NEW idle, NEW t \in Ready, NEW p \in Pages, NEW q \in Pages,
         Better(t, idle, p, q), Better(t, idle, q, p)
  PROVE  FALSE
<1> HIDE DEF Status
<1>1. PICK a \in Nat, b \in Nat : a = graph[t].score[p] /\ b = graph[t].score[q]
  BY ScoresTyped
<1>2. PICK m \in Nat, n \in Nat : m = Suits(p, idle) /\ n = Suits(q, idle)
  BY SuitsTyped
<1>3. a > b \/ (a = b /\ (m < n \/ (m = n /\ p < q)))
  BY <1>1, <1>2 DEF Better, Suits
<1>4. b > a \/ (b = a /\ (n < m \/ (n = m /\ q < p)))
  BY <1>1, <1>2 DEF Better, Suits
<1>5. p \in Nat /\ q \in Nat
  BY GraphConstantsTyped
<1>. QED BY <1>3, <1>4, <1>5

\* What tasks are given when the tasks of D have had their turns, and those before them.
Begun(idle, D) ==
  {given \in [D -> idle \cup {None}] :
     \A t \in D : Turn(given, t, idle) /\ \A u \in Ready : Before(idle, u, t) => u \in D}

\* The next task has its turn, whatever the others were given.
LEMMA NextTurn ==
  ASSUME RowsTyped, NEW idle \in SUBSET Pages, NEW D \in SUBSET Ready, NEW given \in Begun(idle, D),
         NEW t \in Ready \ D, \A u \in Ready \ D : ~Before(idle, u, t)
  PROVE  Begun(idle, D \cup {t}) # {}
<1> HIDE DEF Status
<1>1. ~Before(idle, t, t) /\ \A u \in D : ~Before(idle, t, u)
  BY DEF Begun
<1> DEFINE free == Candidates(t, idle) \ {given[u] : u \in {v \in D : Before(idle, v, t)}}
<1>2. PICK p \in idle \cup {None} :
        IF free = {} THEN p = None ELSE p \in free /\ \A q \in free \ {p} : Better(t, idle, p, q)
  <2>1. free \subseteq idle /\ free \in SUBSET Pages
    BY DEF Candidates
  <2>2. free # {} => \E p \in free : \A q \in free \ {p} : Better(t, idle, p, q)
    <3> HIDE DEF free
    <3>. QED BY <2>1, BestPage
  <2> HIDE DEF free
  <2>. QED BY <2>1, <2>2
<1> DEFINE E == D \cup {t}
           next == [u \in E |-> IF u = t THEN p ELSE given[u]]
<1>3. DOMAIN given = D /\ DOMAIN next = E /\ next[t] = p /\ \A u \in D : next[u] = given[u]
  BY DEF Begun
<1>4. next \in [E -> idle \cup {None}]
  BY DEF Begun
<1> HIDE DEF next
<1>5. Turn(next, t, idle)
  <2>1. {v \in E : Before(idle, v, t)} = {v \in D : Before(idle, v, t)}
    BY <1>1
  <2>2. {next[u] : u \in {v \in E : Before(idle, v, t)}} = {given[u] : u \in {v \in D : Before(idle, v, t)}}
    BY <1>3, <2>1
  <2>. QED BY <1>2, <1>3, <2>2 DEF Turn
<1>6. ASSUME NEW w \in D PROVE Turn(next, w, idle)
  <2>1. {v \in E : Before(idle, v, w)} = {v \in D : Before(idle, v, w)}
    BY <1>1
  <2>2. {next[u] : u \in {v \in E : Before(idle, v, w)}} = {given[u] : u \in {v \in D : Before(idle, v, w)}}
    BY <1>3, <2>1
  <2>3. Turn(given, w, idle)
    BY DEF Begun
  <2>. QED BY <1>3, <2>2, <2>3 DEF Turn
<1>7. ASSUME NEW w \in E, NEW u \in Ready, Before(idle, u, w) PROVE u \in E
  BY <1>7 DEF Begun
<1>8. next \in Begun(idle, E)
  BY <1>4, <1>5, <1>6, <1>7 DEF Begun
<1>. QED BY <1>8

LEMMA SomePlan ==
  ASSUME RowsTyped, NEW idle \in SUBSET Pages
  PROVE  Plans(idle) # {}
<1> HIDE DEF Status
<1> DEFINE Parts == {D \in SUBSET Ready : Begun(idle, D) # {}}
           Left == {Cardinality(Ready \ D) : D \in Parts}
<1>1. Left \in SUBSET Nat /\ Left # {}
  <2>1. \A D \in Parts : Cardinality(Ready \ D) \in Nat
    BY ReadyIsFinite, FS_Difference, FS_CardinalityType
  <2>2. [u \in {} |-> None] \in Begun(idle, {})
    BY DEF Begun
  <2>3. {} \in Parts
    BY <2>2
  <2> HIDE DEF Parts
  <2>. QED BY <2>1, <2>3
<1>2. PICK D \in Parts : \A E \in Parts : Cardinality(Ready \ D) <= Cardinality(Ready \ E)
  <2> HIDE DEF Parts
  <2>1. PICK n \in Left : \A m \in Left : n <= m
    <3> HIDE DEF Left
    <3>. QED BY <1>1, LeastExists
  <2>. QED BY <2>1
<1>3. D = Ready
  <2> SUFFICES ASSUME Ready \ D # {} PROVE FALSE
    OBVIOUS
  <2>1. PICK t \in Ready \ D : \A u \in Ready \ D : ~Before(idle, u, t)
    BY FirstOf
  <2>2. D \cup {t} \in Parts
    BY <2>1, NextTurn
  <2>3. Cardinality(Ready \ D) <= Cardinality(Ready \ (D \cup {t}))
    BY <1>2, <2>2
  <2>4. Ready \ (D \cup {t}) = (Ready \ D) \ {t}
    OBVIOUS
  <2>5. /\ IsFiniteSet(Ready \ D) /\ Cardinality(Ready \ D) \in Nat
        /\ Cardinality((Ready \ D) \ {t}) = Cardinality(Ready \ D) - 1
    BY <2>1, ReadyIsFinite, FS_Difference, FS_CardinalityType, FS_RemoveElement
  <2>. QED BY <2>3, <2>4, <2>5
<1>4. PICK given : given \in Begun(idle, Ready)
  BY <1>3
<1>5. given \in Plans(idle)
  BY <1>4 DEF Begun, Plans
<1>. QED BY <1>5

LEMMA OnePlan ==
  ASSUME RowsTyped, NEW idle \in SUBSET Pages, NEW g \in Plans(idle), NEW h \in Plans(idle)
  PROVE  g = h
<1> HIDE DEF Status
<1> DEFINE T == {t \in Ready : g[t] # h[t]}
<1>1. /\ g \in [Ready -> idle \cup {None}] /\ DOMAIN g = Ready /\ \A t \in Ready : Turn(g, t, idle)
      /\ h \in [Ready -> idle \cup {None}] /\ DOMAIN h = Ready /\ \A t \in Ready : Turn(h, t, idle)
  BY DEF Plans
<1>2. T = {}
  <2> SUFFICES ASSUME T # {} PROVE FALSE
    OBVIOUS
  <2>1. PICK t \in T : \A u \in T : ~Before(idle, u, t)
    <3>1. T \in SUBSET Ready
      OBVIOUS
    <3> HIDE DEF T
    <3>. QED BY <3>1, FirstOf
  <2> DEFINE free == Candidates(t, idle) \ {g[u] : u \in {v \in Ready : Before(idle, v, t)}}
  <2>2. {g[u] : u \in {v \in Ready : Before(idle, v, t)}} = {h[u] : u \in {v \in Ready : Before(idle, v, t)}}
    BY <2>1
  <2>3. IF free = {} THEN g[t] = None
        ELSE g[t] \in free /\ \A q \in free \ {g[t]} : Better(t, idle, g[t], q)
    BY <1>1, <2>1 DEF Turn
  <2>4. IF free = {} THEN h[t] = None
        ELSE h[t] \in free /\ \A q \in free \ {h[t]} : Better(t, idle, h[t], q)
    BY <1>1, <2>1, <2>2 DEF Turn
  <2>5. free \subseteq Pages
    BY DEF Candidates
  <2> HIDE DEF free
  <2>6. g[t] \in Pages /\ h[t] \in Pages /\ Better(t, idle, g[t], h[t]) /\ Better(t, idle, h[t], g[t])
    BY <2>1, <2>3, <2>4, <2>5
  <2>. QED BY <2>1, <2>6, BetterIsStrict
<1>. QED BY <1>1, <1>2

LEMMA PlansDefinite ==
  ASSUME RowsTyped
  PROVE  PlansAreDefinite
<1>1. ASSUME NEW idle \in SUBSET Pages PROVE Cardinality(Plans(idle)) = 1
  <2>1. PICK g : g \in Plans(idle)
    BY SomePlan
  <2>2. Plans(idle) = {g}
    BY <2>1, OnePlan
  <2>. QED BY <2>2, FS_Singleton
<1>. QED BY <1>1 DEF PlansAreDefinite

\* However many planners there are, what planReadyDispatches decides does not depend on how its
\* candidates are enumerated, and is fair: whatever tasks are ready and pages idle, there is one plan,
\* and who goes without a page has no claim to one that was given (PlansAreDefinite, PlanIsFair).
THEOREM PlansStaySound == GraphSpec => [](PlansAreDefinite /\ PlanIsFair)
<1>1. GraphInv /\ [GraphNext]_graphVars => GraphInv'
  BY GraphStep
<1>2. GraphInv => PlansAreDefinite /\ PlanIsFair
  BY PlansDefinite, PlansAreFair DEF GraphInv, ShapeInv
<1>. QED BY GraphStart, <1>1, <1>2, PTL DEF GraphSpec

-----------------------------------------------------------------------------
(* One planner *)

OnePlanner == \A r, s \in Run : r = s

\* The sends of a plan are of different tasks to different pages.
SendsDiffer == \A r \in Run : \A x, y \in plan[r] : x # y => x.tab # y.tab /\ x.task # y.task

OpenOn(p) == newest[p] # None /\ Tries(newest[p][1])[newest[p][2]].state = "open"

\* Until a send is under way, its page has nothing to answer, and a review has a round left.
PlannedAreFree == \A r \in Run : \A x \in plan[r] : x.at # "sending" => ~OpenOn(x.tab)
RoundsAreLeft ==
  \A r \in Run : \A x \in plan[r] : x.at # "sending" /\ IsReview(x.task) => Len(Tries(x.task)) < graph[x.task].rounds

SerialInv == PagesAreSerial /\ RoundsAreBounded /\ SendsDiffer /\ PlannedAreFree /\ RoundsAreLeft

LEMMA StepsBackSerial ==
  ASSUME GraphInv, SerialInv, StepsBack, \A q \in Run : plan'[q] \subseteq plan[q]
  PROVE  SerialInv'
<1>1. Created' = Created /\ newest' = newest /\ graph' = graph /\ RowsTyped /\ PlansTyped
  BY DEF StepsBack, GraphInv, ShapeInv
<1>2. ASSUME NEW t \in Created
      PROVE  /\ DOMAIN Tries(t)' = DOMAIN Tries(t) /\ Len(Tries(t)') = Len(Tries(t))
             /\ \A i \in DOMAIN Tries(t) : /\ Tries(t)'[i].tab = Tries(t)[i].tab
                                           /\ Tries(t)'[i].state = "open" => Tries(t)[i].state = "open"
  BY DEF StepsBack, LaterRow, Later, Tries
<1>3. PagesAreSerial'
  BY <1>1, <1>2 DEF SerialInv, PagesAreSerial
<1>4. RoundsAreBounded'
  BY <1>1, <1>2 DEF SerialInv, RoundsAreBounded, Reviews, IsReview
<1>5. SendsDiffer'
  BY DEF SerialInv, SendsDiffer
<1>6. PlannedAreFree'
  <2>1. ASSUME NEW p \in Pages, OpenOn(p)' PROVE OpenOn(p)
    <3>1. newest[p] # None /\ newest[p][1] \in Created /\ newest[p][2] \in DOMAIN Tries(newest[p][1])
      BY <1>1, <2>1 DEF OpenOn, RowsTyped
    <3>2. Tries(newest[p][1])' = task'[newest[p][1]].tries
      BY <1>1 DEF Tries
    <3>. QED BY <1>1, <1>2, <2>1, <3>1, <3>2 DEF OpenOn, Tries
  <2>2. ASSUME NEW r \in Run, NEW x \in plan'[r], x.at # "sending" PROVE ~OpenOn(x.tab)'
    <3>1. x \in plan[r] /\ x.tab \in Pages
      BY <1>1 DEF PlansTyped, SendRow, Sends
    <3>2. PICK p \in Pages : p = x.tab
      BY <3>1
    <3>3. ~OpenOn(p)
      BY <2>2, <3>1, <3>2 DEF SerialInv, PlannedAreFree
    <3>4. ~OpenOn(p)'
      BY <2>1, <3>3
    <3>. QED BY <3>2, <3>4 DEF OpenOn
  <2>. QED BY <2>2 DEF PlannedAreFree
<1>7. RoundsAreLeft'
  <2>1. ASSUME NEW r \in Run, NEW x \in plan'[r], x.at # "sending", IsReview(x.task)'
        PROVE  Len(Tries(x.task)') < graph'[x.task].rounds
    <3>1. x \in plan[r] /\ x.task \in Created /\ IsReview(x.task)
      BY <1>1, <2>1 DEF PlansTyped, Sends, IsReview
    <3>. QED BY <1>1, <1>2, <2>1, <3>1 DEF SerialInv, RoundsAreLeft
  <2>. QED BY <2>1 DEF RoundsAreLeft
<1>. QED BY <1>3, <1>4, <1>5, <1>6, <1>7 DEF SerialInv

LEMMA CreateTaskSerial ==
  ASSUME GraphInv, SerialInv, NEW t \in Tasks, CreateTask(t)
  PROVE  SerialInv'
<1>1. /\ Created' = Created \cup {t} /\ Tries(t)' = <<>> /\ newest' = newest /\ plan' = plan
      /\ DepsAreEarlier' /\ TriesKept /\ RowsTyped /\ PlansTyped
      /\ \A u \in Created : Tries(u)' = Tries(u)
  BY CreateTaskKeeps DEF GraphInv, ShapeInv
<1>2. graph' = graph
  BY <1>1 DEF TriesKept
<1>3. PagesAreSerial'
  <2>1. ASSUME NEW u \in Created', NEW i \in DOMAIN Tries(u)', Tries(u)'[i].state = "open"
        PROVE  newest'[Tries(u)'[i].tab] = <<u, i>>
    <3>1. u # t
      BY <1>1, <2>1
    <3>2. u \in Created /\ Tries(u)' = Tries(u)
      BY <1>1, <3>1
    <3>. QED BY <1>1, <2>1, <3>2 DEF SerialInv, PagesAreSerial
  <2>. QED BY <2>1 DEF PagesAreSerial
<1>4. RoundsAreBounded'
  <2>1. ASSUME NEW u \in Created', IsReview(u)' PROVE Len(Tries(u)') <= graph'[u].rounds
    <3>1. CASE u \in Created
      BY <1>1, <1>2, <2>1, <3>1 DEF SerialInv, RoundsAreBounded, Reviews, IsReview
    <3>2. CASE u = t
      <4>1. graph'[t].rounds \in 1 .. 10
        BY <1>1, <2>1, <3>2 DEF DepsAreEarlier, PolicyFits, IsReview
      <4>. QED BY <1>1, <3>2, <4>1
    <3>. QED BY <1>1, <3>1, <3>2
  <2>. QED BY <2>1 DEF RoundsAreBounded, Reviews
<1>5. SendsDiffer'
  BY <1>1 DEF SerialInv, SendsDiffer
<1>6. ASSUME NEW r \in Run, NEW x \in plan[r]
      PROVE  x.tab \in Pages /\ x.task \in Created
  BY <1>1, <1>6 DEF PlansTyped, SendRow, Sends
<1>7. PlannedAreFree'
  <2>1. ASSUME NEW p \in Pages, OpenOn(p)' PROVE OpenOn(p)
    <3>1. newest[p] # None /\ newest[p][1] \in Created
      BY <1>1, <2>1 DEF OpenOn, RowsTyped
    <3>2. Tries(newest[p][1])' = task'[newest[p][1]].tries
      BY <1>1 DEF Tries
    <3>. QED BY <1>1, <2>1, <3>1, <3>2 DEF OpenOn, Tries
  <2>2. ASSUME NEW r \in Run, NEW x \in plan'[r], x.at # "sending" PROVE ~OpenOn(x.tab)'
    <3>1. PICK p \in Pages : p = x.tab
      BY <1>1, <1>6, <2>2
    <3>2. ~OpenOn(p)
      BY <1>1, <2>2, <3>1 DEF SerialInv, PlannedAreFree
    <3>3. ~OpenOn(p)'
      BY <2>1, <3>2
    <3>. QED BY <3>1, <3>3 DEF OpenOn
  <2>. QED BY <2>2 DEF PlannedAreFree
<1>8. RoundsAreLeft'
  <2>1. ASSUME NEW r \in Run, NEW x \in plan'[r], x.at # "sending", IsReview(x.task)'
        PROVE  Len(Tries(x.task)') < graph'[x.task].rounds
    BY <1>1, <1>2, <1>6, <2>1 DEF SerialInv, RoundsAreLeft, IsReview
  <2>. QED BY <2>1 DEF RoundsAreLeft
<1>. QED BY <1>3, <1>4, <1>5, <1>7, <1>8 DEF SerialInv

\* A step that only changes plans
LEMMA PlansStepSerial ==
  ASSUME GraphInv, SerialInv, UNCHANGED <<graph, task, newest, restarts>>, SendsDiffer',
         \A q \in Run : \A x \in plan'[q] : x.at # "sending" =>
           /\ ~OpenOn(x.tab)
           /\ IsReview(x.task) => Len(Tries(x.task)) < graph[x.task].rounds
  PROVE  SerialInv'
<1>1. PagesAreSerial' /\ RoundsAreBounded'
  BY DEF SerialInv, PagesAreSerial, RoundsAreBounded, Reviews, IsReview, Created, Tries
<1>2. PlannedAreFree' /\ RoundsAreLeft'
  BY DEF PlannedAreFree, RoundsAreLeft, OpenOn, IsReview, Tries
<1>. QED BY <1>1, <1>2 DEF SerialInv

LEMMA BeginSerial ==
  ASSUME GraphInv, SerialInv, NEW r \in Run, Begin(r)
  PROVE  SerialInv'
<1> DEFINE begun == {[x EXCEPT !.at = "begun"] : x \in {y \in plan[r] : ~\E z \in Sends : z.at # "planned" /\ z.key = y.key}}
<1>1. UNCHANGED <<graph, task, newest, restarts>> /\ plan' = [plan EXCEPT ![r] = begun] /\ plan = [q \in Run |-> plan[q]]
      /\ PlansTyped
  BY DEF Begin, GraphInv, ShapeInv, PlansTyped
<1>2. plan'[r] = begun /\ \A q \in Run \ {r} : plan'[q] = plan[q]
  <2> HIDE DEF begun
  <2>. QED BY <1>1
<1>3. ASSUME NEW y \in begun
      PROVE  \E x \in plan[r] : x.at = "planned" /\ y = [x EXCEPT !.at = "begun"] /\ y.tab = x.tab /\ y.task = x.task
  <2>1. PICK x \in plan[r] : y = [x EXCEPT !.at = "begun"] /\ ~\E z \in Sends : z.at # "planned" /\ z.key = x.key
    BY <1>3
  <2>2. x \in Sends /\ x \in SendRow(x)
    BY <1>1 DEF Sends, PlansTyped
  <2>. QED BY <2>1, <2>2 DEF SendRow
<1> HIDE DEF begun
<1>4. SendsDiffer'
  <2>1. ASSUME NEW q \in Run, NEW x \in plan'[q], NEW y \in plan'[q], x # y
        PROVE  x.tab # y.tab /\ x.task # y.task
    <3>1. CASE q = r
      <4>1. PICK v \in plan[r] : x = [v EXCEPT !.at = "begun"] /\ x.tab = v.tab /\ x.task = v.task
        BY <1>2, <1>3, <3>1
      <4>2. PICK w \in plan[r] : y = [w EXCEPT !.at = "begun"] /\ y.tab = w.tab /\ y.task = w.task
        BY <1>2, <1>3, <3>1
      <4>3. v # w
        BY <2>1, <4>1, <4>2
      <4>. QED BY <4>1, <4>2, <4>3 DEF SerialInv, SendsDiffer
    <3>2. CASE q # r
      BY <1>2, <2>1, <3>2 DEF SerialInv, SendsDiffer
    <3>. QED BY <3>1, <3>2
  <2>. QED BY <2>1 DEF SendsDiffer
<1>5. ASSUME NEW q \in Run, NEW y \in plan'[q], y.at # "sending"
      PROVE  /\ ~OpenOn(y.tab)
             /\ IsReview(y.task) => Len(Tries(y.task)) < graph[y.task].rounds
  <2>1. PICK x \in plan[q] : x.at # "sending" /\ x.tab = y.tab /\ x.task = y.task
    <3>1. CASE q = r
      BY <1>2, <1>3, <3>1
    <3>2. CASE q # r
      BY <1>2, <1>5, <3>2
    <3>. QED BY <3>1, <3>2
  <2>. QED BY <2>1 DEF SerialInv, PlannedAreFree, RoundsAreLeft
<1>. QED BY <1>1, <1>4, <1>5, PlansStepSerial

LEMMA RunReadyTasksSerial ==
  ASSUME GraphInv, SerialInv, NEW r \in Run, RunReadyTasks(r)
  PROVE  SerialInv'
<1> HIDE DEF Status
<1>1. UNCHANGED <<graph, task, newest, restarts>> /\ plan = [q \in Run |-> plan[q]] /\ RowsTyped /\ DepsAreEarlier
      /\ plan[r] = {}
  BY DEF RunReadyTasks, GraphInv, ShapeInv, PlansTyped
<1>a. PICK idle \in SUBSET Pages : \E given \in Plans(idle) : plan' = [plan EXCEPT ![r] =
          {[task |-> t, tab |-> given[t], at |-> "planned", key |-> RevisionKey(t), grounds |-> Grounds(t)] :
             t \in {u \in Ready : given[u] # None}}]
  BY <1>1, PlansNew
<1>2. PICK given \in Plans(idle) : plan' = [plan EXCEPT ![r] =
          {[task |-> t, tab |-> given[t], at |-> "planned", key |-> RevisionKey(t), grounds |-> Grounds(t)] :
             t \in {u \in Ready : given[u] # None}}]
  BY <1>a
<1> DEFINE Row(t) == [task |-> t, tab |-> given[t], at |-> "planned", key |-> RevisionKey(t), grounds |-> Grounds(t)]
           sends == {Row(t) : t \in {u \in Ready : given[u] # None}}
<1>3. plan'[r] = sends /\ \A q \in Run \ {r} : plan'[q] = plan[q]
  <2>1. plan' = [plan EXCEPT ![r] = sends]
    BY <1>2
  <2> HIDE DEF sends
  <2>. QED BY <1>1, <2>1
<1>4. ASSUME NEW y \in sends
      PROVE  y.task \in Ready /\ y.tab = given[y.task] /\ y.tab # None /\ y = Row(y.task)
  <2>1. PICK t \in Ready : y = Row(t) /\ given[t] # None
    BY <1>4
  <2>2. y.task = t /\ y.tab = given[t]
    BY <2>1
  <2>. QED BY <2>1, <2>2
<1> HIDE DEF sends, Row
<1>5. SendsDiffer'
  <2>1. ASSUME NEW q \in Run, NEW x \in plan'[q], NEW y \in plan'[q], x # y
        PROVE  x.tab # y.tab /\ x.task # y.task
    <3>1. CASE q = r
      <4>1. x.task # y.task
        BY <1>3, <1>4, <2>1, <3>1
      <4>2. x.task \in Ready /\ y.task \in Ready /\ x.tab = given[x.task] /\ y.tab = given[y.task] /\ x.tab # None
        BY <1>3, <1>4, <3>1
      <4>. QED BY <1>1, <4>1, <4>2, PlansDiffer
    <3>2. CASE q # r
      BY <1>3, <2>1, <3>2 DEF SerialInv, SendsDiffer
    <3>. QED BY <3>1, <3>2
  <2>. QED BY <2>1 DEF SendsDiffer
<1>6. ASSUME NEW q \in Run, NEW y \in plan'[q], y.at # "sending"
      PROVE  /\ ~OpenOn(y.tab)
             /\ IsReview(y.task) => Len(Tries(y.task)) < graph[y.task].rounds
  <2>1. CASE q = r
    <3>1. y.task \in Ready /\ y.tab = given[y.task] /\ y.tab # None
      BY <1>3, <1>4, <2>1
    <3>2. Allows(y.task, y.tab)
      BY <1>1, <3>1, PlansDiffer DEF Candidates
    <3>3. ~OpenOn(y.tab)
      BY <3>2 DEF Allows, OpenOn
    <3>. QED BY <1>1, <3>1, <3>3, ReadyIsFounded
  <2>2. CASE q # r
    BY <1>3, <1>6, <2>2 DEF SerialInv, PlannedAreFree, RoundsAreLeft
  <2>. QED BY <2>1, <2>2
<1>. QED BY <1>1, <1>5, <1>6, PlansStepSerial

LEMMA PrepareAttemptSerial ==
  ASSUME OnePlanner, GraphInv, SerialInv, NEW r \in Run, NEW x \in plan[r], PrepareAttempt(r, x)
  PROVE  SerialInv'
<1> DEFINE sent == [x EXCEPT !.at = "sending"]
           new == [state |-> "open", reply |-> NoReply, tab |-> x.tab, grounds |-> x.grounds]
           n == Len(Tries(x.task))
<1>1. /\ Created' = Created /\ x.task \in Created /\ x.tab \in Pages /\ graph' = graph
      /\ \A t \in Created \ {x.task} : Tries(t)' = Tries(t)
      /\ Tries(x.task)' = Append(Tries(x.task), new)
      /\ newest' = [newest EXCEPT ![x.tab] = <<x.task, n + 1>>]
  BY PrepareAttemptKeeps DEF GraphInv, TriesKept
<1>2. /\ plan' = [plan EXCEPT ![r] = (plan[r] \ {x}) \cup {sent}] /\ plan = [q \in Run |-> plan[q]]
      /\ RowsTyped /\ PlansTyped /\ x \in Sends /\ x.at = "begun"
  BY DEF PrepareAttempt, Goes, GraphInv, ShapeInv, PlansTyped, Sends
<1>3. \A q \in Run : q = r /\ plan'[q] = (plan[q] \ {x}) \cup {sent}
  <2> HIDE DEF sent
  <2>. QED BY <1>2 DEF OnePlanner
<1>4. sent.task = x.task /\ sent.tab = x.tab /\ sent.at = "sending"
  BY <1>2 DEF PlansTyped, SendRow
<1>5. Tries(x.task) \in Seq(Try) /\ n \in Nat /\ DOMAIN Tries(x.task) = 1 .. n
      /\ newest \in [Pages -> (Tasks \X Nat) \cup {None}] /\ x.task \in Tasks
  BY <1>1, <1>2, CreatedRows DEF RowsTyped
<1>6. /\ Len(Tries(x.task)') = n + 1 /\ DOMAIN Tries(x.task)' = 1 .. (n + 1) /\ Tries(x.task)'[n + 1] = new
      /\ \A i \in 1 .. n : Tries(x.task)'[i] = Tries(x.task)[i]
  <2> HIDE DEF new, n
  <2>. QED BY <1>1, <1>5 DEF n
<1>7. newest'[x.tab] = <<x.task, n + 1>> /\ \A p \in Pages \ {x.tab} : newest'[p] = newest[p]
  <2> HIDE DEF n
  <2>. QED BY <1>1, <1>5
<1>8. ~OpenOn(x.tab)
  BY <1>2 DEF SerialInv, PlannedAreFree
<1> HIDE DEF sent, n
<1>9. PagesAreSerial'
  <2>1. ASSUME NEW t \in Created, NEW i \in DOMAIN Tries(t)', Tries(t)'[i].state = "open"
        PROVE  newest'[Tries(t)'[i].tab] = <<t, i>>
    <3>1. CASE t = x.task /\ i = n + 1
      BY <1>6, <1>7, <3>1
    <3>2. CASE ~(t = x.task /\ i = n + 1)
      <4>1. i \in DOMAIN Tries(t) /\ Tries(t)'[i] = Tries(t)[i]
        BY <1>1, <1>5, <1>6, <2>1, <3>2
      <4>2. newest[Tries(t)[i].tab] = <<t, i>> /\ Tries(t)[i].state = "open"
        BY <2>1, <4>1 DEF SerialInv, PagesAreSerial
      <4>3. Tries(t)[i].tab \in Pages
        <5>1. Tries(t) \in Seq(Try)
          BY <1>2, CreatedRows
        <5>2. Tries(t)[i] \in Try
          BY <4>1, <5>1
        <5>. QED BY <5>2 DEF Try
      <4>4. Tries(t)[i].tab # x.tab
        <5>1. ASSUME Tries(t)[i].tab = x.tab PROVE FALSE
          <6>1. newest[x.tab] = <<t, i>>
            BY <4>2, <5>1
          <6>2. newest[x.tab] # None
            BY <1>1, <1>2, <6>1, CreatedRows, GraphConstantsTyped
          <6>. QED BY <1>8, <4>2, <6>1, <6>2 DEF OpenOn
        <5>. QED BY <5>1
      <4>. QED BY <1>7, <4>1, <4>2, <4>3, <4>4
    <3>. QED BY <3>1, <3>2
  <2>. QED BY <1>1, <2>1 DEF PagesAreSerial
<1>10. RoundsAreBounded'
  <2>1. ASSUME NEW t \in Created, IsReview(t)' PROVE Len(Tries(t)') <= graph'[t].rounds
    <3>1. CASE t = x.task
      <4>1. n < graph[t].rounds
        BY <1>1, <1>2, <2>1, <3>1 DEF SerialInv, RoundsAreLeft, IsReview, n
      <4>2. graph[t].rounds \in Nat
        BY <1>2, CreatedRows DEF Input
      <4>. QED BY <1>1, <1>5, <1>6, <3>1, <4>1, <4>2
    <3>2. CASE t # x.task
      BY <1>1, <2>1, <3>2 DEF SerialInv, RoundsAreBounded, Reviews, IsReview
    <3>. QED BY <3>1, <3>2
  <2>. QED BY <1>1, <2>1 DEF RoundsAreBounded, Reviews
<1>11. ASSUME NEW q \in Run, NEW y \in plan'[q], y # sent
       PROVE  y \in plan[r] /\ y.tab # x.tab /\ y.task # x.task /\ y.tab \in Pages /\ y.task \in Created
  <2>1. y \in plan[r] /\ y # x
    BY <1>3, <1>11
  <2>2. y \in Sends
    BY <2>1 DEF Sends
  <2>. QED BY <1>2, <2>1, <2>2 DEF SerialInv, SendsDiffer, PlansTyped, SendRow
<1>12. SendsDiffer'
  <2>1. ASSUME NEW q \in Run, NEW y \in plan'[q], NEW z \in plan'[q], y # z
        PROVE  y.tab # z.tab /\ y.task # z.task
    <3>1. CASE y = sent
      BY <1>4, <1>11, <2>1, <3>1
    <3>2. CASE z = sent
      BY <1>4, <1>11, <2>1, <3>2
    <3>3. CASE y # sent /\ z # sent
      BY <1>11, <2>1, <3>3 DEF SerialInv, SendsDiffer
    <3>. QED BY <3>1, <3>2, <3>3
  <2>. QED BY <2>1 DEF SendsDiffer
<1>13. PlannedAreFree'
  <2>1. ASSUME NEW p \in Pages \ {x.tab}, OpenOn(p)' PROVE OpenOn(p)
    <3>1. newest'[p] = newest[p] /\ newest[p] # None
      BY <1>7, <2>1 DEF OpenOn
    <3>2. newest[p][1] \in Created /\ newest[p][2] \in DOMAIN Tries(newest[p][1])
      BY <1>2, <3>1 DEF RowsTyped
    <3>3. Tries(newest[p][1])' = task'[newest[p][1]].tries
      BY <3>1 DEF Tries
    <3>4. task'[newest[p][1]].tries[newest[p][2]] = Tries(newest[p][1])[newest[p][2]]
      BY <1>1, <1>5, <1>6, <3>2 DEF Tries
    <3>. QED BY <2>1, <3>1, <3>3, <3>4 DEF OpenOn
  <2>2. ASSUME NEW q \in Run, NEW y \in plan'[q], y.at # "sending" PROVE ~OpenOn(y.tab)'
    <3>1. y \in plan[r] /\ y.tab # x.tab /\ y.tab \in Pages
      BY <1>4, <1>11, <2>2
    <3>2. PICK p \in Pages \ {x.tab} : p = y.tab
      BY <3>1
    <3>3. ~OpenOn(p)
      BY <2>2, <3>1, <3>2 DEF SerialInv, PlannedAreFree
    <3>4. ~OpenOn(p)'
      BY <2>1, <3>3
    <3>. QED BY <3>2, <3>4 DEF OpenOn
  <2>. QED BY <2>2 DEF PlannedAreFree
<1>14. RoundsAreLeft'
  <2>1. ASSUME NEW q \in Run, NEW y \in plan'[q], y.at # "sending", IsReview(y.task)'
        PROVE  Len(Tries(y.task)') < graph'[y.task].rounds
    <3>1. y \in plan[r] /\ y.task # x.task /\ y.task \in Created
      BY <1>4, <1>11, <2>1
    <3>. QED BY <1>1, <2>1, <3>1 DEF SerialInv, RoundsAreLeft, IsReview
  <2>. QED BY <2>1 DEF RoundsAreLeft
<1>. QED BY <1>9, <1>10, <1>12, <1>13, <1>14 DEF SerialInv

LEMMA SerialStep ==
  ASSUME OnePlanner, GraphInv, SerialInv, [GraphNext]_graphVars
  PROVE  SerialInv'
<1>0. ShapeInv /\ RowsTyped /\ PlansTyped
  BY DEF GraphInv, ShapeInv
<1>a. ASSUME StepsBack, plan' = plan PROVE SerialInv'
  BY <1>a, StepsBackSerial
<1>1. CASE UNCHANGED graphVars
  BY <1>0, <1>1, <1>a, UnchangedStepsBack DEF graphVars
<1>2. ASSUME NEW t \in Tasks, Human(t) PROVE SerialInv'
  <2>1. CASE CreateTask(t)
    BY <2>1, CreateTaskSerial
  <2>2. CASE RequestTaskRetry(t)
    BY <1>0, <1>a, <2>2, RequestTaskRetryKeeps
  <2>3. CASE RetryReviewLoop(t)
    BY <1>0, <1>a, <2>3, RetryReviewLoopKeeps
  <2>4. CASE SkipTask(t) \/ CancelTask(t)
    BY <1>0, <1>a, <2>4, EndKeeps
  <2>5. CASE DecideHumanTask(t)
    BY <1>0, <1>a, <2>5, DecideHumanTaskKeeps
  <2>. QED BY <1>2, <2>1, <2>2, <2>3, <2>4, <2>5 DEF Human
<1>3. ASSUME NEW t \in Tasks, CompleteVerifiedClaim(t) PROVE SerialInv'
  BY <1>0, <1>3, <1>a, CompleteVerifiedClaimKeeps
<1>4. ASSUME NEW t \in Tasks, NEW i \in 1 .. MaxTries, ReplyObserved(t, i) PROVE SerialInv'
  BY <1>0, <1>4, <1>a, ReplyObservedKeeps
<1>5. ASSUME NEW r \in Run, RunReadyTasks(r) PROVE SerialInv'
  BY <1>5, RunReadyTasksSerial
<1>6. ASSUME NEW r \in Run, Begin(r) PROVE SerialInv'
  BY <1>6, BeginSerial
<1>7. ASSUME NEW r \in Run, NEW x \in plan[r], NotSent(r, x) PROVE SerialInv'
  <2>1. StepsBack
    BY <1>0, <1>7, UnchangedStepsBack DEF NotSent
  <2>. QED BY <1>0, <1>7, <2>1, EndsOne, StepsBackSerial DEF NotSent
<1>8. ASSUME NEW r \in Run, NEW x \in plan[r], PrepareAttempt(r, x) PROVE SerialInv'
  BY <1>8, PrepareAttemptSerial
<1>9. ASSUME NEW r \in Run, NEW x \in plan[r], Sent(r, x) PROVE SerialInv'
  <2>1. StepsBack
    BY <1>0, <1>9, SentKeeps
  <2>. QED BY <1>0, <1>9, <2>1, EndsOne, StepsBackSerial DEF Sent
<1>10. ASSUME Restart PROVE SerialInv'
  <2>1. StepsBack /\ plan' = [q \in Run |-> {}]
    BY <1>0, <1>10, RestartKeeps
  <2>. QED BY <2>1, StepsBackSerial
<1>. QED BY <1>1, <1>2, <1>3, <1>4, <1>5, <1>6, <1>7, <1>8, <1>9, <1>10 DEF GraphNext, Planner

LEMMA SerialStart ==
  ASSUME InitGraph
  PROVE  SerialInv
<1>1. Created = {} /\ \A r \in Run : plan[r] = {}
  BY DEF InitGraph, Created
<1>. QED BY <1>1 DEF SerialInv, PagesAreSerial, RoundsAreBounded, Reviews, SendsDiffer, PlannedAreFree, RoundsAreLeft

\* Where one planner carries out its plans, for every graph of tasks and every order of edits, late
\* answers, retries and restarts: plans are definite and fair, a page has one prompt to answer, a
\* review is sent no more often than it has rounds, and nothing is sent on answers that were not
\* accepted.
THEOREM TasksStaySound ==
  ASSUME OnePlanner
  PROVE  GraphSpec => []TasksAreSound
<1>1. InitGraph => GraphInv /\ SerialInv
  BY GraphStart, SerialStart
<1>2. GraphInv /\ SerialInv /\ [GraphNext]_graphVars => GraphInv' /\ SerialInv'
  BY GraphStep, SerialStep
<1>3. GraphInv /\ SerialInv => TasksAreSound
  BY TypesSplit, PlansDefinite, PlansAreFair DEF GraphInv, ShapeInv, SerialInv, TasksAreSound
<1>. QED BY <1>1, <1>2, <1>3, PTL DEF GraphSpec
=============================================================================
