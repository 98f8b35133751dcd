------------------------- MODULE WorkDocumentProofs -------------------------
(***************************************************************************)
(* Proofs about WorkDocument: whatever is read, written and repeated by    *)
(* any number of calls, the document stays linked, completions and         *)
(* attempts are kept, answers are true, and the whole implements the log   *)
(* of versions.                                                            *)
(*                                                                         *)
(* Proofs about FleetTabs: for any number of slots, pages, orders and      *)
(* faults, no two slots share a page or a conversation in the Kernel, and  *)
(* the extension closes no page that the Kernel does not have as closing.  *)
(***************************************************************************)
EXTENDS WorkDocument, FleetTabs, TLAPS

-----------------------------------------------------------------------------
(* The sets rows are taken from *)

Row   == OwnerRow \cup {"open", "closed", Null}
Doc   == {d \in [Id -> Row] : IsDocument(d)}
Body  == UNION {[D -> Row] : D \in SUBSET Id}
Msg   == [form : Form, gen : 1 .. MaxGen, seq : Nat, body : Body]
Entry == [by : SUBSET Msg, doc : Doc]

CallRow == [ pc : {"idle", "read", "waiting", "done", "gone"}, rev : Nat, doc : Doc,
             msg : Msg \cup {Null}, want : Doc, try : 0 .. MaxTry, fwd : 0 .. MaxForward,
             told : Answer \cup {Null}, mint : Attempt \cup {Null}, held : BOOLEAN ]

LEMMA Ids ==
  /\ Owner \cap Attempt = {} /\ Null \notin Id /\ Of \in [Attempt -> Owner \cup {Null}]
  /\ Id = Owner \cup Attempt /\ Task \subseteq Owner /\ Message \subseteq Owner
  /\ Lane \cap Rollover = {}
  /\ MaxTry \in Nat \ {0} /\ MaxForward \in Nat \ {0} /\ MaxGen \in Nat \ {0}
BY WorkAssumption DEF Id, Owner

LEMMA DocRows ==
  ASSUME NEW d \in Doc
  PROVE  /\ \A o \in Owner : d[o] = Null \/ d[o] \in OwnerRow
         /\ \A a \in Attempt : d[a] \in {"open", "closed", Null}
BY DEF Doc, IsDocument

\* A function that differs from a document in well formed rows is one.
LEMMA DocByRows ==
  ASSUME NEW f, f = [i \in Id |-> f[i]],
         \A o \in Owner : f[o] = Null \/ f[o] \in OwnerRow,
         \A a \in Attempt : f[a] \in {"open", "closed", Null}
  PROVE  f \in Doc
<1>1. \A i \in Id : f[i] \in Row
  BY DEF Row, Id
<1>2. f \in [Id -> Row]
  BY <1>1
<1> QED
  BY <1>2 DEF Doc, IsDocument

LEMMA ImportsAreDocs == Start \subseteq Doc /\ Imports \subseteq Doc
<1> SUFFICES ASSUME NEW d \in Start \cup Imports PROVE d \in Doc
  OBVIOUS
<1>1. IsDocument(d)
  BY DocumentAssumption
<1> QED
  BY <1>1, DocByRows DEF IsDocument

-----------------------------------------------------------------------------
(* What an edit may change *)

\* Completions and linked attempts survive, unless everything is imported anew.
Keeps(d, next) ==
  \/ next \in Imports
  \/ /\ \A t \in Task : d[t] # Null /\ d[t].done => next[t] # Null /\ next[t].done
     /\ \A a \in Attempt : Of[a] # Null /\ d[a] # Null => next[a] # Null

\* The rows that are sent are those that change, and a single one closes an attempt.
IsEdit(d, e) ==
  /\ e.next \in Doc /\ e.form \in Form /\ e.at \in SUBSET Id /\ e.mint \in Attempt \cup {Null}
  /\ \A i \in Id \ e.at : e.next[i] = d[i]
  /\ e.form = "mutate" => \E a \in Attempt : e.at = {a} /\ e.next[a] = "closed"

LEMMA PatchIsEdit ==
  ASSUME NEW d \in Doc, NEW next \in Doc, NEW mint \in Attempt \cup {Null}
  PROVE  IsEdit(d, Patch(d, next, mint)) /\ Patch(d, next, mint).next = next
<1>1. PatchForm(d, next) \in {"replace", "batch"}
  BY DEF PatchForm
<1>2. CASE PatchForm(d, next) = "replace"
  BY <1>2 DEF Patch, Edit, IsEdit, Form
<1>3. CASE PatchForm(d, next) = "batch"
  BY <1>3 DEF Patch, Edit, IsEdit, Form, Changed
<1> QED
  BY <1>1, <1>2, <1>3

LEMMA ReplacementIsEdit ==
  ASSUME NEW d \in Doc, NEW next \in Doc
  PROVE  IsEdit(d, Replacement(next)) /\ Replacement(next).next = next
BY DEF Replacement, Edit, IsEdit, Form

LEMMA MutationIsEdit ==
  ASSUME NEW d \in Doc, NEW next \in Doc, NEW a \in Attempt, next[a] = "closed",
         \A i \in Id \ {a} : next[i] = d[i]
  PROVE  IsEdit(d, Mutation(next, a)) /\ Mutation(next, a).next = next
BY Ids DEF Mutation, Edit, IsEdit, Form

\* Retention drops attempts that belong to nobody, and never the one it is called for.
LEMMA RetainedRows ==
  ASSUME NEW d \in Doc, NEW a \in Attempt, NEW next \in Retained(d, a)
  PROVE  /\ next \in Doc
         /\ \A i \in Id : next[i] = d[i] \/ (i \in Loose(d) \ {a} /\ next[i] = Null)
<1>1. CASE next = d
  BY <1>1
<1>2. CASE next # d
  <2>1. PICK drop \in SUBSET (Loose(d) \ {a}) :
          next = [i \in Id |-> IF i \in drop THEN Null ELSE d[i]]
    BY <1>2 DEF Retained, kSubset
  <2>2. \A i \in Id : next[i] = IF i \in drop THEN Null ELSE d[i]
    BY <2>1
  <2>3. drop \subseteq Attempt
    BY DEF Loose
  <2>4. next \in Doc
    <3>1. \A o \in Owner : next[o] = Null \/ next[o] \in OwnerRow
      BY <2>2, DocRows, Ids
    <3>2. \A x \in Attempt : next[x] \in {"open", "closed", Null}
      BY <2>2, DocRows, Ids
    <3>3. next = [i \in Id |-> next[i]]
      BY <2>1
    <3> QED
      BY <3>1, <3>2, <3>3, DocByRows
  <2> QED
    BY <2>2, <2>4
<1> QED
  BY <1>1, <1>2

\* A document with one attempt's row set is a document, and keeps what there was.
LEMMA AttemptSet ==
  ASSUME NEW d \in Doc, NEW a \in Attempt, NEW s \in {"open", "closed"}
  PROVE  /\ [d EXCEPT ![a] = s] \in Doc
         /\ [d EXCEPT ![a] = s][a] = s
         /\ \A i \in Id \ {a} : [d EXCEPT ![a] = s][i] = d[i]
<1> DEFINE n == [d EXCEPT ![a] = s]
<1>0. d \in [Id -> Row] /\ a \in Id
  BY Ids DEF Doc
<1>1. n[a] = s /\ \A i \in Id \ {a} : n[i] = d[i]
  BY <1>0
<1>2. n = [i \in Id |-> n[i]]
  BY <1>0
<1>3. \A o \in Owner : n[o] = Null \/ n[o] \in OwnerRow
  BY <1>1, DocRows, Ids
<1>4. \A x \in Attempt : n[x] \in {"open", "closed", Null}
  BY <1>1, DocRows, Ids
<1> HIDE DEF n
<1>5. n \in Doc
  BY <1>2, <1>3, <1>4, DocByRows
<1> QED
  BY <1>1, <1>5 DEF n

\* The same for a row of a task or message that stays completed if it was.
LEMMA OwnerSet ==
  ASSUME NEW d \in Doc, NEW o \in Owner, NEW row \in OwnerRow
  PROVE  /\ [d EXCEPT ![o] = row] \in Doc
         /\ [d EXCEPT ![o] = row][o] = row
         /\ \A i \in Id \ {o} : [d EXCEPT ![o] = row][i] = d[i]
<1> DEFINE n == [d EXCEPT ![o] = row]
<1>0. d \in [Id -> Row] /\ o \in Id
  BY Ids DEF Doc
<1>1. n[o] = row /\ \A i \in Id \ {o} : n[i] = d[i]
  BY <1>0
<1>2. n = [i \in Id |-> n[i]]
  BY <1>0
<1>3. \A x \in Owner : n[x] = Null \/ n[x] \in OwnerRow
  BY <1>1, DocRows, Ids
<1>4. \A x \in Attempt : n[x] \in {"open", "closed", Null}
  BY <1>1, DocRows, Ids
<1> HIDE DEF n
<1>5. n \in Doc
  BY <1>2, <1>3, <1>4, DocByRows
<1> QED
  BY <1>1, <1>5 DEF n

LEMMA CreationsKeep ==
  ASSUME NEW d \in Doc, NEW e \in Creations(d)
  PROVE  IsEdit(d, e) /\ Keeps(d, e.next)
<1>1. PICK o \in Owner : d[o] = Null /\ e = Patch(d, [d EXCEPT ![o] = NewOwner], Null)
  BY DEF Creations
<1>2. NewOwner \in OwnerRow
  BY DEF NewOwner, OwnerRow
<1>3. /\ [d EXCEPT ![o] = NewOwner] \in Doc
      /\ \A i \in Id \ {o} : [d EXCEPT ![o] = NewOwner][i] = d[i]
  BY <1>2, OwnerSet
<1>4. IsEdit(d, e) /\ e.next = [d EXCEPT ![o] = NewOwner]
  BY <1>1, <1>3, PatchIsEdit
<1>5. \A t \in Task : d[t] # Null => e.next[t] = d[t]
  BY <1>1, <1>3, <1>4, Ids
<1>6. \A a \in Attempt : e.next[a] = d[a]
  BY <1>3, <1>4, Ids
<1> QED
  BY <1>4, <1>5, <1>6 DEF Keeps

LEMMA RequestMessagesKeep ==
  ASSUME NEW d \in Doc, NEW e \in RequestMessages(d)
  PROVE  IsEdit(d, e) /\ Keeps(d, e.next)
<1>1. PICK new \in SUBSET {m \in Message : d[m] = Null} :
        e = Patch(d, [i \in Id |-> IF i \in new THEN NewOwner ELSE d[i]], Null)
  BY DEF RequestMessages
<1> DEFINE n == [i \in Id |-> IF i \in new THEN NewOwner ELSE d[i]]
<1>2. NewOwner \in OwnerRow
  BY DEF NewOwner, OwnerRow
<1>3. \A i \in Id : n[i] = IF i \in new THEN NewOwner ELSE d[i]
  OBVIOUS
<1>4. n = [i \in Id |-> n[i]]
  OBVIOUS
<1>5. e = Patch(d, n, Null)
  BY <1>1
<1> HIDE DEF n
<1>6. n \in Doc
  <2>1. \A o \in Owner : n[o] = Null \/ n[o] \in OwnerRow
    BY <1>2, <1>3, DocRows, Ids
  <2>2. \A a \in Attempt : n[a] \in {"open", "closed", Null}
    BY <1>3, DocRows, Ids
  <2> QED
    BY <1>4, <2>1, <2>2, DocByRows
<1>7. IsEdit(d, e) /\ e.next = n
  BY <1>5, <1>6, PatchIsEdit
<1>8. \A t \in Task : d[t] # Null => n[t] = d[t]
  BY <1>3, Ids
<1>9. \A a \in Attempt : n[a] = d[a]
  BY <1>3, Ids
<1> QED
  BY <1>7, <1>8, <1>9 DEF Keeps

LEMMA ContentEditsKeep ==
  ASSUME NEW d \in Doc, NEW e \in ContentEdits(d)
  PROVE  IsEdit(d, e) /\ Keeps(d, e.next)
<1>1. PICK at : /\ e = Edit(d, "batch", at, Null)
                /\ at \in (UNION {kSubset(n, {o \in Task : d[o] # Null}) : n \in 1 .. 2})
                            \cup kSubset(1, {o \in Message : d[o] # Null})
  BY DEF ContentEdits
<1>2. at \in SUBSET Owner
  <2>1. CASE at \in kSubset(1, {o \in Message : d[o] # Null})
    BY <2>1, Ids DEF kSubset
  <2>2. CASE \E n \in 1 .. 2 : at \in kSubset(n, {o \in Task : d[o] # Null})
    <3>1. PICK n \in 1 .. 2 : at \in kSubset(n, {o \in Task : d[o] # Null})
      BY <2>2
    <3> QED
      BY <3>1, Ids DEF kSubset
  <2> QED
    BY <1>1, <2>1, <2>2
<1> QED
  BY <1>1, <1>2, Ids DEF Edit, IsEdit, Form, Keeps

LEMMA PreparationsKeep ==
  ASSUME NEW d \in Doc, NEW e \in Preparations(d)
  PROVE  IsEdit(d, e) /\ Keeps(d, e.next)
<1> DEFINE With(a) == [i \in Id |-> IF i = a THEN "open"
                              ELSE IF i = Of[a] THEN [d[i] EXCEPT !.list = @ \cup {a}]
                              ELSE d[i]]
<1>1. PICK a \in Attempt : /\ Of[a] # Null => d[Of[a]] # Null
                           /\ e \in {Patch(d, next, a) : next \in Retained(With(a), a)}
  BY DEF Preparations
<1> DEFINE linked == With(a)
<1>2. PICK next \in Retained(linked, a) : e = Patch(d, next, a)
  BY <1>1
<1>3. \A i \in Id : linked[i] = IF i = a THEN "open"
                                ELSE IF i = Of[a] THEN [d[i] EXCEPT !.list = @ \cup {a}] ELSE d[i]
  OBVIOUS
<1>4. linked = [i \in Id |-> linked[i]]
  OBVIOUS
<1> HIDE DEF linked
<1>5. ASSUME NEW o \in Owner, o = Of[a]
      PROVE  d[o] \in OwnerRow /\ linked[o] \in OwnerRow /\ linked[o].done = d[o].done
  <2>1. d[o] \in OwnerRow
    BY <1>1, <1>5, DocRows, Ids
  <2>2. linked[o] = [d[o] EXCEPT !.list = @ \cup {a}]
    BY <1>3, <1>5, Ids
  <2>3. [d[o] EXCEPT !.list = @ \cup {a}] \in OwnerRow
    BY <2>1 DEF OwnerRow
  <2>4. [d[o] EXCEPT !.list = @ \cup {a}].done = d[o].done
    BY <2>1 DEF OwnerRow
  <2> QED
    BY <2>1, <2>2, <2>3, <2>4
<1>6. linked \in Doc
  <2>1. \A o \in Owner : linked[o] = Null \/ linked[o] \in OwnerRow
    BY <1>3, <1>5, DocRows, Ids
  <2>2. \A x \in Attempt : linked[x] \in {"open", "closed", Null}
    <3>1. \A x \in Attempt : x \in Id /\ x # Of[a]
      BY Ids
    <3>2. \A x \in Attempt : linked[x] = IF x = a THEN "open" ELSE d[x]
      BY <1>3, <3>1
    <3> QED
      BY <3>2, DocRows
  <2> QED
    BY <1>4, <2>1, <2>2, DocByRows
<1>7. /\ next \in Doc
      /\ \A i \in Id : next[i] = linked[i] \/ (i \in Loose(linked) \ {a} /\ next[i] = Null)
  BY <1>6, RetainedRows
<1>8. IsEdit(d, e) /\ e.next = next
  BY <1>2, <1>7, PatchIsEdit
<1>9. ASSUME NEW t \in Task, d[t] # Null, d[t].done
      PROVE  next[t] # Null /\ next[t].done
  <2>1. next[t] = linked[t]
    BY <1>7, Ids DEF Loose
  <2>2. CASE t = Of[a]
    BY <2>1, <2>2, <1>5, <1>9, DocumentAssumption, Ids
  <2>3. CASE t # Of[a]
    BY <2>1, <2>3, <1>3, <1>9, Ids
  <2> QED
    BY <2>2, <2>3
<1>10. ASSUME NEW x \in Attempt, Of[x] # Null, d[x] # Null
       PROVE  next[x] # Null
  <2>1. next[x] = linked[x]
    BY <1>7, <1>10, Ids DEF Loose
  <2>2. linked[x] = IF x = a THEN "open" ELSE d[x]
    BY <1>3, Ids
  <2> QED
    BY <2>1, <2>2, <1>10, DocumentAssumption
<1> QED
  BY <1>8, <1>9, <1>10 DEF Keeps

\* Closing an attempt, with or without retention
LEMMA ClosingKeeps ==
  ASSUME NEW d \in Doc, NEW a \in Attempt, NEW next \in Retained([d EXCEPT ![a] = "closed"], a)
  PROVE  next \in Doc /\ next[a] = "closed" /\ Keeps(d, next)
<1> DEFINE ended == [d EXCEPT ![a] = "closed"]
<1>1. ended \in Doc /\ ended[a] = "closed" /\ \A i \in Id \ {a} : ended[i] = d[i]
  BY AttemptSet
<1>2. next \in Retained(ended, a)
  OBVIOUS
<1> HIDE DEF ended
<1>3. /\ next \in Doc
      /\ \A i \in Id : next[i] = ended[i] \/ (i \in Loose(ended) \ {a} /\ next[i] = Null)
  BY <1>1, <1>2, RetainedRows
<1>4. next[a] = "closed"
  BY <1>1, <1>3, Ids
<1>5. \A t \in Task : next[t] = d[t]
  BY <1>1, <1>3, Ids DEF Loose
<1>6. \A x \in Attempt : Of[x] # Null /\ d[x] # Null => next[x] # Null
  BY <1>1, <1>3, Ids, DocumentAssumption DEF Loose
<1> QED
  BY <1>3, <1>4, <1>5, <1>6 DEF Keeps

LEMMA TransitionsKeep ==
  ASSUME NEW d \in Doc, NEW e \in Transitions(d)
  PROVE  IsEdit(d, e) /\ Keeps(d, e.next)
<1>1. PICK a \in Attempt :
        e \in IF d[a] # Null THEN {Mutation([d EXCEPT ![a] = "closed"], a)}
              ELSE {IF Removes(d, next) THEN Patch(d, next, Null) ELSE Mutation(next, a) :
                      next \in Retained([d EXCEPT ![a] = "closed"], a)}
  BY DEF Transitions
<1> DEFINE ended == [d EXCEPT ![a] = "closed"]
<1>2. ended \in Doc /\ ended[a] = "closed" /\ \A i \in Id \ {a} : ended[i] = d[i]
  BY AttemptSet
<1>3. CASE d[a] # Null
  <2>1. e = Mutation(ended, a)
    BY <1>1, <1>3
  <2> HIDE DEF ended
  <2>2. IsEdit(d, e) /\ e.next = ended
    BY <2>1, <1>2, MutationIsEdit
  <2>3. Keeps(d, ended)
    BY <1>2, Ids, DocumentAssumption DEF Keeps
  <2> QED
    BY <2>2, <2>3
<1>4. CASE d[a] = Null
  <2>1. PICK next \in Retained(ended, a) :
          e = IF Removes(d, next) THEN Patch(d, next, Null) ELSE Mutation(next, a)
    BY <1>1, <1>4
  <2>2. next \in Doc /\ next[a] = "closed" /\ Keeps(d, next)
    BY ClosingKeeps
  <2> HIDE DEF ended
  <2>3. \A i \in Id : next[i] = ended[i] \/ (i \in Loose(ended) \ {a} /\ next[i] = Null)
    BY <1>2, RetainedRows
  <2>4. CASE Removes(d, next)
    BY <2>1, <2>2, <2>4, PatchIsEdit
  <2>5. CASE ~Removes(d, next)
    <3>1. \A i \in Id \ {a} : next[i] = d[i]
      BY <2>3, <2>5, <1>2 DEF Removes, Loose
    <3>2. e = Mutation(next, a)
      BY <2>1, <2>5
    <3> QED
      BY <2>2, <3>1, <3>2, MutationIsEdit
  <2> QED
    BY <2>4, <2>5
<1> QED
  BY <1>3, <1>4

LEMMA RecoveriesKeep ==
  ASSUME NEW d \in Doc, NEW e \in Recoveries(d)
  PROVE  IsEdit(d, e) /\ Keeps(d, e.next)
<1>0. PICK a \in Attempt :
        \E next \in Retained([d EXCEPT ![a] = "closed"], a) :
          e = Replacement(next) \/ e = Patch(d, next, Null)
  BY DEF Recoveries
<1>1. PICK next \in Retained([d EXCEPT ![a] = "closed"], a) :
        e = Replacement(next) \/ e = Patch(d, next, Null)
  BY <1>0
<1>2. next \in Doc /\ Keeps(d, next)
  BY ClosingKeeps
<1> QED
  BY <1>1, <1>2, ReplacementIsEdit, PatchIsEdit

\* In a linked document an attempt's task is there.
LEMMA RetriesKeep ==
  ASSUME NEW d \in Doc, Linked(d), NEW e \in Retries(d)
  PROVE  IsEdit(d, e) /\ Keeps(d, e.next)
<1>1. PICK a \in Attempt : /\ d[a] = "closed" /\ Of[a] \in Task
                           /\ e = Patch(d, [d EXCEPT ![Of[a]].retry = a], Null)
  BY DEF Retries
<1>2. PICK o \in Task : o = Of[a]
  BY <1>1
<1>3. d[o] # Null
  BY <1>1, <1>2, Ids, DocumentAssumption DEF Linked
<1>4. d[o] \in OwnerRow
  BY <1>3, DocRows, Ids
<1> DEFINE row == [d[o] EXCEPT !.retry = a]
           n == [d EXCEPT ![o] = row]
<1>5. row \in OwnerRow /\ row.done = d[o].done
  BY <1>4 DEF OwnerRow
<1>6. e = Patch(d, n, Null)
  BY <1>1, <1>2
<1> HIDE DEF row
<1>7. n \in Doc /\ n[o] = row /\ \A i \in Id \ {o} : n[i] = d[i]
  BY <1>5, OwnerSet, Ids
<1> HIDE DEF n
<1>8. IsEdit(d, e) /\ e.next = n
  BY <1>6, <1>7, PatchIsEdit
<1>9. \A t \in Task : d[t] # Null /\ d[t].done => n[t] # Null /\ n[t].done
  BY <1>5, <1>7, Ids, DocumentAssumption
<1>10. \A x \in Attempt : n[x] = d[x]
  BY <1>7, Ids
<1> QED
  BY <1>8, <1>9, <1>10 DEF Keeps

LEMMA ImportationsKeep ==
  ASSUME NEW d \in Doc, NEW e \in Importations(d)
  PROVE  IsEdit(d, e) /\ Keeps(d, e.next)
<1>1. PICK next \in Imports : e = Patch(d, next, Null)
  BY DEF Importations
<1>2. next \in Doc
  BY ImportsAreDocs
<1> QED
  BY <1>1, <1>2, PatchIsEdit DEF Keeps

LEMMA RolloverEditsKeep ==
  ASSUME NEW d \in Doc, Linked(d), NEW e \in RolloverEdits(d)
  PROVE  IsEdit(d, e) /\ Keeps(d, e.next)
<1> DEFINE Closed(a) == [i \in Id |-> IF i = a THEN "closed"
                                ELSE IF i = Of[a] /\ i \in Task THEN [d[i] EXCEPT !.retry = a]
                                ELSE d[i]]
<1>1. PICK a \in Attempt : d[a] = "open" /\ e = Replacement(Closed(a))
  BY DEF RolloverEdits
<1> DEFINE n == Closed(a)
<1>2. \A i \in Id : n[i] = IF i = a THEN "closed"
                           ELSE IF i = Of[a] /\ i \in Task THEN [d[i] EXCEPT !.retry = a]
                           ELSE d[i]
  OBVIOUS
<1>3. n = [i \in Id |-> n[i]]
  OBVIOUS
<1>4. e = Replacement(n)
  BY <1>1
<1> HIDE DEF n
<1>5. ASSUME NEW o \in Task, o = Of[a]
      PROVE  d[o] \in OwnerRow /\ n[o] \in OwnerRow /\ n[o].done = d[o].done
  <2>1. d[o] # Null
    BY <1>1, <1>5, Ids, DocumentAssumption DEF Linked
  <2>2. d[o] \in OwnerRow
    BY <2>1, DocRows, Ids
  <2>3. n[o] = [d[o] EXCEPT !.retry = a]
    BY <1>2, <1>5, Ids
  <2>4. [d[o] EXCEPT !.retry = a] \in OwnerRow /\ [d[o] EXCEPT !.retry = a].done = d[o].done
    BY <2>2 DEF OwnerRow
  <2> QED
    BY <2>2, <2>3, <2>4
<1>6. \A x \in Attempt : n[x] = IF x = a THEN "closed" ELSE d[x]
  <2>1. \A x \in Attempt : x \in Id /\ x \notin Task
    BY Ids
  <2> QED
    BY <1>2, <2>1
<1>7. \A o \in Owner : o # Of[a] \/ o \notin Task => n[o] = d[o]
  BY <1>2, Ids
<1>8. n \in Doc
  <2>1. \A o \in Owner : n[o] = Null \/ n[o] \in OwnerRow
    BY <1>5, <1>7, DocRows
  <2>2. \A x \in Attempt : n[x] \in {"open", "closed", Null}
    BY <1>6, DocRows
  <2> QED
    BY <1>3, <2>1, <2>2, DocByRows
<1>9. IsEdit(d, e) /\ e.next = n
  BY <1>4, <1>8, ReplacementIsEdit
<1>10. \A t \in Task : d[t] # Null /\ d[t].done => n[t] # Null /\ n[t].done
  <2> SUFFICES ASSUME NEW t \in Task, d[t] # Null, d[t].done
               PROVE  n[t] # Null /\ n[t].done
    OBVIOUS
  <2>1. CASE t = Of[a]
    BY <2>1, <1>5, DocumentAssumption
  <2>2. CASE t # Of[a]
    BY <2>2, <1>7, Ids
  <2> QED
    BY <2>1, <2>2
<1>11. \A x \in Attempt : d[x] # Null => n[x] # Null
  BY <1>6, DocumentAssumption
<1> QED
  BY <1>9, <1>10, <1>11 DEF Keeps

\* Whatever a call decides on, from a linked document
Edits(d) == LaneEdits(d) \cup RolloverEdits(d)

LEMMA EditFacts ==
  ASSUME NEW d \in Doc, Linked(d), NEW e \in Edits(d)
  PROVE  IsEdit(d, e) /\ Keeps(d, e.next)
BY CreationsKeep, RequestMessagesKeep, ContentEditsKeep, PreparationsKeep, TransitionsKeep,
   RecoveriesKeep, RetriesKeep, ImportationsKeep, RolloverEditsKeep DEF Edits, LaneEdits

-----------------------------------------------------------------------------
(* The inductive invariant *)

Types ==
  /\ rev \in Nat \ {0} /\ doc \in Doc
  /\ log \in Seq(Entry) /\ Len(log) = rev /\ log[rev].doc = doc
  /\ receipt \in SUBSET [msg : Msg, result : Nat]
  /\ gen \in 1 .. MaxGen
  /\ call \in [Call -> CallRow]
  /\ wire \in SUBSET (Call \X (1 .. MaxTry) \X (1 .. MaxForward))
  /\ \A copy \in wire : Sent(copy[1])

\* Versions are linked.  One that was written for a message is the version before with the
\* message's rows, at the place the message asked for, and has a receipt; so has no other.
Hist ==
  /\ \A i \in 1 .. rev : Linked(log[i].doc)
  /\ \A i \in 1 .. rev : \A m \in log[i].by :
       /\ i > 1 /\ m.seq = i /\ log[i].by = {m} /\ [msg |-> m, result |-> i] \in receipt
       /\ log[i].doc = Written(m, log[i - 1].doc)
  /\ \A r \in receipt : r.result = r.msg.seq /\ r.msg.seq \in 2 .. rev /\ r.msg \in log[r.msg.seq].by

\* Where a call is in its course.
Phase(c) ==
  /\ call[c].told # Null <=> call[c].pc = "done"
  /\ call[c].pc \in {"idle", "read"} => ~Sent(c)
  /\ call[c].pc \in {"waiting", "done"} => Sent(c)
  /\ call[c].pc = "read" => call[c].rev \in 1 .. rev /\ call[c].doc = log[call[c].rev].doc
  /\ call[c].pc = "waiting" => call[c].msg.seq = call[c].rev + 1

\* What a call has sent means, for the version it read, the document it wants.
Asks(c) ==
  Sent(c) =>
    LET m == call[c].msg IN
    /\ m \in Msg /\ m.seq \in 2 .. rev + 1
    /\ call[c].want = Written(m, log[m.seq - 1].doc)
    /\ Keeps(log[m.seq - 1].doc, call[c].want)
    /\ m.form = "mutate" => \E a \in Attempt : DOMAIN m.body = {a} /\ m.body[a] = "closed"

\* Admissible, of any document
AdmissibleTo(d, m) ==
  IF m.form = "mutate"
    THEN \A a \in DOMAIN m.body \cap Attempt : Of[a] # Null => d[Of[a]] # Null
    ELSE Linked(Written(m, d))

\* What a caller was told is true, and stays so.
Told(c) ==
  /\ call[c].told = "ok" =>
       /\ call[c].rev \in 1 .. rev /\ log[call[c].rev].doc = call[c].doc
       /\ \E x \in receipt : x.msg = call[c].msg
  /\ call[c].told \in Refusal =>
       /\ \A x \in receipt : x.msg # call[c].msg
       /\ call[c].msg.seq <= rev \/ ~AdmissibleTo(doc, call[c].msg)

\* No write of the lane whose answer was heard comes between another's read and its answer.
Exclusive == \A c, k \in Lane : c # k => ~(UnderWay(c) /\ UnderWay(k))
Alone(c) ==
  UnderWay(c) => \A i \in call[c].rev + 1 .. rev : \A k \in Lane :
                   call[k].told = "ok" => call[k].msg \notin log[i].by
Overtaken(c) ==
  call[c].told \in {"revision", "sequence"} =>
    LET i == call[c].msg.seq IN
    /\ i <= rev
    /\ \A k \in Lane : /\ UnderWay(k) => call[k].rev >= i
                       /\ call[k].told = "ok" => call[k].msg \notin log[i].by

LaneInv == Exclusive /\ \A c \in Lane : Alone(c) /\ Overtaken(c)

IInv == Types /\ Hist /\ (\A c \in Call : Phase(c) /\ Asks(c) /\ Told(c)) /\ LaneInv

-----------------------------------------------------------------------------
(* Rows of a log entry, a message and a call *)

LEMMA LogRows ==
  ASSUME Types, NEW i \in 1 .. rev
  PROVE  log[i] \in Entry /\ log[i].doc \in Doc /\ log[i].by \in SUBSET Msg
<1>1. log[i] \in Entry
  BY DEF Types
<1> QED
  BY <1>1 DEF Entry

LEMMA MsgFields ==
  ASSUME NEW m \in Msg
  PROVE  /\ m.form \in Form /\ m.seq \in Nat /\ m.gen \in 1 .. MaxGen
         /\ m.body \in Body /\ DOMAIN m.body \in SUBSET Id
BY DEF Msg, Body

LEMMA CallFields ==
  ASSUME Types, NEW c \in Call
  PROVE  /\ call[c] \in CallRow /\ call[c].doc \in Doc /\ call[c].want \in Doc
         /\ call[c].rev \in Nat /\ call[c].try \in 0 .. MaxTry /\ call[c].fwd \in 0 .. MaxForward
         /\ call[c].pc \in {"idle", "read", "waiting", "done", "gone"}
         /\ call[c].told \in Answer \cup {Null} /\ call[c].msg \in Msg \cup {Null}
         /\ call[c].mint \in Attempt \cup {Null} /\ call[c].held \in BOOLEAN
BY DEF Types, CallRow

LEMMA ReceiptFields ==
  ASSUME Types, NEW r \in receipt
  PROVE  r = [msg |-> r.msg, result |-> r.result] /\ r.msg \in Msg /\ r.result \in Nat
BY DEF Types

-----------------------------------------------------------------------------
(* What a step does to the Kernel *)

\* The Kernel's own writes
LEMMA OwnWrites ==
  ASSUME Types, Linked(doc), KernelWrites
  PROVE  /\ doc' \in Doc /\ Linked(doc') /\ Keeps(doc, doc')
         /\ rev' = rev + 1 /\ log' = Append(log, [by |-> {}, doc |-> doc']) /\ UNCHANGED receipt
<1>1. PICK t \in Task : AppendTask(t) \/ CompleteVerifiedClaim(t)
  BY DEF KernelWrites
<1>2. t \in Owner /\ t \notin Attempt
  BY Ids
<1>3. doc \in Doc
  BY DEF Types
<1>4. CASE AppendTask(t)
  <2> DEFINE n == [doc EXCEPT ![t] = NewOwner]
  <2>1. NewOwner \in OwnerRow /\ NewOwner.list = {}
    BY DEF NewOwner, OwnerRow
  <2>2. doc[t] = Null /\ doc' = n
    BY <1>4 DEF AppendTask, Recorded
  <2>3. n \in Doc /\ n[t] = NewOwner /\ \A i \in Id \ {t} : n[i] = doc[i]
    BY <1>2, <1>3, <2>1, OwnerSet
  <2> HIDE DEF n
  <2>4. Linked(n)
    <3>1. \A a \in Attempt : n[a] = doc[a]
      BY <1>2, <2>3, Ids
    <3>2. \A a \in Attempt : n[a] # Null /\ Of[a] # Null => n[Of[a]] # Null
      <4> SUFFICES ASSUME NEW a \in Attempt, n[a] # Null, Of[a] # Null PROVE n[Of[a]] # Null
        OBVIOUS
      <4>1. doc[Of[a]] # Null
        BY <3>1 DEF Linked
      <4>2. Of[a] \in Id \ {t}
        BY <4>1, <2>2, Ids
      <4> QED
        BY <4>1, <4>2, <2>3
    <3>3. \A o \in Owner : n[o] # Null => \A a \in n[o].list : n[a] # Null /\ Of[a] = o
      <4> SUFFICES ASSUME NEW o \in Owner, n[o] # Null, NEW a \in n[o].list
                   PROVE  n[a] # Null /\ Of[a] = o
        OBVIOUS
      <4>1. o # t
        BY <2>1, <2>3
      <4>2. n[o] = doc[o]
        BY <4>1, <2>3, Ids
      <4>3. doc[a] # Null /\ Of[a] = o
        BY <4>2 DEF Linked
      <4>4. a \in Attempt
        BY <4>2, <1>3, DocRows DEF OwnerRow
      <4> QED
        BY <4>3, <4>4, <3>1
    <3> QED
      BY <3>2, <3>3 DEF Linked
  <2>5. Keeps(doc, n)
    BY <1>2, <2>2, <2>3, Ids DEF Keeps
  <2> QED
    BY <1>4, <2>2, <2>3, <2>4, <2>5 DEF AppendTask, Recorded
<1>5. CASE CompleteVerifiedClaim(t)
  <2>1. doc[t] # Null /\ doc[t] \in OwnerRow
    BY <1>2, <1>3, <1>5, DocRows DEF CompleteVerifiedClaim
  <2> DEFINE row == [doc[t] EXCEPT !.done = TRUE]
             n   == [doc EXCEPT ![t] = row]
  <2>2. row \in OwnerRow /\ row.list = doc[t].list /\ row.done = TRUE
    BY <2>1 DEF OwnerRow
  <2>3. doc' = n
    BY <1>5 DEF CompleteVerifiedClaim, Recorded
  <2> HIDE DEF row
  <2>4. n \in Doc /\ n[t] = row /\ \A i \in Id \ {t} : n[i] = doc[i]
    BY <1>2, <1>3, <2>2, OwnerSet
  <2> HIDE DEF n
  <2>5. \A i \in Id : n[i] # Null <=> doc[i] # Null
    BY <2>1, <2>2, <2>4, DocumentAssumption
  <2>6. \A o \in Owner : doc[o] # Null => n[o].list = doc[o].list /\ doc[o].list \in SUBSET Attempt
    <3>1. \A o \in Owner : doc[o] # Null => doc[o].list \in SUBSET Attempt
      BY <1>3, DocRows DEF OwnerRow
    <3>2. \A o \in Owner : n[o].list = doc[o].list
      BY <2>2, <2>4, Ids
    <3> QED
      BY <3>1, <3>2
  <2>7. Linked(n)
    <3>1. \A a \in Attempt : n[a] # Null /\ Of[a] # Null => n[Of[a]] # Null
      BY <2>5, Ids DEF Linked
    <3>2. \A o \in Owner : n[o] # Null => \A a \in n[o].list : n[a] # Null /\ Of[a] = o
      BY <2>5, <2>6, Ids DEF Linked
    <3> QED
      BY <3>1, <3>2 DEF Linked
  <2>8. \A u \in Task : doc[u] # Null /\ doc[u].done => n[u] # Null /\ n[u].done
    BY <2>2, <2>4, <2>5, Ids
  <2>9. Keeps(doc, n)
    BY <2>5, <2>8, Ids DEF Keeps
  <2> QED
    BY <1>5, <2>3, <2>4, <2>7, <2>9 DEF CompleteVerifiedClaim, Recorded
<1> QED
  BY <1>1, <1>4, <1>5

\* One document is not compared with all the others, but it can only close its attempt.
LEMMA AdmissibleIsLinked ==
  ASSUME Types, Linked(doc), NEW m \in Msg, Admissible(m),
         m.form = "mutate" => \E a \in Attempt : DOMAIN m.body = {a} /\ m.body[a] = "closed"
  PROVE  Linked(Written(m, doc))
<1>1. CASE m.form # "mutate"
  BY <1>1 DEF Admissible
<1>2. CASE m.form = "mutate"
  <2>1. PICK a \in Attempt : DOMAIN m.body = {a} /\ m.body[a] = "closed"
    BY <1>2
  <2> DEFINE n == Written(m, doc)
  <2>2. n[a] = "closed" /\ \A i \in Id \ {a} : n[i] = doc[i]
    BY <2>1, Ids DEF Written
  <2>3. Of[a] # Null => doc[Of[a]] # Null
    BY <1>2, <2>1 DEF Admissible
  <2> HIDE DEF n
  <2>4. \A x \in Attempt : n[x] # Null /\ Of[x] # Null => n[Of[x]] # Null
    BY <2>2, <2>3, Ids DEF Linked
  <2>5. \A o \in Owner : n[o] # Null => \A x \in n[o].list : n[x] # Null /\ Of[x] = o
    <3> SUFFICES ASSUME NEW o \in Owner, n[o] # Null, NEW x \in n[o].list
                 PROVE  n[x] # Null /\ Of[x] = o
      OBVIOUS
    <3>1. n[o] = doc[o]
      BY <2>2, Ids
    <3>2. doc[x] # Null /\ Of[x] = o /\ x \in Attempt
      BY <3>1, DocRows DEF Linked, Types, OwnerRow
    <3> QED
      BY <3>2, <2>2, Ids, DocumentAssumption
  <2> QED
    BY <2>4, <2>5 DEF Linked, n
<1> QED
  BY <1>1, <1>2

\* The log grows by a version that is the Kernel's own, or what some call wants.
Grows(by) ==
  /\ rev' = rev + 1 /\ doc' \in Doc /\ Linked(doc') /\ Keeps(doc, doc')
  /\ log' = Append(log, [by |-> by, doc |-> doc'])
  /\ \/ by = {} /\ receipt' = receipt
     \/ \E c \in Call :
          /\ Sent(c) /\ by = {call[c].msg} /\ Verdict(call[c].msg) = "ok"
          /\ Receipts(call[c].msg) = {} /\ call[c].msg.seq = rev + 1
          /\ doc' = Written(call[c].msg, doc) /\ doc' = call[c].want
          /\ receipt' = receipt \cup {[msg |-> call[c].msg, result |-> rev + 1]}

LEMMA HandledGrows ==
  ASSUME IInv, NEW c \in Call, Sent(c), Handled(call[c].msg)
  PROVE  UNCHANGED kernelVars \/ \E by \in SUBSET Msg : Grows(by)
<1> DEFINE m == call[c].msg
<1>1. CASE ~(Verdict(m) = "ok" /\ Receipts(m) = {})
  BY <1>1 DEF Handled
<1>2. CASE Verdict(m) = "ok" /\ Receipts(m) = {}
  <2>1. m.seq = rev + 1 /\ Admissible(m)
    BY <1>2 DEF Verdict
  <2>2. /\ rev' = rev + 1 /\ doc' = Written(m, doc)
        /\ log' = Append(log, [by |-> {m}, doc |-> doc'])
        /\ receipt' = receipt \cup {[msg |-> m, result |-> rev + 1]}
    BY <1>2 DEF Handled, Recorded
  <2>3. Types /\ Linked(doc)
    BY DEF IInv, Types, Hist
  <2>4. /\ m \in Msg
        /\ call[c].want = Written(m, log[m.seq - 1].doc)
        /\ Keeps(log[m.seq - 1].doc, call[c].want)
        /\ m.form = "mutate" => \E a \in Attempt : DOMAIN m.body = {a} /\ m.body[a] = "closed"
    BY DEF IInv, Asks
  <2>5. log[m.seq - 1].doc = doc
    BY <2>1, <2>3 DEF Types
  <2>6. call[c].want = doc' /\ Keeps(doc, doc')
    BY <2>2, <2>4, <2>5
  <2>7. doc' \in Doc
    BY <2>3, <2>6, CallFields
  <2>8. Linked(doc')
    BY <2>1, <2>2, <2>3, <2>4, AdmissibleIsLinked
  <2>9. Grows({m})
    BY <1>2, <2>1, <2>2, <2>6, <2>7, <2>8 DEF Grows
  <2> QED
    BY <2>4, <2>9
<1> QED
  BY <1>1, <1>2

LEMMA KernelSteps ==
  ASSUME IInv, [Next]_vars
  PROVE  UNCHANGED kernelVars \/ \E by \in SUBSET Msg : Grows(by)
<1>1. CASE UNCHANGED vars
  BY <1>1 DEF vars, kernelVars
<1>2. CASE KernelWrites
  <2>1. Types /\ Linked(doc)
    BY DEF IInv, Types, Hist
  <2>2. Grows({})
    BY <1>2, <2>1, OwnWrites DEF Grows
  <2> QED
    BY <2>2
<1>3. CASE Restart
  BY <1>3 DEF Restart
<1>4. ASSUME NEW c \in Call, Read(c) \/ Decline(c) \/ Submit(c) \/ PipeBreaks(c) \/ PortLost(c)
      PROVE  UNCHANGED kernelVars
  BY <1>4 DEF Read, Decline, Submit, PipeBreaks, PortLost
<1>5. ASSUME NEW copy \in wire, NEW heard \in BOOLEAN, Handle(copy, heard)
      PROVE  UNCHANGED kernelVars \/ \E by \in SUBSET Msg : Grows(by)
  <2>1. copy[1] \in Call /\ Sent(copy[1])
    BY DEF IInv, Types
  <2>2. Handled(call[copy[1]].msg)
    BY <1>5 DEF Handle
  <2> QED
    BY <2>1, <2>2, HandledGrows
<1> QED
  BY <1>1, <1>2, <1>3, <1>4, <1>5 DEF Next

\* What was logged stays, and receipts are kept.
LEMMA LogKept ==
  ASSUME IInv, [Next]_vars
  PROVE  /\ rev' \in Nat \ {0} /\ rev' >= rev /\ doc' \in Doc
         /\ log' \in Seq(Entry) /\ Len(log') = rev' /\ log'[rev'].doc = doc'
         /\ \A i \in 1 .. rev : log'[i] = log[i]
         /\ receipt \subseteq receipt' /\ receipt' \in SUBSET [msg : Msg, result : Nat]
         /\ Keeps(doc, doc')
<1>0. Types
  BY DEF IInv
<1>1. CASE UNCHANGED kernelVars
  <2>1. Keeps(doc, doc)
    BY DEF Keeps
  <2> QED
    BY <1>0, <1>1, <2>1 DEF kernelVars, Types
<1>2. CASE \E by \in SUBSET Msg : Grows(by)
  <2>1. PICK by \in SUBSET Msg : Grows(by)
    BY <1>2
  <2>2. rev' = rev + 1 /\ doc' \in Doc /\ log' = Append(log, [by |-> by, doc |-> doc']) /\ Keeps(doc, doc')
    BY <2>1 DEF Grows
  <2>3. [by |-> by, doc |-> doc'] \in Entry
    BY <2>2 DEF Entry
  <2>4. /\ log' \in Seq(Entry) /\ Len(log') = rev + 1 /\ log'[rev + 1] = [by |-> by, doc |-> doc']
        /\ \A i \in 1 .. rev : log'[i] = log[i]
    BY <1>0, <2>2, <2>3 DEF Types
  <2>5. receipt \subseteq receipt' /\ receipt' \in SUBSET [msg : Msg, result : Nat]
    <3>1. CASE receipt' = receipt
      BY <3>1, <1>0 DEF Types
    <3>2. CASE \E c \in Call : /\ by = {call[c].msg} /\ call[c].msg.seq = rev + 1
                              /\ receipt' = receipt \cup {[msg |-> call[c].msg, result |-> rev + 1]}
      BY <3>2, <1>0 DEF Types
    <3> QED
      BY <2>1, <3>1, <3>2 DEF Grows
  <2>6. log'[rev'].doc = doc' /\ rev' \in Nat \ {0} /\ rev' >= rev
    BY <1>0, <2>2, <2>4 DEF Types
  <2> QED
    BY <2>2, <2>4, <2>5, <2>6
<1> QED
  BY <1>1, <1>2, KernelSteps

LEMMA HistStep ==
  ASSUME IInv, [Next]_vars
  PROVE  Hist'
<1>0. Types /\ Hist
  BY DEF IInv
<1>1. CASE UNCHANGED kernelVars
  BY <1>0, <1>1 DEF kernelVars, Hist, Written
<1>2. CASE \E by \in SUBSET Msg : Grows(by)
  <2>1. PICK by \in SUBSET Msg : Grows(by)
    BY <1>2
  <2>2. rev' = rev + 1 /\ rev \in Nat \ {0} /\ log[rev].doc = doc
    BY <1>0, <2>1 DEF Grows, Types
  <2>3. \A i \in 1 .. rev : log'[i] = log[i]
    BY LogKept
  <2>4. log'[rev + 1] = [by |-> by, doc |-> doc']
    BY <1>0, <2>1, <2>2 DEF Grows, Types
  <2>5. receipt \subseteq receipt'
    BY LogKept
  <2>6. \A i \in 1 .. rev' : Linked(log'[i].doc)
    <3>1. \A i \in 1 .. rev : Linked(log'[i].doc)
      BY <1>0, <2>3 DEF Hist
    <3>2. Linked(log'[rev + 1].doc)
      <4>1. log'[rev + 1].doc = doc'
        BY <2>4
      <4>2. Linked(doc')
        BY <2>1 DEF Grows
      <4> QED
        BY <4>1, <4>2
    <3>3. \A i \in 1 .. rev' : i \in 1 .. rev \/ i = rev + 1
      BY <2>2
    <3> QED
      BY <3>1, <3>2, <3>3
  <2>7. ASSUME NEW i \in 1 .. rev', NEW m \in log'[i].by
        PROVE  /\ i > 1 /\ m.seq = i /\ log'[i].by = {m} /\ [msg |-> m, result |-> i] \in receipt'
               /\ log'[i].doc = Written(m, log'[i - 1].doc)
    <3>1. CASE i \in 1 .. rev
      <4>1. m \in log[i].by
        BY <3>1, <2>3, <2>7
      <4>2. /\ i > 1 /\ m.seq = i /\ log[i].by = {m} /\ [msg |-> m, result |-> i] \in receipt
            /\ log[i].doc = Written(m, log[i - 1].doc)
        BY <1>0, <3>1, <4>1 DEF Hist
      <4>3. i - 1 \in 1 .. rev
        BY <3>1, <4>2, <2>2
      <4>4. log'[i] = log[i] /\ log'[i - 1] = log[i - 1]
        BY <2>3, <3>1, <4>3
      <4> QED
        BY <4>2, <4>4, <2>5
    <3>2. CASE i = rev + 1
      <4>1. m \in by /\ by # {}
        BY <3>2, <2>4, <2>7
      <4>2. PICK c \in Call : /\ by = {call[c].msg} /\ call[c].msg.seq = rev + 1
                             /\ doc' = Written(call[c].msg, doc)
                             /\ receipt' = receipt \cup {[msg |-> call[c].msg, result |-> rev + 1]}
        BY <2>1, <4>1 DEF Grows
      <4>3. m = call[c].msg
        BY <4>1, <4>2
      <4>4. log'[i - 1].doc = doc
        BY <2>2, <2>3, <3>2
      <4> QED
        BY <4>2, <4>3, <4>4, <2>2, <2>4, <3>2
    <3> QED
      BY <3>1, <3>2, <2>2
  <2>8. ASSUME NEW r \in receipt'
        PROVE  r.result = r.msg.seq /\ r.msg.seq \in 2 .. rev' /\ r.msg \in log'[r.msg.seq].by
    <3>1. CASE r \in receipt
      <4>1. r.result = r.msg.seq /\ r.msg.seq \in 2 .. rev /\ r.msg \in log[r.msg.seq].by
        BY <1>0, <3>1 DEF Hist
      <4>2. r.msg.seq \in 1 .. rev /\ r.msg.seq \in 2 .. rev'
        BY <4>1, <2>2
      <4> QED
        BY <4>1, <4>2, <2>3
    <3>2. CASE r \notin receipt
      <4>1. PICK c \in Call : /\ by = {call[c].msg} /\ call[c].msg.seq = rev + 1
                             /\ receipt' = receipt \cup {[msg |-> call[c].msg, result |-> rev + 1]}
        BY <2>1, <2>8, <3>2 DEF Grows
      <4>2. r = [msg |-> call[c].msg, result |-> rev + 1]
        BY <4>1, <2>8, <3>2
      <4> QED
        BY <4>1, <4>2, <2>2, <2>4
    <3> QED
      BY <3>1, <3>2
  <2>9. Hist' <=> /\ \A i \in 1 .. rev' : Linked(log'[i].doc)
                  /\ \A i \in 1 .. rev' : \A m \in log'[i].by :
                       /\ i > 1 /\ m.seq = i /\ log'[i].by = {m} /\ [msg |-> m, result |-> i] \in receipt'
                       /\ log'[i].doc = Written(m, log'[i - 1].doc)
                  /\ \A r \in receipt' : /\ r.result = r.msg.seq /\ r.msg.seq \in 2 .. rev'
                                         /\ r.msg \in log'[r.msg.seq].by
    BY DEF Hist
  <2> QED
    BY <2>6, <2>7, <2>8, <2>9
<1> QED
  BY <1>1, <1>2, KernelSteps

-----------------------------------------------------------------------------
(* What a step does to a call's row, from r to s *)

\* Nothing, or it is given up or sent again.
Rests(r, s) ==
  /\ s.msg = r.msg /\ s.want = r.want /\ s.told = r.told /\ s.rev = r.rev /\ s.doc = r.doc
  /\ s.try > 0 <=> r.try > 0
  /\ s.pc = r.pc \/ (r.pc \in {"read", "waiting"} /\ s.pc = "gone")

Reads(r, s) ==
  /\ r.pc = "idle" /\ s.pc = "read" /\ s.rev = rev /\ s.doc = doc
  /\ s.msg = r.msg /\ s.want = r.want /\ s.told = r.told /\ s.try = r.try

Request(r, e) == [form |-> e.form, gen |-> gen, seq |-> r.rev + 1, body |-> [i \in e.at |-> e.next[i]]]

Sends(r, s) ==
  /\ r.pc = "read" /\ s.pc = "waiting" /\ s.try = 1
  /\ s.rev = r.rev /\ s.doc = r.doc /\ s.told = r.told
  /\ \E e \in Edits(r.doc) : s.want = e.next /\ s.msg = Request(r, e)

GivesUp(r, s) ==
  s.told \in {"error", "unavailable"} /\ s.rev = r.rev /\ s.doc = r.doc /\ UNCHANGED kernelVars

Hears(r, s) ==
  /\ Handled(r.msg) /\ s.told = Verdict(r.msg)
  /\ s.told # "ok" => s.rev = r.rev /\ s.doc = r.doc
  /\ s.told = "ok" => IF r.msg.form = "replace" THEN s.rev = rev' /\ s.doc = doc'
                                                ELSE s.rev = r.msg.seq /\ s.doc = r.want

Answers(r, s) ==
  /\ r.pc = "waiting" /\ s.pc = "done" /\ s.msg = r.msg /\ s.want = r.want /\ s.try = r.try
  /\ GivesUp(r, s) \/ Hears(r, s)

Moves(c) ==
  \/ Reads(call[c], call'[c]) /\ LaneFree(c) /\ UNCHANGED kernelVars
  \/ Sends(call[c], call'[c]) /\ UNCHANGED kernelVars
  \/ Answers(call[c], call'[c])

\* A request carries the rows of its edit, which make of what was read what is wanted.
LEMMA WrittenBack ==
  ASSUME Types, NEW r \in CallRow, NEW e, IsEdit(r.doc, e), r.doc \in Doc
  PROVE  /\ Request(r, e) \in Msg
         /\ Request(r, e).seq = r.rev + 1 /\ Request(r, e).form = e.form
         /\ DOMAIN Request(r, e).body = e.at /\ \A i \in e.at : Request(r, e).body[i] = e.next[i]
         /\ Written(Request(r, e), r.doc) = e.next
<1> DEFINE body == [i \in e.at |-> e.next[i]]
<1>1. e.next \in Doc /\ e.form \in Form /\ e.at \in SUBSET Id /\ \A i \in Id \ e.at : e.next[i] = r.doc[i]
  BY DEF IsEdit
<1>2. e.next \in [Id -> Row] /\ e.next = [i \in Id |-> e.next[i]]
  BY <1>1 DEF Doc
<1>3. body \in [e.at -> Row]
  BY <1>1, <1>2
<1>4. body \in Body
  BY <1>1, <1>3 DEF Body
<1>5. DOMAIN body = e.at /\ \A i \in e.at : body[i] = e.next[i]
  OBVIOUS
<1>6. Request(r, e) = [form |-> e.form, gen |-> gen, seq |-> r.rev + 1, body |-> body]
  BY DEF Request
<1> HIDE DEF body
<1>7. r.rev + 1 \in Nat /\ gen \in 1 .. MaxGen
  BY DEF CallRow, Types
<1>8. Request(r, e) \in Msg
  BY <1>1, <1>4, <1>6, <1>7 DEF Msg
<1>9. Request(r, e).body = body /\ Request(r, e).seq = r.rev + 1 /\ Request(r, e).form = e.form
  BY <1>6
<1>10. Written(Request(r, e), r.doc) = [i \in Id |-> IF i \in e.at THEN e.next[i] ELSE r.doc[i]]
  BY <1>5, <1>9 DEF Written
<1>11. [i \in Id |-> IF i \in e.at THEN e.next[i] ELSE r.doc[i]] = [i \in Id |-> e.next[i]]
  BY <1>1
<1> QED
  BY <1>2, <1>5, <1>8, <1>9, <1>10, <1>11

\* A call that has read has a linked document of the log to decide on.
LEMMA ReadFacts ==
  ASSUME IInv, NEW c \in Call, call[c].pc = "read", NEW e \in Edits(call[c].doc)
  PROVE  /\ IsEdit(call[c].doc, e) /\ Keeps(call[c].doc, e.next)
         /\ call[c].rev \in 1 .. rev /\ call[c].doc = log[call[c].rev].doc /\ call[c].doc \in Doc
<1>1. Types /\ Hist /\ Phase(c)
  BY DEF IInv
<1>2. call[c].rev \in 1 .. rev /\ call[c].doc = log[call[c].rev].doc
  BY <1>1 DEF Phase
<1>3. Linked(log[call[c].rev].doc)
  BY <1>1, <1>2 DEF Hist
<1>4. Linked(call[c].doc) /\ call[c].doc \in Doc
  BY <1>1, <1>2, <1>3, CallFields
<1> QED
  BY <1>2, <1>4, EditFacts

LEMMA OneRow ==
  ASSUME Types, NEW c \in Call, NEW row \in CallRow, call' = [call EXCEPT ![c] = row]
  PROVE  /\ call' \in [Call -> CallRow] /\ call'[c] = row
         /\ \A k \in Call \ {c} : call'[k] = call[k]
BY DEF Types

LEMMA RestsSame == \A k \in Call : Rests(call[k], call[k])
BY DEF Rests

\* A step that changes one row moves it or lets it rest.
CallStep ==
  /\ call' \in [Call -> CallRow]
  /\ \/ \A k \in Call : Rests(call[k], call'[k])
     \/ \E c \in Call : Moves(c) /\ \A k \in Call \ {c} : call'[k] = call[k]

LEMMA OneRowStep ==
  ASSUME Types, NEW c \in Call, NEW row \in CallRow, call' = [call EXCEPT ![c] = row],
         Rests(call[c], row) \/ Moves(c)
  PROVE  CallStep
<1>1. /\ call' \in [Call -> CallRow] /\ call'[c] = row
      /\ \A k \in Call \ {c} : call'[k] = call[k]
  BY OneRow
<1>2. CASE Moves(c)
  BY <1>1, <1>2 DEF CallStep
<1>3. CASE Rests(call[c], row)
  <2>1. \A k \in Call : Rests(call[k], call'[k])
    BY <1>1, <1>3, RestsSame
  <2> QED
    BY <1>1, <2>1 DEF CallStep
<1> QED
  BY <1>2, <1>3

LEMMA ReadSteps ==
  ASSUME IInv, NEW c \in Call, Read(c)
  PROVE  CallStep
<1>1. Types /\ rev \in Nat /\ doc \in Doc
  BY DEF IInv, Types
<1> DEFINE row == [call[c] EXCEPT !.pc = "read", !.rev = rev, !.doc = doc]
<1>2. call[c] \in CallRow
  BY <1>1, CallFields
<1>3. row \in CallRow
  BY <1>1, <1>2 DEF CallRow
<1>4. call' = [call EXCEPT ![c] = row]
  BY <1>1 DEF Read, Types
<1>5. /\ row.pc = "read" /\ row.rev = rev /\ row.doc = doc /\ row.msg = call[c].msg
      /\ row.want = call[c].want /\ row.told = call[c].told /\ row.try = call[c].try
  BY <1>2 DEF CallRow
<1> HIDE DEF row
<1>6. call'[c] = row
  BY <1>1, <1>3, <1>4, OneRow
<1>7. Moves(c)
  BY <1>5, <1>6 DEF Moves, Reads, Read
<1> QED
  BY <1>1, <1>3, <1>4, <1>7, OneRowStep

LEMMA DeclineSteps ==
  ASSUME IInv, NEW c \in Call, Decline(c)
  PROVE  CallStep
<1>1. Types
  BY DEF IInv
<1> DEFINE row == [call[c] EXCEPT !.pc = "gone"]
<1>2. call[c] \in CallRow
  BY <1>1, CallFields
<1>3. row \in CallRow
  BY <1>2 DEF CallRow
<1>4. call' = [call EXCEPT ![c] = row]
  BY <1>1 DEF Decline, Types
<1>5. Rests(call[c], row)
  BY <1>2 DEF CallRow, Rests, Decline
<1> HIDE DEF row
<1> QED
  BY <1>1, <1>3, <1>4, <1>5, OneRowStep

LEMMA SubmitSteps ==
  ASSUME IInv, NEW c \in Call, Submit(c)
  PROVE  CallStep
<1>1. Types
  BY DEF IInv
<1>2. call[c].pc = "read" /\ UNCHANGED kernelVars
  BY DEF Submit
<1>3. PICK e \in Edits(call[c].doc) :
        call' = [call EXCEPT ![c].pc = "waiting", ![c].want = e.next, ![c].mint = e.mint,
                   ![c].try = 1, ![c].fwd = 1, ![c].msg = Request(call[c], e)]
  BY DEF Submit, Edits, Request
<1>4. IsEdit(call[c].doc, e) /\ call[c].doc \in Doc
  BY <1>2, ReadFacts
<1>5. call[c] \in CallRow
  BY <1>1, CallFields
<1>6. Request(call[c], e) \in Msg
  BY <1>1, <1>4, <1>5, WrittenBack
<1> DEFINE row == [call[c] EXCEPT !.pc = "waiting", !.want = e.next, !.mint = e.mint,
                     !.try = 1, !.fwd = 1, !.msg = Request(call[c], e)]
<1>7. e.next \in Doc /\ e.mint \in Attempt \cup {Null} /\ 1 \in 0 .. MaxTry /\ 1 \in 0 .. MaxForward
  BY <1>4, Ids DEF IsEdit
<1>8. row \in CallRow
  BY <1>5, <1>6, <1>7 DEF CallRow
<1>9. call' = [call EXCEPT ![c] = row]
  BY <1>1, <1>3 DEF Types
<1>10. /\ row.pc = "waiting" /\ row.try = 1 /\ row.want = e.next /\ row.msg = Request(call[c], e)
       /\ row.rev = call[c].rev /\ row.doc = call[c].doc /\ row.told = call[c].told
  BY <1>5 DEF CallRow
<1> HIDE DEF row
<1>11. call'[c] = row
  BY <1>1, <1>8, <1>9, OneRow
<1>12. Moves(c)
  BY <1>2, <1>10, <1>11 DEF Moves, Sends
<1> QED
  BY <1>1, <1>8, <1>9, <1>12, OneRowStep

\* A request that is sent again
LEMMA ResendSteps ==
  ASSUME IInv, NEW c \in Call, NEW try \in 1 .. MaxTry, NEW fwd \in 1 .. MaxForward,
         call[c].pc = "waiting", call' = [call EXCEPT ![c].try = try, ![c].fwd = fwd]
  PROVE  CallStep
<1>1. Types /\ Sent(c)
  BY DEF IInv, Phase
<1> DEFINE row == [call[c] EXCEPT !.try = try, !.fwd = fwd]
<1>2. call[c] \in CallRow
  BY <1>1, CallFields
<1>3. try \in 0 .. MaxTry /\ fwd \in 0 .. MaxForward
  BY Ids
<1>4. row \in CallRow
  BY <1>2, <1>3 DEF CallRow
<1>5. call' = [call EXCEPT ![c] = row]
  BY <1>1 DEF Types
<1>6. Rests(call[c], row)
  BY <1>1, <1>2 DEF CallRow, Rests, Sent
<1> HIDE DEF row
<1> QED
  BY <1>1, <1>4, <1>5, <1>6, OneRowStep

\* An answer, whoever gives it
LEMMA AnsweredSteps ==
  ASSUME IInv, NEW c \in Call, NEW answer \in Answer, call[c].pc = "waiting",
         call' = Answered(c, answer), rev' \in Nat, doc' \in Doc,
         \/ answer \in {"error", "unavailable"} /\ UNCHANGED kernelVars
         \/ answer = Verdict(call[c].msg) /\ Handled(call[c].msg)
  PROVE  CallStep
<1>1. Types /\ Sent(c) /\ call[c].msg \in Msg
  BY DEF IInv, Phase, Asks
<1>2. call[c] \in CallRow /\ call[c].want \in Doc /\ call[c].rev \in Nat /\ call[c].doc \in Doc
  BY <1>1, CallFields
<1> DEFINE v == IF answer = "ok" THEN Returned(c).rev ELSE call[c].rev
           d == IF answer = "ok" THEN Returned(c).doc ELSE call[c].doc
           h == answer = "ok" /\ call[c].mint # Null
           row == [call[c] EXCEPT !.pc = "done", !.told = answer, !.held = h, !.rev = v, !.doc = d]
<1>3. call' = [call EXCEPT ![c] = row]
  BY <1>1 DEF Types, Answered
<1>4. /\ answer # "ok" => v = call[c].rev /\ d = call[c].doc
      /\ answer = "ok" => IF call[c].msg.form = "replace" THEN v = rev' /\ d = doc'
                          ELSE v = call[c].msg.seq /\ d = call[c].want
  BY DEF Returned
<1>5. h \in BOOLEAN
  OBVIOUS
<1> HIDE DEF v, d, h
<1>6. v \in Nat /\ d \in Doc
  BY <1>1, <1>2, <1>4, MsgFields
<1>7. row \in CallRow
  BY <1>2, <1>5, <1>6 DEF CallRow
<1>8. /\ row.pc = "done" /\ row.told = answer /\ row.rev = v /\ row.doc = d
      /\ row.msg = call[c].msg /\ row.want = call[c].want /\ row.try = call[c].try
  BY <1>2 DEF CallRow
<1> HIDE DEF row
<1>9. call'[c] = row
  BY <1>1, <1>3, <1>7, OneRow
<1>10. CASE answer \in {"error", "unavailable"} /\ UNCHANGED kernelVars
  BY <1>1, <1>3, <1>4, <1>7, <1>8, <1>9, <1>10, OneRowStep DEF Moves, Answers, GivesUp
<1>11. CASE answer = Verdict(call[c].msg) /\ Handled(call[c].msg)
  <2>1. Hears(call[c], call'[c])
    BY <1>4, <1>8, <1>9, <1>11 DEF Hears
  <2> QED
    BY <1>1, <1>3, <1>7, <1>8, <1>9, <2>1, OneRowStep DEF Moves, Answers
<1> QED
  BY <1>10, <1>11

LEMMA PipeBreaksSteps ==
  ASSUME IInv, NEW c \in Call, PipeBreaks(c)
  PROVE  CallStep
<1>1. call[c].pc = "waiting" /\ UNCHANGED kernelVars /\ Types /\ Sent(c)
  BY DEF PipeBreaks, IInv, Phase
<1>2. call[c].try \in 1 .. MaxTry /\ call[c].fwd \in 0 .. MaxForward
  BY <1>1, CallFields DEF Sent
<1>3. CASE call[c].fwd < MaxForward
  <2>1. call' = [call EXCEPT ![c].fwd = call[c].fwd + 1]
    BY <1>3 DEF PipeBreaks
  <2>2. call[c].fwd + 1 \in 1 .. MaxForward
    BY <1>2, <1>3, Ids
  <2>3. call[c] \in CallRow
    BY <1>1, CallFields
  <2>4. call' = [call EXCEPT ![c] = [call[c] EXCEPT !.fwd = call[c].fwd + 1]]
    BY <1>1, <2>1 DEF Types
  <2>5. [call[c] EXCEPT !.fwd = call[c].fwd + 1] \in CallRow
    BY <1>2, <2>2, <2>3 DEF CallRow
  <2>6. Rests(call[c], [call[c] EXCEPT !.fwd = call[c].fwd + 1])
    BY <2>3 DEF CallRow, Rests
  <2> QED
    BY <1>1, <2>4, <2>5, <2>6, OneRowStep
<1>4. CASE ~(call[c].fwd < MaxForward)
  <2>1. call' = Answered(c, "error")
    BY <1>4 DEF PipeBreaks
  <2>2. rev' \in Nat /\ doc' \in Doc /\ "error" \in Answer
    BY <1>1 DEF Types, kernelVars, Answer
  <2> QED
    BY <1>1, <2>1, <2>2, AnsweredSteps
<1> QED
  BY <1>3, <1>4

LEMMA PortLostSteps ==
  ASSUME IInv, NEW c \in Call, PortLost(c)
  PROVE  CallStep
<1>1. call[c].pc = "waiting" /\ UNCHANGED kernelVars /\ Types
  BY DEF PortLost, IInv
<1>2. call[c].try \in 0 .. MaxTry
  BY <1>1, CallFields
<1>3. CASE call[c].try < MaxTry
  <2>1. call' = [call EXCEPT ![c].try = call[c].try + 1, ![c].fwd = 1]
    BY <1>3 DEF PortLost
  <2>2. call[c].try + 1 \in 1 .. MaxTry /\ 1 \in 1 .. MaxForward
    BY <1>2, <1>3, Ids
  <2> QED
    BY <1>1, <2>1, <2>2, ResendSteps
<1>4. CASE ~(call[c].try < MaxTry)
  <2>1. call' = Answered(c, "unavailable")
    BY <1>4 DEF PortLost
  <2>2. rev' \in Nat /\ doc' \in Doc /\ "unavailable" \in Answer
    BY <1>1 DEF Types, kernelVars, Answer
  <2> QED
    BY <1>1, <2>1, <2>2, AnsweredSteps
<1> QED
  BY <1>3, <1>4

LEMMA HandleSteps ==
  ASSUME IInv, [Next]_vars, NEW copy \in wire, NEW heard \in BOOLEAN, Handle(copy, heard)
  PROVE  CallStep
<1> DEFINE c == copy[1]
<1>1. Types /\ c \in Call /\ Sent(c)
  BY DEF IInv, Types
<1>2. Handled(call[c].msg)
  BY DEF Handle
<1>3. CASE heard
  <2>1. call[c].pc = "waiting" /\ call' = Answered(c, Verdict(call[c].msg))
    BY <1>3 DEF Handle
  <2>2. Verdict(call[c].msg) \in Answer
    BY DEF Verdict, Answer, Refusal
  <2>3. rev' \in Nat /\ doc' \in Doc
    BY LogKept
  <2> QED
    BY <1>1, <1>2, <2>1, <2>2, <2>3, AnsweredSteps
<1>4. CASE ~heard
  <2>1. call' = call
    BY <1>4 DEF Handle
  <2> QED
    BY <1>1, <2>1, RestsSame DEF CallStep, Types
<1> QED
  BY <1>3, <1>4

LEMMA RestartSteps ==
  ASSUME IInv, Restart
  PROVE  CallStep
<1>1. Types
  BY DEF IInv
<1> DEFINE pc(k) == IF UnderWay(k) THEN "gone" ELSE call[k].pc
           Row2(k) == [call[k] EXCEPT !.pc = pc(k), !.held = FALSE]
<1>2. call' = [k \in Call |-> Row2(k)]
  BY DEF Restart
<1>3. ASSUME NEW k \in Call
      PROVE  Row2(k) \in CallRow /\ Rests(call[k], Row2(k))
  <2>1. call[k] \in CallRow
    BY <1>1, CallFields
  <2>2. pc(k) \in {"idle", "read", "waiting", "done", "gone"}
    BY <2>1 DEF CallRow
  <2>3. pc(k) = call[k].pc \/ (call[k].pc \in {"read", "waiting"} /\ pc(k) = "gone")
    BY DEF UnderWay
  <2> HIDE DEF pc
  <2> QED
    BY <2>1, <2>2, <2>3 DEF CallRow, Rests
<1> HIDE DEF Row2
<1>4. call' \in [Call -> CallRow] /\ \A k \in Call : call'[k] = Row2(k)
  BY <1>2, <1>3
<1> QED
  BY <1>3, <1>4 DEF CallStep

LEMMA CallSteps ==
  ASSUME IInv, [Next]_vars
  PROVE  CallStep
<1>1. CASE UNCHANGED vars
  BY <1>1, RestsSame DEF vars, CallStep, IInv, Types
<1>2. CASE KernelWrites
  BY <1>2, RestsSame DEF KernelWrites, CallStep, IInv, Types
<1>3. CASE Restart
  BY <1>3, RestartSteps
<1>4. CASE \E c \in Call : Read(c) \/ Decline(c) \/ Submit(c) \/ PipeBreaks(c) \/ PortLost(c)
  BY <1>4, ReadSteps, DeclineSteps, SubmitSteps, PipeBreaksSteps, PortLostSteps
<1>5. CASE \E copy \in wire, heard \in BOOLEAN : Handle(copy, heard)
  BY <1>5, HandleSteps
<1> QED
  BY <1>1, <1>2, <1>3, <1>4, <1>5 DEF Next

\* Sent copies are of calls that have sent.
LEMMA TypesStep ==
  ASSUME IInv, [Next]_vars
  PROVE  Types'
<1>1. Types /\ call' \in [Call -> CallRow]
  BY CallSteps DEF IInv, CallStep
<1>2. gen' \in 1 .. MaxGen
  BY <1>1 DEF Types, Next, vars, KernelWrites, Restart, Read, Decline, Submit, PipeBreaks, PortLost, Handle
<1>3. \A c \in Call : Sent(c) => call'[c].try > 0
  BY CallSteps DEF CallStep, Rests, Moves, Reads, Sends, Answers, Sent
<1>4. \A copy \in wire' : /\ copy \in Call \X (1 .. MaxTry) \X (1 .. MaxForward)
                          /\ call'[copy[1]].try > 0
  <2>1. CASE wire' \subseteq wire
    BY <1>1, <1>3, <2>1 DEF Types
  <2>2. ASSUME NEW c \in Call, NEW try \in 1 .. MaxTry, NEW fwd \in 1 .. MaxForward,
               wire' = wire \cup {<<c, try, fwd>>}, call'[c].try > 0
        PROVE  \A copy \in wire' : /\ copy \in Call \X (1 .. MaxTry) \X (1 .. MaxForward)
                                   /\ call'[copy[1]].try > 0
    BY <1>1, <1>3, <2>2 DEF Types
  <2>3. ASSUME NEW c \in Call, Submit(c)
        PROVE  wire' = wire \cup {<<c, 1, 1>>} /\ call'[c].try > 0
    <3>1. wire' = wire \cup {<<c, 1, 1>>} /\ call[c].pc = "read"
      BY <2>3 DEF Submit
    <3>2. PICK e \in Edits(call[c].doc) :
            call' = [call EXCEPT ![c].pc = "waiting", ![c].want = e.next, ![c].mint = e.mint,
                       ![c].try = 1, ![c].fwd = 1, ![c].msg = Request(call[c], e)]
      BY <2>3 DEF Submit, Edits, Request
    <3>3. call'[c] = [call[c] EXCEPT !.pc = "waiting", !.want = e.next, !.mint = e.mint,
                       !.try = 1, !.fwd = 1, !.msg = Request(call[c], e)]
      BY <1>1, <3>2 DEF Types
    <3>4. call[c] \in CallRow
      BY <1>1, CallFields
    <3>5. call'[c].try = 1
      BY <3>3, <3>4 DEF CallRow
    <3> QED
      BY <3>1, <3>5
  <2>4. ASSUME NEW c \in Call, PipeBreaks(c) \/ PortLost(c)
        PROVE  \/ wire' = wire
               \/ \E try \in 1 .. MaxTry, fwd \in 1 .. MaxForward : wire' = wire \cup {<<c, try, fwd>>}
    <3>1. call[c].try \in 1 .. MaxTry /\ call[c].fwd \in 0 .. MaxForward
      BY <1>1, <2>4, CallFields DEF PipeBreaks, PortLost, IInv, Phase, Sent
    <3>2. CASE PipeBreaks(c)
      <4>1. CASE call[c].fwd < MaxForward
        <5>1. wire' = wire \cup {<<c, call[c].try, call[c].fwd + 1>>}
          BY <3>2, <4>1 DEF PipeBreaks
        <5>2. call[c].fwd + 1 \in 1 .. MaxForward
          BY <3>1, <4>1, Ids
        <5> QED
          BY <3>1, <5>1, <5>2
      <4>2. CASE ~(call[c].fwd < MaxForward)
        BY <3>2, <4>2 DEF PipeBreaks
      <4> QED
        BY <4>1, <4>2
    <3>3. CASE PortLost(c)
      <4>1. CASE call[c].try < MaxTry
        <5>1. wire' = wire \cup {<<c, call[c].try + 1, 1>>}
          BY <3>3, <4>1 DEF PortLost
        <5>2. call[c].try + 1 \in 1 .. MaxTry /\ 1 \in 1 .. MaxForward
          BY <3>1, <4>1, Ids
        <5> QED
          BY <5>1, <5>2
      <4>2. CASE ~(call[c].try < MaxTry)
        BY <3>3, <4>2 DEF PortLost
      <4> QED
        BY <4>1, <4>2
    <3> QED
      BY <2>4, <3>2, <3>3
  <2>5. ASSUME NEW c \in Call, PipeBreaks(c) \/ PortLost(c)
        PROVE  call'[c].try > 0
    BY <2>5, <1>3 DEF PipeBreaks, PortLost, IInv, Phase
  <2>6. CASE \E c \in Call : Submit(c)
    BY <2>2, <2>3, <2>6, Ids
  <2>7. CASE \E c \in Call : PipeBreaks(c) \/ PortLost(c)
    BY <2>1, <2>2, <2>4, <2>5, <2>7
  <2>8. CASE \/ UNCHANGED vars \/ KernelWrites \/ Restart \/ \E c \in Call : Read(c) \/ Decline(c)
             \/ \E copy \in wire, heard \in BOOLEAN : Handle(copy, heard)
    BY <2>1, <2>8 DEF vars, KernelWrites, Restart, Read, Decline, Handle
  <2> QED
    BY <2>6, <2>7, <2>8 DEF Next
<1>5. /\ rev' \in Nat \ {0} /\ doc' \in Doc
      /\ log' \in Seq(Entry) /\ Len(log') = rev' /\ log'[rev'].doc = doc'
      /\ receipt' \in SUBSET [msg : Msg, result : Nat]
  BY LogKept
<1>6. wire' \in SUBSET (Call \X (1 .. MaxTry) \X (1 .. MaxForward))
  BY <1>4
<1>7. \A copy \in wire' : Sent(copy[1])'
  BY <1>4 DEF Sent
<1> QED
  BY <1>1, <1>2, <1>5, <1>6, <1>7 DEF Types

-----------------------------------------------------------------------------
(* Every call's course, request and answer *)

LEMMA PhaseStep ==
  ASSUME IInv, [Next]_vars, NEW c \in Call
  PROVE  Phase(c)'
<1>1. Types /\ Phase(c) /\ call[c] \in CallRow
  BY CallFields DEF IInv
<1> DEFINE r == call[c]
           s == call'[c]
<1>2. Rests(r, s) \/ Moves(c)
  BY CallSteps, RestsSame DEF CallStep
<1>3. rev' \in Nat /\ rev' >= rev /\ rev \in Nat \ {0} /\ \A i \in 1 .. rev : log'[i] = log[i]
  BY <1>1, LogKept DEF Types
<1>4. /\ s.told # Null <=> s.pc = "done"
      /\ s.pc \in {"idle", "read"} => ~(s.try > 0)
      /\ s.pc \in {"waiting", "done"} => s.try > 0
  <2>1. CASE Rests(r, s)
    BY <1>1, <2>1 DEF Rests, Phase, Sent
  <2>2. CASE Reads(r, s) \/ Sends(r, s)
    BY <1>1, <2>2 DEF Reads, Sends, Phase, Sent
  <2>3. CASE Answers(r, s)
    <3>1. s.told \in Answer
      BY <2>3 DEF Answers, GivesUp, Hears, Verdict, Answer, Refusal
    <3> QED
      BY <1>1, <2>3, <3>1, DocumentAssumption DEF Answers, Phase, Sent
  <2> QED
    BY <1>2, <2>1, <2>2, <2>3 DEF Moves
<1>5. s.pc = "read" => s.rev \in 1 .. rev' /\ s.doc = log'[s.rev].doc
  <2>1. CASE Rests(r, s)
    <3>1. s.pc = "read" => r.pc = "read" /\ s.rev = r.rev /\ s.doc = r.doc
      BY <2>1 DEF Rests
    <3>2. r.pc = "read" => r.rev \in 1 .. rev /\ r.doc = log[r.rev].doc
      BY <1>1 DEF Phase
    <3> QED
      BY <1>3, <3>1, <3>2
  <2>2. CASE Reads(r, s) /\ UNCHANGED kernelVars
    <3>1. s.rev = rev /\ s.doc = doc /\ rev' = rev /\ log' = log
      BY <2>2 DEF Reads, kernelVars
    <3> QED
      BY <1>1, <1>3, <3>1 DEF Types
  <2>3. CASE Sends(r, s) \/ Answers(r, s)
    BY <2>3 DEF Sends, Answers
  <2> QED
    BY <1>2, <2>1, <2>2, <2>3 DEF Moves
<1>6. s.pc = "waiting" => s.msg.seq = s.rev + 1
  <2>1. CASE Rests(r, s)
    BY <1>1, <2>1 DEF Rests, Phase
  <2>2. CASE Reads(r, s) \/ Answers(r, s)
    BY <2>2 DEF Reads, Answers
  <2>3. CASE Sends(r, s)
    BY <2>3 DEF Sends, Request
  <2> QED
    BY <1>2, <2>1, <2>2, <2>3 DEF Moves
<1> QED
  BY <1>4, <1>5, <1>6 DEF Phase, Sent

LEMMA AsksStep ==
  ASSUME IInv, [Next]_vars, NEW c \in Call
  PROVE  Asks(c)'
<1>1. Types /\ Phase(c) /\ Asks(c) /\ call[c] \in CallRow
  BY CallFields DEF IInv
<1> DEFINE r == call[c]
           s == call'[c]
<1>2. Rests(r, s) \/ Moves(c)
  BY CallSteps, RestsSame DEF CallStep
<1>3. rev' \in Nat /\ rev' >= rev /\ rev \in Nat \ {0} /\ \A i \in 1 .. rev : log'[i] = log[i]
  BY <1>1, LogKept DEF Types
<1>4. CASE Sends(r, s)
  <2>1. PICK e \in Edits(r.doc) : s.want = e.next /\ s.msg = Request(r, e)
    BY <1>4 DEF Sends
  <2>2. r.pc = "read"
    BY <1>4 DEF Sends
  <2>3. /\ IsEdit(r.doc, e) /\ Keeps(r.doc, e.next)
        /\ r.rev \in 1 .. rev /\ r.doc = log[r.rev].doc /\ r.doc \in Doc
    BY <2>2, ReadFacts
  <2>4. /\ Request(r, e) \in Msg /\ Request(r, e).seq = r.rev + 1 /\ Request(r, e).form = e.form
        /\ DOMAIN Request(r, e).body = e.at /\ \A i \in e.at : Request(r, e).body[i] = e.next[i]
        /\ Written(Request(r, e), r.doc) = e.next
    BY <1>1, <2>3, WrittenBack
  <2> DEFINE m == s.msg
  <2>5. m \in Msg /\ m.seq = r.rev + 1 /\ s.want = Written(m, r.doc) /\ Keeps(r.doc, s.want)
    BY <2>1, <2>3, <2>4
  <2>6. m.seq - 1 = r.rev /\ m.seq \in 2 .. rev' + 1
    BY <1>3, <2>3, <2>5
  <2>7. log'[r.rev].doc = r.doc
    BY <1>3, <2>3
  <2>8. m.form = "mutate" => \E a \in Attempt : DOMAIN m.body = {a} /\ m.body[a] = "closed"
    <3> SUFFICES ASSUME m.form = "mutate"
                 PROVE  \E a \in Attempt : DOMAIN m.body = {a} /\ m.body[a] = "closed"
      OBVIOUS
    <3>1. PICK a \in Attempt : e.at = {a} /\ e.next[a] = "closed"
      BY <2>1, <2>3, <2>4 DEF IsEdit
    <3> QED
      BY <2>1, <2>4, <3>1
  <2>9. s.want = Written(m, log'[m.seq - 1].doc) /\ Keeps(log'[m.seq - 1].doc, s.want)
    BY <2>5, <2>6, <2>7
  <2> QED
    BY <2>5, <2>6, <2>8, <2>9 DEF Asks, Written
<1>5. CASE s.msg = r.msg /\ s.want = r.want /\ (s.try > 0 <=> r.try > 0)
  <2> SUFFICES ASSUME s.try > 0
               PROVE  /\ s.msg \in Msg /\ s.msg.seq \in 2 .. rev' + 1
                      /\ s.want = Written(s.msg, log'[s.msg.seq - 1].doc)
                      /\ Keeps(log'[s.msg.seq - 1].doc, s.want)
                      /\ s.msg.form = "mutate" =>
                           \E a \in Attempt : DOMAIN s.msg.body = {a} /\ s.msg.body[a] = "closed"
    BY DEF Asks, Sent, Written
  <2> DEFINE m == r.msg
  <2>1. /\ m \in Msg /\ m.seq \in 2 .. rev + 1
        /\ r.want = Written(m, log[m.seq - 1].doc) /\ Keeps(log[m.seq - 1].doc, r.want)
        /\ m.form = "mutate" => \E a \in Attempt : DOMAIN m.body = {a} /\ m.body[a] = "closed"
    BY <1>1, <1>5 DEF Asks, Sent
  <2>2. m.seq - 1 \in 1 .. rev /\ m.seq \in 2 .. rev' + 1
    BY <1>3, <2>1
  <2>3. log'[m.seq - 1] = log[m.seq - 1]
    BY <1>3, <2>2
  <2> QED
    BY <1>5, <2>1, <2>2, <2>3
<1> QED
  BY <1>2, <1>4, <1>5 DEF Moves, Rests, Reads, Answers

\* A refused message can never be accepted: its place is taken, or was not free for it.
LEMMA RefusedForGood ==
  ASSUME IInv, [Next]_vars, NEW m \in Msg, m.seq <= rev + 1,
         \A x \in receipt : x.msg # m, m.seq <= rev \/ ~AdmissibleTo(doc, m)
  PROVE  (\A x \in receipt' : x.msg # m) /\ (m.seq <= rev' \/ ~AdmissibleTo(doc', m))
<1>1. rev \in Nat /\ m.seq \in Nat
  BY MsgFields DEF IInv, Types
<1>2. CASE UNCHANGED kernelVars
  BY <1>2 DEF kernelVars
<1>3. CASE \E by \in SUBSET Msg : Grows(by)
  <2>1. PICK by \in SUBSET Msg : Grows(by)
    BY <1>3
  <2>2. m.seq <= rev'
    BY <1>1, <2>1 DEF Grows
  <2>3. ASSUME NEW c \in Call, call[c].msg = m, Receipts(m) = {}, Verdict(m) = "ok", m.seq = rev + 1
        PROVE  FALSE
    <3>1. ~AdmissibleTo(doc, m)
      BY <1>1, <2>3
    <3>2. ~Admissible(m)
      BY <3>1 DEF AdmissibleTo, Admissible
    <3> QED
      BY <2>3, <3>2 DEF Verdict
  <2>4. \A x \in receipt' : x.msg # m
    BY <2>1, <2>3 DEF Grows
  <2> QED
    BY <2>2, <2>4
<1> QED
  BY <1>2, <1>3, KernelSteps

\* The verdict, and the receipts once it is given
LEMMA VerdictFacts ==
  ASSUME IInv, [Next]_vars, NEW m \in Msg, m.seq <= rev + 1, Handled(m)
  PROVE  /\ Verdict(m) = "ok" =>
              /\ \E x \in receipt' : x.msg = m
              /\ m.seq \in 2 .. rev' /\ m \in log'[m.seq].by
         /\ Verdict(m) \in Refusal =>
              /\ \A x \in receipt' : x.msg # m
              /\ m.seq <= rev' \/ ~AdmissibleTo(doc', m)
         /\ Verdict(m) \in {"revision", "sequence"} => m.seq <= rev /\ UNCHANGED kernelVars
<1>1. Types /\ Hist /\ rev \in Nat \ {0} /\ m.seq \in Nat
  BY MsgFields DEF IInv, Types
<1>2. ASSUME Verdict(m) = "ok"
      PROVE  (\E x \in receipt' : x.msg = m) /\ m.seq \in 2 .. rev' /\ m \in log'[m.seq].by
  <2>1. \E x \in receipt' : x.msg = m
    <3>1. CASE Receipts(m) = {}
      <4>1. [msg |-> m, result |-> rev + 1] \in receipt'
        BY <1>2, <3>1 DEF Handled
      <4> QED
        BY <4>1
    <3>2. CASE Receipts(m) # {}
      BY <3>2, LogKept DEF Receipts
    <3> QED
      BY <3>1, <3>2
  <2>2. Hist'
    BY HistStep
  <2> QED
    BY <2>1, <2>2 DEF Hist
<1>3. ASSUME Verdict(m) \in {"revision", "sequence"}
      PROVE  m.seq <= rev /\ UNCHANGED kernelVars
  <2>1. UNCHANGED kernelVars
    BY <1>3 DEF Handled
  <2>2. CASE Verdict(m) = "revision"
    <3>1. m.seq # rev + 1
      BY <2>2 DEF Verdict
    <3> QED
      BY <1>1, <2>1, <3>1
  <2>3. CASE Verdict(m) = "sequence"
    <3>1. Occupied(m)
      BY <2>3 DEF Verdict
    <3>2. PICK x \in receipt : x.msg.seq = m.seq
      BY <3>1 DEF Occupied
    <3>3. m.seq \in 2 .. rev
      BY <1>1, <3>2 DEF Hist
    <3> QED
      BY <1>1, <2>1, <3>3
  <2> QED
    BY <1>3, <2>2, <2>3
<1>4. ASSUME Verdict(m) \in Refusal
      PROVE  (\A x \in receipt' : x.msg # m) /\ (m.seq <= rev' \/ ~AdmissibleTo(doc', m))
  <2>1. \A x \in receipt : x.msg # m
    BY <1>4 DEF Verdict, Refusal, Receipts
  <2>2. m.seq <= rev \/ ~AdmissibleTo(doc, m)
    <3>1. CASE Verdict(m) \in {"revision", "sequence"}
      BY <1>3, <3>1
    <3>2. CASE Verdict(m) = "invalid"
      BY <3>2 DEF Verdict, AdmissibleTo, Admissible
    <3> QED
      BY <1>4, <3>1, <3>2 DEF Refusal
  <2> QED
    BY <2>1, <2>2, RefusedForGood
<1> QED
  BY <1>2, <1>3, <1>4

LEMMA ToldStep ==
  ASSUME IInv, [Next]_vars, NEW c \in Call
  PROVE  Told(c)'
<1>1. Types /\ Hist /\ Phase(c) /\ Asks(c) /\ Told(c) /\ call[c] \in CallRow
  BY CallFields DEF IInv
<1> DEFINE r == call[c]
           s == call'[c]
<1>2. Rests(r, s) \/ Moves(c)
  BY CallSteps, RestsSame DEF CallStep
<1>3. /\ rev' \in Nat \ {0} /\ rev' >= rev /\ rev \in Nat \ {0} /\ \A i \in 1 .. rev : log'[i] = log[i]
      /\ log'[rev'].doc = doc' /\ receipt \subseteq receipt'
  BY <1>1, LogKept DEF Types
<1>4. CASE Rests(r, s)
  <2>0. s.msg = r.msg /\ s.told = r.told /\ s.rev = r.rev /\ s.doc = r.doc
    BY <1>4 DEF Rests
  <2>1. ASSUME s.told = "ok"
        PROVE  /\ s.rev \in 1 .. rev' /\ log'[s.rev].doc = s.doc
               /\ \E x \in receipt' : x.msg = s.msg
    <3>1. r.rev \in 1 .. rev /\ log[r.rev].doc = r.doc /\ \E x \in receipt : x.msg = r.msg
      BY <1>1, <2>0, <2>1 DEF Told
    <3> QED
      BY <1>3, <2>0, <3>1
  <2>2. ASSUME s.told \in Refusal
        PROVE  /\ \A x \in receipt' : x.msg # s.msg
               /\ s.msg.seq <= rev' \/ ~AdmissibleTo(doc', s.msg)
    <3>1. Sent(c)
      BY <1>1, <2>0, <2>2, DocumentAssumption DEF Phase, Answer
    <3>2. r.msg \in Msg /\ r.msg.seq <= rev + 1
      BY <1>1, <1>3, <3>1 DEF Asks
    <3>3. /\ \A x \in receipt : x.msg # r.msg
          /\ r.msg.seq <= rev \/ ~AdmissibleTo(doc, r.msg)
      BY <1>1, <2>0, <2>2 DEF Told
    <3> QED
      BY <2>0, <3>2, <3>3, RefusedForGood
  <2> QED
    BY <2>1, <2>2 DEF Told
<1>5. CASE Answers(r, s)
  <2>1. s.msg = r.msg /\ s.want = r.want /\ r.pc = "waiting" /\ (GivesUp(r, s) \/ Hears(r, s))
    BY <1>5 DEF Answers
  <2>2. CASE GivesUp(r, s)
    <3>1. s.told # "ok" /\ s.told \notin Refusal
      BY <2>2 DEF GivesUp, Refusal
    <3> QED
      BY <3>1 DEF Told
  <2>3. CASE Hears(r, s)
    <3>1. Sent(c)
      BY <1>1, <2>1 DEF Phase
    <3>2. /\ r.msg \in Msg /\ r.msg.seq \in 2 .. rev + 1
          /\ r.want = Written(r.msg, log[r.msg.seq - 1].doc)
      BY <1>1, <3>1 DEF Asks
    <3>3. PICK n \in Msg : n = r.msg
      BY <3>2
    <3>4. n.seq <= rev + 1 /\ Handled(n) /\ s.told = Verdict(n)
      BY <1>3, <2>3, <3>2, <3>3 DEF Hears
    <3>5. s.told = "ok" =>
            (\E x \in receipt' : x.msg = n) /\ n.seq \in 2 .. rev' /\ n \in log'[n.seq].by
      BY <3>4, VerdictFacts
    <3>6. s.told \in Refusal =>
            (\A x \in receipt' : x.msg # n) /\ (n.seq <= rev' \/ ~AdmissibleTo(doc', n))
      BY <3>4, VerdictFacts
    <3>7. ASSUME s.told = "ok"
          PROVE  s.rev \in 1 .. rev' /\ log'[s.rev].doc = s.doc
      <4>1. CASE n.form = "replace"
        BY <1>3, <2>3, <3>3, <3>7, <4>1 DEF Hears
      <4>2. CASE n.form # "replace"
        <5>1. s.rev = n.seq /\ s.doc = r.want
          BY <2>3, <3>3, <3>7, <4>2 DEF Hears
        <5>2. n.seq \in 2 .. rev' /\ n \in log'[n.seq].by
          BY <3>5, <3>7
        <5>3. n.seq \in 1 .. rev'
          BY <1>3, <5>2
        <5>4. log'[n.seq].doc = Written(n, log'[n.seq - 1].doc)
          BY <5>2, <5>3, HistStep DEF Hist
        <5>5. n.seq - 1 \in 1 .. rev
          BY <1>3, <3>2, <3>3
        <5>6. log'[n.seq - 1] = log[n.seq - 1]
          BY <1>3, <5>5
        <5> QED
          BY <3>2, <3>3, <5>1, <5>3, <5>4, <5>6
      <4> QED
        BY <4>1, <4>2
    <3>8. s.msg = n
      BY <2>1, <3>3
    <3> QED
      BY <3>5, <3>6, <3>7, <3>8 DEF Told
  <2> QED
    BY <2>1, <2>2, <2>3
<1>6. CASE Reads(r, s) \/ Sends(r, s)
  <2>1. s.told = Null
    BY <1>1, <1>6 DEF Reads, Sends, Phase
  <2>2. s.told # "ok" /\ s.told \notin Refusal
    BY <2>1, DocumentAssumption DEF Answer
  <2> QED
    BY <2>2 DEF Told
<1> QED
  BY <1>2, <1>4, <1>5, <1>6 DEF Moves

-----------------------------------------------------------------------------
(* The lane *)

\* Of two calls at most one moves.
LEMMA TwoCalls ==
  ASSUME IInv, [Next]_vars, NEW c \in Call, NEW k \in Call, c # k
  PROVE  \/ Rests(call[c], call'[c]) /\ Rests(call[k], call'[k])
         \/ Moves(c) /\ call'[k] = call[k]
         \/ Moves(k) /\ call'[c] = call[c]
BY CallSteps, RestsSame DEF CallStep

LEMMA ExclusiveStep ==
  ASSUME IInv, [Next]_vars
  PROVE  Exclusive'
<1> SUFFICES ASSUME NEW c \in Lane, NEW k \in Lane, c # k,
                    call'[c].pc \in {"read", "waiting"}, call'[k].pc \in {"read", "waiting"}
             PROVE  FALSE
  BY DEF Exclusive, UnderWay
<1>1. c \in Call /\ k \in Call
  BY DEF Call
<1>2. ~(call[c].pc \in {"read", "waiting"} /\ call[k].pc \in {"read", "waiting"})
  BY DEF IInv, LaneInv, Exclusive, UnderWay
<1>3. ASSUME NEW x \in Lane, NEW y \in Lane, x # y, Moves(x), call'[y] = call[y],
             call'[x].pc \in {"read", "waiting"}, call'[y].pc \in {"read", "waiting"}
      PROVE  call[x].pc \in {"read", "waiting"} /\ call[y].pc \in {"read", "waiting"}
  BY <1>3 DEF Moves, Reads, Sends, Answers, LaneFree, UnderWay
<1>4. CASE Rests(call[c], call'[c]) /\ Rests(call[k], call'[k])
  BY <1>2, <1>4 DEF Rests
<1>5. CASE Moves(c) /\ call'[k] = call[k]
  BY <1>2, <1>3, <1>5
<1>6. CASE Moves(k) /\ call'[c] = call[c]
  BY <1>2, <1>3, <1>6
<1> QED
  BY <1>1, <1>4, <1>5, <1>6, TwoCalls

\* A call that is told "ok" was told so before, or was under way.
LEMMA ToldOkBefore ==
  ASSUME IInv, [Next]_vars, NEW k \in Call, call'[k].told = "ok"
  PROVE  /\ call'[k].msg = call[k].msg
         /\ \/ call[k].told = "ok"
            \/ call[k].pc = "waiting" /\ call'[k].pc = "done" /\ Answers(call[k], call'[k])
<1>1. Rests(call[k], call'[k]) \/ Moves(k)
  BY CallSteps, RestsSame DEF CallStep
<1>2. Phase(k)
  BY DEF IInv
<1>3. CASE Reads(call[k], call'[k]) \/ Sends(call[k], call'[k])
  BY <1>2, <1>3, DocumentAssumption DEF Reads, Sends, Phase, Answer
<1> QED
  BY <1>1, <1>3 DEF Moves, Rests, Answers

\* A message somebody was told is done does not enter the log again.
LEMMA DoneStaysOut ==
  ASSUME IInv, [Next]_vars, NEW k \in Call, call[k].told = "ok", NEW i \in rev + 1 .. rev'
  PROVE  call[k].msg \notin log'[i].by
<1>1. Types /\ Told(k)
  BY DEF IInv
<1>2. \E x \in receipt : x.msg = call[k].msg
  BY <1>1 DEF Told
<1>3. rev \in Nat /\ log \in Seq(Entry) /\ Len(log) = rev
  BY <1>1 DEF Types
<1>4. CASE UNCHANGED kernelVars
  BY <1>3, <1>4 DEF kernelVars
<1>5. CASE \E by \in SUBSET Msg : Grows(by)
  <2>1. PICK by \in SUBSET Msg : Grows(by)
    BY <1>5
  <2>2. i = rev + 1 /\ log' = Append(log, [by |-> by, doc |-> doc'])
    BY <1>3, <2>1 DEF Grows
  <2>3. log'[i].by = by
    BY <1>3, <2>2
  <2>4. call[k].msg \notin by
    BY <1>2, <2>1 DEF Grows, Receipts
  <2> QED
    BY <2>3, <2>4
<1> QED
  BY <1>4, <1>5, KernelSteps

LEMMA AloneStep ==
  ASSUME IInv, [Next]_vars, NEW c \in Lane
  PROVE  Alone(c)'
<1> SUFFICES ASSUME call'[c].pc \in {"read", "waiting"}, NEW k \in Lane, call'[k].told = "ok",
                    NEW i \in call'[c].rev + 1 .. rev'
             PROVE  call'[k].msg \notin log'[i].by
  BY DEF Alone, UnderWay
<1>1. Types /\ Exclusive /\ Alone(c) /\ c \in Call /\ k \in Call
  BY DEF IInv, LaneInv, Call
<1>2. /\ rev \in Nat /\ rev' \in Nat /\ rev' >= rev /\ \A j \in 1 .. rev : log'[j] = log[j]
      /\ call[c].rev \in Nat
  BY <1>1, LogKept, CallFields DEF Types
<1>3. Rests(call[c], call'[c]) \/ Moves(c)
  BY <1>1, CallSteps, RestsSame DEF CallStep
<1>4. CASE Reads(call[c], call'[c]) /\ UNCHANGED kernelVars
  <2>1. call'[c].rev = rev /\ rev' = rev
    BY <1>4 DEF Reads, kernelVars
  <2> QED
    BY <1>2, <2>1
<1>5. CASE call[c].pc \in {"read", "waiting"} /\ call'[c].rev = call[c].rev
  <2>1. call'[k].msg = call[k].msg /\ call[k].told = "ok"
    <3>1. ASSUME call[k].pc = "waiting", call'[k].pc = "done"
          PROVE  FALSE
      <4>1. k # c
        BY <3>1
      <4> QED
        BY <1>1, <1>5, <3>1, <4>1 DEF Exclusive, UnderWay
    <3> QED
      BY <1>1, <3>1, ToldOkBefore
  <2>2. CASE i <= rev
    <3>1. i \in call[c].rev + 1 .. rev /\ i \in 1 .. rev
      BY <1>2, <1>5, <2>2
    <3>2. call[k].msg \notin log[i].by
      BY <1>1, <1>5, <2>1, <3>1 DEF Alone, UnderWay
    <3> QED
      BY <1>2, <2>1, <3>1, <3>2
  <2>3. CASE i > rev
    <3>1. i \in rev + 1 .. rev'
      BY <1>2, <1>5, <2>3
    <3> QED
      BY <1>1, <2>1, <3>1, DoneStaysOut
  <2> QED
    BY <1>2, <1>5, <2>2, <2>3
<1> QED
  BY <1>3, <1>4, <1>5 DEF Moves, Rests, Sends, Answers

LEMMA OvertakenStep ==
  ASSUME IInv, [Next]_vars, NEW c \in Lane
  PROVE  Overtaken(c)'
<1>1. Types /\ Hist /\ Exclusive /\ Alone(c) /\ Overtaken(c) /\ c \in Call /\ Phase(c) /\ Asks(c)
  BY DEF IInv, LaneInv, Call
<1>2. /\ rev \in Nat /\ rev' \in Nat /\ rev' >= rev /\ \A j \in 1 .. rev : log'[j] = log[j]
  BY <1>1, LogKept DEF Types
<1>3. Rests(call[c], call'[c]) \/ Moves(c)
  BY <1>1, CallSteps, RestsSame DEF CallStep
<1> SUFFICES ASSUME call'[c].told \in {"revision", "sequence"}
             PROVE  /\ call'[c].msg.seq <= rev'
                    /\ \A k \in Lane :
                         /\ call'[k].pc \in {"read", "waiting"} => call'[k].rev >= call'[c].msg.seq
                         /\ call'[k].told = "ok" => call'[k].msg \notin log'[call'[c].msg.seq].by
  BY DEF Overtaken, UnderWay
<1>4. CASE Rests(call[c], call'[c])
  <2> DEFINE n == call[c].msg.seq
  <2>1. call[c].told \in {"revision", "sequence"} /\ call'[c].msg = call[c].msg
    BY <1>4 DEF Rests
  <2>2. Sent(c)
    BY <1>1, <2>1, DocumentAssumption DEF Phase, Answer, Refusal
  <2>3. /\ n <= rev /\ n \in 2 .. rev + 1
        /\ \A k \in Lane : /\ call[k].pc \in {"read", "waiting"} => call[k].rev >= n
                           /\ call[k].told = "ok" => call[k].msg \notin log[n].by
    BY <1>1, <2>1, <2>2 DEF Overtaken, UnderWay, Asks
  <2>4. n \in 1 .. rev /\ n <= rev' /\ log'[n] = log[n]
    BY <1>2, <2>3
  <2>5. ASSUME NEW k \in Lane, call'[k].pc \in {"read", "waiting"}
        PROVE  call'[k].rev >= n
    <3>1. Rests(call[k], call'[k]) \/ Moves(k)
      BY CallSteps, RestsSame DEF CallStep, Call
    <3> QED
      BY <2>3, <2>5, <3>1 DEF Rests, Moves, Reads, Sends, Answers
  <2>6. ASSUME NEW k \in Lane, call'[k].told = "ok"
        PROVE  call'[k].msg \notin log[n].by
    <3>1. k \in Call /\ Phase(k) /\ call[k].rev \in Nat
      BY <1>1, CallFields DEF Call, IInv
    <3>2. call'[k].msg = call[k].msg /\ (call[k].told = "ok" \/ call[k].pc = "waiting")
      BY <2>6, <3>1, ToldOkBefore
    <3>3. CASE call[k].told = "ok"
      BY <2>3, <3>2, <3>3
    <3>4. CASE call[k].pc = "waiting"
      <4>1. call[k].msg.seq = call[k].rev + 1 /\ call[k].rev >= n
        BY <2>3, <3>1, <3>4 DEF Phase
      <4>2. call[k].msg.seq # n
        BY <2>3, <3>1, <4>1
      <4> QED
        BY <1>1, <2>4, <3>2, <4>2 DEF Hist
    <3> QED
      BY <3>2, <3>3, <3>4
  <2> QED
    BY <2>1, <2>4, <2>5, <2>6
<1>5. CASE Answers(call[c], call'[c])
  <2>1. /\ Hears(call[c], call'[c]) /\ call[c].pc = "waiting" /\ call'[c].pc = "done"
        /\ call'[c].msg = call[c].msg
    BY <1>5 DEF Answers, GivesUp
  <2>2. Sent(c)
    BY <1>1, <2>1 DEF Phase
  <2>3. PICK m \in Msg : m = call[c].msg
    BY <1>1, <2>2 DEF Asks
  <2>4. m.seq \in 2 .. rev + 1 /\ m.seq = call[c].rev + 1 /\ call[c].rev \in Nat
    BY <1>1, <2>1, <2>2, <2>3, CallFields DEF Asks, Phase
  <2>5. Handled(m) /\ Verdict(m) \in {"revision", "sequence"} /\ m.seq <= rev + 1
    BY <1>2, <2>1, <2>3, <2>4 DEF Hears
  <2>6. m.seq <= rev /\ UNCHANGED kernelVars
    BY <2>5, VerdictFacts
  <2>7. m.seq \in call[c].rev + 1 .. rev
    BY <1>2, <2>4, <2>6
  <2>8. \A k \in Lane : call[k].told = "ok" => call[k].msg \notin log[m.seq].by
    BY <1>1, <2>1, <2>7 DEF Alone, UnderWay
  <2>9. ASSUME NEW k \in Lane
        PROVE  /\ call'[k].pc \in {"read", "waiting"} => call'[k].rev >= m.seq
               /\ call'[k].told = "ok" => call'[k].msg \notin log'[m.seq].by
    <3>1. CASE k = c
      BY <2>1, <3>1
    <3>2. CASE k # c
      <4>1. k \in Call
        BY DEF Call
      <4>2. ~Rests(call[c], call'[c])
        BY <2>1 DEF Rests
      <4>3. call'[c] # call[c]
        BY <2>1
      <4>4. call'[k] = call[k]
        BY <1>1, <3>2, <4>1, <4>2, <4>3, TwoCalls
      <4>5. ~(call[k].pc \in {"read", "waiting"})
        BY <1>1, <2>1, <3>2 DEF Exclusive, UnderWay
      <4>6. log' = log
        BY <2>6 DEF kernelVars
      <4> QED
        BY <2>8, <4>4, <4>5, <4>6
    <3> QED
      BY <3>1, <3>2
  <2>10. m.seq <= rev'
    BY <1>2, <2>4, <2>6
  <2> QED
    BY <2>1, <2>3, <2>9, <2>10
<1>6. CASE Reads(call[c], call'[c]) \/ Sends(call[c], call'[c])
  <2>1. call'[c].told = Null
    BY <1>1, <1>6 DEF Reads, Sends, Phase
  <2> QED
    BY <2>1, DocumentAssumption DEF Answer, Refusal
<1> QED
  BY <1>3, <1>4, <1>5, <1>6 DEF Moves

-----------------------------------------------------------------------------
(* The invariant holds *)

LEMMA InitInv == Init => IInv
<1> SUFFICES ASSUME Init PROVE IInv
  OBVIOUS
<1>1. PICK d \in Start : doc = d /\ log = <<[by |-> {}, doc |-> d]>>
  BY DEF Init
<1>2. d \in Doc /\ Linked(d)
  BY ImportsAreDocs, StartAssumption
<1>3. rev = 1 /\ receipt = {} /\ gen = 1 /\ wire = {} /\ call = [c \in Call |-> NoCall]
  BY DEF Init
<1>4. Absent \in Doc
  <2>1. Absent = [i \in Id |-> Absent[i]] /\ \A i \in Id : Absent[i] = Null
    BY DEF Absent
  <2> QED
    BY <2>1, Ids, DocByRows
<1>5. NoCall \in CallRow
  BY <1>4, Ids DEF NoCall, CallRow
<1>6. \A c \in Call : /\ call[c].pc = "idle" /\ call[c].try = 0 /\ call[c].told = Null
  BY <1>3 DEF NoCall
<1>7. [by |-> {}, doc |-> d] \in Entry
  BY <1>2 DEF Entry
<1>8. log \in Seq(Entry) /\ Len(log) = 1 /\ log[1] = [by |-> {}, doc |-> d]
  BY <1>1, <1>7
<1>9. Types
  BY <1>1, <1>2, <1>3, <1>5, <1>8, Ids DEF Types
<1>10. Hist
  BY <1>2, <1>3, <1>8 DEF Hist
<1>11. \A c \in Call : Phase(c) /\ Asks(c) /\ Told(c)
  BY <1>6, DocumentAssumption DEF Phase, Asks, Told, Sent, Answer, Refusal
<1>12. LaneInv
  BY <1>6, DocumentAssumption DEF LaneInv, Exclusive, Alone, Overtaken, UnderWay, Call, Answer, Refusal
<1> QED
  BY <1>9, <1>10, <1>11, <1>12 DEF IInv

LEMMA StepInv == IInv /\ [Next]_vars => IInv'
<1> SUFFICES ASSUME IInv, [Next]_vars PROVE IInv'
  OBVIOUS
<1>1. Types' /\ Hist'
  BY TypesStep, HistStep
<1>2. \A c \in Call : Phase(c)' /\ Asks(c)' /\ Told(c)'
  BY PhaseStep, AsksStep, ToldStep
<1>3. LaneInv'
  BY ExclusiveStep, AloneStep, OvertakenStep DEF LaneInv
<1> QED
  BY <1>1, <1>2, <1>3 DEF IInv

LEMMA Inductive == Spec => []IInv
BY InitInv, StepInv, PTL DEF Spec

\* Documents, requests and receipts keep their form, every revision has its log entry, and
\* a receipt is for the revision its message asked for.
THEOREM TypesCorrect == Spec => []TypeOK
<1>1. IInv => TypeOK
  <2> SUFFICES ASSUME IInv PROVE TypeOK
    OBVIOUS
  <2>1. Types /\ Hist /\ \A c \in Call : Phase(c) /\ Asks(c)
    BY DEF IInv
  <2>2. \A m \in Msg : IsMessage(m)
    BY MsgFields DEF IsMessage
  <2>3. \A d \in Doc : IsDocument(d)
    BY DEF Doc
  <2>4. \A r \in receipt : IsMessage(r.msg) /\ r.result = r.msg.seq /\ r.result <= rev
    <3> SUFFICES ASSUME NEW r \in receipt
                 PROVE  IsMessage(r.msg) /\ r.result = r.msg.seq /\ r.result <= rev
      OBVIOUS
    <3>1. r.msg \in Msg
      BY <2>1, ReceiptFields
    <3>2. r.result = r.msg.seq /\ r.msg.seq \in 2 .. rev
      BY <2>1 DEF Hist
    <3> QED
      BY <2>1, <2>2, <3>1, <3>2 DEF Types
  <2>5. ASSUME NEW c \in Call
        PROVE  /\ call[c].pc \in {"idle", "read", "waiting", "done", "gone"}
               /\ call[c].told \in Answer \cup {Null}
               /\ call[c].told # Null <=> call[c].pc = "done"
               /\ Sent(c) => IsMessage(call[c].msg) /\ call[c].msg.seq <= rev + 1
               /\ IsDocument(call[c].doc) /\ IsDocument(call[c].want)
    <3>1. Sent(c) => IsMessage(call[c].msg) /\ call[c].msg.seq <= rev + 1
      BY <2>1, <2>2 DEF Asks, Types
    <3> QED
      BY <2>1, <2>3, <3>1, CallFields DEF Phase
  <2> QED
    BY <2>1, <2>3, <2>4, <2>5 DEF Types, TypeOK
<1> QED
  BY <1>1, Inductive, PTL

\* Nobody, however late or often a request is delivered, leaves an attempt of a task or
\* message that is not there, or a list that names another's attempts.
THEOREM AlwaysLinked == Spec => []AttemptsAreLinked
<1>1. IInv => AttemptsAreLinked
  BY DEF IInv, Hist, Types, AttemptsAreLinked
<1> QED
  BY <1>1, Inductive, PTL

\* Who is told "ok" goes on with the document as it was at the revision they go on with.
THEOREM AnswersAreTrue == Spec => []AnswersNameTheirVersion
<1>1. IInv => AnswersNameTheirVersion
  BY DEF IInv, Told, AnswersNameTheirVersion
<1> QED
  BY <1>1, Inductive, PTL

\* A write of the lane that is refused for its revision was not overtaken by one of the
\* lane whose answer was heard.
THEOREM LaneIsAlone == Spec => []LaneRunsIntoOthersOnly
<1>1. IInv => LaneRunsIntoOthersOnly
  <2> SUFFICES ASSUME IInv, NEW c \in Lane, call[c].told \in {"revision", "sequence"}
               PROVE  \E i \in call[c].msg.seq .. Len(log) :
                        \A k \in Lane : call[k].msg \in log[i].by => call[k].told # "ok"
    BY DEF LaneRunsIntoOthersOnly
  <2> DEFINE n == call[c].msg.seq
  <2>1. Types /\ Overtaken(c) /\ Phase(c) /\ Asks(c)
    BY DEF IInv, LaneInv, Call
  <2>2. Sent(c)
    BY <2>1, DocumentAssumption DEF Phase, Answer, Refusal
  <2>3. n \in Nat /\ n <= rev /\ \A k \in Lane : call[k].told = "ok" => call[k].msg \notin log[n].by
    BY <2>1, <2>2 DEF Overtaken, Asks, Types
  <2>4. n \in n .. Len(log)
    BY <2>1, <2>3 DEF Types
  <2> QED
    BY <2>3, <2>4
<1> QED
  BY <1>1, Inductive, PTL

\* A completion the Kernel recorded is not undone by a write of the extension, unless it
\* imports another document.
THEOREM CompletionsAreKept == Spec => CompletionIsKept
<1>1. IInv /\ [Next]_vars =>
        [\A t \in Task : doc[t] # Null /\ doc[t].done
           => (doc'[t] # Null /\ doc'[t].done) \/ doc' \in Imports]_vars
  BY LogKept DEF Keeps
<1> QED
  BY <1>1, Inductive, PTL DEF Spec, CompletionIsKept

\* An attempt made for a task or a message is never dropped, unless another document is
\* imported.
THEOREM AttemptsAreKept == Spec => LinkedAttemptsAreKept
<1>1. IInv /\ [Next]_vars =>
        [\A a \in Attempt : Of[a] # Null /\ doc[a] # Null => doc'[a] # Null \/ doc' \in Imports]_vars
  BY LogKept DEF Keeps
<1> QED
  BY <1>1, Inductive, PTL DEF Spec, LinkedAttemptsAreKept

-----------------------------------------------------------------------------
(* The log of versions *)

Asked == [c \in Call |-> IF ~Sent(c) THEN {} ELSE
            {[id |-> call[c].msg, base |-> call[c].msg.seq - 1, want |-> call[c].want]}]
HeardAs(told) == CASE told = Null -> "nothing"
                   [] told = "ok" -> "done"
                   [] told \in Refusal -> "refused"
                   [] told \in {"error", "unavailable"} -> "unknown"
Heard == [c \in Call |-> HeardAs(call[c].told)]

LEMMA HeardOf ==
  ASSUME NEW told \in Answer \cup {Null}
  PROVE  HeardAs(told) = IF told = Null THEN "nothing" ELSE IF told = "ok" THEN "done"
                         ELSE IF told \in Refusal THEN "refused" ELSE "unknown"
BY DocumentAssumption DEF HeardAs, Answer, Refusal

LEMMA HeardRows ==
  ASSUME Types, NEW c \in Call
  PROVE  Heard[c] = IF call[c].told = Null THEN "nothing" ELSE IF call[c].told = "ok" THEN "done"
                    ELSE IF call[c].told \in Refusal THEN "refused" ELSE "unknown"
BY CallFields, HeardOf DEF Heard

\* The request of a call that the Kernel accepts enters the log.
LEMMA LogRefined ==
  ASSUME IInv, [Next]_vars
  PROVE  \/ \E c \in Call : \E q \in Asked[c] : Commits!Enter(q)
         \/ Commits!OwnWrite
         \/ UNCHANGED log
<1>1. Types /\ Hist /\ \A k \in Call : Told(k)
  BY DEF IInv
<1>2. CASE UNCHANGED kernelVars
  BY <1>2 DEF kernelVars
<1>3. CASE \E by \in SUBSET Msg : Grows(by)
  <2>1. PICK by \in SUBSET Msg : Grows(by)
    BY <1>3
  <2>2. /\ log \in Seq(Entry) /\ Len(log) = rev /\ rev \in Nat
        /\ log' = Append(log, [by |-> by, doc |-> doc'])
    BY <1>1, <2>1 DEF Types, Grows
  <2>3. Len(log') = Len(log) + 1 /\ log'[Len(log')] = [by |-> by, doc |-> doc']
    BY <2>2
  <2>4. CASE by = {}
    BY <2>2, <2>3, <2>4 DEF Commits!OwnWrite
  <2>5. CASE by # {}
    <3>1. PICK c \in Call : /\ Sent(c) /\ by = {call[c].msg} /\ Verdict(call[c].msg) = "ok"
                            /\ Receipts(call[c].msg) = {} /\ call[c].msg.seq = rev + 1
                            /\ doc' = call[c].want
      BY <2>1, <2>5 DEF Grows
    <3> DEFINE q == [id |-> call[c].msg, base |-> call[c].msg.seq - 1, want |-> call[c].want]
    <3>2. q \in Asked[c] /\ q.id = call[c].msg /\ q.base = call[c].msg.seq - 1 /\ q.want = call[c].want
      BY <3>1 DEF Asked
    <3>3. q.base = Len(log)
      BY <2>2, <3>1, <3>2
    <3>4. ~Commits!InLog(q.id, log)
      <4>1. \A i \in 1 .. rev : call[c].msg \notin log[i].by
        <5> SUFFICES ASSUME NEW i \in 1 .. rev, call[c].msg \in log[i].by PROVE FALSE
          OBVIOUS
        <5>1. [msg |-> call[c].msg, result |-> i] \in receipt
          BY <1>1 DEF Hist
        <5> QED
          BY <3>1, <5>1 DEF Receipts
      <4> QED
        BY <2>2, <3>2, <4>1 DEF Commits!InLog
    <3>5. ASSUME NEW k \in Call, q \in Asked[k]
          PROVE  Heard[k] # "refused"
      <4>1. call[k].msg = call[c].msg
        BY <3>2, <3>5 DEF Asked
      <4>2. ASSUME call[k].told \in Refusal
            PROVE  FALSE
        <5>1. ~AdmissibleTo(doc, call[c].msg)
          BY <1>1, <2>2, <3>1, <4>1, <4>2 DEF Told
        <5>2. Admissible(call[c].msg)
          BY <3>1 DEF Verdict
        <5> QED
          BY <5>1, <5>2 DEF AdmissibleTo, Admissible
      <4> QED
        BY <1>1, <4>2, HeardRows
    <3>6. log' = Append(log, [by |-> {q.id}, doc |-> q.want])
      BY <2>2, <3>1, <3>2
    <3>7. Commits!Enter(q)
      BY <3>3, <3>4, <3>5, <3>6 DEF Commits!Enter, Asked, Heard, HeardAs
    <3> QED
      BY <3>2, <3>7
  <2> QED
    BY <2>4, <2>5
<1> QED
  BY <1>2, <1>3, KernelSteps

LEMMA AskRefined ==
  ASSUME IInv, [Next]_vars, NEW c \in Call, Sends(call[c], call'[c]), UNCHANGED kernelVars,
         \A k \in Call \ {c} : call'[k] = call[k]
  PROVE  Commits!Ask
<1>1. Types /\ Phase(c) /\ call[c].pc = "read" /\ call'[c].pc = "waiting" /\ call'[c].try = 1
  BY DEF IInv, Sends
<1>2. Asks(c)' /\ call[c].try = 0
  BY <1>1, AsksStep, CallFields DEF Phase, Sent
<1> DEFINE q == [id |-> call'[c].msg, base |-> call'[c].msg.seq - 1, want |-> call'[c].want]
<1>3. Asked[c] = {} /\ Asked'[c] = {q}
  BY <1>1, <1>2 DEF Asked, Sent
<1>4. rev' = rev /\ log' = log /\ Len(log) = rev /\ rev \in Nat
  BY <1>1 DEF kernelVars, Types
<1>5. call'[c].msg.seq \in 2 .. rev' + 1
  BY <1>1, <1>2 DEF Asks, Sent
<1>6. q.base \in 1 .. Len(log)
  BY <1>4, <1>5
<1>7. \A k \in Call \ {c} : Asked'[k] = Asked[k]
  BY DEF Asked, Sent
<1>8. \A k \in Call : Heard'[k] = Heard[k]
  BY DEF Sends, Heard
<1>9. /\ Asked = [k \in Call |-> Asked[k]] /\ Asked' = [k \in Call |-> Asked'[k]]
      /\ Heard = [k \in Call |-> Heard[k]] /\ Heard' = [k \in Call |-> Heard'[k]]
  BY DEF Asked, Heard
<1>10. Asked' = [Asked EXCEPT ![c] = {q}]
  BY <1>3, <1>7, <1>9
<1>11. Heard' = Heard
  BY <1>8, <1>9
<1> HIDE DEF q
<1> QED
  BY <1>3, <1>4, <1>6, <1>10, <1>11 DEF Commits!Ask, Asked, Heard, HeardAs

LEMMA TellRefined ==
  ASSUME IInv, [Next]_vars, NEW c \in Call, Answers(call[c], call'[c]),
         \A k \in Call \ {c} : call'[k] = call[k]
  PROVE  Commits!Tell /\ Asked' = Asked
<1> DEFINE s == call'[c]
           q == [id |-> call[c].msg, base |-> call[c].msg.seq - 1, want |-> call[c].want]
<1>1. /\ Types /\ Phase(c) /\ Asks(c) /\ call[c].pc = "waiting"
      /\ s.msg = call[c].msg /\ s.want = call[c].want /\ s.try = call[c].try
      /\ GivesUp(call[c], s) \/ Hears(call[c], s)
  BY DEF IInv, Answers
<1>2. Sent(c) /\ call[c].told = Null
  BY <1>1 DEF Phase
<1>3. Asked[c] = {q} /\ q.id = call[c].msg
  BY <1>2 DEF Asked
<1>4. PICK m \in Msg : m = call[c].msg
  BY <1>1, <1>2 DEF Asks
<1>5. m.seq <= rev + 1
  BY <1>1, <1>2, <1>4 DEF Asks, Types
<1>6. Hist' /\ log' \in Seq(Entry) /\ Len(log') = rev' /\ rev' \in Nat
  BY HistStep, LogKept
<1>7. s.told = "ok" => Commits!InLog(m, log')
  <2> SUFFICES ASSUME s.told = "ok" PROVE Commits!InLog(m, log')
    OBVIOUS
  <2>1. Handled(m) /\ Verdict(m) = "ok"
    BY <1>1, <1>4 DEF GivesUp, Hears
  <2>2. m.seq \in 2 .. rev' /\ m \in log'[m.seq].by
    BY <1>5, <2>1, VerdictFacts
  <2>3. m.seq \in 1 .. Len(log')
    BY <1>6, <2>2
  <2> QED
    BY <2>2, <2>3 DEF Commits!InLog
<1>8. s.told \in Refusal => ~Commits!InLog(m, log')
  <2> SUFFICES ASSUME s.told \in Refusal, NEW i \in 1 .. rev', m \in log'[i].by PROVE FALSE
    BY <1>6 DEF Commits!InLog
  <2>1. Handled(m) /\ Verdict(m) \in Refusal
    BY <1>1, <1>4 DEF GivesUp, Hears, Refusal
  <2>2. \A x \in receipt' : x.msg # m
    BY <1>5, <2>1, VerdictFacts
  <2>3. [msg |-> m, result |-> i] \in receipt'
    BY <1>6 DEF Hist
  <2> QED
    BY <2>2, <2>3
<1>9. s.told \in Answer
  BY <1>1 DEF GivesUp, Hears, Verdict, Answer, Refusal
<1>10. Heard[c] = "nothing"
  BY <1>1, <1>2, HeardRows
<1>11. Heard'[c] = IF s.told = "ok" THEN "done" ELSE IF s.told \in Refusal THEN "refused" ELSE "unknown"
  <2>1. s.told # Null
    BY <1>9, DocumentAssumption
  <2>2. Heard'[c] = HeardAs(s.told)
    BY DEF Heard
  <2> QED
    BY <1>9, <2>1, <2>2, HeardOf
<1>12. \A k \in Call \ {c} : Heard'[k] = Heard[k]
  BY DEF Heard
<1>13. Heard = [k \in Call |-> Heard[k]] /\ Heard' = [k \in Call |-> Heard'[k]]
  BY DEF Heard
<1>14. PICK verdict \in {"done", "refused", "unknown"} : verdict = Heard'[c]
  BY <1>11
<1>15. /\ verdict = "done" => Commits!InLog(q.id, log')
       /\ verdict = "refused" => ~Commits!InLog(q.id, log')
  BY <1>3, <1>4, <1>7, <1>8, <1>11, <1>14
<1>16. Heard' = [Heard EXCEPT ![c] = verdict]
  BY <1>12, <1>13, <1>14
<1>17. q \in Asked[c]
  BY <1>3
<1>18. Asked' = Asked
  <2>1. \A k \in Call : Asked'[k] = Asked[k]
    BY <1>1 DEF Asked, Sent
  <2>2. Asked = [k \in Call |-> Asked[k]] /\ Asked' = [k \in Call |-> Asked'[k]]
    BY DEF Asked
  <2> QED
    BY <2>1, <2>2
<1> HIDE DEF q
<1>19. Commits!Tell
  BY <1>10, <1>15, <1>16, <1>17 DEF Commits!Tell, Asked, Heard, HeardAs
<1> QED
  BY <1>18, <1>19

\* A step in which nobody asks or is told anything
LEMMA QuietRefined ==
  ASSUME IInv, [Next]_vars,
         \A c \in Call : /\ call'[c].msg = call[c].msg /\ call'[c].want = call[c].want
                         /\ call'[c].try > 0 <=> call[c].try > 0
                         /\ call'[c].told = call[c].told
  PROVE  Asked' = Asked /\ Heard' = Heard
<1>1. \A c \in Call : Asked'[c] = Asked[c] /\ Heard'[c] = Heard[c]
  BY DEF Asked, Heard, Sent
<1>2. /\ Asked = [k \in Call |-> Asked[k]] /\ Asked' = [k \in Call |-> Asked'[k]]
      /\ Heard = [k \in Call |-> Heard[k]] /\ Heard' = [k \in Call |-> Heard'[k]]
  BY DEF Asked, Heard
<1> QED
  BY <1>1, <1>2

\* The document, and what callers are told of it, implement the log of versions: whatever
\* is lost, repeated or late, a request enters at most once, directly after the version it
\* was written against, and answers are true of it and stay so.
THEOREM CommitsAreLogged == Spec => ImplementsCommitLog
<1>1. Init => Commits!CInit
  <2> SUFFICES ASSUME Init PROVE Commits!CInit
    OBVIOUS
  <2>1. Len(log) = 1 /\ log[1].by = {}
    BY DEF Init
  <2>2. \A c \in Call : call[c].try = 0 /\ call[c].told = Null
    BY DEF Init, NoCall
  <2>3. Asked = [c \in Call |-> {}]
    BY <2>2 DEF Asked, Sent
  <2>4. Heard = [c \in Call |-> "nothing"]
    <3>1. HeardAs(Null) = "nothing"
      BY HeardOf
    <3> QED
      BY <2>2, <3>1 DEF Heard
  <2> QED
    BY <2>1, <2>3, <2>4 DEF Commits!CInit, Asked, Heard, HeardAs
<1>2. IInv /\ [Next]_vars => [Commits!CNext]_(Commits!cvars)
  <2> SUFFICES ASSUME IInv, [Next]_vars PROVE [Commits!CNext]_(Commits!cvars)
    OBVIOUS
  <2>1. CASE Asked' = Asked /\ Heard' = Heard
    BY <2>1, LogRefined DEF Commits!CNext, Commits!Write, Commits!cvars, Asked, Heard, HeardAs
  <2>2. CASE \E c \in Call : /\ Sends(call[c], call'[c]) /\ UNCHANGED kernelVars
                            /\ \A k \in Call \ {c} : call'[k] = call[k]
    BY <2>2, AskRefined DEF Commits!CNext
  <2>3. CASE \E c \in Call : Answers(call[c], call'[c]) /\ \A k \in Call \ {c} : call'[k] = call[k]
    BY <2>3, TellRefined, LogRefined DEF Commits!CNext, Commits!Write, Asked, Heard, HeardAs
  <2>4. CASE \/ \A k \in Call : Rests(call[k], call'[k])
             \/ \E c \in Call : Reads(call[c], call'[c]) /\ \A k \in Call \ {c} : call'[k] = call[k]
    BY <2>1, <2>4, QuietRefined DEF Rests, Reads
  <2> QED
    BY <2>2, <2>3, <2>4, CallSteps DEF CallStep, Moves
<1> QED
  BY <1>1, <1>2, Inductive, PTL DEF Spec, ImplementsCommitLog, Commits!CSpec

-----------------------------------------------------------------------------
(***************************************************************************)
(* FleetTabs: the Kernel's rows and the extension's pages.                 *)
(***************************************************************************)

\* What a pass knows at each of its steps: the slot it is at, what it is to do there, and, once
\* it has begun to close a page, that the Kernel has that page as closing.
PassShape ==
  /\ pass.at \notin {"idle", "look", "next"} => pass.slot \in Slot
  /\ \A s \in Slot : /\ pass.todo[s].kind \in {"close", "report-open"} => pass.todo[s].page # 0
                     /\ pass.saw[s].chat \in {0, kernel[s].chat}
  /\ pass.at \in {"record", "bind", "opening"} => My.kind = "open" /\ My.page # 0
  /\ pass.at \in {"adopt", "report"} => My.kind = "report-open"
  /\ pass.at \in {"unbind", "remove", "forget"} =>
       My.kind = "close" /\ kernel[Mine].page = My.page /\ kernel[Mine].browser = "closing"

\* The inductive invariant.
TabsInv == TabsTypeOK /\ PagesAreOfOneSlot /\ PassShape

PassRow == [at : Steps, saw : [Slot -> KernelRow], todo : [Slot -> Deed], slot : Slot \cup {Nobody}]

\* The pages a slot is found to have are pages that are shown.
LEMMA PagesAreListed ==
  ASSUME NEW row, NEW s
  PROVE  PageOf(row, s) \subseteq Listed /\ Listed \subseteq PageId
BY DEF PageOf, Owned, Bound, Listed

\* The plan of a slot.
LEMMA DeedTyped ==
  ASSUME FleetTabsConstants, TabsTypeOK, NEW s \in Slot, NEW row \in KernelRow
  PROVE  DeedFor(row, s) \in Deed /\ (DeedFor(row, s).kind \in {"close", "report-open"} => DeedFor(row, s).page # 0)
<1> DEFINE P == PageOf(row, s)
           p == CHOOSE q \in P : TRUE
<1>1. P # {} => p \in PageId
  BY PagesAreListed
<1>2. \A q \in PageId : q \in 0 .. MaxPages /\ q # 0 /\ page[q] \in PageRow
  <2>1. \A q \in PageId : q \in 0 .. MaxPages /\ q # 0
    BY DEF PageId, FleetTabsConstants
  <2>. QED BY <2>1 DEF TabsTypeOK
<1>3. 0 \in 0 .. MaxPages /\ row.chat \in 0 .. MaxPages
  BY DEF KernelRow, FleetTabsConstants
<1>4. NoDeed \in Deed /\ NoDeed.kind = "none"
  BY <1>3 DEF NoDeed, Deed
<1>5. CASE P # {}
  <2>1. p \in 0 .. MaxPages /\ p # 0 /\ page[p].chat \in 0 .. MaxPages
    BY <1>1, <1>2, <1>5 DEF PageRow
  <2>2. CASE row.want = "active"
    <3>1. DeedFor(row, s) = [kind |-> "report-open", page |-> p, chat |-> page[p].chat, adopt |-> BindingOf(p) # s]
      BY <1>5, <2>2 DEF DeedFor
    <3>. QED BY <2>1, <3>1 DEF Deed
  <2>3. CASE row.want # "active" /\ ~page[p].busy
    <3>1. DeedFor(row, s) = [NoDeed EXCEPT !.kind = "close", !.page = p]
      BY <1>5, <2>3 DEF DeedFor
    <3>. QED BY <1>3, <2>1, <3>1 DEF Deed, NoDeed
  <2>4. CASE row.want # "active" /\ page[p].busy
    <3>1. DeedFor(row, s) = NoDeed
      BY <1>5, <2>4 DEF DeedFor
    <3>. QED BY <1>4, <3>1
  <2>. QED BY <2>2, <2>3, <2>4
<1>6. CASE P = {}
  <2>1. DeedFor(row, s) \in {NoDeed, [NoDeed EXCEPT !.kind = "report-absent"],
                             [NoDeed EXCEPT !.kind = "open", !.chat = row.chat]}
    BY <1>6 DEF DeedFor
  <2>2. ASSUME DeedFor(row, s) = [NoDeed EXCEPT !.kind = "report-absent"]
        PROVE  DeedFor(row, s) \in Deed /\ DeedFor(row, s).kind = "report-absent"
    BY <1>3, <2>2 DEF Deed, NoDeed
  <2>3. ASSUME DeedFor(row, s) = [NoDeed EXCEPT !.kind = "open", !.chat = row.chat]
        PROVE  DeedFor(row, s) \in Deed /\ DeedFor(row, s).kind = "open"
    BY <1>3, <2>3 DEF Deed, NoDeed
  <2>. QED BY <1>4, <2>1, <2>2, <2>3
<1>. QED BY <1>5, <1>6

\* The initial state, of which no slot has a page.
LEMMA TabsStart == ASSUME FleetTabsConstants, InitTabs PROVE TabsInv
<1>1. 0 \in 0 .. MaxPages /\ 0 \in 0 .. MaxOrders /\ 0 \in 0 .. MaxFaults
  BY DEF FleetTabsConstants
<1>2. TabsTypeOK
  BY <1>1 DEF InitTabs, TabsTypeOK, NewRow, KernelRow, PageRow, NoPass, NoDeed, Deed, Steps
<1>3. PagesAreOfOneSlot
  BY DEF InitTabs, PagesAreOfOneSlot, NewRow
<1>4. PassShape
  BY DEF InitTabs, PassShape, NoPass, NoDeed, NewRow
<1>. QED BY <1>2, <1>3, <1>4 DEF TabsInv

\* What a report does to the rows, if it is accepted.
LEMMA ReportedTyped ==
  ASSUME FleetTabsConstants, TabsTypeOK, PagesAreOfOneSlot, NEW s \in Slot,
         NEW state \in {"opening", "open", "closing", "absent"}, NEW p \in 0 .. MaxPages, NEW c \in 0 .. MaxPages,
         Accepted(s, state, p, c), state # "absent" => p # 0, kernel' = Reported(s, state, p, c)
  PROVE  /\ kernel' \in [Slot -> KernelRow] /\ PagesAreOfOneSlot'
         /\ kernel'[s].browser = state /\ kernel'[s].page = IF state = "absent" THEN 0 ELSE p
         /\ \A t \in Slot : kernel'[t].chat = kernel[t].chat \/ kernel[t].chat = 0
         /\ \A t \in Slot \ {s} : kernel'[t] = kernel[t]
<1> DEFINE new == [kernel[s] EXCEPT !.browser = state, !.page = IF state = "absent" THEN 0 ELSE p,
                     !.late = FALSE, !.chat = IF @ = 0 THEN c ELSE @,
                     !.status = IF kernel[s].want = "active" THEN "working"
                                ELSE IF state = "absent" THEN "suspended" ELSE @]
<1>1. kernel \in [Slot -> KernelRow] /\ kernel[s] \in KernelRow /\ 0 \in 0 .. MaxPages
  BY DEF TabsTypeOK, FleetTabsConstants
<1>2. kernel' = [kernel EXCEPT ![s] = new]
  BY <1>1 DEF Reported
<1>3. /\ new.browser = state /\ new.page = (IF state = "absent" THEN 0 ELSE p)
      /\ new.chat = IF kernel[s].chat = 0 THEN c ELSE kernel[s].chat
  BY <1>1 DEF KernelRow
<1>4. new \in KernelRow
  BY <1>1 DEF KernelRow
<1> HIDE DEF new
<1>5. kernel' \in [Slot -> KernelRow] /\ kernel'[s] = new /\ \A t \in Slot \ {s} : kernel'[t] = kernel[t]
  BY <1>1, <1>2, <1>4
<1>6. PagesAreOfOneSlot'
  <2>1. ASSUME NEW t \in Slot PROVE kernel'[t].page = 0 <=> kernel'[t].browser = "absent"
    BY <1>3, <1>5 DEF PagesAreOfOneSlot
  <2>2. ASSUME NEW t \in Slot \ {s}
        PROVE  /\ new.page # kernel[t].page \/ new.page = 0
               /\ new.chat # kernel[t].chat \/ new.chat = 0
    BY <1>3 DEF PagesAreOfOneSlot, Accepted
  <2>. QED BY <1>5, <2>1, <2>2 DEF PagesAreOfOneSlot
<1>. QED BY <1>3, <1>5, <1>6

\* A step that leaves the Kernel's rows and the pass alone changes nothing they know.
LEMMA RowsStay ==
  ASSUME TabsInv, UNCHANGED <<kernel, pass>>
  PROVE  PagesAreOfOneSlot' /\ PassShape' /\ kernel' \in [Slot -> KernelRow] /\ pass' \in PassRow
BY DEF TabsInv, TabsTypeOK, PagesAreOfOneSlot, PassShape, PassRow, My, Mine

\* Ending a slot's action, and going on to its next step.
LEMMA PassMoves ==
  ASSUME FleetTabsConstants, TabsInv, pass.at \notin {"idle", "look", "next"}
  PROVE  /\ Mine \in Slot /\ My \in Deed /\ My.page \in 0 .. MaxPages /\ My.chat \in 0 .. MaxPages
         /\ Done \in PassRow /\ Done.at = "next" /\ Done.saw = pass.saw
         /\ Done.todo = [pass.todo EXCEPT ![Mine] = NoDeed]
         /\ \A step \in Steps : /\ Goto(step) \in PassRow /\ Goto(step).at = step
                                /\ Goto(step).saw = pass.saw /\ Goto(step).todo = pass.todo /\ Goto(step).slot = pass.slot
<1>1. pass \in PassRow
  BY DEF TabsInv, TabsTypeOK, PassRow
<1>2. Mine \in Slot
  BY DEF TabsInv, PassShape, Mine
<1>3. My \in Deed
  BY <1>1, <1>2 DEF PassRow, My, Mine
<1>4. 0 \in 0 .. MaxPages
  BY DEF FleetTabsConstants
<1>5. NoDeed \in Deed
  BY <1>4 DEF NoDeed, Deed
<1>6. /\ Done \in PassRow /\ Done.at = "next" /\ Done.saw = pass.saw
      /\ Done.todo = [pass.todo EXCEPT ![Mine] = NoDeed]
  BY <1>1, <1>2, <1>5 DEF PassRow, Done, Mine, Steps
<1>7. ASSUME NEW step \in Steps
      PROVE  /\ Goto(step) \in PassRow /\ Goto(step).at = step
             /\ Goto(step).saw = pass.saw /\ Goto(step).todo = pass.todo /\ Goto(step).slot = pass.slot
  BY <1>1 DEF PassRow, Goto
<1>. QED BY <1>2, <1>3, <1>6, <1>7 DEF Deed

\* The end of a slot's action, with or without an answer of the Kernel.
LEMMA DoneShape ==
  ASSUME FleetTabsConstants, TabsInv, pass.at \notin {"idle", "look", "next"}, pass' = Done,
         \A t \in Slot : kernel'[t].chat = kernel[t].chat \/ kernel[t].chat = 0
  PROVE  PassShape' /\ pass' \in PassRow
<1>1. /\ pass' \in PassRow /\ pass'.at = "next" /\ pass'.saw = pass.saw
      /\ pass'.todo = [pass.todo EXCEPT ![Mine] = NoDeed] /\ Mine \in Slot
  BY PassMoves
<1>2. ASSUME NEW s \in Slot
      PROVE  /\ pass'.todo[s].kind \in {"close", "report-open"} => pass'.todo[s].page # 0
             /\ pass'.saw[s].chat \in {0, kernel'[s].chat}
  <2>1. pass'.todo[s] \in {pass.todo[s], NoDeed} /\ NoDeed.kind = "none"
    BY <1>1 DEF TabsInv, TabsTypeOK, NoDeed
  <2>. QED BY <1>1, <2>1 DEF TabsInv, PassShape
<1>. QED BY <1>1, <1>2 DEF PassShape

\* A report, whatever the Kernel makes of it.
LEMMA ReportKeeps ==
  ASSUME FleetTabsConstants, TabsInv, pass.at \notin {"idle", "look", "next"},
         NEW state \in {"opening", "open", "closing", "absent"}, NEW p \in 0 .. MaxPages, NEW c \in 0 .. MaxPages,
         state # "absent" => p # 0, Report(state, p, c, Done)
  PROVE  PagesAreOfOneSlot' /\ PassShape' /\ kernel' \in [Slot -> KernelRow] /\ pass' \in PassRow
<1>1. Mine \in Slot
  BY PassMoves
<1>2. CASE Accepted(Mine, state, p, c)
  <2>1. kernel' = Reported(Mine, state, p, c) /\ pass' = Done
    BY <1>2 DEF Report
  <2>2. /\ kernel' \in [Slot -> KernelRow] /\ PagesAreOfOneSlot'
        /\ \A t \in Slot : kernel'[t].chat = kernel[t].chat \/ kernel[t].chat = 0
    BY <1>1, <1>2, <2>1, ReportedTyped DEF TabsInv
  <2>. QED BY <2>1, <2>2, DoneShape
<1>3. CASE ~Accepted(Mine, state, p, c)
  <2>1. kernel' = kernel /\ pass' = Done
    BY <1>3 DEF Report
  <2>2. PassShape' /\ pass' \in PassRow
    BY <2>1, DoneShape
  <2>. QED BY <2>1, <2>2 DEF TabsInv, TabsTypeOK, PagesAreOfOneSlot
<1>. QED BY <1>2, <1>3

\* Going on to a further step of the same slot's action.
LEMMA GotoShape ==
  ASSUME FleetTabsConstants, TabsInv, pass.at \notin {"idle", "look", "next"},
         NEW step \in Steps, pass' = Goto(step), kernel' = kernel,
         \/ pass.at \in {"record", "bind"} /\ step \in {"bind", "opening"}
         \/ pass.at = "adopt" /\ step = "report"
         \/ pass.at \in {"unbind", "remove"} /\ step \in {"remove", "forget"}
         \/ step = "absent"
  PROVE  PassShape' /\ pass' \in PassRow
<1>1. /\ pass' \in PassRow /\ pass'.at = step /\ Mine \in Slot
      /\ pass'.saw = pass.saw /\ pass'.todo = pass.todo /\ pass'.slot = pass.slot
  BY PassMoves
<1>2. Mine' = Mine /\ My' = My
  BY <1>1 DEF My, Mine
<1>. QED BY <1>1, <1>2 DEF PassShape, TabsInv, Mine

\* Beginning a slot's action.
LEMMA BeginShape ==
  ASSUME FleetTabsConstants, TabsInv, pass.at = "next", kernel' = kernel, NEW s \in Slot,
         NEW p \in 0 .. MaxPages, NEW kind \in {"open", "report-open", "report-absent"},
         pass.todo[s].kind = kind, kind # "report-absent" => p # 0,
         \/ pass' = [pass EXCEPT !.at = FirstStep(kind), !.slot = s, !.todo[s].page = p]
         \/ pass' = [pass EXCEPT !.at = FirstStep(kind), !.slot = s] /\ p = pass.todo[s].page
  PROVE  PassShape' /\ pass' \in PassRow
<1>1. pass \in PassRow /\ pass.todo[s] \in Deed
  BY DEF TabsInv, TabsTypeOK, PassRow
<1>2. FirstStep(kind) \in {"record", "adopt", "absent"} /\ FirstStep(kind) \in Steps
      /\ (FirstStep(kind) = "record" => kind = "open")
      /\ (FirstStep(kind) = "adopt" => kind = "report-open")
  BY DEF FirstStep, Steps
<1>3. /\ pass'.at = FirstStep(kind) /\ pass'.slot = s /\ pass'.saw = pass.saw
      /\ pass' = [at |-> pass'.at, saw |-> pass'.saw, todo |-> pass'.todo, slot |-> pass'.slot]
      /\ \/ pass'.todo = [pass.todo EXCEPT ![s].page = p]
         \/ pass'.todo = pass.todo /\ p = pass.todo[s].page
  BY <1>1 DEF PassRow
<1>4. pass'.todo[s] \in Deed /\ pass'.todo[s].kind = kind /\ pass'.todo[s].page = p
  BY <1>1, <1>3 DEF PassRow, Deed
<1>5. pass'.todo \in [Slot -> Deed] /\ \A t \in Slot \ {s} : pass'.todo[t] = pass.todo[t]
  BY <1>1, <1>3, <1>4 DEF PassRow
<1>6. pass' \in PassRow
  BY <1>1, <1>2, <1>3, <1>5 DEF PassRow
<1>7. Mine' = s /\ My' = pass'.todo[s]
  BY <1>3 DEF Mine, My
<1>. QED BY <1>2, <1>3, <1>4, <1>5, <1>6, <1>7 DEF TabsInv, PassShape

\* The start of a pass, and its end.
LEMMA IdleShape ==
  ASSUME FleetTabsConstants, TabsInv, kernel' = kernel,
         pass' \in {NoPass, [NoPass EXCEPT !.at = "look", !.saw = kernel]}
  PROVE  PassShape' /\ pass' \in PassRow
<1>1. 0 \in 0 .. MaxPages
  BY DEF FleetTabsConstants
<1>2. NewRow \in KernelRow /\ NoDeed \in Deed /\ NewRow.chat = 0 /\ NoDeed.kind = "none" /\ kernel \in [Slot -> KernelRow]
  BY <1>1 DEF NewRow, KernelRow, NoDeed, Deed, TabsInv, TabsTypeOK
<1>3. /\ pass' \in PassRow /\ pass'.at \in {"idle", "look"} /\ pass'.todo = [s \in Slot |-> NoDeed]
      /\ pass'.saw \in {kernel, [s \in Slot |-> NewRow]}
  <2>1. CASE pass' = NoPass
    BY <1>2, <2>1 DEF NoPass, PassRow, Steps
  <2>2. CASE pass' = [NoPass EXCEPT !.at = "look", !.saw = kernel]
    <3>1. pass' = [at |-> "look", saw |-> kernel, todo |-> [s \in Slot |-> NoDeed], slot |-> Nobody]
      BY <2>2 DEF NoPass
    <3>. QED BY <1>2, <3>1 DEF PassRow, Steps
  <2>. QED BY <2>1, <2>2
<1>. QED BY <1>2, <1>3 DEF PassShape

\* A plan has a page for every slot whose page it closes or reports.
LEMMA PlanShape ==
  ASSUME FleetTabsConstants, TabsInv, Plan
  PROVE  PassShape' /\ pass' \in PassRow
<1>1. pass \in PassRow /\ pass.saw \in [Slot -> KernelRow] /\ 0 \in 0 .. MaxPages
  BY DEF TabsInv, TabsTypeOK, PassRow, FleetTabsConstants
<1>2. NoDeed \in Deed /\ NoDeed.kind = "none"
  BY <1>1 DEF NoDeed, Deed
<1> DEFINE deed(s) == DeedFor(pass.saw[s], s)
<1>3. PICK held_back \in BOOLEAN :
        pass' = [pass EXCEPT !.at = "next",
            !.todo = [s \in Slot |-> IF held_back /\ deed(s).kind = "open"
                                     THEN NoDeed ELSE deed(s)]]
  BY DEF Plan
<1>4. ASSUME NEW s \in Slot
      PROVE  deed(s) \in Deed /\ (deed(s).kind \in {"close", "report-open"} => deed(s).page # 0)
  BY <1>1, DeedTyped DEF TabsInv
<1> HIDE DEF deed
<1>5. pass'.at = "next" /\ pass'.saw = pass.saw
      /\ pass'.todo = [s \in Slot |-> IF held_back /\ deed(s).kind = "open" THEN NoDeed ELSE deed(s)]
  BY <1>1, <1>3 DEF PassRow
<1>6. pass' \in PassRow
  <2>1. pass'.todo \in [Slot -> Deed]
    BY <1>2, <1>4, <1>5
  <2>2. "next" \in Steps
    BY DEF Steps
  <2>. QED BY <1>1, <1>3, <1>5, <2>1, <2>2 DEF PassRow
<1>7. kernel' = kernel
  BY DEF Plan
<1>. QED BY <1>2, <1>4, <1>5, <1>6, <1>7 DEF TabsInv, PassShape

\* The Kernel is told that a page is being closed before it is.
LEMMA ClosingShape ==
  ASSUME FleetTabsConstants, TabsInv, NEW s \in Slot, ReportClosing(s)
  PROVE  PagesAreOfOneSlot' /\ PassShape' /\ kernel' \in [Slot -> KernelRow] /\ pass' \in PassRow
<1> DEFINE p == pass.todo[s].page
<1>1. pass \in PassRow /\ pass.todo[s] \in Deed /\ pass.todo[s].kind = "close" /\ pass.at = "next"
  BY DEF TabsInv, TabsTypeOK, PassRow, ReportClosing
<1>2. p \in 0 .. MaxPages /\ p # 0 /\ 0 \in 0 .. MaxPages
  BY <1>1 DEF Deed, TabsInv, PassShape, FleetTabsConstants
<1>3. CASE Accepted(s, "closing", p, 0)
  <2>1. kernel' = Reported(s, "closing", p, 0) /\ pass' = [pass EXCEPT !.at = FirstStep("close"), !.slot = s]
    BY <1>3 DEF ReportClosing
  <2>2. /\ kernel' \in [Slot -> KernelRow] /\ PagesAreOfOneSlot'
        /\ kernel'[s].browser = "closing" /\ kernel'[s].page = p
        /\ \A t \in Slot : kernel'[t].chat = kernel[t].chat \/ kernel[t].chat = 0
    BY <1>2, <1>3, <2>1, ReportedTyped DEF TabsInv
  <2>3. FirstStep("close") = "unbind" /\ "unbind" \in Steps
    BY DEF FirstStep, Steps
  <2>4. /\ pass' \in PassRow /\ pass'.at = "unbind" /\ pass'.slot = s
        /\ pass'.saw = pass.saw /\ pass'.todo = pass.todo
    BY <1>1, <2>1, <2>3 DEF PassRow
  <2>5. Mine' = s /\ My' = pass.todo[s]
    BY <2>4 DEF Mine, My
  <2>. QED BY <1>1, <2>2, <2>4, <2>5 DEF TabsInv, PassShape
<1>4. CASE ~Accepted(s, "closing", p, 0)
  <2>1. kernel' = kernel /\ pass' = [pass EXCEPT !.todo[s] = NoDeed]
    BY <1>4 DEF ReportClosing
  <2>2. NoDeed \in Deed /\ NoDeed.kind = "none"
    BY <1>2 DEF NoDeed, Deed
  <2>3. /\ pass' \in PassRow /\ pass'.at = "next" /\ pass'.saw = pass.saw
        /\ \A t \in Slot : pass'.todo[t] \in {pass.todo[t], NoDeed}
    BY <1>1, <2>1, <2>2 DEF PassRow
  <2>4. PassShape'
    BY <2>1, <2>2, <2>3 DEF TabsInv, PassShape
  <2>. QED BY <2>1, <2>3, <2>4 DEF TabsInv, TabsTypeOK, PagesAreOfOneSlot
<1>. QED BY <1>3, <1>4

\* An order, and the passing of time, change nothing that the pass knows of a slot.
LEMMA OrderShape ==
  ASSUME FleetTabsConstants, TabsInv, NEW s \in Slot, Suspend(s) \/ Resume(s) \/ GraceEnds(s)
  PROVE  PagesAreOfOneSlot' /\ PassShape' /\ kernel' \in [Slot -> KernelRow] /\ pass' \in PassRow
<1>1. kernel \in [Slot -> KernelRow] /\ kernel[s] \in KernelRow /\ pass \in PassRow
  BY DEF TabsInv, TabsTypeOK, PassRow
<1>2. pass' = pass
  BY DEF Suspend, Resume, GraceEnds
<1>3. /\ kernel' \in [Slot -> KernelRow]
      /\ \A t \in Slot : /\ kernel'[t].browser = kernel[t].browser /\ kernel'[t].page = kernel[t].page
                         /\ kernel'[t].chat = kernel[t].chat
  <2>1. CASE Suspend(s)
    BY <1>1, <2>1 DEF Suspend, KernelRow
  <2>2. CASE Resume(s)
    BY <1>1, <2>2 DEF Resume, KernelRow
  <2>3. CASE GraceEnds(s)
    BY <1>1, <2>3 DEF GraceEnds, KernelRow
  <2>. QED BY <2>1, <2>2, <2>3
<1>4. PagesAreOfOneSlot'
  BY <1>3 DEF TabsInv, PagesAreOfOneSlot
<1>5. PassShape'
  BY <1>2, <1>3 DEF TabsInv, PassShape, My, Mine
<1>. QED BY <1>1, <1>2, <1>3, <1>4, <1>5

\* Every step keeps what is known of the Kernel's rows and of the pass.
LEMMA RowsKept ==
  ASSUME FleetTabsConstants, TabsInv, TabsNext
  PROVE  PagesAreOfOneSlot' /\ PassShape' /\ kernel' \in [Slot -> KernelRow] /\ pass' \in PassRow
<1> DEFINE Kept == PagesAreOfOneSlot' /\ PassShape' /\ kernel' \in [Slot -> KernelRow] /\ pass' \in PassRow
<1>1. ASSUME kernel' = kernel, PassShape' /\ pass' \in PassRow PROVE Kept
  BY <1>1 DEF TabsInv, TabsTypeOK, PagesAreOfOneSlot
<1>2. ASSUME UNCHANGED <<kernel, pass>> PROVE Kept
  BY <1>2, RowsStay
<1>3. 0 \in 0 .. MaxPages /\ {"bind", "opening", "report", "remove", "forget", "absent"} \subseteq Steps
  BY DEF FleetTabsConstants, Steps
<1> HIDE DEF Kept
<1>4. ASSUME ReadKernel \/ EndPass \/ WorkerStops \/ BrowserRestarts PROVE Kept
  <2>1. kernel' = kernel /\ pass' \in {NoPass, [NoPass EXCEPT !.at = "look", !.saw = kernel]}
    BY <1>4 DEF ReadKernel, EndPass, WorkerStops, BrowserRestarts
  <2>. QED BY <1>1, <2>1, IdleShape
<1>5. ASSUME Plan PROVE Kept
  <2>1. kernel' = kernel
    BY <1>5 DEF Plan
  <2>. QED BY <1>1, <1>5, <2>1, PlanShape
<1>6. ASSUME RecordPage \/ BindPage \/ AdoptPage \/ UnbindPage \/ RemovePage \/ ForgetPage PROVE Kept
  <2>1. CASE RecordPage
    BY <1>1, <1>3, <2>1, GotoShape DEF RecordPage
  <2>2. CASE BindPage
    BY <1>1, <1>3, <2>2, GotoShape DEF BindPage
  <2>3. CASE AdoptPage
    BY <1>1, <1>3, <2>3, GotoShape DEF AdoptPage
  <2>4. CASE UnbindPage
    BY <1>1, <1>3, <2>4, GotoShape DEF UnbindPage
  <2>5. CASE RemovePage
    BY <1>1, <1>3, <2>5, GotoShape DEF RemovePage
  <2>6. CASE ForgetPage
    BY <1>1, <1>3, <2>6, GotoShape DEF ForgetPage
  <2>. QED BY <1>6, <2>1, <2>2, <2>3, <2>4, <2>5, <2>6
<1>7. ASSUME ReportOpening \/ ReportOpen \/ ReportAbsent PROVE Kept
  <2>1. CASE ReportOpening
    <3>1. pass.at = "opening" /\ Report("opening", My.page, 0, Done)
      BY <2>1 DEF ReportOpening
    <3>2. My.page # 0 /\ My.page \in 0 .. MaxPages
      BY <3>1, PassMoves DEF TabsInv, PassShape
    <3>. QED BY <1>3, <3>1, <3>2, ReportKeeps DEF Kept
  <2>2. CASE ReportOpen
    <3>1. pass.at = "report" /\ Report("open", My.page, My.chat, Done)
      BY <2>2 DEF ReportOpen
    <3>2. Mine \in Slot /\ My.page \in 0 .. MaxPages /\ My.chat \in 0 .. MaxPages
      BY <3>1, PassMoves
    <3>3. My.page # 0
      BY <3>1, <3>2 DEF TabsInv, PassShape, My, Mine
    <3>. QED BY <3>1, <3>2, <3>3, ReportKeeps DEF Kept
  <2>3. CASE ReportAbsent
    <3>1. pass.at = "absent" /\ Report("absent", 0, 0, Done)
      BY <2>3 DEF ReportAbsent
    <3>. QED BY <1>3, <3>1, ReportKeeps DEF Kept
  <2>. QED BY <1>7, <2>1, <2>2, <2>3
<1>8. ASSUME NEW s \in Slot, CreatePage(s) \/ HoldPage(s) \/ ForgetLost(s) PROVE Kept
  <2>1. pass \in PassRow /\ pass.todo[s] \in Deed /\ pass.todo[s].page \in 0 .. MaxPages
    BY DEF TabsInv, TabsTypeOK, PassRow, Deed
  <2>2. pass.at = "next" /\ kernel' = kernel
    BY <1>8 DEF CreatePage, HoldPage, ForgetLost
  <2>3. CASE CreatePage(s)
    <3>1. PICK p \in PageId : pass' = [pass EXCEPT !.at = FirstStep("open"), !.slot = s, !.todo[s].page = p]
      BY <2>3 DEF CreatePage
    <3>2. p \in 0 .. MaxPages /\ p # 0 /\ pass.todo[s].kind = "open"
      BY <2>3 DEF PageId, CreatePage, FleetTabsConstants
    <3>. QED BY <1>1, <2>2, <3>1, <3>2, BeginShape
  <2>4. CASE HoldPage(s)
    <3>1. pass.todo[s].kind = "report-open" /\ pass' = [pass EXCEPT !.at = FirstStep("report-open"), !.slot = s]
      BY <2>4 DEF HoldPage
    <3>2. pass.todo[s].page # 0
      BY <3>1 DEF TabsInv, PassShape
    <3>. QED BY <1>1, <2>1, <2>2, <3>1, <3>2, BeginShape
  <2>5. CASE ForgetLost(s)
    <3>1. pass.todo[s].kind = "report-absent" /\ pass' = [pass EXCEPT !.at = FirstStep("report-absent"), !.slot = s]
      BY <2>5 DEF ForgetLost
    <3>. QED BY <1>1, <2>1, <2>2, <3>1, BeginShape
  <2>. QED BY <1>8, <2>3, <2>4, <2>5
<1>9. ASSUME NEW s \in Slot, ReportClosing(s) PROVE Kept
  BY <1>9, ClosingShape DEF Kept
<1>10. ASSUME NEW s \in Slot, Suspend(s) \/ Resume(s) \/ GraceEnds(s) PROVE Kept
  BY <1>10, OrderShape DEF Kept
<1>11. ASSUME NEW p \in PageId, NEW c \in PageId,
              HandleClosed(p) \/ Loads(p) \/ Prompted(p) \/ Settles(p) \/ UserCloses(p) \/ UserGoesTo(p, c)
       PROVE  Kept
  BY <1>2, <1>11 DEF HandleClosed, Loads, Prompted, Settles, UserCloses, UserGoesTo
<1>. QED
  BY <1>4, <1>5, <1>6, <1>7, <1>8, <1>9, <1>10, <1>11 DEF TabsNext, PassStep, World, Kept

-----------------------------------------------------------------------------

\* The part of the type invariant that is not about the Kernel's rows and the pass.
PagesTyped ==
  /\ page \in [PageId -> PageRow] /\ held \in [Slot -> 0 .. MaxPages]
  /\ tabOf \in [PageId -> Slot \cup {Nobody}] /\ chatOf \in [PageId -> Slot \cup {Nobody}]
  /\ closed \subseteq PageId /\ orders \in 0 .. MaxOrders /\ faults \in 0 .. MaxFaults

\* What a pass writes in the registry and the bindings.
LEMMA PassTyped ==
  ASSUME FleetTabsConstants, TabsInv, ReadKernel \/ PassStep
  PROVE  PagesTyped'
<1>1. PagesTyped /\ 0 \in 0 .. MaxPages /\ PageId \subseteq 0 .. MaxPages /\ pass \in PassRow
  BY DEF TabsInv, TabsTypeOK, PagesTyped, PassRow, PageId, FleetTabsConstants
<1>2. ASSUME ReadKernel \/ ReportOpening \/ ReportOpen \/ ReportAbsent \/ EndPass \/ \E s \in Slot : ReportClosing(s)
      PROVE  PagesTyped'
  BY <1>1, <1>2 DEF PagesTyped, ReadKernel, ReportOpening, ReportOpen, ReportAbsent, EndPass, ReportClosing
<1>3. ASSUME Plan PROVE PagesTyped'
  <2>1. /\ UNCHANGED <<page, held, closed, orders>> /\ Promote(Promoted)
        /\ \E h \in BOOLEAN : (h => faults < MaxFaults) /\ faults' = IF h THEN faults + 1 ELSE faults
    BY <1>3 DEF Plan
  <2>2. faults' \in 0 .. MaxFaults
    BY <1>1, <2>1 DEF PagesTyped, FleetTabsConstants
  <2>3. ASSUME NEW c \in PageId, \E p \in Promoted : page[p].chat = c
        PROVE  tabOf[CHOOSE p \in Promoted : page[p].chat = c] \in Slot \cup {Nobody}
    BY <1>1, <2>3 DEF PagesTyped, Promoted, Listed
  <2>4. tabOf' \in [PageId -> Slot \cup {Nobody}] /\ chatOf' \in [PageId -> Slot \cup {Nobody}]
    BY <1>1, <2>1, <2>3 DEF PagesTyped, Promote
  <2>. QED BY <1>1, <2>1, <2>2, <2>4 DEF PagesTyped
<1>4. ASSUME NEW s \in Slot, CreatePage(s) PROVE PagesTyped'
  <2>1. pass.todo[s].chat \in 0 .. MaxPages
    BY <1>1 DEF PassRow, Deed
  <2>2. PICK p \in PageId : page' = [page EXCEPT ![p] = [at |-> "loading", busy |-> FALSE, chat |-> pass.todo[s].chat]]
    BY <1>4 DEF CreatePage
  <2>3. page' \in [PageId -> PageRow]
    BY <1>1, <2>1, <2>2 DEF PagesTyped, PageRow
  <2>. QED BY <1>1, <1>4, <2>3 DEF PagesTyped, CreatePage
<1>5. ASSUME NEW s \in Slot, HoldPage(s) \/ ForgetLost(s) PROVE PagesTyped'
  <2>1. pass.todo[s].page \in 0 .. MaxPages
    BY <1>1 DEF PassRow, Deed
  <2>2. held' \in [Slot -> 0 .. MaxPages]
    BY <1>1, <1>5, <2>1 DEF PagesTyped, HoldPage, ForgetLost
  <2>. QED BY <1>1, <1>5, <2>2 DEF PagesTyped, HoldPage, ForgetLost
<1>6. ASSUME RecordPage \/ ForgetPage PROVE PagesTyped'
  <2>1. Mine \in Slot /\ My.page \in 0 .. MaxPages
    BY <1>6, PassMoves DEF RecordPage, ForgetPage
  <2>2. held' \in [Slot -> 0 .. MaxPages]
    BY <1>1, <1>6, <2>1 DEF PagesTyped, RecordPage, ForgetPage
  <2>. QED BY <1>1, <1>6, <2>2 DEF PagesTyped, RecordPage, ForgetPage
<1>7. ASSUME BindPage \/ AdoptPage \/ UnbindPage PROVE PagesTyped'
  <2>1. Mine \in Slot
    BY <1>7, PassMoves DEF BindPage, AdoptPage, UnbindPage
  <2>2. tabOf' \in [PageId -> Slot \cup {Nobody}] /\ chatOf' \in [PageId -> Slot \cup {Nobody}]
    BY <1>1, <1>7, <2>1 DEF PagesTyped, BindPage, AdoptPage, UnbindPage, UpdateBinding, ClearBinding
  <2>. QED BY <1>1, <1>7, <2>2 DEF PagesTyped, BindPage, AdoptPage, UnbindPage
<1>8. ASSUME RemovePage PROVE PagesTyped'
  <2>1. My.kind = "close" /\ Mine \in Slot /\ My.page \in 0 .. MaxPages
    BY <1>8, PassMoves DEF RemovePage, TabsInv, PassShape
  <2>2. My.page \in PageId
    BY <2>1 DEF TabsInv, PassShape, My, Mine, PageId, FleetTabsConstants
  <2>3. page' \in [PageId -> PageRow] /\ closed' \subseteq PageId
    BY <1>1, <1>8, <2>2 DEF PagesTyped, RemovePage, Gone, PageRow
  <2>. QED BY <1>1, <1>8, <2>3 DEF PagesTyped, RemovePage
<1>. QED BY <1>2, <1>3, <1>4, <1>5, <1>6, <1>7, <1>8 DEF PassStep

\* What the events, the pages and the user do to them.
LEMMA WorldTyped ==
  ASSUME FleetTabsConstants, TabsInv, World \/ \E p \in PageId : HandleClosed(p)
  PROVE  PagesTyped'
<1>1. PagesTyped /\ 0 \in 0 .. MaxPages /\ PageId \subseteq 0 .. MaxPages /\ 0 \notin PageId
  BY DEF TabsInv, TabsTypeOK, PagesTyped, PageId, FleetTabsConstants
<1>2. ASSUME Fault PROVE faults' \in 0 .. MaxFaults
  BY <1>1, <1>2 DEF Fault, PagesTyped, FleetTabsConstants
<1>3. ASSUME NEW p \in PageId, HandleClosed(p) PROVE PagesTyped'
  BY <1>1, <1>3 DEF PagesTyped, HandleClosed
<1>4. ASSUME NEW p \in PageId, Loads(p) \/ Prompted(p) PROVE PagesTyped'
  <2>1. page[p] \in PageRow
    BY <1>1 DEF PagesTyped
  <2>2. [page[p] EXCEPT !.at = "shown"] \in PageRow /\ [page[p] EXCEPT !.busy = TRUE] \in PageRow
    BY <2>1 DEF PageRow
  <2>3. page' \in {[page EXCEPT ![p] = [page[p] EXCEPT !.at = "shown"]],
                   [page EXCEPT ![p] = [page[p] EXCEPT !.busy = TRUE]]}
    BY <1>4 DEF Loads, Prompted
  <2>4. page' \in [PageId -> PageRow]
    BY <1>1, <2>2, <2>3 DEF PagesTyped
  <2>. QED BY <1>1, <1>4, <2>4 DEF PagesTyped, Loads, Prompted
<1>5. ASSUME NEW p \in PageId, Settles(p) PROVE PagesTyped'
  <2>1. page' = [page EXCEPT ![p].busy = FALSE, ![p].chat = IF @ = 0 THEN p ELSE @] /\ page[p] \in PageRow
    BY <1>1, <1>5 DEF Settles, PagesTyped
  <2>2. page' \in [PageId -> PageRow] /\ page'[p].chat \in PageId
    <3> DEFINE row == [page[p] EXCEPT !.busy = FALSE, !.chat = IF @ = 0 THEN p ELSE @]
    <3>1. row \in PageRow
      BY <1>1, <2>1 DEF PageRow
    <3>2. page[p].chat \in 0 .. MaxPages /\ row.chat = IF page[p].chat = 0 THEN p ELSE page[p].chat
      BY <2>1 DEF PageRow
    <3>3. \A n \in 0 .. MaxPages : n = 0 \/ n \in PageId
      BY DEF PageId, FleetTabsConstants
    <3>4. page' = [page EXCEPT ![p] = row]
      BY <1>1, <2>1 DEF PagesTyped
    <3> HIDE DEF row
    <3>. QED BY <1>1, <3>1, <3>2, <3>3, <3>4 DEF PagesTyped
  <2>3. tabOf' \in [PageId -> Slot \cup {Nobody}] /\ chatOf' \in [PageId -> Slot \cup {Nobody}]
    BY <1>1, <1>5, <2>2 DEF PagesTyped, Settles
  <2>. QED BY <1>1, <1>5, <2>2, <2>3 DEF PagesTyped, Settles
<1>6. ASSUME NEW p \in PageId, UserCloses(p) PROVE PagesTyped'
  <2>1. page' \in [PageId -> PageRow]
    BY <1>1, <1>6 DEF PagesTyped, UserCloses, Gone, PageRow
  <2>. QED BY <1>1, <1>2, <1>6, <2>1 DEF PagesTyped, UserCloses
<1>7. ASSUME NEW p \in PageId, NEW c \in PageId, UserGoesTo(p, c) PROVE PagesTyped'
  <2>1. page' \in [PageId -> PageRow]
    BY <1>1, <1>7 DEF PagesTyped, UserGoesTo, PageRow
  <2>. QED BY <1>1, <1>2, <1>7, <2>1 DEF PagesTyped, UserGoesTo
<1>8. ASSUME NEW s \in Slot, Suspend(s) \/ Resume(s) PROVE PagesTyped'
  <2>1. orders' \in 0 .. MaxOrders
    BY <1>1, <1>8 DEF PagesTyped, Suspend, Resume, FleetTabsConstants
  <2>. QED BY <1>1, <1>8, <2>1 DEF PagesTyped, Suspend, Resume
<1>9. ASSUME NEW s \in Slot, GraceEnds(s) PROVE PagesTyped'
  <2>1. faults' \in 0 .. MaxFaults
    BY <1>1, <1>9 DEF PagesTyped, GraceEnds, FleetTabsConstants
  <2>. QED BY <1>1, <1>9, <2>1 DEF PagesTyped, GraceEnds
<1>10. ASSUME WorkerStops PROVE PagesTyped'
  BY <1>1, <1>2, <1>10 DEF PagesTyped, WorkerStops
<1>11. ASSUME BrowserRestarts PROVE PagesTyped'
  <2>1. page' \in [PageId -> PageRow]
    BY <1>1, <1>11 DEF PagesTyped, BrowserRestarts, PageRow
  <2>. QED BY <1>1, <1>2, <1>11, <2>1 DEF PagesTyped, BrowserRestarts
<1>. QED
  BY <1>3, <1>4, <1>5, <1>6, <1>7, <1>8, <1>9, <1>10, <1>11 DEF World

\* The invariant is inductive.
LEMMA TabsStay == ASSUME FleetTabsConstants, TabsInv, [TabsNext]_tabVars PROVE TabsInv'
<1>1. CASE TabsNext
  <2>1. PagesTyped'
    BY <1>1, PassTyped, WorldTyped DEF TabsNext
  <2>2. PagesAreOfOneSlot' /\ PassShape' /\ kernel' \in [Slot -> KernelRow] /\ pass' \in PassRow
    BY <1>1, RowsKept
  <2>. QED BY <2>1, <2>2 DEF TabsInv, TabsTypeOK, PagesTyped, PassRow
<1>2. CASE UNCHANGED tabVars
  <2>1. PagesAreOfOneSlot' /\ PassShape' /\ kernel' \in [Slot -> KernelRow] /\ pass' \in PassRow
    BY <1>2, RowsStay DEF tabVars
  <2>. QED BY <1>2, <2>1 DEF TabsInv, TabsTypeOK, tabVars, PassRow
<1>. QED BY <1>1, <1>2

\* Of a slot's page and conversation, only the pass that closes it lets go.
LEMMA ClosingStep ==
  ASSUME FleetTabsConstants, TabsInv, [TabsNext]_tabVars, faults' = faults
  PROVE  /\ \A p \in PageId : Live(p) /\ ~Live(p)' =>
              \E s \in Slot : kernel[s].browser = "closing" /\ kernel[s].page = p
         /\ \A c \in PageId : chatOf[c] # Nobody /\ chatOf'[c] = Nobody =>
              \E s \in Slot : kernel[s].browser = "closing" /\ kernel[s].chat = c
<1> DEFINE ByKernel ==
             /\ \A p \in PageId : Live(p) /\ ~Live(p)' =>
                  \E s \in Slot : kernel[s].browser = "closing" /\ kernel[s].page = p
             /\ \A c \in PageId : chatOf[c] # Nobody /\ chatOf'[c] = Nobody =>
                  \E s \in Slot : kernel[s].browser = "closing" /\ kernel[s].chat = c
<1>1. PagesTyped /\ pass \in PassRow /\ faults' # faults + 1
  BY DEF TabsInv, TabsTypeOK, PagesTyped, PassRow, FleetTabsConstants
<1>2. Nobody \notin Slot /\ 0 \notin PageId
  BY DEF PageId, FleetTabsConstants
<1>3. ASSUME \A p \in PageId : Live(p) => Live(p)', \A c \in PageId : chatOf[c] # Nobody => chatOf'[c] # Nobody
      PROVE  ByKernel
  BY <1>3
<1> HIDE DEF ByKernel
<1>4. ASSUME UNCHANGED <<page, chatOf>> PROVE ByKernel
  BY <1>3, <1>4 DEF Live
<1>5. ASSUME Plan PROVE ByKernel
  <2>1. page' = page /\ Promote(Promoted)
    BY <1>5 DEF Plan
  <2>2. ASSUME NEW c \in PageId, chatOf[c] # Nobody PROVE chatOf'[c] = chatOf[c]
    BY <2>1, <2>2 DEF Promote, Promoted
  <2>. QED BY <1>3, <2>1, <2>2 DEF Live
<1>6. ASSUME NEW s \in Slot, CreatePage(s) PROVE ByKernel
  <2>1. chatOf' = chatOf
    BY <1>6 DEF CreatePage
  <2>2. PICK q \in PageId : page' = [page EXCEPT ![q] = [at |-> "loading", busy |-> FALSE, chat |-> pass.todo[s].chat]]
    BY <1>6 DEF CreatePage
  <2>3. ASSUME NEW p \in PageId, Live(p) PROVE Live(p)'
    BY <1>1, <2>2, <2>3 DEF Live, PagesTyped
  <2>. QED BY <1>3, <2>1, <2>3
<1>7. ASSUME BindPage \/ AdoptPage PROVE ByKernel
  <2>1. page' = page /\ Mine \in Slot
    BY <1>7, PassMoves DEF BindPage, AdoptPage
  <2>2. ASSUME NEW c \in PageId PROVE chatOf'[c] \in {chatOf[c], Mine}
    BY <1>7 DEF BindPage, AdoptPage, UpdateBinding
  <2>. QED BY <1>2, <1>3, <2>1, <2>2 DEF Live
<1>8. ASSUME UnbindPage PROVE ByKernel
  <2>1. /\ page' = page /\ Mine \in Slot /\ kernel[Mine].browser = "closing"
        /\ pass.saw[Mine].chat \in {0, kernel[Mine].chat}
        /\ chatOf' = [d \in PageId |-> IF d = pass.saw[Mine].chat THEN Nobody ELSE chatOf[d]]
    BY <1>8, PassMoves DEF UnbindPage, TabsInv, PassShape, ClearBinding
  <2>2. ASSUME NEW c \in PageId, chatOf[c] # Nobody, chatOf'[c] = Nobody PROVE kernel[Mine].chat = c
    BY <1>2, <2>1, <2>2
  <2>. QED BY <2>1, <2>2 DEF ByKernel, Live
<1>9. ASSUME RemovePage PROVE ByKernel
  <2>1. /\ chatOf' = chatOf /\ Mine \in Slot /\ kernel[Mine].browser = "closing" /\ kernel[Mine].page = My.page
        /\ page' = [page EXCEPT ![My.page].at = "gone", ![My.page].busy = FALSE]
    BY <1>9, PassMoves DEF RemovePage, TabsInv, PassShape, Gone
  <2>2. ASSUME NEW p \in PageId, p # My.page PROVE page'[p] = page[p]
    BY <1>1, <2>1, <2>2 DEF PagesTyped
  <2>3. ASSUME NEW p \in PageId, Live(p), ~Live(p)' PROVE kernel[Mine].page = p
    BY <2>1, <2>2, <2>3 DEF Live
  <2>. QED BY <2>1, <2>3 DEF ByKernel
<1>10. ASSUME NEW p \in PageId, Loads(p) \/ Prompted(p) PROVE ByKernel
  <2>1. chatOf' = chatOf /\ \A q \in PageId : Live(q) => Live(q)'
    BY <1>1, <1>10 DEF Loads, Prompted, Live, PagesTyped, PageRow
  <2>. QED BY <1>3, <2>1
<1>11. ASSUME NEW p \in PageId, Settles(p) PROVE ByKernel
  <2>1. page' = [page EXCEPT ![p].busy = FALSE, ![p].chat = IF @ = 0 THEN p ELSE @]
    BY <1>11 DEF Settles
  <2>2. ASSUME NEW q \in PageId PROVE page'[q].at = page[q].at
    BY <1>1, <2>1 DEF PagesTyped, PageRow
  <2>3. ASSUME NEW c \in PageId, chatOf[c] # Nobody PROVE chatOf'[c] # Nobody
    BY <1>1, <1>11, <2>3 DEF Settles, PagesTyped
  <2>. QED BY <1>3, <2>2, <2>3 DEF Live
<1>12. ~(\/ \E p \in PageId : UserCloses(p) \/ \E c \in PageId : UserGoesTo(p, c)
         \/ WorkerStops \/ BrowserRestarts)
  BY <1>1 DEF UserCloses, UserGoesTo, WorkerStops, BrowserRestarts, Fault
<1>13. \/ UNCHANGED <<page, chatOf>> \/ Plan \/ (\E s \in Slot : CreatePage(s)) \/ BindPage \/ AdoptPage
       \/ UnbindPage \/ RemovePage \/ \E p \in PageId : Loads(p) \/ Prompted(p) \/ Settles(p)
  <2>1. CASE UNCHANGED tabVars
    BY <2>1 DEF tabVars
  <2>2. CASE ReadKernel \/ \E p \in PageId : HandleClosed(p)
    BY <2>2 DEF ReadKernel, HandleClosed
  <2>3. CASE PassStep
    BY <2>3 DEF PassStep, RecordPage, ReportOpening, ReportOpen, ForgetPage, ReportAbsent, EndPass,
                HoldPage, ReportClosing, ForgetLost
  <2>4. CASE World
    BY <1>12, <2>4 DEF World, Suspend, Resume, GraceEnds
  <2>. QED BY <2>1, <2>2, <2>3, <2>4 DEF TabsNext
<1>. QED
  BY <1>4, <1>5, <1>6, <1>7, <1>8, <1>9, <1>10, <1>11, <1>13 DEF ByKernel

\* The Kernel has a page for exactly the slots that are not absent, and no page and no
\* conversation for two of them, whatever the passes report, in whatever order the user, the
\* pages and the supervisor come between their steps (reportAgentBrowser).
THEOREM PagesStayOfOneSlot ==
  ASSUME FleetTabsConstants
  PROVE  InitTabs /\ [][TabsNext]_tabVars => [](TabsTypeOK /\ PagesAreOfOneSlot)
<1>1. InitTabs => TabsInv
  BY TabsStart
<1>2. TabsInv /\ [TabsNext]_tabVars => TabsInv'
  BY TabsStay
<1>3. TabsInv => TabsTypeOK /\ PagesAreOfOneSlot
  BY DEF TabsInv
<1>. QED BY <1>1, <1>2, <1>3, PTL

\* But for what the user and the browser do, a page is closed, and the binding of a conversation
\* removed, only by a pass that has had "closing" accepted for the slot whose page and conversation
\* it is in the Kernel at that very step (the close branch of reconcileAgentFleetOnce).
THEOREM OnlyClosingPagesClose ==
  ASSUME FleetTabsConstants
  PROVE  InitTabs /\ [][TabsNext]_tabVars => ClosesAsReported
<1>1. InitTabs => TabsInv
  BY TabsStart
<1>2. TabsInv /\ [TabsNext]_tabVars => TabsInv'
  BY TabsStay
<1>3. ASSUME TabsInv, [TabsNext]_tabVars
      PROVE  [faults' = faults =>
       /\ \A p \in PageId : Live(p) /\ ~Live(p)' =>
            \E s \in Slot : kernel[s].browser = "closing" /\ kernel[s].page = p
       /\ \A c \in PageId : chatOf[c] # Nobody /\ chatOf'[c] = Nobody =>
            \E s \in Slot : kernel[s].browser = "closing" /\ kernel[s].chat = c]_tabVars
  BY <1>3, ClosingStep
<1>. QED BY <1>1, <1>2, <1>3, PTL DEF ClosesAsReported
=============================================================================
