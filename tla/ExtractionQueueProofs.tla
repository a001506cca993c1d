------------------------ MODULE ExtractionQueueProofs ------------------------
(***************************************************************************)
(* Proofs about the extraction queue of SourceIntake: what was extracted   *)
(* is still waiting or is a proposition, for any sessions, submissions and *)
(* contents and any number of failures.                                    *)
(***************************************************************************)
EXTENDS SourceIntakeProofs

-----------------------------------------------------------------------------
(* The inductive invariant. *)

\* The propositions p that record the statement c of the source i.
Recs(p, i, c) == {n \in 1 .. Len(p) : p[n].source = i /\ p[n].statement = c}

\* The propositions q record the statement c of the source i once more than p.
Records(p, q, i, c) ==
    /\ \A j, d : (j # i \/ d # c) => Recs(q, j, d) = Recs(p, j, d)
    /\ \E l : Recs(q, i, c) = Recs(p, i, c) \cup {l}

\* A promotion selects what is waiting; what it has done is recorded.
Promotion(p, w) ==
    /\ w.pc # "promote" => w.chosen = {}
    /\ w.todo \subseteq w.chosen
    /\ w.chosen # {} => /\ w.target \in w.listed /\ w.chosen \subseteq w.waiting[w.target]
                        /\ \A c \in w.chosen \ w.todo : Recs(p, w.target, c) # {}

\* What was extracted is waiting, or recorded.
Accounted(src, p, w) ==
    \A i \in w.staged : \A c \in Extract[PartAt(src[i].place).doc] :
        Recs(p, i, c) = {} => i \in w.listed /\ c \in w.waiting[i]

\* Without failures nothing is recorded twice: what waits is not recorded, but
\* for what the promotion under way has done.
Once(p, w) ==
    /\ \A i \in w.staged : \A c : \A m, n \in Recs(p, i, c) : m = n
    /\ \A i \in w.listed : \A c \in w.waiting[i] :
          (w.target = i /\ c \in w.chosen \ w.todo) \/ Recs(p, i, c) = {}

QueueOK(src, p, f, w) ==
    /\ w.listed \subseteq w.staged
    /\ \A i \in w.staged : src[i] # None
    /\ Promotion(p, w) /\ Accounted(src, p, w)
    /\ f = 0 => Once(p, w)

\* What is queued belongs to one page, and to one the deployment follows.
QueueInv ==
    /\ \A s \in Sessions :
          /\ QueueOK(source, propositions, faults, session[s])
          /\ session[s].staged # {} => Uses(s)
          /\ \A t \in Sessions \ {s} : session[s].staged \cap session[t].staged = {}
    /\ \A n \in 1 .. Len(propositions) : source[propositions[n].source] # None

-----------------------------------------------------------------------------
(* Propositions. *)

\* A proposition more.
LEMMA RecsAppend ==
    ASSUME NEW p \in Seq(Proposition), NEW r \in Proposition
    PROVE  Records(p, Append(p, r), r.source, r.statement)
<1> DEFINE q == Append(p, r)
           l == Len(p) + 1
<1>1. /\ Len(p) \in Nat /\ Len(q) = l /\ q[l] = r
      /\ \A n \in 1 .. Len(p) : q[n] = p[n]
  OBVIOUS
<1>2. 1 .. l = (1 .. Len(p)) \cup {l}
  BY <1>1
<1> HIDE DEF q, l
<1>3. \A i, c : (i # r.source \/ c # r.statement) => Recs(q, i, c) = Recs(p, i, c)
  BY <1>1, <1>2 DEF Recs
<1>4. Recs(q, r.source, r.statement) = Recs(p, r.source, r.statement) \cup {l}
  BY <1>1, <1>2 DEF Recs
<1>5. Records(p, q, r.source, r.statement)
  BY <1>3, <1>4 DEF Records
<1> QED
  BY <1>5 DEF q

\* The queue depends on the sources it names and on their propositions.
LEMMA QueueStays ==
    ASSUME NEW src, NEW p, NEW f, NEW w \in Session, QueueOK(src, p, f, w),
           NEW new, NEW q, NEW g,
           \A i \in Ids : src[i] # None => new[i] = src[i],
           \A i \in w.staged : \A c : Recs(q, i, c) = Recs(p, i, c),
           g = 0 => f = 0
    PROVE  QueueOK(new, q, g, w)
<1>1. w.staged \subseteq Ids /\ w.listed \subseteq w.staged
  BY SessionHas DEF QueueOK
<1>2. \A i \in w.staged : new[i] = src[i] /\ new[i] # None
  BY <1>1 DEF QueueOK
<1>3. Promotion(q, w)
  BY <1>1 DEF QueueOK, Promotion
<1>4. Accounted(new, q, w)
  BY <1>2 DEF QueueOK, Accounted
<1>5. g = 0 => Once(q, w)
  BY <1>1 DEF QueueOK, Once
<1> QED
  BY <1>1, <1>2, <1>3, <1>4, <1>5 DEF QueueOK

\* After a failure it does not matter how often a statement is recorded.
LEMMA QueueGrows ==
    ASSUME NEW src, NEW p, NEW f, NEW w \in Session, QueueOK(src, p, f, w), NEW q, NEW g,
           \A i, c : Recs(p, i, c) \subseteq Recs(q, i, c), g # 0
    PROVE  QueueOK(src, q, g, w)
<1>1. \A i, c : Recs(q, i, c) = {} => Recs(p, i, c) = {}
  OBVIOUS
<1>2. Promotion(q, w)
  BY <1>1 DEF QueueOK, Promotion
<1>3. Accounted(src, q, w)
  BY <1>1 DEF QueueOK, Accounted
<1> QED
  BY <1>2, <1>3 DEF QueueOK

\* A step of the script does not touch the queue.
LEMMA QueueSame ==
    ASSUME NEW src, NEW p, NEW f, NEW w, QueueOK(src, p, f, w), w.pc # "promote",
           NEW v, SameQueue(v, w)
    PROVE  QueueOK(src, p, f, v)
<1>1. Promotion(p, v)
  BY DEF QueueOK, Promotion, SameQueue
<1>2. Accounted(src, p, v)
  BY DEF QueueOK, Accounted, SameQueue
<1>3. f = 0 => Once(p, v)
  BY DEF QueueOK, Once, SameQueue
<1> QED
  BY <1>1, <1>2, <1>3 DEF QueueOK, SameQueue

-----------------------------------------------------------------------------
(* The queue of the page that acts. *)

\* A page without a queue.
LEMMA QueueEmpty ==
    ASSUME NEW src, NEW p, NEW f, NEW w, w.listed = {}, w.staged = {}, w.chosen = {}, w.todo = {}
    PROVE  QueueOK(src, p, f, w)
BY DEF QueueOK, Promotion, Accounted, Once

\* The entry of the source e is put on the queue of w.
Takes(v, w, e, found) ==
    /\ v.listed = w.listed \cup {e} /\ v.staged = w.staged \cup {e}
    /\ v.waiting = [w.waiting EXCEPT ![e] = found]
    /\ v.target = w.target /\ v.chosen = w.chosen /\ v.todo = w.todo

\* A registered part is queued with what was extracted from it.
LEMMA QueueTakes ==
    ASSUME NEW src, NEW new, NEW p, NEW f, NEW w \in Session, QueueOK(src, p, f, w),
           w.pc # "promote", NEW e \in Ids, src[e] = None, new[e] # None,
           \A i \in Ids : i # e => new[i] = src[i], \A c : Recs(p, e, c) = {},
           NEW v, Takes(v, w, e, Extract[PartAt(new[e].place).doc])
    PROVE  QueueOK(new, p, f, v)
<1> DEFINE found == Extract[PartAt(new[e].place).doc]
<1> USE DEF Takes
<1>1. /\ w.waiting \in [Ids -> SUBSET Statements] /\ w.staged \subseteq Ids
      /\ w.listed \subseteq w.staged /\ w.chosen = {} /\ w.todo = {} /\ e \notin w.staged
  BY SessionHas DEF QueueOK, Promotion
<1>2. v.waiting[e] = found /\ \A i \in Ids : i # e => v.waiting[i] = w.waiting[i]
  BY <1>1
<1>3. \A i \in w.staged : new[i] = src[i] /\ i # e /\ i \in Ids
  BY <1>1
<1>4. Promotion(p, v)
  BY <1>1 DEF Promotion
<1>5. Accounted(new, p, v)
  BY <1>2, <1>3 DEF QueueOK, Accounted
<1>6. f = 0 => Once(p, v)
  <2> SUFFICES ASSUME f = 0 PROVE Once(p, v)
    OBVIOUS
  <2>1. Once(p, w)
    BY DEF QueueOK
  <2>2. \A i \in v.staged : \A c : \A m, n \in Recs(p, i, c) : m = n
    BY <2>1 DEF Once
  <2>3. \A i \in v.listed : \A c \in v.waiting[i] : Recs(p, i, c) = {}
    BY <1>1, <1>2, <1>3, <2>1 DEF Once
  <2> QED
    BY <2>2, <2>3 DEF Once
<1> QED
  BY <1>1, <1>3, <1>4, <1>5, <1>6 DEF QueueOK

\* An entry that is empty is taken off.
LEMMA QueueDrops ==
    ASSUME NEW src, NEW p, NEW f, NEW w \in Session, QueueOK(src, p, f, w), w.pc # "promote",
           NEW i, w.waiting[i] = {}, NEW v, v.listed = w.listed \ {i}, v.waiting = w.waiting,
           v.staged = w.staged, v.chosen = w.chosen, v.todo = w.todo
    PROVE  QueueOK(src, p, f, v)
<1>1. w.chosen = {} /\ w.todo = {}
  BY DEF QueueOK, Promotion
<1>2. Promotion(p, v)
  BY <1>1 DEF Promotion
<1>3. Accounted(src, p, v)
  BY DEF QueueOK, Accounted
<1>4. f = 0 => Once(p, v)
  BY <1>1 DEF QueueOK, Once
<1> QED
  BY <1>2, <1>3, <1>4 DEF QueueOK

\* A promotion begins.
LEMMA QueuePromotes ==
    ASSUME NEW src, NEW p, NEW f, NEW w, QueueOK(src, p, f, w), w.pc # "promote",
           NEW i \in w.listed, NEW chosen \in SUBSET w.waiting[i],
           NEW v, v.pc = "promote", v.target = i, v.chosen = chosen, v.todo = chosen,
           v.listed = w.listed, v.waiting = w.waiting, v.staged = w.staged
    PROVE  QueueOK(src, p, f, v)
<1>1. w.chosen = {}
  BY DEF QueueOK, Promotion
<1>2. Promotion(p, v)
  BY DEF Promotion
<1>3. Accounted(src, p, v)
  BY DEF QueueOK, Accounted
<1>4. f = 0 => Once(p, v)
  BY <1>1 DEF QueueOK, Once
<1> QED
  BY <1>2, <1>3, <1>4 DEF QueueOK

\* A promotion fails: the queue is as it was, whether or not the statement
\* was recorded.
LEMMA QueueStops ==
    ASSUME NEW src, NEW p, NEW f, NEW w, QueueOK(src, p, f, w), f # 0,
           NEW v, v.chosen = {}, v.todo = {},
           v.listed = w.listed, v.waiting = w.waiting, v.staged = w.staged
    PROVE  QueueOK(src, p, f, v)
<1>1. Promotion(p, v)
  BY DEF Promotion
<1>2. Accounted(src, p, v)
  BY DEF QueueOK, Accounted
<1> QED
  BY <1>1, <1>2 DEF QueueOK

\* One statement of a promotion is recorded, and others are to come,
LEMMA QueueRecords ==
    ASSUME NEW src, NEW p, NEW f, NEW w \in Session, QueueOK(src, p, f, w),
           NEW c \in w.todo, NEW q, Records(p, q, w.target, c),
           NEW v, v.pc = w.pc, v.target = w.target, v.chosen = w.chosen, v.todo = w.todo \ {c},
           v.listed = w.listed, v.waiting = w.waiting, v.staged = w.staged
    PROVE  QueueOK(src, q, f, v)
<1>0. PICK l : /\ \A i, d : (i # w.target \/ d # c) => Recs(q, i, d) = Recs(p, i, d)
               /\ Recs(q, w.target, c) = Recs(p, w.target, c) \cup {l}
  BY DEF Records
<1>1. /\ w.pc = "promote" /\ w.todo \subseteq w.chosen /\ w.target \in w.listed
      /\ w.chosen \subseteq w.waiting[w.target] /\ w.listed \subseteq w.staged
      /\ \A d \in w.chosen \ w.todo : Recs(p, w.target, d) # {}
  BY DEF QueueOK, Promotion
<1>2. \A i, d : Recs(q, i, d) = {} => Recs(p, i, d) = {}
  BY <1>0
<1>3. Promotion(q, v)
  <2>1. \A d \in v.chosen \ v.todo : Recs(q, v.target, d) # {}
    BY <1>0, <1>1, <1>2
  <2> QED
    BY <1>1, <2>1 DEF Promotion
<1>4. Accounted(src, q, v)
  BY <1>2 DEF QueueOK, Accounted
<1>5. f = 0 => Once(q, v)
  <2> SUFFICES ASSUME f = 0 PROVE Once(q, v)
    OBVIOUS
  <2>1. Once(p, w)
    BY DEF QueueOK
  <2>2. Recs(p, w.target, c) = {}
    BY <1>1, <2>1 DEF Once
  <2>3. \A i \in v.staged : \A d : \A m, n \in Recs(q, i, d) : m = n
    BY <1>0, <2>1, <2>2 DEF Once
  <2>4. \A i \in v.listed : \A d \in v.waiting[i] :
            (v.target = i /\ d \in v.chosen \ v.todo) \/ Recs(q, i, d) = {}
    BY <1>0, <1>1, <2>1 DEF Once
  <2> QED
    BY <2>3, <2>4 DEF Once
<1> QED
  BY <1>1, <1>3, <1>4, <1>5 DEF QueueOK

\* or it is the last, and what was not selected stays.
LEMMA QueueRewritten ==
    ASSUME NEW src, NEW p, NEW f, NEW w \in Session, QueueOK(src, p, f, w),
           NEW c, w.todo = {c}, NEW q, Records(p, q, w.target, c),
           NEW left, left = w.waiting[w.target] \ w.chosen,
           NEW v, v.chosen = {}, v.todo = {},
           v.listed = (IF left = {} THEN w.listed \ {w.target} ELSE w.listed),
           v.waiting = [w.waiting EXCEPT ![w.target] = left], v.staged = w.staged
    PROVE  QueueOK(src, q, f, v)
<1>0. PICK l : /\ \A i, d : (i # w.target \/ d # c) => Recs(q, i, d) = Recs(p, i, d)
               /\ Recs(q, w.target, c) = Recs(p, w.target, c) \cup {l}
  BY DEF Records
<1>1. /\ c \in w.chosen /\ w.target \in w.listed
      /\ w.chosen \subseteq w.waiting[w.target] /\ w.listed \subseteq w.staged
      /\ \A d \in w.chosen \ w.todo : Recs(p, w.target, d) # {}
  BY DEF QueueOK, Promotion
<1>2. w.waiting \in [Ids -> SUBSET Statements] /\ w.staged \subseteq Ids
  BY SessionHas
<1>3. v.waiting[w.target] = left /\ \A i \in w.staged : i # w.target => v.waiting[i] = w.waiting[i]
  BY <1>1, <1>2
<1>4. \A i, d : Recs(q, i, d) = {} => Recs(p, i, d) = {}
  BY <1>0
<1>5. \A d \in w.chosen : Recs(q, w.target, d) # {}
  BY <1>0, <1>1, <1>4
<1>6. v.listed \subseteq w.listed /\ \A i \in w.listed : i # w.target => i \in v.listed
  OBVIOUS
<1>7. Promotion(q, v)
  BY DEF Promotion
<1>8. Accounted(src, q, v)
  <2> SUFFICES ASSUME NEW i \in w.staged, NEW d \in Extract[PartAt(src[i].place).doc],
                      Recs(q, i, d) = {}
               PROVE  i \in v.listed /\ d \in v.waiting[i]
    BY DEF Accounted
  <2>1. i \in w.listed /\ d \in w.waiting[i]
    BY <1>4 DEF QueueOK, Accounted
  <2>2. CASE i = w.target
    <3>1. d \in left
      BY <1>5, <2>1, <2>2
    <3> QED
      BY <1>3, <2>1, <2>2, <3>1
  <2>3. CASE i # w.target
    BY <1>3, <1>6, <2>1, <2>3
  <2> QED
    BY <2>2, <2>3
<1>9. f = 0 => Once(q, v)
  <2> SUFFICES ASSUME f = 0 PROVE Once(q, v)
    OBVIOUS
  <2>1. Once(p, w)
    BY DEF QueueOK
  <2>2. Recs(p, w.target, c) = {}
    BY <1>1, <2>1 DEF Once
  <2>3. \A i \in v.staged : \A d : \A m, n \in Recs(q, i, d) : m = n
    BY <1>0, <2>1, <2>2 DEF Once
  <2>4. ASSUME NEW i \in v.listed, NEW d \in v.waiting[i]
        PROVE  Recs(q, i, d) = {}
    <3>1. i \in w.listed /\ i \in w.staged
      BY <1>1, <1>6
    <3>2. CASE i = w.target
      <4>1. d \in w.waiting[i] /\ d \notin w.chosen /\ d # c
        BY <1>1, <1>3, <3>2
      <4>2. Recs(p, i, d) = {}
        BY <2>1, <3>1, <4>1 DEF Once
      <4> QED
        BY <1>0, <4>1, <4>2
    <3>3. CASE i # w.target
      <4>1. Recs(p, i, d) = {}
        BY <1>3, <2>1, <3>1, <3>3 DEF Once
      <4> QED
        BY <1>0, <3>3, <4>1
    <3> QED
      BY <3>2, <3>3
  <2> QED
    BY <2>3, <2>4 DEF Once
<1> QED
  BY <1>1, <1>6, <1>7, <1>8, <1>9 DEF QueueOK

-----------------------------------------------------------------------------
(* What the steps make of a queue. *)

LEMMA FreshQueue ==
    ASSUME NEW c
    PROVE  /\ Fresh(c).listed = {} /\ Fresh(c).staged = {} /\ Fresh(c).chosen = {}
           /\ Fresh(c).todo = {}
BY DEF Fresh

LEMMA EmptiedQueue ==
    ASSUME NEW w \in Session
    PROVE  /\ Emptied(w).listed = {} /\ Emptied(w).staged = {}
           /\ Emptied(w).chosen = w.chosen /\ Emptied(w).todo = w.todo
BY DEF Emptied, Session

LEMMA SwitchedQueue ==
    ASSUME NEW w \in Session, NEW c
    PROVE  SameQueue(Switched(w, c), w)
BY DEF Switched, Session, SameQueue

LEMMA StoppedQueue ==
    ASSUME NEW w \in Session
    PROVE  /\ Stopped(w).listed = w.listed /\ Stopped(w).waiting = w.waiting
           /\ Stopped(w).staged = w.staged /\ Stopped(w).chosen = {} /\ Stopped(w).todo = {}
BY DEF Stopped, Session

LEMMA DismissedQueue ==
    ASSUME NEW w \in Session, NEW i
    PROVE  /\ Dismissed(w, i).listed = w.listed \ {i} /\ Dismissed(w, i).waiting = w.waiting
           /\ Dismissed(w, i).staged = w.staged /\ Dismissed(w, i).chosen = w.chosen
           /\ Dismissed(w, i).todo = w.todo
BY DEF Dismissed, Session

LEMMA PromotingQueue ==
    ASSUME NEW w \in Session, NEW i, NEW chosen
    PROVE  /\ Promoting(w, i, chosen).pc = "promote" /\ Promoting(w, i, chosen).target = i
           /\ Promoting(w, i, chosen).chosen = chosen /\ Promoting(w, i, chosen).todo = chosen
           /\ Promoting(w, i, chosen).listed = w.listed
           /\ Promoting(w, i, chosen).waiting = w.waiting
           /\ Promoting(w, i, chosen).staged = w.staged
BY DEF Promoting, Session

Selected(w, c) == [w EXCEPT !.todo = @ \ {c}]
LEMMA SelectedQueue ==
    ASSUME NEW w \in Session, NEW c
    PROVE  /\ Selected(w, c).pc = w.pc /\ Selected(w, c).target = w.target
           /\ Selected(w, c).chosen = w.chosen /\ Selected(w, c).todo = w.todo \ {c}
           /\ Selected(w, c).listed = w.listed /\ Selected(w, c).waiting = w.waiting
           /\ Selected(w, c).staged = w.staged
BY DEF Selected, Session

Rewritten(w, waiting, listed) ==
    [w EXCEPT !.todo = {}, !.chosen = {}, !.target = 0, !.pc = "idle",
              !.waiting = waiting, !.listed = listed]
LEMMA RewrittenQueue ==
    ASSUME NEW w \in Session, NEW waiting, NEW listed
    PROVE  /\ Rewritten(w, waiting, listed).chosen = {} /\ Rewritten(w, waiting, listed).todo = {}
           /\ Rewritten(w, waiting, listed).listed = listed
           /\ Rewritten(w, waiting, listed).waiting = waiting
           /\ Rewritten(w, waiting, listed).staged = w.staged
BY DEF Rewritten, Session

\* AddProposition, on the queue.
LEMMA PromotedQueue ==
    ASSUME NEW src, NEW p, NEW f, NEW w \in Session, QueueOK(src, p, f, w),
           NEW c \in w.todo, NEW q, Records(p, q, w.target, c)
    PROVE  QueueOK(src, q, f, Promoted(w, c)) /\ Promoted(w, c).staged = w.staged
<1>1. CASE w.todo # {c}
  <2>1. Promoted(w, c) = Selected(w, c)
    BY <1>1, Zenon DEF Promoted, Selected
  <2> QED
    BY <2>1, SelectedQueue, QueueRecords
<1>2. CASE w.todo = {c}
  <2> DEFINE left == w.waiting[w.target] \ w.chosen
             waiting == [w.waiting EXCEPT ![w.target] = left]
             listed == IF left = {} THEN w.listed \ {w.target} ELSE w.listed
             v == Rewritten(w, waiting, listed)
  <2>1. Promoted(w, c) = v
    BY <1>2, Zenon DEF Promoted, Rewritten
  <2>2. /\ v.chosen = {} /\ v.todo = {} /\ v.listed = listed /\ v.waiting = waiting
        /\ v.staged = w.staged
    BY RewrittenQueue
  <2> HIDE DEF v
  <2>4. QueueOK(src, q, f, v)
    BY <1>2, <2>2, QueueRewritten
  <2> QED
    BY <2>1, <2>2, <2>4
<1> QED
  BY <1>1, <1>2

\* After an exception the script goes on, or ends, with the queue as it is.
LEMMA AbandonedQueue ==
    ASSUME NEW src, NEW w \in Session, Script(src, w)
    PROVE  SameQueue(Abandoned(w), w)
<1>1. CASE w.unit = 1
  <2>1. Abandoned(w) = Failed(w)
    BY <1>1, Zenon DEF Abandoned, Failed
  <2> QED
    BY <2>1, FailedIs
<1>2. CASE w.unit # 1
  <2> DEFINE missed == w.missed \cup {w.unit}
  <2>1. Abandoned(w) = AfterUnit(w, missed)
    BY <1>2, Zenon DEF Abandoned
  <2>2. missed \in SUBSET Nat
    BY SessionHas
  <2>3. w.sub \in Submissions /\ w.unit \in 1 .. Len(Units[w.sub])
    BY DEF Script
  <2> HIDE DEF missed
  <2> QED
    BY <2>1, <2>2, <2>3, AfterUnitIs DEF Move
<1> QED
  BY <1>1, <1>2

LEMMA AdvancedQueue ==
    ASSUME NEW w \in Session, w.sub \in Submissions, w.unit \in 1 .. Len(Units[w.sub])
    PROVE  SameQueue(Advanced(w), w)
<1>1. CASE w.part < LastPart(w.sub, w.unit)
  <2>1. Advanced(w) = Passed(w)
    BY <1>1, Zenon DEF Advanced, Passed
  <2> QED
    BY <2>1, PassedIs DEF Move
<1>2. CASE ~(w.part < LastPart(w.sub, w.unit))
  <2>1. Advanced(w) = AfterUnit(w, w.missed)
    BY <1>2, Zenon DEF Advanced
  <2> QED
    BY <2>1, SessionHas, AfterUnitIs DEF Move
<1> QED
  BY <1>1, <1>2

-----------------------------------------------------------------------------
(* Steps of one page, for all the queues. *)

LEMMA QueueHas ==
    ASSUME Inv, QueueInv, NEW s \in Sessions
    PROVE  /\ session[s] \in Session /\ QueueOK(source, propositions, faults, session[s])
           /\ session[s].staged # {} => Uses(s)
           /\ \A t \in Sessions \ {s} : session[s].staged \cap session[t].staged = {}
           /\ session[s].listed \subseteq session[s].staged
           /\ \A i \in session[s].staged : i \in Ids /\ source[i] # None
           /\ session[s].pc # "promote" => session[s].chosen = {} /\ session[s].todo = {}
<1>1. /\ session[s] \in Session /\ QueueOK(source, propositions, faults, session[s])
      /\ session[s].staged # {} => Uses(s)
      /\ \A t \in Sessions \ {s} : session[s].staged \cap session[t].staged = {}
  BY InvHas DEF QueueInv
<1>2. session[s].staged \subseteq Ids
  BY <1>1, SessionHas
<1> QED
  BY <1>1, <1>2 DEF QueueOK, Promotion

\* The page of s acts, the other pages' queues are in order afterwards.
LEMMA QueueStep ==
    ASSUME Inv, QueueInv, NEW s \in Sessions, NEW v, Turns(s, v), deployment' = deployment,
           QueueOK(source', propositions', faults', v), v.staged # {} => Uses(s),
           \A i \in v.staged : i \in session[s].staged \/ source[i] = None,
           \A t \in Sessions \ {s} : QueueOK(source', propositions', faults', session[t]),
           \A n \in 1 .. Len(propositions') : source'[propositions'[n].source] # None
    PROVE  QueueInv'
<1>1. ASSUME NEW t \in Sessions \ {s}
      PROVE  v.staged \cap session[t].staged = {}
  <2>1. \A i \in session[t].staged : i \notin session[s].staged /\ source[i] # None
    BY QueueHas
  <2> QED
    BY <2>1
<1>2. /\ QueueOK(source', propositions', faults', session'[s])
      /\ session'[s].staged # {} => Uses(s)'
      /\ \A t \in Sessions \ {s} : session'[s].staged \cap session'[t].staged = {}
  BY <1>1 DEF Turns, Uses
<1>3. ASSUME NEW t \in Sessions \ {s}
      PROVE  /\ QueueOK(source', propositions', faults', session'[t])
             /\ session'[t].staged # {} => Uses(t)'
             /\ \A r \in Sessions \ {t} : session'[t].staged \cap session'[r].staged = {}
  <2>1. session'[t] = session[t] /\ session'[s] = v
    BY DEF Turns
  <2>2. session[t].staged # {} => Uses(t)'
    BY QueueHas DEF Uses
  <2>3. ASSUME NEW r \in Sessions \ {t}
        PROVE  session[t].staged \cap session'[r].staged = {}
    <3>1. CASE r = s
      BY <1>1, <2>1, <3>1
    <3>2. CASE r # s
      BY <3>2, QueueHas DEF Turns
    <3> QED
      BY <3>1, <3>2
  <2> QED
    BY <2>1, <2>2, <2>3
<1> QED
  BY <1>2, <1>3 DEF QueueInv

\* A step that records nothing.
LEMMA QueueTurns ==
    ASSUME Inv, QueueInv, NEW s \in Sessions, NEW v, Turns(s, v),
           UNCHANGED <<deployment, propositions>>, faults' = 0 => faults = 0,
           \A i \in Ids : source[i] # None => source'[i] = source[i],
           QueueOK(source', propositions, faults', v), v.staged # {} => Uses(s),
           \A i \in v.staged : i \in session[s].staged \/ source[i] = None
    PROVE  QueueInv'
<1>1. ASSUME NEW t \in Sessions \ {s}
      PROVE  QueueOK(source', propositions', faults', session[t])
  BY QueueHas, QueueStays
<1>2. \A n \in 1 .. Len(propositions') : source'[propositions'[n].source] # None
  <2>1. propositions \in Seq(Proposition)
    BY DEF Inv, TypeOK
  <2>2. \A n \in 1 .. Len(propositions) : propositions[n] \in Proposition
    BY <2>1
  <2>3. \A n \in 1 .. Len(propositions) : propositions[n].source \in Ids
    BY <2>2 DEF Proposition
  <2> QED
    BY <2>3 DEF QueueInv
<1> QED
  BY <1>1, <1>2, QueueStep

\* A step of the script, or of the session, that leaves the queue alone.
LEMMA QueueAlone ==
    ASSUME Inv, QueueInv, NEW s \in Sessions, NEW v, Turns(s, v),
           session[s].pc # "promote", SameQueue(v, session[s]),
           UNCHANGED <<deployment, propositions>>, faults' = 0 => faults = 0,
           \A i \in Ids : source[i] # None => source'[i] = source[i]
    PROVE  QueueInv'
<1>1. QueueOK(source, propositions, faults, v)
  BY QueueHas, QueueSame
<1>2. v \in Session
  BY DEF Turns
<1>3. QueueOK(source', propositions, faults', v)
  BY <1>1, <1>2, QueueStays
<1>4. v.staged = session[s].staged
  BY DEF SameQueue
<1> QED
  BY <1>3, <1>4, QueueHas, QueueTurns

\* A demo's core starts again.
LEMMA QueueClears ==
    ASSUME Inv, QueueInv, NEW s \in Sessions, deployment = s, deployment' = deployment,
           NEW v, Turns(s, v), v.listed = {}, v.staged = {}, v.chosen = {}, v.todo = {},
           propositions' = <<>>
    PROVE  QueueInv'
<1>1. QueueOK(source', propositions', faults', v)
  BY QueueEmpty
<1>2. ASSUME NEW t \in Sessions \ {s}
      PROVE  QueueOK(source', propositions', faults', session[t])
  <2>1. ~Uses(t)
    BY SourceAssumption DEF Uses
  <2>2. session[t].staged = {} /\ session[t].listed = {}
    BY <2>1, QueueHas
  <2>3. session[t].chosen = {} /\ session[t].todo = {}
    BY <2>2, QueueHas DEF QueueOK, Promotion
  <2> QED
    BY <2>2, <2>3, QueueEmpty
<1>3. \A n \in 1 .. Len(propositions') : source'[propositions'[n].source] # None
  OBVIOUS
<1> QED
  BY <1>1, <1>2, <1>3, QueueStep

LEMMA FaultCounts ==
    ASSUME Inv, Fault
    PROVE  faults' # 0
BY SourceAssumption DEF Inv, TypeOK, Fault

-----------------------------------------------------------------------------
(* Each action keeps the queues in order. *)

LEMMA SubmitQueue ==
    ASSUME Inv, QueueInv, NEW s \in Sessions, NEW b \in Submissions,
           Submit(s, b) \/ DownloadFails(s, b)
    PROVE  QueueInv'
<1>1. /\ session[s] \in Session /\ session[s].pc = "idle"
      /\ UNCHANGED <<deployment, source, propositions>>
  BY InvHas DEF Submit, DownloadFails
<1>2. faults' = 0 => faults = 0
  BY FaultCounts DEF Submit, DownloadFails
<1>3. CASE Submit(s, b)
  <2> DEFINE v == Submitted(session[s], b)
  <2>1. session' = [session EXCEPT ![s] = v]
    BY <1>3, Zenon DEF Submit, Submitted
  <2>2. v \in Session /\ SameQueue(v, session[s])
    BY <1>1, SubmittedIs
  <2> HIDE DEF v
  <2>3. Turns(s, v)
    BY <2>1, <2>2, TurnsTo DEF Inv, TypeOK
  <2> QED
    BY <1>1, <1>2, <2>2, <2>3, QueueAlone
<1>4. CASE DownloadFails(s, b)
  <2> DEFINE v == Rejected(session[s], b)
  <2>1. session' = [session EXCEPT ![s] = v]
    BY <1>4, Zenon DEF DownloadFails, Rejected
  <2>2. v \in Session /\ SameQueue(v, session[s])
    BY <1>1, RejectedIs
  <2> HIDE DEF v
  <2>3. Turns(s, v)
    BY <2>1, <2>2, TurnsTo DEF Inv, TypeOK
  <2> QED
    BY <1>1, <1>2, <2>2, <2>3, QueueAlone
<1> QED
  BY <1>3, <1>4

LEMMA AllocateQueue ==
    ASSUME Inv, QueueInv, NEW s \in Sessions, Allocate(s)
    PROVE  QueueInv'
<1> DEFINE v == Held(session[s], "put", allocated + 1)
<1>1. /\ session[s] \in Session /\ session[s].pc # "promote" /\ allocated + 1 \in Ids
      /\ UNCHANGED <<deployment, source, propositions, faults>>
  BY InvHas, NextIsNew DEF Allocate
<1>2. session' = [session EXCEPT ![s] = v]
  BY Zenon DEF Allocate, Held
<1>3. v \in Session /\ SameQueue(v, session[s])
  BY <1>1, HeldIs
<1> HIDE DEF v
<1>4. Turns(s, v)
  BY <1>2, <1>3, TurnsTo DEF Inv, TypeOK
<1> QED
  BY <1>1, <1>3, <1>4, QueueAlone

LEMMA PutQueue ==
    ASSUME Inv, QueueInv, NEW s \in Sessions, PutLocally(s) \/ PutInCloud(s)
    PROVE  QueueInv'
<1> DEFINE w == session[s]
           v == Held(w, "register", w.id)
<1>1. /\ w.pc = "put" /\ session' = [session EXCEPT ![s].pc = "register"]
      /\ UNCHANGED <<deployment, source, propositions, faults>>
  BY DEF PutLocally, PutInCloud
<1>2. w \in Session /\ w.id \in Ids
  BY <1>1, InvHas DEF Holding
<1>3. v \in Session /\ SameQueue(v, w)
  BY <1>2, HeldIs
<1>4. session' = [session EXCEPT ![s] = v]
  <2>1. [w EXCEPT !.pc = "register"] = v
    BY <1>2 DEF Held, Session
  <2> HIDE DEF v
  <2> QED
    BY <1>1, <2>1
<1> HIDE DEF v
<1>5. Turns(s, v)
  BY <1>3, <1>4, TurnsTo DEF Inv, TypeOK
<1> QED
  BY <1>1, <1>3, <1>5, QueueAlone

\* Nothing has been recorded of a source that was not there.
LEMMA RegisterQueue ==
    ASSUME Inv, QueueInv, NEW s \in Sessions, Register(s)
    PROVE  QueueInv'
<1> DEFINE w == session[s]
           k == Kept(w)
           q == Queued(k)
           v == Advanced(q)
<1>1. /\ w.pc = "register" /\ source' = Registered(w)
      /\ UNCHANGED <<deployment, propositions, faults>>
  BY DEF Register
<1>2. session' = [session EXCEPT ![s] = v]
  BY Zenon DEF Register, Kept
<1>3. /\ w \in Session /\ Script(source, w) /\ Uses(s) /\ w.id \in Ids /\ source[w.id] = None
  BY <1>1, CallerHas, HolderHas DEF Active, Holding
<1>4. /\ source'[w.id] # None /\ source'[w.id].place = Place(w) /\ source'[w.id].case = w.case
      /\ \A i \in Ids : i # w.id => source'[i] = source[i]
  BY <1>1, RegisteredIs
<1>5. \A i \in Ids : source[i] # None => source'[i] = source[i]
  BY <1>3, <1>4
<1> HIDE DEF w
<1>6. /\ w.sub \in Submissions /\ w.unit \in 1 .. Len(Units[w.sub])
      /\ w.part \in 1 .. Len(Units[w.sub][w.unit])
  <2>1. /\ w.sub \in Submissions /\ w.unit \in 1 .. Len(Units[w.sub])
        /\ w.part \in 1 .. LastPart(w.sub, w.unit)
    BY <1>3 DEF Script
  <2> QED
    BY <2>1, UnitIs
<1>7. <<w.unit, w.part>> \in Slots /\ PartAt(Place(w)).doc \in Docs
  <2>1. /\ PartAt(<<w.sub, w.unit, w.part>>) = Units[w.sub][w.unit][w.part]
        /\ Units[w.sub][w.unit][w.part].doc \in Docs
    BY <1>6, PartIs
  <2>2. Place(w) = <<w.sub, w.unit, w.part>>
    BY DEF Place
  <2>3. <<w.unit, w.part>> \in Slots
    BY <1>6, PlaceIs
  <2> QED
    BY <2>1, <2>2, <2>3
<1>8. /\ k \in Session /\ SameQueue(k, w) /\ k.id = w.id /\ k.sub = w.sub /\ k.unit = w.unit
      /\ k.part = w.part /\ k.pc = w.pc
  BY <1>3, <1>7, KeptIs
<1>9. Place(k) = Place(w)
  BY <1>8 DEF Place
<1> HIDE DEF k
<1>10. /\ q \in Session /\ q.sub = w.sub /\ q.unit = w.unit /\ q.pc = w.pc
       /\ SameQueue(q, w) \/ Takes(q, w, w.id, Extract[PartAt(Place(w)).doc])
  BY <1>3, <1>6, <1>7, <1>8, <1>9, QueuedIs, SMTT(30) DEF SameScript, SameQueue, Takes
<1> HIDE DEF q
<1>11. SameQueue(v, q)
  BY <1>6, <1>10, AdvancedQueue
<1>12. v \in Session
  BY <1>3, <1>4, <1>5, AdvancedOK DEF Proceeds, q, k
<1> HIDE DEF v
<1>13. Turns(s, v)
  BY <1>2, <1>12, TurnsTo DEF Inv, TypeOK
<1>14. \A c : Recs(propositions, w.id, c) = {}
  BY <1>3 DEF QueueInv, Recs
<1>15. QueueOK(source, propositions, faults, w)
  BY QueueHas DEF w
<1>16. CASE SameQueue(q, w)
  <2>1. SameQueue(v, w)
    BY <1>11, <1>16 DEF SameQueue
  <2> QED
    BY <1>1, <1>5, <1>13, <2>1, QueueAlone DEF w
<1>17. CASE Takes(q, w, w.id, Extract[PartAt(Place(w)).doc])
  <2>1. Takes(v, w, w.id, Extract[PartAt(source'[w.id].place).doc])
    BY <1>4, <1>11, <1>17 DEF SameQueue, Takes
  <2>2. w.pc # "promote"
    BY <1>1
  <2>3. QueueOK(source', propositions, faults, v)
    BY <1>3, <1>4, <1>14, <1>15, <2>1, <2>2, QueueTakes
  <2>4. \A i \in v.staged : i \in w.staged \/ source[i] = None
    BY <1>3, <2>1 DEF Takes
  <2>5. v.staged # {} => Uses(s)
    BY <1>3
  <2> QED
    BY <1>1, <1>5, <1>13, <2>3, <2>4, <2>5, QueueTurns DEF w
<1> QED
  BY <1>10, <1>16, <1>17

\* A call that fails, or is not answered.
LEMMA AbandonQueue ==
    ASSUME Inv, QueueInv, NEW s \in Sessions, Throws(s) \/ Unanswered(s)
    PROVE  QueueInv'
<1> DEFINE w == session[s]
           v == Abandoned(w)
<1>1. /\ Active(w) /\ session' = [session EXCEPT ![s] = v]
      /\ UNCHANGED <<deployment, propositions>>
  BY Zenon DEF Throws, Unanswered, Active
<1>2. w \in Session /\ Script(source, w)
  BY <1>1, CallerHas
<1>3. v \in Session /\ SameQueue(v, w)
  BY <1>2, AbandonedOK, AbandonedQueue DEF Proceeds
<1> HIDE DEF v
<1>4. Turns(s, v)
  BY <1>1, <1>3, TurnsTo DEF Inv, TypeOK
<1>5. faults' = 0 => faults = 0
  BY FaultCounts DEF Throws, Unanswered
<1>6. \A i \in Ids : source[i] # None => source'[i] = source[i]
  <2>1. source' = source \/ (w.pc = "register" /\ source' = Registered(w))
    BY DEF Throws, Unanswered
  <2>2. CASE w.pc = "register" /\ source' = Registered(w)
    <3>1. source[w.id] = None /\ w.id \in Ids
      BY <2>2, HolderHas DEF Holding
    <3>2. \A i \in Ids : i # w.id => source'[i] = source[i]
      BY <2>2, RegisteredIs
    <3> QED
      BY <3>1, <3>2
  <2> QED
    BY <2>1, <2>2
<1>7. w.pc # "promote"
  BY <1>1 DEF Active
<1> QED
  BY <1>1, <1>3, <1>4, <1>5, <1>6, <1>7, QueueAlone

LEMMA DismissQueue ==
    ASSUME Inv, QueueInv, NEW s \in Sessions, NEW i \in Ids, Dismiss(s, i)
    PROVE  QueueInv'
<1> DEFINE w == session[s]
           v == Dismissed(w, i)
<1>1. /\ w \in Session /\ w.pc # "promote" /\ w.waiting[i] = {}
      /\ UNCHANGED <<deployment, source, propositions, faults>>
  BY InvHas DEF Dismiss
<1>2. session' = [session EXCEPT ![s] = v]
  BY Zenon DEF Dismiss, Dismissed
<1>3. v \in Session
  BY <1>1, DismissedIs DEF Still
<1>4. /\ v.listed = w.listed \ {i} /\ v.waiting = w.waiting /\ v.staged = w.staged
      /\ v.chosen = w.chosen /\ v.todo = w.todo
  BY <1>1, DismissedQueue
<1> HIDE DEF v
<1>5. Turns(s, v)
  BY <1>2, <1>3, TurnsTo DEF Inv, TypeOK
<1>6. QueueOK(source, propositions, faults, w) /\ (w.staged # {} => Uses(s))
  BY QueueHas
<1>7. QueueOK(source, propositions, faults, v)
  BY <1>1, <1>4, <1>6, QueueDrops
<1> QED
  BY <1>1, <1>4, <1>5, <1>6, <1>7, QueueTurns

LEMMA PromoteQueue ==
    ASSUME Inv, QueueInv, NEW s \in Sessions, NEW i \in Ids,
           NEW chosen \in SUBSET session[s].waiting[i], Promote(s, i, chosen)
    PROVE  QueueInv'
<1> DEFINE w == session[s]
           v == Promoting(w, i, chosen)
<1>1. /\ w \in Session /\ w.pc # "promote" /\ i \in w.listed
      /\ UNCHANGED <<deployment, source, propositions, faults>>
  BY InvHas DEF Promote
<1>2. session' = [session EXCEPT ![s] = v]
  BY Zenon DEF Promote, Promoting
<1>3. chosen \in SUBSET Statements
  BY <1>1, SessionHas
<1>4. v \in Session
  BY <1>1, <1>3, PromotingIs DEF Still
<1>5. /\ v.pc = "promote" /\ v.target = i /\ v.chosen = chosen /\ v.todo = chosen
      /\ v.listed = w.listed /\ v.waiting = w.waiting /\ v.staged = w.staged
  BY <1>1, PromotingQueue
<1> HIDE DEF v
<1>6. Turns(s, v)
  BY <1>2, <1>4, TurnsTo DEF Inv, TypeOK
<1>7. QueueOK(source, propositions, faults, w) /\ (w.staged # {} => Uses(s))
  BY QueueHas
<1>8. QueueOK(source, propositions, faults, v)
  BY <1>1, <1>5, <1>7, QueuePromotes
<1> QED
  BY <1>1, <1>5, <1>6, <1>7, <1>8, QueueTurns

\* What recording a statement does to the propositions.
LEMMA RecordedQueue ==
    ASSUME Inv, QueueInv, NEW s \in Sessions, session[s].pc = "promote", NEW c \in Statements,
           source[session[s].target] # None
    PROVE  /\ Records(propositions, Recorded(session[s], c), session[s].target, c)
           /\ \A n \in 1 .. Len(Recorded(session[s], c)) :
                  source[Recorded(session[s], c)[n].source] # None
<1> DEFINE w == session[s]
           r == [source |-> w.target, statement |-> c, case |-> w.case]
           q == Recorded(w, c)
<1>1. w.target \in Ids /\ w.case \in Cases
  BY RecordedIs, InvHas, SessionHas
<1>2. r \in Proposition /\ r.source = w.target /\ r.statement = c
  BY <1>1 DEF Proposition
<1>3. propositions \in Seq(Proposition)
  BY DEF Inv, TypeOK
<1>4. q = Append(propositions, r)
  BY DEF Recorded
<1> HIDE DEF q, r
<1>5. Records(propositions, q, w.target, c)
  BY <1>2, <1>3, <1>4, RecsAppend
<1>6. \A n \in 1 .. Len(q) : (n \in 1 .. Len(propositions) /\ q[n] = propositions[n]) \/ q[n] = r
  BY <1>2, <1>3, <1>4
<1>7. \A n \in 1 .. Len(q) : source[q[n].source] # None
  BY <1>2, <1>6 DEF QueueInv
<1> QED
  BY <1>5, <1>7 DEF q

LEMMA AddPropositionQueue ==
    ASSUME Inv, QueueInv, NEW s \in Sessions, NEW c \in Statements, AddProposition(s, c)
    PROVE  QueueInv'
<1> DEFINE w == session[s]
           v == Promoted(w, c)
<1>1. /\ w \in Session /\ w.pc = "promote" /\ c \in w.todo /\ source[w.target] # None
      /\ propositions' = Recorded(w, c) /\ UNCHANGED <<deployment, source, faults>>
  BY InvHas DEF AddProposition
<1>2. session' = [session EXCEPT ![s] = v]
  BY Zenon DEF AddProposition
<1>3. v \in Session
  BY <1>1, RecordedIs, PromotedIs DEF Still
<1>4. /\ Records(propositions, propositions', w.target, c)
      /\ \A n \in 1 .. Len(propositions') : source'[propositions'[n].source] # None
  BY <1>1, RecordedQueue
<1>5. QueueOK(source, propositions, faults, w) /\ (w.staged # {} => Uses(s))
  BY QueueHas
<1>6. QueueOK(source, propositions', faults, v) /\ v.staged = w.staged
  BY <1>1, <1>4, <1>5, PromotedQueue
<1> HIDE DEF v
<1>7. Turns(s, v)
  BY <1>2, <1>3, TurnsTo DEF Inv, TypeOK
<1>8. ASSUME NEW t \in Sessions \ {s}
      PROVE  QueueOK(source', propositions', faults', session[t])
  <2>1. w.target \in w.staged
    <3>1. c \in w.chosen
      BY <1>1, <1>5 DEF QueueOK, Promotion
    <3> QED
      BY <1>5, <3>1 DEF QueueOK, Promotion
  <2>2. w.target \notin session[t].staged
    BY <2>1, QueueHas
  <2>3. \A i \in session[t].staged : \A d :
            Recs(propositions', i, d) = Recs(propositions, i, d)
    BY <1>4, <2>2 DEF Records
  <2>4. session[t] \in Session /\ QueueOK(source, propositions, faults, session[t])
    BY QueueHas
  <2> QED
    BY <1>1, <2>3, <2>4, QueueStays
<1> QED
  BY <1>1, <1>4, <1>5, <1>6, <1>7, <1>8, QueueStep

LEMMA PromotionFailsQueue ==
    ASSUME Inv, QueueInv, NEW s \in Sessions, NEW c \in Statements, PromotionFails(s, c)
    PROVE  QueueInv'
<1> DEFINE w == session[s]
           v == Stopped(w)
<1>1. /\ w \in Session /\ w.pc = "promote" /\ UNCHANGED <<deployment, source>>
  BY InvHas DEF PromotionFails
<1>2. faults' # 0
  BY FaultCounts DEF PromotionFails
<1>3. session' = [session EXCEPT ![s] = v]
  BY Zenon DEF PromotionFails, Stopped
<1>4. v \in Session
  BY <1>1, StoppedIs DEF Still
<1>5. /\ v.listed = w.listed /\ v.waiting = w.waiting /\ v.staged = w.staged
      /\ v.chosen = {} /\ v.todo = {}
  BY <1>1, StoppedQueue
<1> HIDE DEF v
<1>6. Turns(s, v)
  BY <1>3, <1>4, TurnsTo DEF Inv, TypeOK
<1>7. /\ \A i, d : Recs(propositions, i, d) \subseteq Recs(propositions', i, d)
      /\ \A n \in 1 .. Len(propositions') : source'[propositions'[n].source] # None
  <2>1. CASE propositions' = propositions
    BY <1>1, <2>1 DEF QueueInv
  <2>2. CASE source[w.target] # None /\ propositions' = Recorded(w, c)
    <3>1. /\ Records(propositions, propositions', w.target, c)
          /\ \A n \in 1 .. Len(propositions') : source[propositions'[n].source] # None
      BY <1>1, <2>2, RecordedQueue
    <3>2. \A i, d : Recs(propositions, i, d) \subseteq Recs(propositions', i, d)
      BY <3>1 DEF Records
    <3> QED
      BY <1>1, <3>1, <3>2
  <2> QED
    BY <2>1, <2>2 DEF PromotionFails
<1>8. ASSUME NEW t \in Sessions
      PROVE  QueueOK(source', propositions', faults', session[t])
  <2>1. session[t] \in Session /\ QueueOK(source, propositions, faults, session[t])
    BY QueueHas
  <2> QED
    BY <1>1, <1>2, <1>7, <2>1, QueueGrows
<1>9. QueueOK(source', propositions', faults', v)
  BY <1>2, <1>5, <1>8, QueueStops
<1>10. v.staged # {} => Uses(s)
  BY <1>5, QueueHas
<1> QED
  BY <1>1, <1>5, <1>6, <1>7, <1>8, <1>9, <1>10, QueueStep

LEMMA SwitchCaseQueue ==
    ASSUME Inv, QueueInv, NEW s \in Sessions, NEW c \in Cases, SwitchCase(s, c)
    PROVE  QueueInv'
<1> DEFINE v == Switched(session[s], c)
<1>1. /\ session[s] \in Session /\ session[s].pc # "promote"
      /\ UNCHANGED <<deployment, source, propositions, faults>>
  BY InvHas DEF SwitchCase
<1>2. session' = [session EXCEPT ![s] = v]
  BY Zenon DEF SwitchCase, Switched
<1>3. v \in Session /\ SameQueue(v, session[s])
  BY <1>1, SwitchedIs, SwitchedQueue DEF Still
<1> HIDE DEF v
<1>4. Turns(s, v)
  BY <1>2, <1>3, TurnsTo DEF Inv, TypeOK
<1> QED
  BY <1>1, <1>3, <1>4, QueueAlone

LEMMA ReplaceDemoDataQueue ==
    ASSUME Inv, QueueInv, NEW s \in Sessions, ReplaceDemoData(s)
    PROVE  QueueInv'
<1> DEFINE w == session[s]
           v == Emptied(w)
<1>1. session' = [session EXCEPT ![s] = v]
  BY Zenon DEF ReplaceDemoData, Emptied
<1>2. /\ w \in Session /\ w.chosen = {} /\ w.todo = {} /\ deployment = s
      /\ propositions' = <<>> /\ deployment' = deployment
  BY QueueHas DEF ReplaceDemoData
<1>3. v \in Session /\ v.listed = {} /\ v.staged = {} /\ v.chosen = {} /\ v.todo = {}
  BY <1>2, EmptiedIs, EmptiedQueue
<1> HIDE DEF v
<1>4. Turns(s, v)
  BY <1>1, <1>3, TurnsTo DEF Inv, TypeOK
<1> QED
  BY <1>2, <1>3, <1>4, QueueClears

LEMMA SessionEndsQueue ==
    ASSUME Inv, QueueInv, NEW s \in Sessions, SessionEnds(s)
    PROVE  QueueInv'
<1> DEFINE v == Fresh(session[s].case)
<1>1. session' = [session EXCEPT ![s] = v] /\ deployment' = deployment
  BY DEF SessionEnds
<1>2. v \in Session /\ v.listed = {} /\ v.staged = {} /\ v.chosen = {} /\ v.todo = {}
  BY InvHas, SessionHas, FreshIs, FreshQueue
<1> HIDE DEF v
<1>3. Turns(s, v)
  BY <1>1, <1>2, TurnsTo DEF Inv, TypeOK
<1>4. CASE deployment = s
  BY <1>1, <1>2, <1>3, <1>4, QueueClears DEF SessionEnds
<1>5. CASE deployment # s
  <2>1. UNCHANGED <<source, propositions>> /\ faults' # 0
    BY <1>5, FaultCounts DEF SessionEnds
  <2>2. QueueOK(source', propositions, faults', v)
    BY <1>2, QueueEmpty
  <2> QED
    BY <1>1, <1>2, <1>3, <2>1, <2>2, QueueTurns
<1> QED
  BY <1>4, <1>5

LEMMA InitQueues == Init => QueueInv
<1> SUFFICES ASSUME Init PROVE QueueInv
  OBVIOUS
<1>1. ASSUME NEW s \in Sessions
      PROVE  /\ session[s].listed = {} /\ session[s].staged = {}
             /\ session[s].chosen = {} /\ session[s].todo = {}
  BY FreshQueue DEF Init
<1>2. ASSUME NEW s \in Sessions
      PROVE  QueueOK(source, propositions, faults, session[s])
  BY <1>1, QueueEmpty
<1> QED
  BY <1>1, <1>2 DEF QueueInv, Init

LEMMA QueuesStep == Inv /\ QueueInv /\ [Next]_vars => QueueInv'
<1> SUFFICES ASSUME Inv, QueueInv, [Next]_vars PROVE QueueInv'
  OBVIOUS
<1>1. CASE UNCHANGED vars
  BY <1>1 DEF vars, QueueInv, Uses
<1>2. ASSUME NEW s \in Sessions, NEW b \in Submissions, Submit(s, b) \/ DownloadFails(s, b)
      PROVE  QueueInv'
  BY <1>2, SubmitQueue
<1>3. ASSUME NEW s \in Sessions,
             Allocate(s) \/ PutLocally(s) \/ PutInCloud(s) \/ Register(s) \/ Throws(s)
               \/ Unanswered(s)
      PROVE  QueueInv'
  BY <1>3, AllocateQueue, PutQueue, RegisterQueue, AbandonQueue
<1>4. ASSUME NEW s \in Sessions, NEW i \in Ids, Dismiss(s, i)
      PROVE  QueueInv'
  BY <1>4, DismissQueue
<1>5. ASSUME NEW s \in Sessions, NEW i \in Ids, NEW chosen \in SUBSET session[s].waiting[i],
             Promote(s, i, chosen)
      PROVE  QueueInv'
  BY <1>5, PromoteQueue
<1>6. ASSUME NEW s \in Sessions, NEW c \in Statements,
             AddProposition(s, c) \/ PromotionFails(s, c)
      PROVE  QueueInv'
  BY <1>6, AddPropositionQueue, PromotionFailsQueue
<1>7. ASSUME NEW s \in Sessions, NEW c \in Cases, SwitchCase(s, c)
      PROVE  QueueInv'
  BY <1>7, SwitchCaseQueue
<1>8. ASSUME NEW s \in Sessions, ReplaceDemoData(s) \/ SessionEnds(s)
      PROVE  QueueInv'
  BY <1>8, ReplaceDemoDataQueue, SessionEndsQueue
<1> QED
  BY <1>1, <1>2, <1>3, <1>4, <1>5, <1>6, <1>7, <1>8 DEF Next

LEMMA QueuesHold == Spec => [](Inv /\ QueueInv)
<1>1. Inv /\ QueueInv /\ [Next]_vars => (Inv /\ QueueInv)'
  BY StepKeeps, QueuesStep
<1> QED
  BY <1>1, InitHolds, InitQueues, PTL DEF Spec

-----------------------------------------------------------------------------
(* The theorem. *)

\* However many pages work at once and whatever call fails, what was extracted
\* for a page is still waiting there or is a proposition; and as long as no
\* promotion failed half-way, no statement becomes two propositions.
THEOREM StatementsHold == Spec => []StatementsAccounted
<1>1. ASSUME Inv, QueueInv, NEW s \in Sessions, NEW i \in session[s].staged
      PROVE  /\ source[i] # None
             /\ \A c \in Extract[PartAt(source[i].place).doc] :
                   /\ Recordings(i, c) = {} =>
                        i \in session[s].listed /\ c \in session[s].waiting[i]
                   /\ faults = 0 => Cardinality(Recordings(i, c)) <= 1
  <2>1. QueueOK(source, propositions, faults, session[s])
    BY <1>1 DEF QueueInv
  <2>2. ASSUME NEW c
        PROVE  Recordings(i, c) = Recs(propositions, i, c)
    BY DEF Recordings, Recs
  <2>3. ASSUME NEW c \in Extract[PartAt(source[i].place).doc], Recordings(i, c) = {}
        PROVE  i \in session[s].listed /\ c \in session[s].waiting[i]
    BY <2>1, <2>2, <2>3 DEF QueueOK, Accounted
  <2>4. ASSUME NEW c, faults = 0
        PROVE  Cardinality(Recordings(i, c)) <= 1
    <3>1. \A m, n \in Recordings(i, c) : m = n
      BY <2>1, <2>2, <2>4 DEF QueueOK, Once
    <3>2. CASE Recordings(i, c) = {}
      BY <3>2, FS_EmptySet
    <3>3. CASE Recordings(i, c) # {}
      <4>1. PICK m : Recordings(i, c) = {m}
        BY <3>1, <3>3
      <4>2. Cardinality({m}) = 1
        BY FS_Singleton
      <4> QED
        BY <4>1, <4>2
    <3> QED
      BY <3>2, <3>3
  <2> QED
    BY <2>1, <2>3, <2>4 DEF QueueOK
<1>2. Inv /\ QueueInv => StatementsAccounted
  BY <1>1 DEF StatementsAccounted
<1> QED
  BY <1>2, QueuesHold, PTL
=============================================================================
