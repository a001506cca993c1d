-------------------------- MODULE SourceIntakeProofs --------------------------
(***************************************************************************)
(* Proofs about SourceIntake, for any sessions, cases, submissions and     *)
(* contents, any limits of the inspection and any number of failures.      *)
(***************************************************************************)
EXTENDS SourceIntake, FiniteSetTheorems, WellFoundedInduction, TLAPS

-----------------------------------------------------------------------------
(* The inductive invariant. *)

\* Part j of file k of a page's submission is a source, and the page knows it.
Did(src, w, k, j) ==
    LET i == w.made[<<k, j>>] IN
    i \in Ids /\ src[i] # None /\ src[i].place = <<w.sub, k, j>>
Here(src, w, k, j) == Did(src, w, k, j) /\ src[w.made[<<k, j>>]].case = w.case

UnitDone(src, w, k) == k \in w.missed \/ \A j \in 1 .. LastPart(w.sub, k) : Did(src, w, k, j)

\* How far the script of a page has come.
Active(w) == w.pc \in {"allocate", "put", "register"}
Holding(w) == w.pc \in {"put", "register"}
Script(src, w) ==
    /\ w.sub \in Submissions /\ w.unit \in 1 .. Len(Units[w.sub]) /\ Inspected(w.sub, w.unit)
    /\ w.part \in 1 .. LastPart(w.sub, w.unit) /\ w.told = "nothing"
    /\ \A k \in 1 .. w.unit - 1 : UnitDone(src, w, k)
    /\ \A j \in 1 .. w.part - 1 : Here(src, w, w.unit, j)
    /\ w.unit > 1 => Here(src, w, 1, 1)
Complete(src, w) ==
    w.sub \in Submissions /\ \A k \in 1 .. Len(Units[w.sub]) : UnitDone(src, w, k)
PageOK(src, w) ==
    /\ Active(w) => Script(src, w)
    /\ w.told = "completed" => Complete(src, w)
    /\ w.pc = "promote" => w.target \in Ids

\* An identifier that a page holds is nobody else's.
Owned(n, src, obj, w) ==
    Holding(w) => /\ w.id \in 1 .. n /\ src[w.id] = None
                  /\ w.pc = "register" => obj[w.id] = Sealed(w)
Apart(v, w) == (Holding(v) /\ Holding(w)) => v.id # w.id

\* A demo deployment follows one session; the others do nothing.
Busy(w) == Active(w) \/ w.told # "nothing"

\* A source of the core: its object, its lineage, its inspection.
ObjectOf(src, obj, i) ==
    obj[i] # None /\ obj[i].case = src[i].case /\ obj[i].place = src[i].place
Above(p) == IF p[3] > 1 THEN <<p[1], p[2], PartAt(p).within>> ELSE <<p[1], 1, 1>>
Lineage(src, i) ==
    IF src[i].place[2] = 1 /\ src[i].place[3] = 1
      THEN src[i].parent = 0
      ELSE /\ src[i].parent # 0
           /\ src[src[i].parent] # None
           /\ src[src[i].parent].place = Above(src[i].place)
           /\ src[src[i].parent].case = src[i].case
SourceOK(n, src, obj, i) ==
    src[i] # None => /\ i <= n /\ ObjectOf(src, obj, i) /\ Lineage(src, i)
                     /\ Inspected(src[i].place[1], src[i].place[2])

PagesInv ==
    \A s \in Sessions :
        /\ PageOK(source, session[s]) /\ Owned(allocated, source, object, session[s])
        /\ Busy(session[s]) => Uses(s)
        /\ \A t \in Sessions \ {s} : Apart(session[s], session[t])
SourcesInv == \A i \in Ids : SourceOK(allocated, source, object, i)
Inv == TypeOK /\ PagesInv /\ SourcesInv

-----------------------------------------------------------------------------
(* Sets and files. *)

LEMMA MinIs ==
    ASSUME NEW S \in SUBSET Nat, S # {}
    PROVE  Min(S) \in S /\ \A n \in S : Min(S) <= n
<1> DEFINE Upto(n) == 1 .. n
           T == {Upto(n) : n \in S}
<1>1. T \subseteq FiniteSubsetsOf(Nat)
  BY FS_Interval DEF FiniteSubsetsOf
<1>2. PICK x \in T : \A y \in T : ~(<<y, x>> \in StrictSubsetOrdering(Nat))
  <2>1. IsWellFoundedOn(StrictSubsetOrdering(Nat), FiniteSubsetsOf(Nat))
    BY FS_StrictSubsetOrderingWellFounded
  <2>2. T # {}
    OBVIOUS
  <2> HIDE DEF T
  <2> QED
    BY <1>1, <2>1, <2>2, WFMin
<1>3. PICK m \in S : x = Upto(m)
  BY <1>2
<1>4. ASSUME NEW n \in S, n < m
      PROVE  FALSE
  <2>1. Upto(n) \subseteq Upto(m) /\ Upto(n) # Upto(m)
    <3>1. m \in Upto(m) /\ m \notin Upto(n)
      BY <1>4
    <3> QED
      BY <1>4, <3>1
  <2>2. <<Upto(n), Upto(m)>> \in StrictSubsetOrdering(Nat)
    BY <2>1 DEF StrictSubsetOrdering
  <2> QED
    BY <1>2, <1>3, <2>2
<1>5. \A n \in S : m <= n
  BY <1>4
<1> QED
  BY <1>5 DEF Min

\* The files of a submission and their parts.
LEMMA UnitIs ==
    ASSUME NEW b \in Submissions, NEW k \in 1 .. Len(Units[b])
    PROVE  /\ Len(Units[b]) \in Nat /\ Units[b][k] \in Seq(Part)
           /\ Len(Units[b][k]) \in Nat /\ 1 \in 1 .. Len(Units[b][k])
           /\ LastPart(b, k) \in 1 .. Len(Units[b][k])
<1>1. /\ Units[b] \in Seq(Seq(Part)) /\ Len(Units[b][k]) >= 1
  BY SourceAssumption
<1>2. Units[b][k] \in Seq(Part) /\ Len(Units[b]) \in Nat
  BY <1>1
<1>3. Len(Units[b][k]) \in Nat
  BY <1>2
<1> QED
  BY <1>1, <1>2, <1>3 DEF LastPart

LEMMA PlaceIs ==
    ASSUME NEW b \in Submissions, NEW k \in 1 .. Len(Units[b]), NEW j \in 1 .. Len(Units[b][k])
    PROVE  <<b, k, j>> \in Places /\ <<k, j>> \in Slots
<1>1. <<b, k, j>> \in Places
  BY DEF Places
<1>2. <<<<b, k, j>>[2], <<b, k, j>>[3]>> \in Slots
  BY <1>1 DEF Slots
<1> QED
  BY <1>1, <1>2

LEMMA PartIs ==
    ASSUME NEW b \in Submissions, NEW k \in 1 .. Len(Units[b]), NEW j \in 1 .. Len(Units[b][k])
    PROVE  /\ PartAt(<<b, k, j>>) = Units[b][k][j] /\ Units[b][k][j].doc \in Docs
           /\ Units[b][k][j].within \in Nat /\ Units[b][k][j].within < j
           /\ j > 1 => /\ Units[b][k][j].within \in 1 .. j - 1
                       /\ Units[b][k][Units[b][k][j].within].zip
<1>1. Units[b][k] \in Seq(Part)
  BY UnitIs
<1>2. Units[b][k][j] \in Part
  BY <1>1
<1>3. Units[b][k][j].within < j
  BY SourceAssumption
<1>4. j > 1 => Units[b][k][j].within # 0 /\ Units[b][k][Units[b][k][j].within].zip
  <2>1. Len(Units[b][k]) \in Nat
    BY UnitIs
  <2>2. j > 1 => j \in 2 .. Len(Units[b][k])
    BY <2>1
  <2> QED
    BY <2>2, SourceAssumption
<1>5. Units[b][k][j].doc \in Docs /\ Units[b][k][j].within \in Nat
  BY <1>2 DEF Part
<1>6. j \in Nat
  BY UnitIs
<1>7. j > 1 => Units[b][k][j].within \in 1 .. j - 1
  BY <1>3, <1>4, <1>5, <1>6
<1> QED
  BY <1>3, <1>4, <1>5, <1>7 DEF PartAt

LEMMA ExtractIs ==
    ASSUME NEW d \in Docs
    PROVE  Extract[d] \in SUBSET Statements
<1> DEFINE chosen == {m \in Distinct(d) : Cardinality({k \in Distinct(d) : k <= m}) <= MaxCandidates}
<1>1. Extract[d] = {Lines[d][n] : n \in chosen}
  BY DEF Extract
<1>2. \A n \in chosen : n \in 1 .. Len(Lines[d]) /\ Lines[d][n] # Blank
  BY DEF Distinct, Segments
<1> HIDE DEF chosen
<1>3. ASSUME NEW c, NEW n \in 1 .. Len(Lines[d]), c = Lines[d][n], c # Blank
      PROVE  c \in Statements
  <2>1. c \in {Lines[d][i] : i \in 1 .. Len(Lines[d])}
    BY <1>3, Zenon
  <2>2. c \in UNION {{Lines[e][i] : i \in 1 .. Len(Lines[e])} : e \in Docs}
    BY <2>1, Zenon
  <2> QED
    BY <1>3, <2>2, Zenon DEF Statements
<1> QED
  <2>1. ASSUME NEW n \in chosen PROVE Lines[d][n] \in Statements
    BY <1>2, <1>3
  <2> QED
    BY <1>1, <2>1

-----------------------------------------------------------------------------
(* What the steps make of a session. *)

SameScript(v, w) ==
    /\ v.case = w.case /\ v.sub = w.sub /\ v.unit = w.unit /\ v.part = w.part /\ v.id = w.id
    /\ v.made = w.made /\ v.missed = w.missed /\ v.told = w.told
SameQueue(v, w) ==
    /\ v.listed = w.listed /\ v.waiting = w.waiting /\ v.staged = w.staged
    /\ v.target = w.target /\ v.chosen = w.chosen /\ v.todo = w.todo

LEMMA SessionHas ==
    ASSUME NEW w \in Session
    PROVE  /\ w.pc \in {"idle", "allocate", "put", "register", "promote"} /\ w.case \in Cases
           /\ w.sub \in Submissions \cup {None} /\ w.unit \in Nat /\ w.part \in Nat
           /\ w.id \in Ids \cup {0} /\ w.made \in [Slots -> Ids \cup {0}]
           /\ w.missed \in SUBSET Nat /\ w.listed \in SUBSET Ids
           /\ w.told \in {"nothing", "completed", "rejected", "failed"}
           /\ w.waiting \in [Ids -> SUBSET Statements] /\ w.staged \in SUBSET Ids
           /\ w.target \in Ids \cup {0} /\ w.chosen \in SUBSET Statements
           /\ w.todo \in SUBSET Statements
BY DEF Session

Submitted(w, b) ==
    [w EXCEPT !.sub = b, !.unit = 1, !.part = 1, !.id = 0,
              !.made = [p \in Slots |-> 0], !.missed = {},
              !.pc = IF Inspected(b, 1) THEN "allocate" ELSE "idle",
              !.told = IF Inspected(b, 1) THEN "nothing" ELSE "rejected"]
LEMMA SubmittedIs ==
    ASSUME NEW w \in Session, NEW b \in Submissions
    PROVE  /\ Submitted(w, b) \in Session /\ SameQueue(Submitted(w, b), w)
           /\ Submitted(w, b).pc = (IF Inspected(b, 1) THEN "allocate" ELSE "idle")
           /\ Submitted(w, b).told = (IF Inspected(b, 1) THEN "nothing" ELSE "rejected")
           /\ Submitted(w, b).case = w.case /\ Submitted(w, b).sub = b
           /\ Submitted(w, b).unit = 1 /\ Submitted(w, b).part = 1
<1>1. Submitted(w, b) \in Session
  BY ZenonT(60) DEF Submitted, Session
<1>2. /\ SameQueue(Submitted(w, b), w)
      /\ Submitted(w, b).pc = (IF Inspected(b, 1) THEN "allocate" ELSE "idle")
      /\ Submitted(w, b).told = (IF Inspected(b, 1) THEN "nothing" ELSE "rejected")
      /\ Submitted(w, b).case = w.case /\ Submitted(w, b).sub = b
      /\ Submitted(w, b).unit = 1 /\ Submitted(w, b).part = 1
  BY DEF Submitted, Session, SameQueue
<1> QED
  BY <1>1, <1>2

Rejected(w, b) ==
    [w EXCEPT !.sub = b, !.unit = 1, !.part = 1, !.told = "rejected",
              !.made = [p \in Slots |-> 0], !.missed = {}]
LEMMA RejectedIs ==
    ASSUME NEW w \in Session, NEW b \in Submissions
    PROVE  /\ Rejected(w, b) \in Session /\ SameQueue(Rejected(w, b), w)
           /\ Rejected(w, b).pc = w.pc /\ Rejected(w, b).told = "rejected"
<1>1. Rejected(w, b) \in Session
  BY DEF Rejected, Session
<1>2. /\ SameQueue(Rejected(w, b), w) /\ Rejected(w, b).pc = w.pc
      /\ Rejected(w, b).told = "rejected"
  BY DEF Rejected, Session, SameQueue
<1> QED
  BY <1>1, <1>2

\* The script goes to another file, or ends.
Moved(w, missed, unit, part, pc, told) ==
    [w EXCEPT !.missed = missed, !.unit = unit, !.part = part, !.id = 0, !.pc = pc, !.told = told]
Move(v, w, missed, unit, part, pc, told) ==
    /\ v \in Session /\ SameQueue(v, w)
    /\ v.case = w.case /\ v.sub = w.sub /\ v.made = w.made
    /\ v.missed = missed /\ v.unit = unit /\ v.part = part /\ v.id = 0
    /\ v.pc = pc /\ v.told = told
LEMMA MovedIs ==
    ASSUME NEW w \in Session, NEW missed \in SUBSET Nat, NEW unit \in Nat, NEW part \in Nat,
           NEW pc \in {"idle", "allocate"}, NEW told \in {"nothing", "completed", "failed"}
    PROVE  Move(Moved(w, missed, unit, part, pc, told), w, missed, unit, part, pc, told)
<1> DEFINE v == Moved(w, missed, unit, part, pc, told)
<1>1. v \in Session
  BY DEF Moved, Session
<1>2. /\ SameQueue(v, w) /\ v.case = w.case /\ v.sub = w.sub /\ v.made = w.made
      /\ v.missed = missed /\ v.unit = unit /\ v.part = part /\ v.id = 0
      /\ v.pc = pc /\ v.told = told
  BY DEF Moved, Session, SameQueue
<1> QED
  BY <1>1, <1>2 DEF Move

\* The next attachment that is registered, or one past the last.
LEMMA NextUnitIs ==
    ASSUME NEW b \in Submissions, NEW k \in 1 .. Len(Units[b])
    PROVE  /\ NextUnit(b, k) \in Nat /\ NextUnit(b, k) > k
           /\ Remaining(b, k) # {} =>
                 NextUnit(b, k) \in 1 .. Len(Units[b]) /\ Inspected(b, NextUnit(b, k))
           /\ Remaining(b, k) = {} => NextUnit(b, k) = Len(Units[b]) + 1
<1> DEFINE rest == Remaining(b, k)
<1>1. Len(Units[b]) \in Nat /\ k \in Nat
  BY UnitIs
<1>2. CASE rest = {}
  BY <1>1, <1>2 DEF NextUnit
<1>3. CASE rest # {}
  <2>1. rest \in SUBSET Nat
    BY <1>1 DEF Remaining
  <2>2. Min(rest) \in rest
    BY <1>3, <2>1, MinIs
  <2>3. NextUnit(b, k) = Min(rest)
    BY <1>3 DEF NextUnit
  <2>4. NextUnit(b, k) \in k + 1 .. Len(Units[b]) /\ Inspected(b, NextUnit(b, k))
    BY <2>2, <2>3 DEF Remaining
  <2> QED
    BY <1>1, <1>3, <2>4
<1> QED
  BY <1>2, <1>3

LEMMA AfterUnitIs ==
    ASSUME NEW w \in Session, w.sub \in Submissions, w.unit \in 1 .. Len(Units[w.sub]),
           NEW missed \in SUBSET Nat
    PROVE  Move(AfterUnit(w, missed), w, missed \cup Refused(w.sub, w.unit),
                NextUnit(w.sub, w.unit), 1,
                IF Remaining(w.sub, w.unit) = {} THEN "idle" ELSE "allocate",
                IF Remaining(w.sub, w.unit) = {} THEN "completed" ELSE "nothing")
<1> DEFINE m == missed \cup Refused(w.sub, w.unit)
           n == NextUnit(w.sub, w.unit)
           pc == IF Remaining(w.sub, w.unit) = {} THEN "idle" ELSE "allocate"
           told == IF Remaining(w.sub, w.unit) = {} THEN "completed" ELSE "nothing"
<1>1. AfterUnit(w, missed) = Moved(w, m, n, 1, pc, told)
  BY Zenon DEF AfterUnit, Moved
<1>2. n \in Nat /\ w.unit \in Nat
  BY NextUnitIs, SessionHas
<1>3. m \in SUBSET Nat
  <2>1. Refused(w.sub, w.unit) \subseteq Nat
    BY <1>2 DEF Refused
  <2> QED
    BY <2>1
<1>4. pc \in {"idle", "allocate"} /\ told \in {"nothing", "completed", "failed"}
  OBVIOUS
<1> HIDE DEF m, n, pc, told
<1>5. Move(Moved(w, m, n, 1, pc, told), w, m, n, 1, pc, told)
  BY <1>2, <1>3, <1>4, MovedIs
<1> QED
  BY <1>1, <1>5 DEF m, n, pc, told

\* An exception in the first file.
Failed(w) == [w EXCEPT !.pc = "idle", !.told = "failed", !.id = 0]
LEMMA FailedIs ==
    ASSUME NEW w \in Session
    PROVE  /\ Failed(w) \in Session /\ SameQueue(Failed(w), w)
           /\ Failed(w).pc = "idle" /\ Failed(w).told = "failed"
<1>1. Failed(w) \in Session
  BY DEF Failed, Session
<1>2. SameQueue(Failed(w), w) /\ Failed(w).pc = "idle" /\ Failed(w).told = "failed"
  BY DEF Failed, Session, SameQueue
<1> QED
  BY <1>1, <1>2

\* Other changes of one or two fields.
Held(w, pc, i) == [w EXCEPT !.id = i, !.pc = pc]
LEMMA HeldIs ==
    ASSUME NEW w \in Session, NEW pc \in {"put", "register"}, NEW i \in Ids
    PROVE  /\ Held(w, pc, i) \in Session /\ SameQueue(Held(w, pc, i), w)
           /\ Held(w, pc, i).pc = pc /\ Held(w, pc, i).id = i
           /\ Held(w, pc, i).case = w.case /\ Held(w, pc, i).sub = w.sub
           /\ Held(w, pc, i).unit = w.unit /\ Held(w, pc, i).part = w.part
           /\ Held(w, pc, i).made = w.made /\ Held(w, pc, i).missed = w.missed
           /\ Held(w, pc, i).told = w.told
<1>1. Held(w, pc, i) \in Session
  BY DEF Held, Session
<1>2. /\ SameQueue(Held(w, pc, i), w)
      /\ Held(w, pc, i).pc = pc /\ Held(w, pc, i).id = i
      /\ Held(w, pc, i).case = w.case /\ Held(w, pc, i).sub = w.sub
      /\ Held(w, pc, i).unit = w.unit /\ Held(w, pc, i).part = w.part
      /\ Held(w, pc, i).made = w.made /\ Held(w, pc, i).missed = w.missed
      /\ Held(w, pc, i).told = w.told
  BY DEF Held, Session, SameQueue
<1> QED
  BY <1>1, <1>2

\* The page keeps the identifier of the part it has registered.
Kept(w) == [w EXCEPT !.made = [@ EXCEPT ![<<w.unit, w.part>>] = w.id]]
LEMMA KeptIs ==
    ASSUME NEW w \in Session, w.id \in Ids, <<w.unit, w.part>> \in Slots
    PROVE  /\ Kept(w) \in Session /\ SameQueue(Kept(w), w)
           /\ Kept(w).case = w.case /\ Kept(w).sub = w.sub /\ Kept(w).unit = w.unit
           /\ Kept(w).part = w.part /\ Kept(w).id = w.id /\ Kept(w).pc = w.pc
           /\ Kept(w).missed = w.missed /\ Kept(w).told = w.told
           /\ Kept(w).made[<<w.unit, w.part>>] = w.id
           /\ \A x \in Slots : x # <<w.unit, w.part>> => Kept(w).made[x] = w.made[x]
<1> DEFINE made == [w.made EXCEPT ![<<w.unit, w.part>>] = w.id]
           v == [w EXCEPT !.made = made]
<1>1. w.made \in [Slots -> Ids \cup {0}]
  BY SessionHas
<1>2. made \in [Slots -> Ids \cup {0}]
  BY <1>1
<1>3. made[<<w.unit, w.part>>] = w.id
  BY <1>1
<1>4. \A x \in Slots : x # <<w.unit, w.part>> => made[x] = w.made[x]
  BY <1>1
<1>5. Kept(w) = v
  BY DEF Kept
<1> HIDE DEF made
<1>6. v \in Session
  BY <1>2 DEF Session
<1>7. /\ SameQueue(v, w)
      /\ v.case = w.case /\ v.sub = w.sub /\ v.unit = w.unit
      /\ v.part = w.part /\ v.id = w.id /\ v.pc = w.pc
      /\ v.missed = w.missed /\ v.told = w.told /\ v.made = made
  BY DEF Session, SameQueue
<1> QED
  BY <1>3, <1>4, <1>5, <1>6, <1>7

\* What is read of a part is queued.
LEMMA QueuedIs ==
    ASSUME NEW w \in Session, w.id \in Ids, w.sub \in Submissions,
           PartAt(Place(w)).doc \in Docs
    PROVE  /\ Queued(w) \in Session /\ SameScript(Queued(w), w) /\ Queued(w).pc = w.pc
           /\ SameQueue(Queued(w), w) \/
              (/\ Queued(w).listed = w.listed \cup {w.id}
               /\ Queued(w).waiting
                     = [w.waiting EXCEPT ![w.id] = Extract[PartAt(Place(w)).doc]]
               /\ Queued(w).staged = w.staged \cup {w.id}
               /\ Queued(w).target = w.target /\ Queued(w).chosen = w.chosen
               /\ Queued(w).todo = w.todo)
<1> DEFINE found == Extract[PartAt(Place(w)).doc]
           waiting == [w.waiting EXCEPT ![w.id] = found]
           v == [w EXCEPT !.listed = @ \cup {w.id}, !.waiting = waiting, !.staged = @ \cup {w.id}]
<1>1. found \in SUBSET Statements
  BY ExtractIs
<1>2. waiting \in [Ids -> SUBSET Statements]
  BY <1>1, SessionHas
<1>3. Queued(w) = w \/ Queued(w) = v
  BY Zenon DEF Queued
<1> HIDE DEF waiting
<1>4. v \in Session
  BY <1>2 DEF Session
<1>5. /\ SameScript(v, w) /\ v.pc = w.pc
      /\ v.listed = w.listed \cup {w.id} /\ v.waiting = waiting
      /\ v.staged = w.staged \cup {w.id}
      /\ v.target = w.target /\ v.chosen = w.chosen /\ v.todo = w.todo
  BY DEF Session, SameScript
<1> HIDE DEF v
<1>6. CASE Queued(w) = w
  BY <1>6 DEF SameScript, SameQueue
<1>7. CASE Queued(w) = v
  BY <1>4, <1>5, <1>7 DEF waiting
<1> QED
  BY <1>3, <1>6, <1>7

Passed(w) == [w EXCEPT !.part = @ + 1, !.pc = "allocate", !.id = 0]
LEMMA PassedIs ==
    ASSUME NEW w \in Session
    PROVE  Move(Passed(w), w, w.missed, w.unit, w.part + 1, "allocate", w.told)
<1>1. w.part + 1 \in Nat
  BY SessionHas
<1>2. Passed(w) \in Session
  BY <1>1 DEF Passed, Session
<1>3. /\ SameQueue(Passed(w), w) /\ Passed(w).case = w.case /\ Passed(w).sub = w.sub
      /\ Passed(w).made = w.made /\ Passed(w).missed = w.missed /\ Passed(w).unit = w.unit
      /\ Passed(w).part = w.part + 1 /\ Passed(w).id = 0
      /\ Passed(w).pc = "allocate" /\ Passed(w).told = w.told
  BY DEF Passed, Session, SameQueue
<1> QED
  BY <1>2, <1>3 DEF Move

\* What review and the session's own steps do: the script stands still.
Still(v, w) ==
    /\ v \in Session /\ v.sub = w.sub /\ v.made = w.made /\ v.missed = w.missed
    /\ v.unit = w.unit /\ v.part = w.part /\ v.id = w.id

Dismissed(w, i) == [w EXCEPT !.listed = @ \ {i}]
LEMMA DismissedIs ==
    ASSUME NEW w \in Session, NEW i
    PROVE  /\ Still(Dismissed(w, i), w) /\ Dismissed(w, i).pc = w.pc
           /\ Dismissed(w, i).told = w.told
<1>1. Dismissed(w, i) \in Session
  BY DEF Dismissed, Session
<1> QED
  BY <1>1 DEF Dismissed, Session, Still

Promoting(w, i, chosen) ==
    [w EXCEPT !.pc = "promote", !.target = i, !.chosen = chosen, !.todo = chosen]
LEMMA PromotingIs ==
    ASSUME NEW w \in Session, NEW i \in Ids, NEW chosen \in SUBSET Statements
    PROVE  /\ Still(Promoting(w, i, chosen), w) /\ Promoting(w, i, chosen).pc = "promote"
           /\ Promoting(w, i, chosen).told = w.told /\ Promoting(w, i, chosen).target = i
<1>1. Promoting(w, i, chosen) \in Session
  BY DEF Promoting, Session
<1>2. /\ Promoting(w, i, chosen).pc = "promote" /\ Promoting(w, i, chosen).told = w.told
      /\ Promoting(w, i, chosen).target = i
  BY DEF Promoting, Session
<1>3. Still(Promoting(w, i, chosen), w)
  BY <1>1 DEF Promoting, Session, Still
<1> QED
  BY <1>2, <1>3

LEMMA PromotedIs ==
    ASSUME NEW w \in Session, w.pc = "promote", w.target \in Ids, NEW c
    PROVE  /\ Still(Promoted(w, c), w) /\ Promoted(w, c).told = w.told
           /\ \/ Promoted(w, c).pc = "idle"
              \/ Promoted(w, c).pc = "promote" /\ Promoted(w, c).target = w.target
<1>1. CASE w.todo # {c}
  <2> DEFINE v == [w EXCEPT !.todo = @ \ {c}]
  <2>1. Promoted(w, c) = v
    BY <1>1, Zenon DEF Promoted
  <2>2. v \in Session
    BY DEF Session
  <2>3. Still(v, w) /\ v.told = w.told /\ v.pc = w.pc /\ v.target = w.target
    BY <2>2 DEF Session, Still
  <2> QED
    BY <2>1, <2>3
<1>2. CASE w.todo = {c}
  <2> DEFINE left == w.waiting[w.target] \ w.chosen
             waiting == [w.waiting EXCEPT ![w.target] = left]
             listed == IF left = {} THEN w.listed \ {w.target} ELSE w.listed
             v == [w EXCEPT !.todo = {}, !.chosen = {}, !.target = 0, !.pc = "idle",
                            !.waiting = waiting, !.listed = listed]
  <2>1. Promoted(w, c) = v
    BY <1>2, Zenon DEF Promoted
  <2>2. waiting \in [Ids -> SUBSET Statements] /\ listed \in SUBSET Ids
    BY SessionHas
  <2> HIDE DEF waiting, listed
  <2>3. v \in Session
    BY <2>2 DEF Session
  <2>4. Still(v, w) /\ v.told = w.told /\ v.pc = "idle"
    BY <2>3 DEF Session, Still
  <2> QED
    BY <2>1, <2>4
<1> QED
  BY <1>1, <1>2

Stopped(w) == [w EXCEPT !.pc = "idle", !.target = 0, !.chosen = {}, !.todo = {}]
LEMMA StoppedIs ==
    ASSUME NEW w \in Session
    PROVE  Still(Stopped(w), w) /\ Stopped(w).pc = "idle" /\ Stopped(w).told = w.told
<1>1. Stopped(w) \in Session
  BY DEF Stopped, Session
<1> QED
  BY <1>1 DEF Stopped, Session, Still

Switched(w, c) == [w EXCEPT !.case = c]
LEMMA SwitchedIs ==
    ASSUME NEW w \in Session, NEW c \in Cases
    PROVE  Still(Switched(w, c), w) /\ Switched(w, c).pc = w.pc /\ Switched(w, c).told = w.told
<1>1. Switched(w, c) \in Session
  BY DEF Switched, Session
<1> QED
  BY <1>1 DEF Switched, Session, Still

Emptied(w) ==
    [w EXCEPT !.listed = {}, !.waiting = [i \in Ids |-> {}], !.staged = {}, !.told = "nothing"]
LEMMA EmptiedIs ==
    ASSUME NEW w \in Session
    PROVE  Emptied(w) \in Session /\ Emptied(w).pc = w.pc /\ Emptied(w).told = "nothing"
<1>1. Emptied(w) \in Session
  BY DEF Emptied, Session
<1>2. Emptied(w).pc = w.pc /\ Emptied(w).told = "nothing"
  BY DEF Emptied, Session
<1> QED
  BY <1>1, <1>2

LEMMA FreshIs ==
    ASSUME NEW c \in Cases
    PROVE  Fresh(c) \in Session /\ Fresh(c).pc = "idle" /\ Fresh(c).told = "nothing"
BY DEF Fresh, Session

-----------------------------------------------------------------------------
(* How far the script has come. *)

LEMMA DoneStays ==
    ASSUME NEW src, NEW v, NEW w, v.sub = w.sub, v.made = w.made, w.missed \subseteq v.missed
    PROVE  /\ \A k : UnitDone(src, w, k) => UnitDone(src, v, k)
           /\ \A k, j : Did(src, w, k, j) => Did(src, v, k, j)
           /\ v.case = w.case => \A k, j : Here(src, w, k, j) => Here(src, v, k, j)
BY DEF UnitDone, Did, Here

\* More sources do no harm.
LEMMA DoneGrows ==
    ASSUME NEW src, NEW new, \A i \in Ids : src[i] # None => new[i] = src[i],
           NEW w, PageOK(src, w)
    PROVE  PageOK(new, w)
<1>1. \A k, j : Did(src, w, k, j) => Did(new, w, k, j)
  BY DEF Did
<1>2. \A k, j : Here(src, w, k, j) => Here(new, w, k, j)
  BY <1>1 DEF Here, Did
<1>3. \A k : UnitDone(src, w, k) => UnitDone(new, w, k)
  BY <1>1 DEF UnitDone
<1> QED
  BY <1>2, <1>3 DEF PageOK, Script, Complete

LEMMA StillOK ==
    ASSUME NEW src, NEW v, NEW w \in Session, PageOK(src, w), Still(v, w), v.told = w.told,
           v.pc = "idle" \/ (v.pc = "promote" /\ v.target \in Ids)
    PROVE  PageOK(src, v)
<1>1. Complete(src, w) => Complete(src, v)
  BY DoneStays DEF Still, Complete
<1> QED
  BY <1>1 DEF PageOK, Still, Active

LEMMA AfterUnitOK ==
    ASSUME NEW src, NEW w \in Session, w.sub \in Submissions, w.unit \in 1 .. Len(Units[w.sub]),
           NEW missed \in SUBSET Nat, w.missed \subseteq missed,
           \A k \in 1 .. w.unit - 1 : UnitDone(src, w, k),
           w.unit \in missed \/ \A j \in 1 .. LastPart(w.sub, w.unit) : Did(src, w, w.unit, j),
           Here(src, w, 1, 1)
    PROVE  PageOK(src, AfterUnit(w, missed)) /\ AfterUnit(w, missed).pc \in {"idle", "allocate"}
<1> DEFINE v == AfterUnit(w, missed)
           n == NextUnit(w.sub, w.unit)
           over == Remaining(w.sub, w.unit) = {}
<1>1. /\ v \in Session /\ v.sub = w.sub /\ v.made = w.made /\ v.case = w.case
      /\ v.missed = missed \cup Refused(w.sub, w.unit) /\ v.unit = n /\ v.part = 1
      /\ v.pc = (IF over THEN "idle" ELSE "allocate")
      /\ v.told = (IF over THEN "completed" ELSE "nothing")
  BY AfterUnitIs DEF Move
<1>2. /\ n \in Nat /\ n > w.unit /\ w.unit \in Nat
      /\ ~over => n \in 1 .. Len(Units[w.sub]) /\ Inspected(w.sub, n)
      /\ over => n = Len(Units[w.sub]) + 1
  BY NextUnitIs, SessionHas
<1> HIDE DEF v, n, over
<1>3. ASSUME NEW k \in 1 .. n - 1
      PROVE  UnitDone(src, v, k)
  <2>1. CASE k < w.unit
    <3>1. k \in 1 .. w.unit - 1
      BY <1>2, <2>1
    <3> QED
      BY <1>1, <3>1, DoneStays
  <2>2. CASE k = w.unit
    BY <1>1, <2>2, DoneStays DEF UnitDone
  <2>3. CASE k > w.unit
    <3>1. k \in Refused(w.sub, w.unit)
      BY <1>2, <2>3 DEF Refused, n
    <3> QED
      BY <1>1, <3>1 DEF UnitDone
  <2> QED
    BY <1>2, <2>1, <2>2, <2>3
<1>4. CASE over
  <2>1. Complete(src, v)
    <3>1. Len(Units[w.sub]) \in Nat
      BY UnitIs
    <3>2. n - 1 = Len(Units[w.sub])
      BY <1>2, <1>4, <3>1
    <3> QED
      BY <1>1, <1>3, <3>2 DEF Complete
  <2> QED
    BY <1>1, <1>4, <2>1 DEF PageOK, Active, v
<1>5. CASE ~over
  <2>1. Here(src, v, 1, 1)
    BY <1>1, DoneStays
  <2>2. 1 \in 1 .. LastPart(v.sub, v.unit)
    BY <1>1, <1>2, <1>5, UnitIs
  <2>3. \A j \in 1 .. v.part - 1 : Here(src, v, v.unit, j)
    BY <1>1
  <2>4. Script(src, v)
    BY <1>1, <1>2, <1>3, <1>5, <2>1, <2>2, <2>3 DEF Script
  <2> QED
    BY <1>1, <1>5, <2>4 DEF PageOK, v
<1> QED
  BY <1>4, <1>5

\* What a page is after a step of its script.
Proceeds(src, v) == v \in Session /\ PageOK(src, v) /\ v.pc \in {"idle", "allocate"}

LEMMA AbandonedOK ==
    ASSUME NEW src, NEW w \in Session, Script(src, w)
    PROVE  Proceeds(src, Abandoned(w))
<1>1. CASE w.unit = 1
  <2>1. Abandoned(w) = Failed(w)
    BY <1>1, Zenon DEF Abandoned, Failed
  <2> QED
    BY <2>1, FailedIs DEF Proceeds, PageOK, Active
<1>2. CASE w.unit # 1
  <2> DEFINE missed == w.missed \cup {w.unit}
  <2>1. Abandoned(w) = AfterUnit(w, missed)
    BY <1>2, Zenon DEF Abandoned
  <2>2. missed \in SUBSET Nat /\ w.missed \subseteq missed /\ w.unit \in missed
    BY SessionHas
  <2>3. /\ w.sub \in Submissions /\ w.unit \in 1 .. Len(Units[w.sub])
        /\ \A k \in 1 .. w.unit - 1 : UnitDone(src, w, k)
        /\ w.unit > 1 => Here(src, w, 1, 1)
    BY DEF Script
  <2>4. w.unit > 1
    BY <1>2, <2>3, UnitIs
  <2> HIDE DEF missed
  <2>5. PageOK(src, AfterUnit(w, missed)) /\ AfterUnit(w, missed).pc \in {"idle", "allocate"}
    BY <2>2, <2>3, <2>4, AfterUnitOK
  <2>6. AfterUnit(w, missed) \in Session
    BY <2>2, <2>3, AfterUnitIs DEF Move
  <2> QED
    BY <2>1, <2>5, <2>6 DEF Proceeds
<1> QED
  BY <1>1, <1>2

\* The part of a page is registered: new are the sources from then on.
LEMMA AdvancedOK ==
    ASSUME NEW src, NEW new, NEW w \in Session, Script(src, w), w.id \in Ids,
           \A i \in Ids : src[i] # None => new[i] = src[i],
           new[w.id] # None, new[w.id].place = Place(w), new[w.id].case = w.case
    PROVE  Proceeds(new, Advanced(Queued(Kept(w))))
<1> DEFINE q == Queued(Kept(w))
<1>1. /\ w.sub \in Submissions /\ w.unit \in 1 .. Len(Units[w.sub])
      /\ w.part \in 1 .. LastPart(w.sub, w.unit) /\ Inspected(w.sub, w.unit)
      /\ w.told = "nothing"
      /\ \A k \in 1 .. w.unit - 1 : UnitDone(src, w, k)
      /\ \A j \in 1 .. w.part - 1 : Here(src, w, w.unit, j)
      /\ w.unit > 1 => Here(src, w, 1, 1)
  BY DEF Script
<1>2. /\ w.unit \in Nat /\ w.part \in Nat /\ Len(Units[w.sub]) \in Nat
      /\ LastPart(w.sub, w.unit) \in Nat /\ w.part \in 1 .. Len(Units[w.sub][w.unit])
  BY <1>1, UnitIs, SessionHas
<1>3. <<w.unit, w.part>> \in Slots /\ PartAt(Place(w)).doc \in Docs
  <2>1. PartAt(<<w.sub, w.unit, w.part>>).doc \in Docs
    BY <1>1, <1>2, PartIs, ZenonT(60)
  <2> QED
    BY <1>1, <1>2, <2>1, PlaceIs DEF Place
<1>4. /\ Kept(w) \in Session /\ Kept(w).id \in Ids /\ Kept(w).sub \in Submissions
      /\ Place(Kept(w)) = Place(w)
  BY <1>1, <1>3, KeptIs DEF Place
<1>5. /\ q \in Session /\ q.sub = w.sub /\ q.unit = w.unit /\ q.part = w.part
      /\ q.missed = w.missed /\ q.case = w.case /\ q.told = w.told
      /\ q.made[<<w.unit, w.part>>] = w.id
      /\ \A x \in Slots : x # <<w.unit, w.part>> => q.made[x] = w.made[x]
  <2>1. q \in Session /\ SameScript(q, Kept(w))
    BY <1>3, <1>4, QueuedIs
  <2> HIDE DEF q
  <2> QED
    BY <1>3, <2>1, KeptIs DEF SameScript
<1> HIDE DEF q
<1>6. ASSUME NEW k \in 1 .. Len(Units[w.sub]), NEW j \in 1 .. LastPart(w.sub, k),
             <<k, j>> # <<w.unit, w.part>>
      PROVE  /\ Did(src, w, k, j) => Did(new, q, k, j)
             /\ Here(src, w, k, j) => Here(new, q, k, j)
  <2>1. <<k, j>> \in Slots
    <3>1. j \in 1 .. Len(Units[w.sub][k])
      BY <1>1, UnitIs
    <3> QED
      BY <1>1, <3>1, PlaceIs
  <2>2. q.made[<<k, j>>] = w.made[<<k, j>>]
    BY <1>5, <1>6, <2>1
  <2> QED
    BY <1>5, <2>2 DEF Did, Here
<1>7. Here(new, q, w.unit, w.part)
  BY <1>5 DEF Here, Did, Place
<1>8. ASSUME NEW j \in 1 .. w.part
      PROVE  Here(new, q, w.unit, j)
  <2>1. CASE j = w.part
    BY <1>7, <2>1
  <2>2. CASE j # w.part
    <3>1. j \in 1 .. w.part - 1 /\ j \in 1 .. LastPart(w.sub, w.unit)
      BY <1>1, <1>2, <2>2
    <3>2. <<w.unit, j>> # <<w.unit, w.part>>
      BY <2>2
    <3> QED
      BY <1>1, <1>6, <3>1, <3>2
  <2> QED
    BY <2>1, <2>2
<1>9. ASSUME NEW k \in 1 .. w.unit - 1
      PROVE  UnitDone(new, q, k)
  <2>1. UnitDone(src, w, k) /\ k \in 1 .. Len(Units[w.sub]) /\ k # w.unit
    BY <1>1, <1>2
  <2>2. \A j \in 1 .. LastPart(w.sub, k) : <<k, j>> # <<w.unit, w.part>>
    BY <2>1
  <2> QED
    BY <1>5, <1>6, <2>1, <2>2 DEF UnitDone
<1>10. w.unit > 1 => Here(new, q, 1, 1)
  <2>1. w.unit > 1 => 1 \in 1 .. Len(Units[w.sub]) /\ <<1, 1>> # <<w.unit, w.part>>
    BY <1>1, <1>2
  <2>2. w.unit > 1 => 1 \in 1 .. LastPart(w.sub, 1)
    BY <1>1, <2>1, UnitIs
  <2> QED
    BY <1>1, <1>6, <2>1, <2>2
<1>11. CASE q.part < LastPart(q.sub, q.unit)
  <2>1. Advanced(q) = Passed(q)
    BY <1>11, Zenon DEF Advanced, Passed
  <2>2. Move(Passed(q), q, q.missed, q.unit, q.part + 1, "allocate", q.told)
    BY <1>5, PassedIs
  <2> DEFINE v == Passed(q)
  <2>3. /\ v \in Session /\ v.sub = w.sub /\ v.unit = w.unit /\ v.part = w.part + 1
        /\ v.missed = q.missed /\ v.made = q.made /\ v.case = q.case /\ v.pc = "allocate"
        /\ v.sub = q.sub
    BY <1>5, <2>2 DEF Move
  <2> HIDE DEF v
  <2>4. w.part + 1 \in 1 .. LastPart(w.sub, w.unit)
    BY <1>2, <1>5, <1>11
  <2>5. \A j \in 1 .. (w.part + 1) - 1 : Here(new, v, w.unit, j)
    <3>1. (w.part + 1) - 1 = w.part
      BY <1>2
    <3> QED
      BY <1>8, <2>3, <3>1, DoneStays
  <2>6. \A k \in 1 .. w.unit - 1 : UnitDone(new, v, k)
    BY <1>9, <2>3, DoneStays
  <2>7. w.unit > 1 => Here(new, v, 1, 1)
    BY <1>10, <2>3, DoneStays
  <2>8. v.told = "nothing"
    BY <1>1, <1>5, <2>2 DEF Move, v
  <2>9. Script(new, v)
    BY <1>1, <2>3, <2>4, <2>5, <2>6, <2>7, <2>8 DEF Script
  <2> QED
    BY <2>1, <2>3, <2>8, <2>9 DEF Proceeds, PageOK, v, q
<1>12. CASE ~(q.part < LastPart(q.sub, q.unit))
  <2>1. Advanced(q) = AfterUnit(q, q.missed)
    BY <1>12, Zenon DEF Advanced
  <2>2. \A j \in 1 .. LastPart(w.sub, w.unit) : Did(new, q, w.unit, j)
    <3>1. LastPart(w.sub, w.unit) = w.part
      BY <1>1, <1>2, <1>5, <1>12
    <3> QED
      BY <1>8, <3>1 DEF Here
  <2>3. Here(new, q, 1, 1)
    BY <1>1, <1>2, <1>8, <1>10
  <2>4. q.missed \in SUBSET Nat
    BY <1>5, SessionHas
  <2>5. PageOK(new, AfterUnit(q, q.missed)) /\ AfterUnit(q, q.missed).pc \in {"idle", "allocate"}
    BY <1>1, <1>5, <1>9, <2>2, <2>3, <2>4, AfterUnitOK
  <2>6. AfterUnit(q, q.missed) \in Session
    BY <1>1, <1>5, <2>4, AfterUnitIs DEF Move
  <2> QED
    BY <2>1, <2>5, <2>6 DEF Proceeds, q
<1> QED
  BY <1>11, <1>12

-----------------------------------------------------------------------------
(* Steps. *)

\* The session of s becomes v, and no other changes.
Turns(s, v) ==
    /\ session' \in [Sessions -> Session] /\ session'[s] = v
    /\ \A t \in Sessions \ {s} : session'[t] = session[t]

LEMMA TurnsTo ==
    ASSUME session \in [Sessions -> Session], NEW s \in Sessions, NEW v \in Session,
           session' = [session EXCEPT ![s] = v]
    PROVE  Turns(s, v)
BY DEF Turns

LEMMA FaultIs ==
    ASSUME TypeOK, Fault
    PROVE  faults' \in 0 .. MaxFaults
BY SourceAssumption DEF TypeOK, Fault

LEMMA InvHas ==
    ASSUME Inv, NEW s \in Sessions
    PROVE  /\ session[s] \in Session /\ PageOK(source, session[s])
           /\ Owned(allocated, source, object, session[s])
           /\ Busy(session[s]) => Uses(s)
           /\ Holding(session[s]) => session[s].id \in Ids
           /\ \A t \in Sessions \ {s} : Apart(session[t], session[s])
<1>1. allocated \in 0 .. MaxSources /\ session[s] \in Session
  BY DEF Inv, TypeOK
<1>2. /\ PageOK(source, session[s]) /\ Owned(allocated, source, object, session[s])
      /\ Busy(session[s]) => Uses(s)
      /\ \A t \in Sessions \ {s} : Apart(session[t], session[s])
  BY DEF Inv, PagesInv
<1>3. Holding(session[s]) => session[s].id \in Ids
  BY <1>1, <1>2, SourceAssumption DEF Owned, Ids
<1> QED
  BY <1>1, <1>2, <1>3

\* A step of s that touches what belongs to the identifier e, and to no other.
LEMMA PagesStep ==
    ASSUME Inv, NEW s \in Sessions, NEW v, Turns(s, v), deployment' = deployment,
           allocated' \in Nat, allocated' >= allocated, NEW e,
           \A i \in Ids : source[i] # None => source'[i] = source[i],
           \A i \in Ids : i # e => source'[i] = source[i] /\ object'[i] = object[i],
           \A t \in Sessions \ {s} : Holding(session[t]) => session[t].id # e,
           PageOK(source', v), Owned(allocated', source', object', v), Busy(v) => Uses(s),
           \A t \in Sessions \ {s} : Apart(v, session[t])
    PROVE  PagesInv'
<1>1. allocated \in Nat
  BY SourceAssumption DEF Inv, TypeOK
<1>2. ASSUME NEW t \in Sessions \ {s}
      PROVE  /\ PageOK(source', session'[t]) /\ Owned(allocated', source', object', session'[t])
             /\ Busy(session'[t]) => Uses(t)'
             /\ \A r \in Sessions \ {t} : Apart(session'[t], session'[r])
  <2>1. session'[t] = session[t]
    BY DEF Turns
  <2>2. PageOK(source', session[t])
    BY InvHas, DoneGrows
  <2>3. Owned(allocated', source', object', session[t])
    <3>1. CASE Holding(session[t])
      <4>1. session[t].id \in Ids /\ session[t].id # e
        BY <3>1, InvHas
      <4>2. session[t].id \in 1 .. allocated /\ source[session[t].id] = None
            /\ (session[t].pc = "register" => object[session[t].id] = Sealed(session[t]))
        BY <3>1, InvHas DEF Owned
      <4>3. session[t].id \in 1 .. allocated'
        BY <1>1, <4>2
      <4> QED
        BY <4>1, <4>2, <4>3 DEF Owned
    <3>2. CASE ~Holding(session[t])
      BY <3>2 DEF Owned
    <3> QED
      BY <3>1, <3>2
  <2>4. Busy(session[t]) => Uses(t)'
    BY InvHas DEF Uses
  <2>5. ASSUME NEW r \in Sessions \ {t}
        PROVE  Apart(session[t], session'[r])
    <3>1. CASE r = s
      BY <3>1 DEF Turns, Apart
    <3>2. CASE r # s
      BY <3>2, InvHas DEF Turns
    <3> QED
      BY <3>1, <3>2
  <2> QED
    BY <2>1, <2>2, <2>3, <2>4, <2>5
<1>3. /\ PageOK(source', session'[s]) /\ Owned(allocated', source', object', session'[s])
      /\ Busy(session'[s]) => Uses(s)'
      /\ \A t \in Sessions \ {s} : Apart(session'[s], session'[t])
  BY DEF Turns, Uses
<1> QED
  BY <1>2, <1>3 DEF PagesInv

LEMMA SourcesStep ==
    ASSUME Inv, allocated' \in Nat, allocated' >= allocated, NEW e,
           \A i \in Ids : source[i] # None => source'[i] = source[i],
           \A i \in Ids : i # e => source'[i] = source[i] /\ object'[i] = object[i],
           e \in Ids => source[e] = None /\ SourceOK(allocated', source', object', e)
    PROVE  SourcesInv'
<1>1. allocated \in Nat
  BY SourceAssumption DEF Inv, TypeOK
<1>2. ASSUME NEW i \in Ids, i # e, source'[i] # None
      PROVE  SourceOK(allocated', source', object', i)
  <2>1. source'[i] = source[i] /\ object'[i] = object[i] /\ source[i] # None
    BY <1>2
  <2>2. /\ i <= allocated /\ ObjectOf(source, object, i) /\ Lineage(source, i)
        /\ Inspected(source[i].place[1], source[i].place[2])
    BY <2>1 DEF Inv, SourcesInv, SourceOK
  <2>3. source[i] \in Source
    BY <2>1 DEF Inv, TypeOK
  <2>4. source[i].parent \in Ids \cup {0}
    BY <2>3 DEF Source
  <2>5. Lineage(source', i)
    BY <2>1, <2>2, <2>4 DEF Lineage
  <2>6. ObjectOf(source', object', i)
    BY <2>1, <2>2 DEF ObjectOf
  <2>7. i <= allocated'
    BY <1>1, <2>2 DEF Ids
  <2> QED
    BY <2>1, <2>2, <2>5, <2>6, <2>7 DEF SourceOK
<1>3. ASSUME NEW i \in Ids
      PROVE  SourceOK(allocated', source', object', i)
  BY <1>2 DEF SourceOK
<1> QED
  BY <1>3 DEF SourcesInv

\* A step that leaves core and storage as they are.
LEMMA QuietStep ==
    ASSUME Inv, NEW s \in Sessions, NEW v, Turns(s, v),
           UNCHANGED <<deployment, allocated, object, source>>,
           PageOK(source, v), ~Holding(v), Busy(v) => Uses(s),
           propositions' \in Seq(Proposition) /\ synthetic' \in BOOLEAN, faults' \in 0 .. MaxFaults
    PROVE  Inv'
<1>1. allocated \in Nat /\ allocated >= allocated /\ 0 \notin Ids
  BY SourceAssumption DEF Inv, TypeOK, Ids
<1>2. \A t \in Sessions \ {s} : Holding(session[t]) => session[t].id # 0
  BY <1>1, InvHas
<1>3. Owned(allocated', source', object', v) /\ \A t \in Sessions \ {s} : Apart(v, session[t])
  BY DEF Owned, Apart
<1>4. PageOK(source', v)
  OBVIOUS
<1>5. PagesInv'
  BY <1>1, <1>2, <1>3, <1>4, PagesStep
<1>6. SourcesInv'
  BY <1>1, SourcesStep
<1>7. TypeOK'
  BY DEF Inv, TypeOK, Turns
<1> QED
  BY <1>5, <1>6, <1>7 DEF Inv

-----------------------------------------------------------------------------
(* Each action keeps the invariant. *)

LEMMA SubmitKeeps ==
    ASSUME Inv, NEW s \in Sessions, NEW b \in Submissions, Submit(s, b)
    PROVE  Inv'
<1> DEFINE w == session[s]
           v == Submitted(w, b)
<1>1. w \in Session
  BY InvHas
<1>2. session' = [session EXCEPT ![s] = v]
  BY Zenon DEF Submit, Submitted
<1>3. /\ v \in Session
      /\ v.pc = (IF Inspected(b, 1) THEN "allocate" ELSE "idle")
      /\ v.told = (IF Inspected(b, 1) THEN "nothing" ELSE "rejected")
      /\ v.sub = b /\ v.unit = 1 /\ v.part = 1
  BY <1>1, SubmittedIs
<1> HIDE DEF v
<1>4. Turns(s, v)
  BY <1>2, <1>3, TurnsTo DEF Inv, TypeOK
<1>5. PageOK(source, v)
  <2>1. CASE Inspected(b, 1)
    <3>1. 1 \in 1 .. Len(Units[b])
      <4>1. Units[b] \in Seq(Seq(Part)) /\ Len(Units[b]) >= 1
        BY SourceAssumption
      <4> QED
        BY <4>1
    <3>2. 1 \in 1 .. LastPart(b, 1)
      BY <3>1, UnitIs
    <3>3. Script(source, v)
      BY <1>3, <2>1, <3>1, <3>2 DEF Script
    <3> QED
      BY <1>3, <2>1, <3>3 DEF PageOK
  <2>2. CASE ~Inspected(b, 1)
    BY <1>3, <2>2 DEF PageOK, Active
  <2> QED
    BY <2>1, <2>2
<1>6. ~Holding(v) /\ Uses(s)
  BY <1>3 DEF Holding, Submit
<1>7. /\ UNCHANGED <<deployment, allocated, object, source>>
      /\ propositions' \in Seq(Proposition) /\ synthetic' \in BOOLEAN /\ faults' \in 0 .. MaxFaults
  BY DEF Submit, Inv, TypeOK
<1> QED
  BY <1>4, <1>5, <1>6, <1>7, QuietStep

LEMMA DownloadFailsKeeps ==
    ASSUME Inv, NEW s \in Sessions, NEW b \in Submissions, DownloadFails(s, b)
    PROVE  Inv'
<1> DEFINE w == session[s]
           v == Rejected(w, b)
<1>1. w \in Session /\ w.pc = "idle"
  BY InvHas DEF DownloadFails
<1>2. session' = [session EXCEPT ![s] = v]
  BY Zenon DEF DownloadFails, Rejected
<1>3. v \in Session /\ v.pc = "idle" /\ v.told = "rejected"
  BY <1>1, RejectedIs
<1> HIDE DEF v
<1>4. Turns(s, v)
  BY <1>2, <1>3, TurnsTo DEF Inv, TypeOK
<1>5. PageOK(source, v) /\ ~Holding(v) /\ Uses(s)
  BY <1>3 DEF PageOK, Active, Holding, DownloadFails
<1>6. faults' \in 0 .. MaxFaults
  BY FaultIs DEF DownloadFails, Inv
<1>7. /\ UNCHANGED <<deployment, allocated, object, source>>
      /\ propositions' \in Seq(Proposition) /\ synthetic' \in BOOLEAN
  BY DEF DownloadFails, Inv, TypeOK
<1> QED
  BY <1>4, <1>5, <1>6, <1>7, QuietStep

LEMMA ThrowsKeeps ==
    ASSUME Inv, NEW s \in Sessions, Throws(s)
    PROVE  Inv'
<1> DEFINE w == session[s]
           v == Abandoned(w)
<1>1. w \in Session /\ Script(source, w) /\ Uses(s)
  BY InvHas DEF Throws, PageOK, Active, Busy
<1>2. session' = [session EXCEPT ![s] = v]
  BY Zenon DEF Throws
<1>3. Proceeds(source, v)
  BY <1>1, AbandonedOK
<1> HIDE DEF v
<1>4. Turns(s, v)
  BY <1>2, <1>3, TurnsTo DEF Inv, TypeOK, Proceeds
<1>5. PageOK(source, v) /\ ~Holding(v)
  BY <1>3 DEF Proceeds, Holding
<1>6. faults' \in 0 .. MaxFaults
  BY FaultIs DEF Throws, Inv
<1>7. /\ UNCHANGED <<deployment, allocated, object, source>>
      /\ propositions' \in Seq(Proposition) /\ synthetic' \in BOOLEAN
  BY DEF Throws, Inv, TypeOK
<1> QED
  BY <1>1, <1>4, <1>5, <1>6, <1>7, QuietStep

\* Review and the session's own steps leave the script where it is.
LEMMA StillStep ==
    ASSUME Inv, NEW s \in Sessions, NEW v, Still(v, session[s]), v.told = session[s].told,
           v.pc = "idle" \/ (v.pc = "promote" /\ v.target \in Ids),
           session' = [session EXCEPT ![s] = v],
           UNCHANGED <<deployment, allocated, object, source>>,
           propositions' \in Seq(Proposition) /\ synthetic' \in BOOLEAN, faults' \in 0 .. MaxFaults
    PROVE  Inv'
<1>1. v \in Session
  BY DEF Still
<1>2. Turns(s, v)
  BY <1>1, TurnsTo DEF Inv, TypeOK
<1>3. PageOK(source, v)
  BY InvHas, StillOK
<1>4. ~Holding(v) /\ (Busy(v) => Uses(s))
  BY InvHas DEF Holding, Busy, Active
<1> QED
  BY <1>2, <1>3, <1>4, QuietStep

LEMMA DismissKeeps ==
    ASSUME Inv, NEW s \in Sessions, NEW i \in Ids, Dismiss(s, i)
    PROVE  Inv'
<1> DEFINE v == Dismissed(session[s], i)
<1>1. session' = [session EXCEPT ![s] = v]
  BY Zenon DEF Dismiss, Dismissed
<1>2. Still(v, session[s]) /\ v.pc = "idle" /\ v.told = session[s].told
  BY InvHas, DismissedIs DEF Dismiss
<1> HIDE DEF v
<1> QED
  BY <1>1, <1>2, StillStep DEF Dismiss, Inv, TypeOK

LEMMA PromoteKeeps ==
    ASSUME Inv, NEW s \in Sessions, NEW i \in Ids, NEW chosen \in SUBSET session[s].waiting[i],
           Promote(s, i, chosen)
    PROVE  Inv'
<1> DEFINE v == Promoting(session[s], i, chosen)
<1>1. session' = [session EXCEPT ![s] = v]
  BY Zenon DEF Promote, Promoting
<1>2. session[s] \in Session
  BY InvHas
<1>3. chosen \in SUBSET Statements
  BY <1>2, SessionHas
<1>4. /\ Still(v, session[s]) /\ v.pc = "promote" /\ v.told = session[s].told /\ v.target = i
  BY <1>2, <1>3, PromotingIs
<1> HIDE DEF v
<1> QED
  BY <1>1, <1>4, StillStep DEF Promote, Inv, TypeOK

\* A statement of what a page promotes.
LEMMA RecordedIs ==
    ASSUME Inv, NEW s \in Sessions, session[s].pc = "promote", NEW c \in Statements
    PROVE  session[s].target \in Ids /\ Recorded(session[s], c) \in Seq(Proposition)
<1>1. session[s].target \in Ids /\ session[s].case \in Cases
  BY InvHas, SessionHas DEF PageOK
<1>2. [source |-> session[s].target, statement |-> c, case |-> session[s].case] \in Proposition
  BY <1>1 DEF Proposition
<1>3. propositions \in Seq(Proposition)
  BY DEF Inv, TypeOK
<1> QED
  BY <1>1, <1>2, <1>3 DEF Recorded

LEMMA AddPropositionKeeps ==
    ASSUME Inv, NEW s \in Sessions, NEW c \in Statements, AddProposition(s, c)
    PROVE  Inv'
<1> DEFINE w == session[s]
           v == Promoted(w, c)
<1>1. session' = [session EXCEPT ![s] = v]
  BY Zenon DEF AddProposition
<1>2. w \in Session /\ w.pc = "promote" /\ w.target \in Ids
  BY InvHas, RecordedIs DEF AddProposition
<1>3. /\ Still(v, w) /\ v.told = w.told
      /\ v.pc = "idle" \/ (v.pc = "promote" /\ v.target = w.target)
  BY <1>2, PromotedIs
<1>4. propositions' \in Seq(Proposition)
  BY <1>2, RecordedIs DEF AddProposition
<1> HIDE DEF v
<1>5. v.pc = "idle" \/ (v.pc = "promote" /\ v.target \in Ids)
  BY <1>2, <1>3
<1> QED
  BY <1>1, <1>3, <1>4, <1>5, StillStep DEF AddProposition, Inv, TypeOK

LEMMA PromotionFailsKeeps ==
    ASSUME Inv, NEW s \in Sessions, NEW c \in Statements, PromotionFails(s, c)
    PROVE  Inv'
<1> DEFINE v == Stopped(session[s])
<1>1. session' = [session EXCEPT ![s] = v]
  BY Zenon DEF PromotionFails, Stopped
<1>2. Still(v, session[s]) /\ v.pc = "idle" /\ v.told = session[s].told
  BY InvHas, StoppedIs
<1>3. propositions' \in Seq(Proposition)
  <2>1. propositions' = propositions \/ propositions' = Recorded(session[s], c)
    BY DEF PromotionFails
  <2>2. session[s].pc = "promote"
    BY DEF PromotionFails
  <2> QED
    BY <2>1, <2>2, RecordedIs DEF Inv, TypeOK
<1>4. faults' \in 0 .. MaxFaults
  BY FaultIs DEF PromotionFails, Inv
<1> HIDE DEF v
<1> QED
  BY <1>1, <1>2, <1>3, <1>4, StillStep DEF PromotionFails, Inv, TypeOK

LEMMA SwitchCaseKeeps ==
    ASSUME Inv, NEW s \in Sessions, NEW c \in Cases, SwitchCase(s, c)
    PROVE  Inv'
<1> DEFINE v == Switched(session[s], c)
<1>1. session' = [session EXCEPT ![s] = v]
  BY Zenon DEF SwitchCase, Switched
<1>2. Still(v, session[s]) /\ v.pc = "idle" /\ v.told = session[s].told
  BY InvHas, SwitchedIs DEF SwitchCase
<1> HIDE DEF v
<1> QED
  BY <1>1, <1>2, StillStep DEF SwitchCase, Inv, TypeOK

\* A page whose script is about to make a call.
LEMMA CallerHas ==
    ASSUME Inv, NEW s \in Sessions, Active(session[s])
    PROVE  /\ session[s] \in Session /\ Script(source, session[s]) /\ Uses(s)
           /\ Place(session[s]) \in Places /\ Sealed(session[s]) \in Object
           /\ Sealed(session[s]) # None
<1>1. session[s] \in Session /\ Script(source, session[s]) /\ Uses(s)
  BY InvHas DEF PageOK, Busy
<1>2. /\ session[s].sub \in Submissions
      /\ session[s].unit \in 1 .. Len(Units[session[s].sub])
      /\ session[s].part \in 1 .. LastPart(session[s].sub, session[s].unit)
  BY <1>1 DEF Script
<1>3. session[s].part \in 1 .. Len(Units[session[s].sub][session[s].unit])
  BY <1>2, UnitIs
<1>4. Place(session[s]) \in Places
  BY <1>2, <1>3, PlaceIs DEF Place
<1>5. session[s].case \in Cases
  BY <1>1, SessionHas
<1>6. Sealed(session[s]) \in Object
  BY <1>4, <1>5 DEF Sealed, Object
<1> QED
  BY <1>1, <1>4, <1>6, NoneAssumption

\* The identifier a page holds: nobody else has it, and no source does.
LEMMA HolderHas ==
    ASSUME Inv, NEW s \in Sessions, Holding(session[s])
    PROVE  /\ session[s].id \in Ids /\ session[s].id <= allocated
           /\ source[session[s].id] = None
           /\ session[s].pc = "register" => object[session[s].id] = Sealed(session[s])
           /\ \A t \in Sessions \ {s} : Holding(session[t]) => session[t].id # session[s].id
<1>1. allocated \in Nat
  BY SourceAssumption DEF Inv, TypeOK
<1>2. session[s].id \in 1 .. allocated
  BY InvHas DEF Owned
<1> QED
  BY <1>1, <1>2, InvHas DEF Owned, Apart

\* The next identifier is new to everybody.
LEMMA NextIsNew ==
    ASSUME Inv, allocated < MaxSources
    PROVE  /\ allocated + 1 \in Ids /\ allocated + 1 \in 0 .. MaxSources
           /\ allocated + 1 >= allocated /\ source[allocated + 1] = None
           /\ \A t \in Sessions : Holding(session[t]) => session[t].id # allocated + 1
<1>1. allocated \in Nat /\ MaxSources \in Nat
  BY SourceAssumption DEF Inv, TypeOK
<1>2. allocated + 1 \in Ids /\ allocated + 1 \in 0 .. MaxSources /\ allocated + 1 >= allocated
  BY <1>1 DEF Ids
<1>3. source[allocated + 1] = None
  BY <1>1, <1>2 DEF Inv, SourcesInv, SourceOK
<1>4. ASSUME NEW t \in Sessions, Holding(session[t])
      PROVE  session[t].id # allocated + 1
  <2>1. session[t].id \in Ids /\ session[t].id <= allocated
    BY <1>4, HolderHas
  <2> QED
    BY <1>1, <2>1 DEF Ids
<1> QED
  BY <1>2, <1>3, <1>4

LEMMA ScriptStays ==
    ASSUME NEW src, NEW v, NEW w, Script(src, w), v.case = w.case, v.sub = w.sub,
           v.unit = w.unit, v.part = w.part, v.made = w.made, v.missed = w.missed,
           v.told = w.told
    PROVE  Script(src, v)
<1>1. /\ \A k : UnitDone(src, w, k) => UnitDone(src, v, k)
      /\ \A k, j : Here(src, w, k, j) => Here(src, v, k, j)
  BY DoneStays
<1> QED
  BY <1>1 DEF Script

\* A step that touches the identifier e: the page takes it, keeps it or is done with it.
LEMMA CallStep ==
    ASSUME Inv, NEW s \in Sessions, NEW v, Turns(s, v), Uses(s), NEW e,
           UNCHANGED <<deployment, synthetic, propositions>>,
           allocated' \in 0 .. MaxSources, allocated' >= allocated, faults' \in 0 .. MaxFaults,
           object' \in [Ids -> Object \cup {None}], source' \in [Ids -> Source \cup {None}],
           \A i \in Ids : source[i] # None => source'[i] = source[i],
           \A i \in Ids : i # e => source'[i] = source[i] /\ object'[i] = object[i],
           \A t \in Sessions \ {s} : Holding(session[t]) => session[t].id # e,
           e \in Ids => source[e] = None /\ SourceOK(allocated', source', object', e),
           PageOK(source', v), Holding(v) => v.id = e,
           Owned(allocated', source', object', v)
    PROVE  Inv'
<1>1. allocated' \in Nat
  BY SourceAssumption
<1>2. \A t \in Sessions \ {s} : Apart(v, session[t])
  BY DEF Apart
<1>3. PagesInv'
  BY <1>1, <1>2, PagesStep
<1>4. SourcesInv'
  BY <1>1, SourcesStep
<1>5. TypeOK'
  BY DEF Inv, TypeOK, Turns
<1> QED
  BY <1>3, <1>4, <1>5 DEF Inv

LEMMA AllocateKeeps ==
    ASSUME Inv, NEW s \in Sessions, Allocate(s)
    PROVE  Inv'
<1> DEFINE w == session[s]
           e == allocated + 1
           v == Held(w, "put", e)
<1>1. w \in Session /\ Script(source, w) /\ Uses(s)
  BY CallerHas DEF Allocate, Active
<1>2. /\ e \in Ids /\ e \in 0 .. MaxSources /\ e >= allocated /\ source[e] = None
      /\ \A t \in Sessions : Holding(session[t]) => session[t].id # e
  BY NextIsNew DEF Allocate
<1>3. session' = [session EXCEPT ![s] = v]
  BY Zenon DEF Allocate, Held
<1>4. /\ v \in Session /\ v.pc = "put" /\ v.id = e /\ v.case = w.case /\ v.sub = w.sub
      /\ v.unit = w.unit /\ v.part = w.part /\ v.made = w.made /\ v.missed = w.missed
      /\ v.told = w.told
  BY <1>1, <1>2, HeldIs
<1>5. UNCHANGED <<deployment, synthetic, object, source, propositions, faults>> /\ allocated' = e
  BY DEF Allocate
<1> HIDE DEF v, e
<1>6. Turns(s, v)
  BY <1>3, <1>4, TurnsTo DEF Inv, TypeOK
<1>7. Script(source, v)
  BY <1>1, <1>4, ScriptStays
<1>8. PageOK(source', v)
  BY <1>4, <1>5, <1>7 DEF PageOK, Script
<1>9. e \in 1 .. e
  BY <1>2 DEF Ids
<1>10. Owned(allocated', source', object', v)
  BY <1>2, <1>4, <1>5, <1>9 DEF Owned
<1>11. SourceOK(allocated', source', object', e)
  BY <1>2, <1>5 DEF SourceOK
<1> QED
  BY <1>1, <1>2, <1>4, <1>5, <1>6, <1>8, <1>10, <1>11, CallStep DEF Inv, TypeOK

\* The payload of a page's part in storage.
LEMMA StoredIs ==
    ASSUME Inv, NEW s \in Sessions, session[s].pc = "put"
    PROVE  /\ Stored(session[s]) \in [Ids -> Object \cup {None}]
           /\ Stored(session[s])[session[s].id] = Sealed(session[s])
           /\ \A i \in Ids : i # session[s].id => Stored(session[s])[i] = object[i]
<1>1. session[s].id \in Ids /\ Sealed(session[s]) \in Object
  BY HolderHas, CallerHas DEF Active, Holding
<1>2. object \in [Ids -> Object \cup {None}]
  BY DEF Inv, TypeOK
<1> QED
  BY <1>1, <1>2 DEF Stored

LEMMA PutKeeps ==
    ASSUME Inv, NEW s \in Sessions, PutLocally(s) \/ PutInCloud(s)
    PROVE  Inv'
<1> DEFINE w == session[s]
           v == Held(w, "register", w.id)
<1>1. /\ w.pc = "put" /\ object' = Stored(w)
      /\ session' = [session EXCEPT ![s].pc = "register"]
      /\ UNCHANGED <<deployment, synthetic, allocated, source, propositions, faults>>
  BY DEF PutLocally, PutInCloud
<1>2. w \in Session /\ Script(source, w) /\ Uses(s)
  BY <1>1, CallerHas DEF Active
<1>3. /\ w.id \in Ids /\ w.id <= allocated /\ source[w.id] = None
      /\ \A t \in Sessions \ {s} : Holding(session[t]) => session[t].id # w.id
  BY <1>1, HolderHas DEF Holding
<1>4. /\ v \in Session /\ v.pc = "register" /\ v.id = w.id /\ v.case = w.case /\ v.sub = w.sub
      /\ v.unit = w.unit /\ v.part = w.part /\ v.made = w.made /\ v.missed = w.missed
      /\ v.told = w.told
  BY <1>2, <1>3, HeldIs
<1>5. session' = [session EXCEPT ![s] = v]
  <2>1. [w EXCEPT !.pc = "register"] = v
    BY <1>2 DEF Held, Session
  <2> HIDE DEF v
  <2> QED
    BY <1>1, <2>1
<1>6. /\ object' \in [Ids -> Object \cup {None}] /\ object'[w.id] = Sealed(w)
      /\ \A i \in Ids : i # w.id => object'[i] = object[i]
  BY <1>1, StoredIs
<1> HIDE DEF v
<1>7. Turns(s, v)
  BY <1>4, <1>5, TurnsTo DEF Inv, TypeOK
<1>8. Script(source, v) /\ Sealed(v) = Sealed(w)
  BY <1>2, <1>4, ScriptStays DEF Sealed, Place
<1>9. PageOK(source', v)
  BY <1>1, <1>4, <1>8 DEF PageOK, Script
<1>10. allocated \in 0 .. MaxSources /\ allocated \in Nat
  BY SourceAssumption DEF Inv, TypeOK
<1>11. Owned(allocated', source', object', v)
  <2>1. w.id \in 1 .. allocated
    BY <1>3, <1>10 DEF Ids
  <2> QED
    BY <1>1, <1>3, <1>4, <1>6, <1>8, <2>1 DEF Owned
<1>12. SourceOK(allocated', source', object', w.id)
  BY <1>1, <1>3 DEF SourceOK
<1>13. allocated' \in 0 .. MaxSources /\ allocated' >= allocated
  BY <1>1, <1>10
<1>14. /\ UNCHANGED <<deployment, synthetic, propositions>> /\ faults' \in 0 .. MaxFaults
       /\ source' \in [Ids -> Source \cup {None}]
       /\ \A i \in Ids : source[i] # None => source'[i] = source[i]
  BY <1>1 DEF Inv, TypeOK
<1>15. \A i \in Ids : i # w.id => source'[i] = source[i] /\ object'[i] = object[i]
  BY <1>1, <1>6
<1> HIDE DEF w
<1> QED
  BY <1>2, <1>3, <1>4, <1>6, <1>7, <1>9, <1>11, <1>12, <1>13, <1>14, <1>15, CallStep

\* The source a page's part becomes: new, in its own case, under what it lies in.
LEMMA RegisteredIs ==
    ASSUME Inv, NEW s \in Sessions, session[s].pc = "register"
    PROVE  /\ Registered(session[s]) \in [Ids -> Source \cup {None}]
           /\ Registered(session[s])[session[s].id] # None
           /\ Registered(session[s])[session[s].id].place = Place(session[s])
           /\ Registered(session[s])[session[s].id].case = session[s].case
           /\ \A i \in Ids : i # session[s].id => Registered(session[s])[i] = source[i]
           /\ SourceOK(allocated, Registered(session[s]), object, session[s].id)
<1> DEFINE w == session[s]
           r == [place |-> Place(w), case |-> w.case, parent |-> Parent(w)]
           new == [source EXCEPT ![w.id] = r]
<1>1. /\ w \in Session /\ Script(source, w) /\ Place(w) \in Places
      /\ Sealed(w) # None /\ w.case \in Cases
  BY CallerHas, SessionHas DEF Active
<1>2. /\ w.id \in Ids /\ w.id <= allocated /\ source[w.id] = None
      /\ object[w.id] = Sealed(w)
  BY HolderHas DEF Holding
<1>3. /\ w.sub \in Submissions /\ w.unit \in 1 .. Len(Units[w.sub])
      /\ w.part \in 1 .. LastPart(w.sub, w.unit) /\ Inspected(w.sub, w.unit)
      /\ \A j \in 1 .. w.part - 1 : Here(source, w, w.unit, j)
      /\ w.unit > 1 => Here(source, w, 1, 1)
  BY <1>1 DEF Script
<1>4. /\ w.part \in 1 .. Len(Units[w.sub][w.unit]) /\ w.part \in Nat /\ w.unit \in Nat
      /\ w.part >= 1 /\ w.unit >= 1
  BY <1>3, UnitIs, SMTT(30)
<1>5. Place(w)[1] = w.sub /\ Place(w)[2] = w.unit /\ Place(w)[3] = w.part
  BY DEF Place
\* The archive or the e-mail that the part lies in is already there.
<1>6. ~(w.unit = 1 /\ w.part = 1) =>
        /\ Parent(w) \in Ids /\ source[Parent(w)] # None
        /\ source[Parent(w)].place = Above(Place(w)) /\ source[Parent(w)].case = w.case
  <2>1. CASE w.part > 1
    <3> DEFINE a == PartAt(Place(w)).within
               p == w.made[<<w.unit, a>>]
    <3>1. a \in 1 .. w.part - 1
      BY <1>3, <1>4, <2>1, PartIs DEF Place
    <3>2. /\ p \in Ids /\ source[p] # None /\ source[p].place = <<w.sub, w.unit, a>>
          /\ source[p].case = w.case
      BY <1>3, <3>1 DEF Here, Did
    <3>3. Parent(w) = p
      BY <2>1 DEF Parent
    <3>4. Above(Place(w)) = <<w.sub, w.unit, a>>
      BY <1>5, <2>1 DEF Above
    <3> QED
      BY <3>2, <3>3, <3>4
  <2>2. CASE w.part = 1 /\ w.unit > 1
    <3> DEFINE p == w.made[<<1, 1>>]
    <3>1. /\ p \in Ids /\ source[p] # None /\ source[p].place = <<w.sub, 1, 1>>
          /\ source[p].case = w.case
      BY <1>3, <2>2 DEF Here, Did
    <3>2. Parent(w) = p
      BY <2>2 DEF Parent
    <3>3. Above(Place(w)) = <<w.sub, 1, 1>>
      BY <1>5, <2>2 DEF Above
    <3> QED
      BY <3>1, <3>2, <3>3
  <2> QED
    BY <1>4, <2>1, <2>2
<1>7. w.unit = 1 /\ w.part = 1 => Parent(w) = 0
  BY DEF Parent
<1>8. r \in Source /\ r # None
  <2>1. Parent(w) \in Ids \cup {0}
    BY <1>6, <1>7
  <2>2. r \in Source
    BY <1>1, <2>1 DEF Source
  <2> QED
    BY <2>2, NoneAssumption
<1>9. r.place = Place(w) /\ r.case = w.case /\ r.parent = Parent(w)
  OBVIOUS
<1> HIDE DEF r
<1>10. source \in [Ids -> Source \cup {None}]
  BY DEF Inv, TypeOK
<1>11. /\ new \in [Ids -> Source \cup {None}] /\ new[w.id] = r
       /\ \A i \in Ids : i # w.id => new[i] = source[i]
  BY <1>2, <1>8, <1>10
<1>12. Registered(w) = new
  BY DEF Registered, r
<1> HIDE DEF new
<1>13. ObjectOf(new, object, w.id)
  <2>1. Sealed(w).place = Place(w) /\ Sealed(w).case = w.case
    BY DEF Sealed
  <2> QED
    BY <1>1, <1>2, <1>9, <1>11, <2>1 DEF ObjectOf
<1>14. Lineage(new, w.id)
  <2>1. CASE w.unit = 1 /\ w.part = 1
    BY <1>5, <1>7, <1>9, <1>11, <2>1 DEF Lineage
  <2>2. CASE ~(w.unit = 1 /\ w.part = 1)
    <3>1. /\ Parent(w) \in Ids /\ Parent(w) # w.id /\ source[Parent(w)] # None
          /\ source[Parent(w)].place = Above(Place(w)) /\ source[Parent(w)].case = w.case
      BY <1>2, <1>6, <2>2
    <3>2. new[Parent(w)] = source[Parent(w)] /\ Parent(w) # 0
      BY <1>11, <3>1 DEF Ids
    <3>3. /\ new[w.id].parent = Parent(w) /\ new[w.id].place = Place(w)
          /\ new[w.id].case = w.case
      BY <1>9, <1>11
    <3> QED
      BY <1>5, <2>2, <3>1, <3>2, <3>3 DEF Lineage
  <2> QED
    BY <2>1, <2>2
<1>15. Inspected(new[w.id].place[1], new[w.id].place[2])
  BY <1>3, <1>5, <1>9, <1>11
<1> QED
  BY <1>2, <1>8, <1>9, <1>11, <1>12, <1>13, <1>14, <1>15 DEF SourceOK

LEMMA RegisterKeeps ==
    ASSUME Inv, NEW s \in Sessions, Register(s)
    PROVE  Inv'
<1> DEFINE w == session[s]
           v == Advanced(Queued(Kept(w)))
<1>1. /\ w.pc = "register" /\ source' = Registered(w)
      /\ UNCHANGED <<deployment, synthetic, allocated, object, propositions, faults>>
  BY DEF Register
<1>2. session' = [session EXCEPT ![s] = v]
  BY Zenon DEF Register, Kept
<1>3. w \in Session /\ Script(source, w) /\ Uses(s)
  BY <1>1, CallerHas DEF Active
<1>4. /\ w.id \in Ids /\ source[w.id] = None
      /\ \A t \in Sessions \ {s} : Holding(session[t]) => session[t].id # w.id
  BY <1>1, HolderHas DEF Holding
<1>5. /\ source' \in [Ids -> Source \cup {None}] /\ source'[w.id] # None
      /\ source'[w.id].place = Place(w) /\ source'[w.id].case = w.case
      /\ \A i \in Ids : i # w.id => source'[i] = source[i]
      /\ SourceOK(allocated', source', object', w.id)
  BY <1>1, RegisteredIs
<1>6. \A i \in Ids : source[i] # None => source'[i] = source[i]
  BY <1>4, <1>5
<1>7. Proceeds(source', v)
  BY <1>3, <1>4, <1>5, <1>6, AdvancedOK
<1> HIDE DEF v
<1>8. Turns(s, v)
  BY <1>2, <1>7, TurnsTo DEF Inv, TypeOK, Proceeds
<1>9. PageOK(source', v) /\ ~Holding(v) /\ Owned(allocated', source', object', v)
  BY <1>7 DEF Proceeds, Holding, Owned
<1>10. allocated' \in 0 .. MaxSources /\ allocated' >= allocated
  BY <1>1, SourceAssumption DEF Inv, TypeOK
<1> QED
  BY <1>1, <1>3, <1>4, <1>5, <1>6, <1>8, <1>9, <1>10, CallStep DEF Inv, TypeOK

\* Whatever the call did, the script goes on as after an exception.
LEMMA UnansweredKeeps ==
    ASSUME Inv, NEW s \in Sessions, Unanswered(s)
    PROVE  Inv'
<1> DEFINE w == session[s]
           v == Abandoned(w)
<1>1. /\ session' = [session EXCEPT ![s] = v] /\ UNCHANGED <<deployment, synthetic, propositions>>
      /\ Active(w)
  BY Zenon DEF Unanswered, Active
<1>2. faults' \in 0 .. MaxFaults
  BY FaultIs DEF Unanswered, Inv
<1>3. w \in Session /\ Script(source, w) /\ Uses(s)
  BY <1>1, CallerHas
<1>4. Proceeds(source, v)
  BY <1>3, AbandonedOK
<1> HIDE DEF v
<1>5. Turns(s, v) /\ ~Holding(v) /\ PageOK(source, v) /\ Owned(allocated', source', object', v)
  BY <1>1, <1>4, TurnsTo DEF Inv, TypeOK, Proceeds, Holding, Owned
<1>6. allocated \in 0 .. MaxSources /\ allocated >= allocated
  BY SourceAssumption DEF Inv, TypeOK
<1>7. CASE /\ w.pc = "allocate" /\ allocated < MaxSources
           /\ allocated' = allocated + 1 /\ UNCHANGED <<object, source>>
  <2> DEFINE e == allocated + 1
  <2>1. /\ e \in Ids /\ e \in 0 .. MaxSources /\ e >= allocated /\ source[e] = None
        /\ \A t \in Sessions : Holding(session[t]) => session[t].id # e
    BY <1>7, NextIsNew
  <2>2. SourceOK(allocated', source', object', e) /\ PageOK(source', v)
    BY <1>5, <1>7, <2>1 DEF SourceOK
  <2>3. allocated' = e /\ UNCHANGED <<object, source>>
    BY <1>7
  <2> HIDE DEF e
  <2> QED
    BY <1>1, <1>2, <1>3, <1>5, <2>1, <2>2, <2>3, CallStep DEF Inv, TypeOK
<1>8. CASE w.pc = "put" /\ object' = Stored(w) /\ UNCHANGED <<allocated, source>>
  <2>1. /\ object' \in [Ids -> Object \cup {None}]
        /\ \A i \in Ids : i # w.id => object'[i] = object[i]
    BY <1>8, StoredIs
  <2>2. /\ w.id \in Ids /\ source[w.id] = None
        /\ \A t \in Sessions \ {s} : Holding(session[t]) => session[t].id # w.id
    BY <1>8, HolderHas DEF Holding
  <2>3. SourceOK(allocated', source', object', w.id) /\ PageOK(source', v)
    BY <1>5, <1>8, <2>2 DEF SourceOK
  <2>4. allocated' \in 0 .. MaxSources /\ allocated' >= allocated
    BY <1>6, <1>8
  <2> QED
    BY <1>1, <1>2, <1>3, <1>5, <1>8, <2>1, <2>2, <2>3, <2>4, CallStep DEF Inv, TypeOK
<1>9. CASE w.pc = "register" /\ source' = Registered(w) /\ UNCHANGED <<allocated, object>>
  <2>1. /\ source' \in [Ids -> Source \cup {None}]
        /\ \A i \in Ids : i # w.id => source'[i] = source[i]
        /\ SourceOK(allocated', source', object', w.id)
    BY <1>9, RegisteredIs
  <2>2. /\ w.id \in Ids /\ source[w.id] = None
        /\ \A t \in Sessions \ {s} : Holding(session[t]) => session[t].id # w.id
    BY <1>9, HolderHas DEF Holding
  <2>3. \A i \in Ids : source[i] # None => source'[i] = source[i]
    BY <2>1, <2>2
  <2>4. PageOK(source', v)
    BY <1>5, <2>3, DoneGrows
  <2>5. allocated' \in 0 .. MaxSources /\ allocated' >= allocated
    BY <1>6, <1>9
  <2> QED
    BY <1>1, <1>2, <1>3, <1>5, <1>9, <2>1, <2>2, <2>3, <2>4, <2>5, CallStep DEF Inv, TypeOK
<1>10. \/ /\ w.pc = "allocate" /\ allocated < MaxSources
          /\ allocated' = allocated + 1 /\ UNCHANGED <<object, source>>
       \/ w.pc = "put" /\ object' = Stored(w) /\ UNCHANGED <<allocated, source>>
       \/ w.pc = "register" /\ source' = Registered(w) /\ UNCHANGED <<allocated, object>>
  BY DEF Unanswered
<1> QED
  BY <1>7, <1>8, <1>9, <1>10

\* A demo's core starts again: no other page uses it.
LEMMA ClearStep ==
    ASSUME Inv, NEW s \in Sessions, deployment = s, NEW v \in Session,
           v.pc = "idle", v.told = "nothing", session' = [session EXCEPT ![s] = v],
           source' = [i \in Ids |-> None], propositions' = <<>>,
           UNCHANGED <<deployment, allocated, object>>,
           synthetic' \in BOOLEAN, faults' \in 0 .. MaxFaults
    PROVE  Inv'
<1>1. Turns(s, v)
  BY TurnsTo DEF Inv, TypeOK
<1>2. PageOK(source', v) /\ ~Holding(v) /\ ~Busy(v)
  BY DEF PageOK, Holding, Busy, Active
<1>3. ASSUME NEW t \in Sessions \ {s}
      PROVE  PageOK(source', session[t]) /\ ~Holding(session[t]) /\ ~Busy(session[t])
  <2>1. ~Busy(session[t])
    BY InvHas, SourceAssumption DEF Uses
  <2>2. session[t].pc = "promote" => session[t].target \in Ids
    BY InvHas DEF PageOK
  <2> QED
    BY <2>1, <2>2 DEF Busy, Active, Holding, PageOK
<1>4. ASSUME NEW t \in Sessions
      PROVE  PageOK(source', session'[t]) /\ ~Holding(session'[t]) /\ ~Busy(session'[t])
  BY <1>1, <1>2, <1>3 DEF Turns
<1>5. PagesInv'
  BY <1>4 DEF PagesInv, Owned, Apart
<1>6. SourcesInv'
  BY DEF SourcesInv, SourceOK
<1>7. source' \in [Ids -> Source \cup {None}] /\ propositions' \in Seq(Proposition) /\ synthetic' \in BOOLEAN
  OBVIOUS
<1>8. TypeOK'
  BY <1>1, <1>7 DEF Inv, TypeOK, Turns
<1> QED
  BY <1>5, <1>6, <1>8 DEF Inv

LEMMA ReplaceDemoDataKeeps ==
    ASSUME Inv, NEW s \in Sessions, ReplaceDemoData(s)
    PROVE  Inv'
<1> DEFINE v == Emptied(session[s])
<1>1. session' = [session EXCEPT ![s] = v]
  BY Zenon DEF ReplaceDemoData, Emptied
<1>2. v \in Session /\ v.pc = "idle" /\ v.told = "nothing"
  BY InvHas, EmptiedIs DEF ReplaceDemoData
<1> HIDE DEF v
<1> QED
  BY <1>1, <1>2, ClearStep DEF ReplaceDemoData, Inv, TypeOK

LEMMA SessionEndsKeeps ==
    ASSUME Inv, NEW s \in Sessions, SessionEnds(s)
    PROVE  Inv'
<1> DEFINE v == Fresh(session[s].case)
<1>1. session' = [session EXCEPT ![s] = v] /\ UNCHANGED <<deployment, allocated, object>>
  BY DEF SessionEnds
<1>2. v \in Session /\ v.pc = "idle" /\ v.told = "nothing"
  BY InvHas, SessionHas, FreshIs
<1>3. faults' \in 0 .. MaxFaults
  BY FaultIs DEF SessionEnds, Inv
<1> HIDE DEF v
<1>4. CASE deployment = s
  BY <1>1, <1>2, <1>3, <1>4, ClearStep DEF SessionEnds
<1>5. CASE deployment # s
  <2>1. UNCHANGED <<source, propositions, synthetic>>
    BY <1>5 DEF SessionEnds
  <2>2. Turns(s, v)
    BY <1>1, <1>2, TurnsTo DEF Inv, TypeOK
  <2>3. PageOK(source, v) /\ ~Holding(v) /\ ~Busy(v)
    BY <1>2 DEF PageOK, Holding, Busy, Active
  <2> QED
    BY <1>1, <1>3, <2>1, <2>2, <2>3, QuietStep DEF Inv, TypeOK
<1> QED
  BY <1>4, <1>5

LEMMA InitHolds == Init => Inv
<1> SUFFICES ASSUME Init PROVE Inv
  OBVIOUS
<1>1. ASSUME NEW s \in Sessions
      PROVE  session[s] \in Session /\ session[s].pc = "idle" /\ session[s].told = "nothing"
  BY FreshIs DEF Init
<1>2. session \in [Sessions -> Session]
  <2>1. session \in [Sessions -> {Fresh(c) : c \in Cases}]
    BY DEF Init
  <2>2. {Fresh(c) : c \in Cases} \subseteq Session
    BY FreshIs
  <2> QED
    BY <2>1, <2>2
<1>3. 0 \in 0 .. MaxSources /\ 0 \in 0 .. MaxFaults
  BY SourceAssumption
<1>4. /\ object \in [Ids -> Object \cup {None}] /\ source \in [Ids -> Source \cup {None}]
      /\ propositions \in Seq(Proposition)
  BY DEF Init
<1>5. TypeOK
  BY <1>2, <1>3, <1>4 DEF TypeOK, Init
<1>6. PagesInv
  BY <1>1 DEF PagesInv, PageOK, Owned, Apart, Busy, Active, Holding
<1>7. SourcesInv
  BY DEF SourcesInv, SourceOK, Init
<1> QED
  BY <1>5, <1>6, <1>7 DEF Inv

LEMMA StepKeeps == Inv /\ [Next]_vars => Inv'
<1> SUFFICES ASSUME Inv, [Next]_vars PROVE Inv'
  OBVIOUS
<1>1. CASE UNCHANGED vars
  BY <1>1 DEF vars, Inv, TypeOK, PagesInv, SourcesInv, Uses
<1>2. ASSUME NEW s \in Sessions, NEW b \in Submissions, Submit(s, b) \/ DownloadFails(s, b)
      PROVE  Inv'
  BY <1>2, SubmitKeeps, DownloadFailsKeeps
<1>3. ASSUME NEW s \in Sessions,
             Allocate(s) \/ PutLocally(s) \/ PutInCloud(s) \/ Register(s) \/ Throws(s)
      PROVE  Inv'
  BY <1>3, AllocateKeeps, PutKeeps, RegisterKeeps, ThrowsKeeps
<1>4. ASSUME NEW s \in Sessions, NEW i \in Ids, Dismiss(s, i)
      PROVE  Inv'
  BY <1>4, DismissKeeps
<1>5. ASSUME NEW s \in Sessions, NEW i \in Ids, NEW chosen \in SUBSET session[s].waiting[i],
             Promote(s, i, chosen)
      PROVE  Inv'
  BY <1>5, PromoteKeeps
<1>6. ASSUME NEW s \in Sessions, NEW c \in Statements,
             AddProposition(s, c) \/ PromotionFails(s, c)
      PROVE  Inv'
  BY <1>6, AddPropositionKeeps, PromotionFailsKeeps
<1>7. ASSUME NEW s \in Sessions, NEW c \in Cases, SwitchCase(s, c)
      PROVE  Inv'
  BY <1>7, SwitchCaseKeeps
<1>8. ASSUME NEW s \in Sessions, Unanswered(s) \/ ReplaceDemoData(s) \/ SessionEnds(s)
      PROVE  Inv'
  BY <1>8, UnansweredKeeps, ReplaceDemoDataKeeps, SessionEndsKeeps
<1> QED
  BY <1>1, <1>2, <1>3, <1>4, <1>5, <1>6, <1>7, <1>8 DEF Next

LEMMA InvHolds == Spec => []Inv
<1> QED
  BY InitHolds, StepKeeps, PTL DEF Spec

-----------------------------------------------------------------------------
(* Theorems. *)

\* The variables keep their types: every identifier handed out is within the
\* bound, and a queue holds statements of extracted contents only.
THEOREM TypeCorrect == Spec => []TypeOK
<1>1. Inv => TypeOK
  BY DEF Inv
<1> QED
  BY <1>1, InvHolds, PTL

\* Whatever call of ingest_file fails, unanswered or not, and whenever the
\* process ends: a source of the core has its object, under its own case.
THEOREM SourcesStored == Spec => []SourcesAreStored
<1>1. Inv => SourcesAreStored
  BY DEF Inv, SourcesInv, SourceOK, ObjectOf, SourcesAreStored, Intact
<1> QED
  BY <1>1, InvHolds, PTL

\* However deep the packages nest and however many attachments fail: a member
\* is a child of its own archive's source, an attachment of its e-mail's.
THEOREM LineageHolds == Spec => []LineageIsWhole
<1>1. ASSUME Inv PROVE LineageIsWhole
  <2>1. \A i \in Ids : source[i] # None => Lineage(source, i)
    BY <1>1 DEF Inv, SourcesInv, SourceOK
  <2> QED
    BY <2>1 DEF Lineage, Above, LineageIsWhole
<1> QED
  BY <1>1, InvHolds, PTL

\* "Completed" on the page is not said while a part is missing unannounced.
THEOREM CompletedIsAll == Spec => []CompletedMeansAll
<1>1. ASSUME Inv, NEW s \in Sessions, session[s].told = "completed",
             NEW k \in 1 .. Len(Units[session[s].sub]), k \notin session[s].missed,
             NEW j \in 1 .. LastPart(session[s].sub, k)
      PROVE  /\ session[s].made[<<k, j>>] # 0
             /\ source[session[s].made[<<k, j>>]] # None
             /\ source[session[s].made[<<k, j>>]].place = <<session[s].sub, k, j>>
  <2>1. Complete(source, session[s])
    BY <1>1, InvHas DEF PageOK
  <2>2. Did(source, session[s], k, j)
    BY <1>1, <2>1 DEF Complete, UnitDone
  <2> QED
    BY <2>2 DEF Did, Ids
<1>2. Inv => CompletedMeansAll
  BY <1>1 DEF CompletedMeansAll
<1> QED
  BY <1>2, InvHolds, PTL

\* inspect_zip reaches every archive of a package before its first part is
\* registered: no source comes from a package with a member it must refuse.
THEOREM PackagesInspected == Spec => []PackagesAreInspected
<1>1. ASSUME NEW b \in Submissions, NEW k \in 1 .. Len(Units[b]), Inspected(b, k),
             Kind[b] # "mobile", Units[b][k][1].zip, NEW j \in 1 .. Len(Units[b][k])
      PROVE  ~Units[b][k][j].flawed
  <2>1. Len(Units[b][k]) \in Nat /\ 1 \in 1 .. Len(Units[b][k])
    BY UnitIs
  <2>2. \A a \in 1 .. Len(Units[b][k]) : Units[b][k][a].zip => ArchiveAccepted(Units[b][k], a)
    BY <1>1 DEF Inspected, Accepted
  <2>3. CASE j = 1
    BY <1>1, <2>1, <2>2, <2>3 DEF ArchiveAccepted
  <2>4. CASE j # 1
    <3> DEFINE a == Units[b][k][j].within
    <3>1. j > 1
      BY <2>1, <2>4
    <3>2. a \in 1 .. j - 1 /\ Units[b][k][a].zip
      BY <3>1, PartIs
    <3>3. a \in 1 .. Len(Units[b][k])
      BY <2>1, <3>2
    <3>4. j \in Members(Units[b][k], a)
      BY DEF Members
    <3> QED
      BY <2>2, <3>2, <3>3, <3>4 DEF ArchiveAccepted
  <2> QED
    BY <2>3, <2>4
<1>2. ASSUME Inv, NEW i \in Ids, source[i] # None
      PROVE  LET p == source[i].place
                 u == Units[p[1]][p[2]]
             IN  Kind[p[1]] = "mobile" \/ ~u[1].zip \/ \A j \in 1 .. Len(u) : ~u[j].flawed
  <2>1. source[i].place \in Places
    BY <1>2 DEF Inv, TypeOK, Source
  <2>2. PICK b \in Submissions : \E k \in 1 .. Len(Units[b]) : \E j \in 1 .. Len(Units[b][k]) :
          source[i].place = <<b, k, j>>
    <3>1. PICK b \in Submissions :
            source[i].place \in UNION {{<<b, k, j>> : j \in 1 .. Len(Units[b][k])}
                                         : k \in 1 .. Len(Units[b])}
      BY <2>1, Zenon DEF Places
    <3>2. PICK k \in 1 .. Len(Units[b]) :
            source[i].place \in {<<b, k, j>> : j \in 1 .. Len(Units[b][k])}
      BY <3>1, Zenon
    <3> QED
      BY <3>2
  <2>3. PICK k \in 1 .. Len(Units[b]) : \E j \in 1 .. Len(Units[b][k]) :
          source[i].place = <<b, k, j>>
    BY <2>2
  <2>4. source[i].place[1] = b /\ source[i].place[2] = k
    BY <2>3
  <2>5. Inspected(b, k)
    BY <1>2, <2>4 DEF Inv, SourcesInv, SourceOK
  <2>6. Kind[b] = "mobile" \/ ~Units[b][k][1].zip
          \/ \A n \in 1 .. Len(Units[b][k]) : ~Units[b][k][n].flawed
    BY <1>1, <2>5
  <2> QED
    BY <2>4, <2>6
<1>3. Inv => PackagesAreInspected
  BY <1>2 DEF PackagesAreInspected
<1> QED
  BY <1>3, InvHolds, PTL
=============================================================================
