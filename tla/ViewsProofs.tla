------------------------------ MODULE ViewsProofs ------------------------------
(***************************************************************************)
(* Theorems about the browser monitor's page, for every run and report, any *)
(* number of connections lost and anything the user does.                   *)
(***************************************************************************)
EXTENDS Views, FiniteSetTheorems, SequenceTheorems, WellFoundedInduction, TLAPS

-----------------------------------------------------------------------------
(* Numbers, and functions that are defined by what they were before.        *)

LEMMA LeastExists ==
  ASSUME NEW T \in SUBSET Nat, T # {}
  PROVE  \E x \in T : \A y \in T : x <= y
<1>1. PICK x \in T : \A y \in T : ~(<<y, x>> \in OpToRel(<, Nat))
  BY NatLessThanWellFounded, WFMin
<1>2. ASSUME NEW y \in T PROVE x <= y
  <2>1. y < x => <<y, x>> \in OpToRel(<, Nat)
    BY DEF OpToRel
  <2>2. ~(y < x)
    BY <1>1, <2>1, Zenon
  <2>3. QED
    BY <2>2
<1>3. QED
  BY <1>2

LEMMA LeastIs ==
  ASSUME NEW T \in SUBSET Nat, T # {}
  PROVE  Least(T) \in T /\ \A y \in T : Least(T) <= y
BY LeastExists DEF Least

\* The greatest of numbers that have a bound is the least of their bounds.
LEMMA GreatestIs ==
  ASSUME NEW T \in SUBSET Nat, T # {}, NEW b \in Nat, \A t \in T : t <= b
  PROVE  Greatest(T) \in T /\ \A y \in T : y <= Greatest(T)
<1> DEFINE U == {u \in Nat : \A t \in T : t <= u}
<1>1. PICK u \in U : \A v \in U : u <= v
  <2>1. U \in SUBSET Nat /\ U # {}
    OBVIOUS
  <2> HIDE DEF U
  <2>2. QED
    BY <2>1, LeastExists
<1>2. u \in T
  <2>1. CASE u = 0
    <3>1. PICK t \in T : t \in Nat
      OBVIOUS
    <3>2. t <= 0
      BY <1>1, <2>1, <3>1
    <3>3. QED
      BY <2>1, <3>1, <3>2
  <2>2. CASE u # 0
    <3>1. u - 1 \in Nat /\ u - 1 \notin U
      BY <1>1, <2>2
    <3>2. PICK t \in T : t > u - 1
      BY <3>1
    <3>3. t = u
      BY <1>1, <3>1, <3>2
    <3>4. QED
      BY <3>3
  <2>3. QED
    BY <2>1, <2>2
<1>3. \E x \in T : \A y \in T : y <= x
  BY <1>1, <1>2
<1>4. QED
  BY <1>3 DEF Greatest

\* Induction up to n, of a set.
LEMMA UpTo ==
  ASSUME NEW n \in Nat, NEW T, 0 \in T, \A i \in 1..n : i - 1 \in T => i \in T
  PROVE  \A i \in 0..n : i \in T
<1> DEFINE Bad == {i \in 0..n : i \notin T}
<1> SUFFICES ASSUME Bad # {} PROVE FALSE
  OBVIOUS
<1>1. PICK x \in Bad : \A y \in Bad : x <= y
  <2>1. Bad \in SUBSET Nat
    OBVIOUS
  <2> HIDE DEF Bad
  <2>2. QED
    BY <2>1, LeastExists
<1>2. x \in 1..n /\ x - 1 \notin Bad
  BY <1>1
<1>3. x - 1 \in T
  BY <1>2
<1>4. QED
  BY <1>1, <1>2, <1>3

\* The functions of 0..n that begin with a and are made of the values before.
Steps(n, S) == [1..n -> [S -> S]]
MadeBy(n, S, a, g) == {f \in [0..n -> S] : f[0] = a /\ \A i \in 1..n : f[i] = g[i][f[i - 1]]}

\* There is one.
LEMMA Recursion ==
  ASSUME NEW n \in Nat, NEW S, NEW a \in S, NEW g \in Steps(n, S)
  PROVE  \E f : f \in MadeBy(n, S, a, g)
<1> USE DEF Steps
<1> DEFINE Made(m, f) == f[0] = a /\ \A i \in 1..m : f[i] = g[i][f[i - 1]]
           T == {m \in 0..n : \E f \in [0..m -> S] : Made(m, f)}
<1>1. 0 \in T
  <2> DEFINE f == [i \in 0..0 |-> a]
  <2>1. f \in [0..0 -> S] /\ f[0] = a
    OBVIOUS
  <2> HIDE DEF f
  <2>2. Made(0, f) /\ 0 \in 0..n
    BY <2>1
  <2>3. \E e \in [0..0 -> S] : Made(0, e)
    BY <2>1, <2>2
  <2>4. QED
    BY <2>2, <2>3
<1>2. ASSUME NEW m \in 1..n, m - 1 \in T PROVE m \in T
  <2>1. PICK f \in [0..m - 1 -> S] : Made(m - 1, f)
    BY <1>2
  <2> DEFINE h == [i \in 0..m |-> IF i = m THEN g[m][f[m - 1]] ELSE f[i]]
  <2>2. m - 1 \in 0..m - 1 /\ f[m - 1] \in S /\ g[m] \in [S -> S]
    BY <2>1
  <2>3. g[m][f[m - 1]] \in S
    BY <2>2
  <2>4. h \in [0..m -> S]
    BY <2>1, <2>3
  <2>5. \A i \in 0..m - 1 : i \in 0..m /\ h[i] = f[i]
    OBVIOUS
  <2>6. h[m] = g[m][h[m - 1]]
    <3>1. h[m] = g[m][f[m - 1]]
      OBVIOUS
    <3>2. h[m - 1] = f[m - 1]
      BY <2>2, <2>5
    <3>3. QED
      BY <3>1, <3>2
  <2>7. \A i \in 1..m - 1 : i \in 0..m - 1 /\ i - 1 \in 0..m - 1
    OBVIOUS
  <2> HIDE DEF h
  <2>8. \A i \in 1..m - 1 : h[i] = g[i][h[i - 1]]
    BY <2>1, <2>5, <2>7
  <2>9. h[0] = a
    BY <2>1, <2>5
  <2>10. \A i \in 1..m : i \in 1..m - 1 \/ i = m
    OBVIOUS
  <2>11. Made(m, h)
    BY <2>6, <2>8, <2>9, <2>10
  <2> HIDE DEF Made
  <2>12. \E e \in [0..m -> S] : Made(m, e)
    BY <2>4, <2>11
  <2>13. QED
    BY <2>12
<1>3. n \in 0..n
  OBVIOUS
<1> HIDE DEF T
<1>4. n \in T
  BY <1>1, <1>2, <1>3, UpTo
<1>5. QED
  BY <1>4 DEF T, MadeBy

-----------------------------------------------------------------------------
(* The rows of the log view.                                                *)

EventSeq == Seq(Events)

LEMMA MergeType ==
  ASSUME NEW rows \in EventSeq, NEW e \in Events
  PROVE  Merge(rows, e) \in EventSeq
<1> DEFINE same == {i \in DOMAIN rows : rows[i].id = e.id}
<1>1. CASE e.kind = "lifecycle" /\ same # {} /\ Replaces(rows[Least(same)], e)
  <2>1. same \in SUBSET Nat
    BY DEF EventSeq
  <2>2. Least(same) \in DOMAIN rows
    BY <1>1, <2>1, LeastIs
  <2>3. [rows EXCEPT ![Least(same)] = e] \in EventSeq
    BY <2>2, ExceptSeq DEF EventSeq
  <2>4. QED
    BY <1>1, <2>3 DEF Merge
<1>2. CASE ~(e.kind = "lifecycle" /\ same # {} /\ Replaces(rows[Least(same)], e))
  <2>1. Append(rows, e) \in EventSeq
    BY DEF EventSeq
  <2>2. QED
    BY <1>2, <2>1 DEF Merge
<1>3. QED
  BY <1>1, <1>2

\* mergedEvents is the last of a row of merges.
LEMMA MergedIs ==
  ASSUME events \in EventSeq
  PROVE  \E m \in [0..Len(events) -> EventSeq] :
           /\ m[0] = <<>>
           /\ \A i \in 1..Len(events) : m[i] = Merge(m[i - 1], events[i])
           /\ mergedEvents = m[Len(events)]
<1> DEFINE n == Len(events)
           g == [i \in 1..n |-> [s \in EventSeq |-> Merge(s, events[i])]]
           merged[i \in 0..n] == IF i = 0 THEN <<>> ELSE Merge(merged[i - 1], events[i])
<1>1. n \in Nat /\ \A i \in 1..n : events[i] \in Events
  BY DEF EventSeq
<1>2. g \in Steps(n, EventSeq)
  BY <1>1, MergeType DEF Steps
<1>3. <<>> \in EventSeq
  BY DEF EventSeq
<1>4. \A s \in EventSeq, i \in 1..n : g[i][s] = Merge(s, events[i])
  OBVIOUS
<1> HIDE DEF g, n
<1>5. PICK f : f \in MadeBy(n, EventSeq, <<>>, g)
  BY <1>1, <1>2, <1>3, Recursion
<1>6. ASSUME NEW i \in 1..n PROVE f[i] = Merge(f[i - 1], events[i])
  <2>1. f[i - 1] \in EventSeq
    BY <1>1, <1>5 DEF MadeBy
  <2>2. QED
    BY <1>4, <1>5, <2>1 DEF MadeBy
<1>7. f = [i \in 0..n |-> IF i = 0 THEN <<>> ELSE Merge(f[i - 1], events[i])]
  BY <1>5, <1>6 DEF MadeBy
<1>8. merged = [i \in 0..n |-> IF i = 0 THEN <<>> ELSE Merge(merged[i - 1], events[i])]
  BY <1>7
<1>9. mergedEvents = merged[n]
  BY DEF mergedEvents, n
<1> HIDE DEF merged
<1>10. merged[0] = <<>> /\ \A i \in 1..n : merged[i] = Merge(merged[i - 1], events[i])
  BY <1>1, <1>8
<1> DEFINE T == {i \in 0..n : merged[i] \in EventSeq}
<1>11. 0 \in T /\ \A i \in 1..n : i - 1 \in T => i \in T
  BY <1>1, <1>3, <1>10, MergeType
<1> HIDE DEF T
<1>12. \A i \in 0..n : i \in T
  BY <1>1, <1>11, UpTo
<1>13. merged \in [0..n -> EventSeq]
  BY <1>8, <1>12 DEF T
<1>14. QED
  BY <1>9, <1>10, <1>13 DEF n

\* A row of the log view has an event: what Place works on.
RowSeq == Seq(EventSeq \ {<<>>})
PlaceState == [rows : RowSeq, hidden : EventSeq]
NothingPlaced == [rows |-> <<>>, hidden |-> <<>>]

LEMMA FlushType ==
  ASSUME NEW st \in PlaceState
  PROVE  Flush(st) \in PlaceState /\ Flush(st).hidden = <<>>
<1>1. st.rows \in RowSeq /\ st.hidden \in EventSeq /\ <<>> \in EventSeq
  BY DEF PlaceState, EventSeq
<1>2. CASE st.hidden = <<>>
  BY <1>2 DEF Flush
<1>3. CASE st.hidden # <<>>
  <2>1. Append(st.rows, st.hidden) \in RowSeq
    BY <1>1, <1>3 DEF RowSeq
  <2>2. Flush(st) = [rows |-> Append(st.rows, st.hidden), hidden |-> <<>>]
    BY <1>3 DEF Flush
  <2>3. QED
    BY <1>1, <2>1, <2>2 DEF PlaceState
<1>4. QED
  BY <1>2, <1>3

\* A step is placed in a row by itself after what was hidden, or joins it.
LEMMA PlaceIs ==
  ASSUME NEW st \in PlaceState, NEW e \in Events
  PROVE  /\ Place(st, e) \in PlaceState
         /\ \/ Place(st, e).rows = Append(Flush(st).rows, <<e>>) /\ Place(st, e).hidden = <<>>
            \/ Place(st, e).rows = st.rows /\ Place(st, e).hidden = Append(st.hidden, e)
<1>1. st.rows \in RowSeq /\ st.hidden \in EventSeq /\ <<>> \in EventSeq
  BY DEF PlaceState, EventSeq
<1>2. <<e>> \in EventSeq \ {<<>>}
  BY DEF EventSeq
<1>3. CASE HideReason(e) = "shown"
  <2>1. Flush(st).rows \in RowSeq
    BY FlushType DEF PlaceState
  <2>2. Append(Flush(st).rows, <<e>>) \in RowSeq
    BY <1>2, <2>1 DEF RowSeq
  <2>3. Place(st, e) = [rows |-> Append(Flush(st).rows, <<e>>), hidden |-> <<>>]
    BY <1>3 DEF Place
  <2>4. QED
    BY <1>1, <2>2, <2>3 DEF PlaceState
<1>4. CASE HideReason(e) # "shown"
  <2>1. Append(st.hidden, e) \in EventSeq
    BY <1>1 DEF EventSeq
  <2>2. Place(st, e) = [rows |-> st.rows, hidden |-> Append(st.hidden, e)]
    BY <1>4 DEF Place, PlaceState
  <2>3. QED
    BY <1>1, <2>1, <2>2 DEF PlaceState
<1>5. QED
  BY <1>3, <1>4

\* Placed is the last of a row of states.
LEMMA PlacedIs ==
  ASSUME mergedEvents \in EventSeq
  PROVE  \E m \in [0..Len(mergedEvents) -> PlaceState] :
           /\ m[0] = NothingPlaced
           /\ \A i \in 1..Len(mergedEvents) : m[i] = Place(m[i - 1], mergedEvents[i])
           /\ Placed = m[Len(mergedEvents)]
<1> DEFINE n == Len(mergedEvents)
           g == [i \in 1..n |-> [s \in PlaceState |-> Place(s, mergedEvents[i])]]
           placed[i \in 0..n] == IF i = 0 THEN NothingPlaced ELSE Place(placed[i - 1], mergedEvents[i])
<1>1. n \in Nat /\ \A i \in 1..n : mergedEvents[i] \in Events
  BY DEF EventSeq
<1>2. g \in Steps(n, PlaceState)
  BY <1>1, PlaceIs DEF Steps
<1>3. NothingPlaced \in PlaceState
  BY DEF EventSeq, RowSeq, PlaceState, NothingPlaced
<1>4. \A s \in PlaceState, i \in 1..n : g[i][s] = Place(s, mergedEvents[i])
  OBVIOUS
<1> HIDE DEF g, n
<1>5. PICK f : f \in MadeBy(n, PlaceState, NothingPlaced, g)
  BY <1>1, <1>2, <1>3, Recursion
<1>6. ASSUME NEW i \in 1..n PROVE f[i] = Place(f[i - 1], mergedEvents[i])
  <2>1. f[i - 1] \in PlaceState
    BY <1>1, <1>5 DEF MadeBy
  <2>2. QED
    BY <1>4, <1>5, <2>1 DEF MadeBy
<1>7. f = [i \in 0..n |-> IF i = 0 THEN NothingPlaced ELSE Place(f[i - 1], mergedEvents[i])]
  BY <1>5, <1>6 DEF MadeBy
<1>8. placed = [i \in 0..n |-> IF i = 0 THEN NothingPlaced ELSE Place(placed[i - 1], mergedEvents[i])]
  BY <1>7
<1>9. Placed = placed[n]
  BY DEF Placed, NothingPlaced, n
<1> HIDE DEF placed
<1>10. placed[0] = NothingPlaced /\ \A i \in 1..n : placed[i] = Place(placed[i - 1], mergedEvents[i])
  BY <1>1, <1>8
<1> DEFINE T == {i \in 0..n : placed[i] \in PlaceState}
<1>11. 0 \in T /\ \A i \in 1..n : i - 1 \in T => i \in T
  BY <1>1, <1>3, <1>10, PlaceIs
<1> HIDE DEF T
<1>12. \A i \in 0..n : i \in T
  BY <1>1, <1>11, UpTo
<1>13. placed \in [0..n -> PlaceState]
  BY <1>8, <1>12 DEF T
<1>14. QED
  BY <1>9, <1>10, <1>13 DEF n

\* The rows are of events of the page.
LEMMA RowsAreEvents ==
  ASSUME events \in EventSeq
  PROVE  mergedEvents \in EventSeq /\ Placed \in PlaceState /\ visibleEvents \in RowSeq
<1>1. mergedEvents \in EventSeq
  <2>1. PICK m \in [0..Len(events) -> EventSeq] : mergedEvents = m[Len(events)]
    BY MergedIs
  <2>2. Len(events) \in 0..Len(events)
    BY DEF EventSeq
  <2>3. QED
    BY <2>1, <2>2
<1>2. Placed \in PlaceState
  <2>1. PICK m \in [0..Len(mergedEvents) -> PlaceState] : Placed = m[Len(mergedEvents)]
    BY <1>1, PlacedIs
  <2>2. Len(mergedEvents) \in 0..Len(mergedEvents)
    BY <1>1 DEF EventSeq
  <2>3. QED
    BY <2>1, <2>2
<1>3. QED
  BY <1>1, <1>2, FlushType DEF PlaceState, visibleEvents

-----------------------------------------------------------------------------
(* The rows of the document.                                                *)

Ids == {e.id : e \in Events}
RowType == [id : Ids, kind : {e.kind : e \in Events}, ts : Nat, artifacts : SUBSET Ids]
Document == [rows : Seq(RowType), claimed : SUBSET Ids, headers : SUBSET {e.type : e \in Events}]
Blank == [rows |-> <<>>, claimed |-> {}, headers |-> {}]

\* What Write makes of an event: nothing, or a row.
Writes(doc, e, new) ==
  \E a \in SUBSET Ids, h \in SUBSET {e.type} :
    new = [rows |-> Append(doc.rows, Row(e, a)), claimed |-> doc.claimed \union a, headers |-> doc.headers \union h]

LEMMA WriteIs ==
  ASSUME events \in EventSeq, NEW doc \in Document, NEW e \in Events
  PROVE  Write(doc, e) = doc \/ Writes(doc, e, Write(doc, e))
<1> DEFINE claims == claimArtifacts(doc, e.id)
<1>1. claims \in SUBSET Ids /\ {} \in SUBSET Ids /\ {e.id} \in SUBSET Ids
  <2>1. \A x \in Range(events) : x \in Events
    BY DEF EventSeq, Range
  <2>2. QED
    BY <2>1 DEF claimArtifacts, artifactsOf, Ids
<1>2. ASSUME NEW a \in SUBSET Ids PROVE Writes(doc, e, AddRow(doc, e, a))
  <2>1. CASE IsHeader(e)
    BY <2>1 DEF AddRow, Writes
  <2>2. CASE ~IsHeader(e)
    <3>1. doc.headers = doc.headers \union {}
      OBVIOUS
    <3>2. QED
      BY <2>2, <3>1 DEF AddRow, Writes
  <2>3. QED
    BY <2>1, <2>2
<1> HIDE DEF claims
<1>3. Write(doc, e) = doc \/ \E a \in SUBSET Ids : Write(doc, e) = AddRow(doc, e, a)
  BY <1>1 DEF Write, claims
<1>4. QED
  BY <1>2, <1>3

LEMMA WriteType ==
  ASSUME events \in EventSeq, NEW doc \in Document, NEW e \in Events
  PROVE  Write(doc, e) \in Document
<1>1. CASE Write(doc, e) = doc
  BY <1>1
<1>2. CASE Writes(doc, e, Write(doc, e))
  <2>1. PICK a \in SUBSET Ids, h \in SUBSET {e.type} :
          Write(doc, e) = [rows |-> Append(doc.rows, Row(e, a)), claimed |-> doc.claimed \union a,
                           headers |-> doc.headers \union h]
    BY <1>2 DEF Writes
  <2>2. Row(e, a) \in RowType
    BY TimelineAssumption DEF Row, RowType, Ids
  <2>3. Append(doc.rows, Row(e, a)) \in Seq(RowType)
    BY <2>2 DEF Document
  <2>4. doc.claimed \union a \in SUBSET Ids /\ doc.headers \union h \in SUBSET {x.type : x \in Events}
    BY DEF Document
  <2>5. QED
    BY <2>1, <2>3, <2>4 DEF Document
<1>3. QED
  BY <1>1, <1>2, WriteIs

\* content is the last of a row of documents.
LEMMA ContentIs ==
  ASSUME events \in EventSeq
  PROVE  \E m \in [0..Len(events) -> Document] :
           /\ m[0] = Blank
           /\ \A i \in 1..Len(events) : m[i] = Write(m[i - 1], events[i])
           /\ content = m[Len(events)]
<1> DEFINE n == Len(events)
           g == [i \in 1..n |-> [s \in Document |-> Write(s, events[i])]]
           written[i \in 0..n] == IF i = 0 THEN Blank ELSE Write(written[i - 1], events[i])
<1>1. n \in Nat /\ \A i \in 1..n : events[i] \in Events
  BY DEF EventSeq
<1>2. g \in Steps(n, Document)
  BY <1>1, WriteType DEF Steps
<1>3. Blank \in Document
  BY DEF Document, Blank
<1>4. \A s \in Document, i \in 1..n : g[i][s] = Write(s, events[i])
  OBVIOUS
<1> HIDE DEF g, n
<1>5. PICK f : f \in MadeBy(n, Document, Blank, g)
  BY <1>1, <1>2, <1>3, Recursion
<1>6. ASSUME NEW i \in 1..n PROVE f[i] = Write(f[i - 1], events[i])
  <2>1. f[i - 1] \in Document
    BY <1>1, <1>5 DEF MadeBy
  <2>2. QED
    BY <1>4, <1>5, <2>1 DEF MadeBy
<1>7. f = [i \in 0..n |-> IF i = 0 THEN Blank ELSE Write(f[i - 1], events[i])]
  BY <1>5, <1>6 DEF MadeBy
<1>8. written = [i \in 0..n |-> IF i = 0 THEN Blank ELSE Write(written[i - 1], events[i])]
  BY <1>7
<1>9. content = written[n]
  BY DEF content, Blank, n
<1> HIDE DEF written
<1>10. written[0] = Blank /\ \A i \in 1..n : written[i] = Write(written[i - 1], events[i])
  BY <1>1, <1>8
<1> DEFINE T == {i \in 0..n : written[i] \in Document}
<1>11. 0 \in T /\ \A i \in 1..n : i - 1 \in T => i \in T
  BY <1>1, <1>3, <1>10, WriteType
<1> HIDE DEF T
<1>12. \A i \in 0..n : i \in T
  BY <1>1, <1>11, UpTo
<1>13. written \in [0..n -> Document]
  BY <1>8, <1>12 DEF T
<1>14. QED
  BY <1>9, <1>10, <1>13 DEF n

\* A row is of an event of the page.
RowOf(row, e) == row.id = e.id /\ row.kind = e.kind /\ row.ts = e.ts
RowsOf(doc) == \A r \in DOMAIN doc.rows : \E i \in DOMAIN events : RowOf(doc.rows[r], events[i])

LEMMA RowsAreOfEvents ==
  ASSUME events \in EventSeq
  PROVE  content \in Document /\ RowsOf(content)
<1>1. PICK m \in [0..Len(events) -> Document] :
           /\ m[0] = Blank
           /\ \A i \in 1..Len(events) : m[i] = Write(m[i - 1], events[i])
           /\ content = m[Len(events)]
  BY ContentIs
<1> DEFINE n == Len(events)
           T == {i \in 0..n : RowsOf(m[i])}
<1>2. n \in Nat /\ DOMAIN events = 1..n /\ \A i \in 1..n : events[i] \in Events
  BY DEF EventSeq
<1> HIDE DEF n
<1>3. 0 \in T
  BY <1>1, <1>2 DEF RowsOf, Blank
<1>4. ASSUME NEW i \in 1..n, i - 1 \in T PROVE i \in T
  <2>1. m[i - 1] \in Document /\ RowsOf(m[i - 1]) /\ m[i] = Write(m[i - 1], events[i]) /\ i \in 0..n
    BY <1>1, <1>2, <1>4 DEF n
  <2>2. CASE m[i] = m[i - 1]
    BY <2>1, <2>2
  <2>3. CASE Writes(m[i - 1], events[i], m[i])
    <3>1. PICK a : m[i].rows = Append(m[i - 1].rows, Row(events[i], a))
      BY <2>3 DEF Writes
    <3> DEFINE s == m[i - 1].rows
    <3>2. s \in Seq(RowType)
      BY <2>1 DEF Document
    <3>3. \A r \in DOMAIN m[i].rows : (r \in DOMAIN s /\ m[i].rows[r] = s[r]) \/ m[i].rows[r] = Row(events[i], a)
      BY <3>1, <3>2
    <3>4. RowOf(Row(events[i], a), events[i])
      BY DEF Row, RowOf
    <3>5. QED
      BY <1>2, <2>1, <3>3, <3>4 DEF RowsOf
  <2>4. QED
    BY <1>2, <2>1, <2>2, <2>3, WriteIs
<1> HIDE DEF T
<1>5. \A i \in 0..n : i \in T
  BY <1>2, <1>3, <1>4, UpTo
<1>6. QED
  BY <1>1, <1>2, <1>5 DEF T, n

-----------------------------------------------------------------------------
(* The bounds of the timeline.                                              *)

LEMMA FiniteBound ==
  ASSUME NEW s \in Seq(Nat)
  PROVE  \E b \in Nat : \A i \in DOMAIN s : s[i] <= b
<1> DEFINE n == Len(s)
           T == {m \in 0..n : \E b \in Nat : \A i \in 1..m : s[i] <= b}
<1>1. n \in Nat /\ DOMAIN s = 1..n /\ \A i \in 1..n : s[i] \in Nat
  OBVIOUS
<1> HIDE DEF n
<1>2. 0 \in T
  BY <1>1
<1>3. ASSUME NEW m \in 1..n, m - 1 \in T PROVE m \in T
  <2>1. PICK b \in Nat : \A i \in 1..m - 1 : s[i] <= b
    BY <1>3
  <2> DEFINE c == IF s[m] <= b THEN b ELSE s[m]
  <2>2. c \in Nat /\ b <= c /\ s[m] <= c
    BY <1>1
  <2> HIDE DEF c
  <2>3. ASSUME NEW i \in 1..m PROVE s[i] <= c
    <3>1. CASE i = m
      BY <2>2, <3>1
    <3>2. CASE i # m
      <4>1. i \in 1..m - 1 /\ s[i] \in Nat
        BY <1>1, <3>2
      <4>2. s[i] <= b
        BY <2>1, <4>1
      <4>3. QED
        BY <2>2, <4>1, <4>2
    <3>3. QED
      BY <3>1, <3>2
  <2>4. m \in 0..n
    BY <1>1
  <2>5. QED
    BY <2>2, <2>3, <2>4
<1> HIDE DEF T
<1>4. n \in T
  <2>1. n \in 0..n
    BY <1>1
  <2>2. QED
    BY <1>1, <1>2, <1>3, <2>1, UpTo
<1>5. QED
  BY <1>1, <1>4 DEF T

LEMMA LevelOfBlock ==
  ASSUME NEW block \in EventSeq, block # <<>>
  PROVE  BlockLevel(block) \in Levels
<1> DEFINE s == [i \in DOMAIN block |-> block[i].level]
           levels == {e.level : e \in Range(block)}
<1>1. \A i \in DOMAIN block : block[i] \in Events /\ block[i].level \in Nat /\ block[i].level \in Levels
  <2>1. \A i \in DOMAIN block : block[i] \in Events
    BY DEF EventSeq
  <2>2. \A e \in Events : e.level \in Levels
    BY TimelineAssumption
  <2>3. Levels \subseteq Nat
    BY TimelineAssumption
  <2>4. QED
    BY <2>1, <2>2, <2>3
<1>2. s \in Seq(Nat)
  <2>1. Len(block) \in Nat /\ DOMAIN block = 1..Len(block)
    BY DEF EventSeq
  <2>2. QED
    BY <1>1, <2>1
<1>3. PICK b \in Nat : \A i \in DOMAIN block : block[i].level <= b
  BY <1>2, FiniteBound
<1>4. levels = {block[i].level : i \in DOMAIN block}
  BY DEF Range
<1>5. 1 \in DOMAIN block
  BY DEF EventSeq
<1>6. levels \in SUBSET Nat /\ levels # {} /\ (\A l \in levels : l <= b) /\ levels \subseteq Levels
  BY <1>1, <1>3, <1>4, <1>5
<1>7. Greatest(levels) \in levels
  <2> HIDE DEF levels
  <2>1. QED
    BY <1>6, GreatestIs
<1>8. QED
  BY <1>6, <1>7 DEF BlockLevel

\* The bounds of the timeline are those of the events that bound it.
LEMMA BoundsAre ==
  ASSUME NEW es \in EventSeq, Bounding(es) # {}
  PROVE  /\ MinTimestamp(es) \in Nat /\ MaxTimestamp(es) \in Nat /\ MinTimestamp(es) <= MaxTimestamp(es)
         /\ \A i \in DOMAIN es : ~es[i].apart => MinTimestamp(es) <= es[i].ts /\ es[i].ts <= MaxTimestamp(es)
<1> DEFINE T == Bounding(es)
<1>1. Now \in Nat /\ \A i \in DOMAIN es : es[i].ts \in 0..Now
  BY TimelineAssumption DEF EventSeq
<1>2. T \in SUBSET Nat /\ \A t \in T : t <= Now
  BY <1>1 DEF Bounding
<1>3. \A i \in DOMAIN es : ~es[i].apart => es[i].ts \in T
  BY DEF Bounding
<1> HIDE DEF T
<1>4. /\ Least(T) \in T /\ \A y \in T : Least(T) <= y
      /\ Greatest(T) \in T /\ \A y \in T : y <= Greatest(T)
  BY <1>1, <1>2, LeastIs, GreatestIs DEF T
<1>5. QED
  BY <1>2, <1>3, <1>4 DEF MinTimestamp, MaxTimestamp, T

TimeType ==
  /\ startTime \in Nat \union {NoTime} /\ currentTime \in Nat /\ maxTime \in Nat
  /\ timelineError \in BOOLEAN

AtTheEnd(es) == Bounding(es) # {} =>
  startTime = MinTimestamp(es) /\ currentTime = MaxTimestamp(es) - MinTimestamp(es)

LEMMA EffectIs ==
  ASSUME NEW es \in EventSeq, NEW live \in BOOLEAN, NEW start \in Nat \union {NoTime}, NEW current \in Nat,
         TimeType, Effect(es, live, start, current)
  PROVE  /\ TimeType'
         /\ startTime' = NoTime => start = NoTime
         /\ live /\ Bounding(es) # {} =>
              startTime' = MinTimestamp(es) /\ currentTime' = MaxTimestamp(es) - MinTimestamp(es)
<1>1. CASE Bounding(es) = {}
  BY <1>1 DEF Effect, TimeType
<1>2. CASE Bounding(es) # {}
  <2>1. MinTimestamp(es) \in Nat /\ MaxTimestamp(es) \in Nat /\ MinTimestamp(es) <= MaxTimestamp(es)
    BY <1>2, BoundsAre
  <2> DEFINE a == MinTimestamp(es)
             b == MaxTimestamp(es)
  <2>2. /\ startTime' = a /\ maxTime' = b - a /\ timelineError' = FALSE
        /\ currentTime' = IF live \/ current = 0 THEN b - a ELSE current
    BY <1>2 DEF Effect
  <2>3. b - a \in Nat /\ a # NoTime
    BY <2>1 DEF NoTime
  <2> HIDE DEF a, b
  <2>4. TimeType'
    BY <2>1, <2>2, <2>3 DEF TimeType, a, b
  <2>5. QED
    BY <2>2, <2>3, <2>4 DEF a, b
<1>3. QED
  BY <1>1, <1>2

-----------------------------------------------------------------------------
(* The invariant of the page.                                               *)

Types ==
  /\ feed \in Seq(MessageType) /\ at \in 0..Len(feed) /\ run \in Nat \ {0}
  /\ drops \in 0..MaxDrops /\ clicks \in 0..MaxClicks
  /\ connected \in BOOLEAN /\ timer \in BOOLEAN /\ isPlaying \in BOOLEAN /\ serialized \in BOOLEAN
  /\ events \in EventSeq /\ pending \in EventSeq
  /\ TimeType
  /\ minLogLevel \in Levels /\ maxDepth \in Nat
  /\ viewMode \in {"log", "document", "raw"} /\ viewOrder \subseteq {"http-trace", "quad"}
  /\ activePrompt \in Prompts \union {"none"}

\* The events es are those of the messages of f from one to another: w says
\* which message each came with.
CameWith(es, f, from, to, w) ==
  /\ DOMAIN w = DOMAIN es
  /\ \A a \in DOMAIN es : w[a] \in from..to /\ f[w[a]].type = "event" /\ f[w[a]].event = es[a]
  /\ \A a, b \in DOMAIN es : a < b => w[a] < w[b]
  /\ \A x \in from..to : f[x].type = "event" => \E a \in DOMAIN es : w[a] = x

CameFrom(es, f, from, to) == \E w : CameWith(es, f, from, to, w)

UntilInit(f, from, to) == \A k \in from..to : f[k].type # "init"

\* What a live page has, in its rows and in wait, is what came since an init;
\* or, when it has just connected again, what it had before.
StreamInv ==
  IF serialized
  THEN ~connected /\ ~timer /\ pending = <<>> /\ TellsRun(events)
  ELSE /\ feed \in Feeds /\ run - 1 <= at
       /\ connected => run \in Inits
       /\ run <= at => /\ run \in Inits /\ UntilInit(feed, run + 1, at)
                       /\ CameFrom(events \o pending, feed, run + 1, at)
       /\ TellsRun(events \o pending)
       /\ pending # <<>> => timer

\* A page that nobody has touched is at the end of what it knows.
TimeInv ==
  /\ startTime = NoTime => events = <<>>
  /\ clicks = 0 => ~isPlaying
  /\ clicks = 0 /\ ~timelineError /\ (serialized \/ connected) => AtTheEnd(events)

IInv == Types /\ StreamInv /\ TimeInv

\* What the user can change at once.
Moves ==
  /\ Clicks
  /\ currentTime' \in Nat /\ isPlaying' \in BOOLEAN /\ minLogLevel' \in Levels /\ maxDepth' \in Nat
  /\ viewMode' \in {"log", "document", "raw"} /\ viewOrder' \subseteq {"http-trace", "quad"}
  /\ activePrompt' \in Prompts \union {"none"}

LEMMA RowsTyped ==
  ASSUME events \in EventSeq
  PROVE  /\ \A e \in Shown : e \in Events
         /\ \A block \in Blocks : block \in EventSeq /\ block # <<>>
<1>1. visibleEvents \in RowSeq
  BY RowsAreEvents
<1>2. ASSUME NEW row \in Range(visibleEvents) PROVE row \in EventSeq /\ row # <<>> /\ row[1] \in Events
  <2>1. row \in EventSeq \ {<<>>}
    BY <1>1 DEF RowSeq, Range
  <2>2. QED
    BY <2>1 DEF EventSeq
<1>3. QED
  BY <1>2 DEF Shown, Blocks

LEMMA FirstIs ==
  ASSUME events \in EventSeq, NEW row \in Range(content.rows)
  PROVE  events # <<>> /\ First(row.id) \in Events /\ First(row.id).id = row.id
<1> DEFINE T == {i \in DOMAIN events : events[i].id = row.id}
<1>1. content \in Document /\ RowsOf(content)
  BY RowsAreOfEvents
<1>2. PICK i \in DOMAIN events : events[i].id = row.id
  BY <1>1 DEF RowsOf, RowOf, Range
<1>3. T \in SUBSET Nat /\ T # {}
  BY <1>2 DEF EventSeq
<1>4. Least(T) \in T
  <2> HIDE DEF T
  <2>1. QED
    BY <1>3, LeastIs
<1>5. QED
  BY <1>2, <1>4 DEF First, EventSeq

LEMMA UserMoves ==
  ASSUME Types, TimeInv, User
  PROVE  Moves
<1>1. /\ startTime \in Nat \union {NoTime} /\ currentTime \in Nat /\ maxTime \in Nat
      /\ minLogLevel \in Levels /\ maxDepth \in Nat /\ isPlaying \in BOOLEAN /\ events \in EventSeq
  BY DEF Types, TimeType
<1>2. \A e \in Events : e.ts \in Nat
  BY TimelineAssumption
<1> USE DEF filter, panel
<1>3. CASE togglePlay
  BY <1>1, <1>3 DEF togglePlay, Moves, Types
<1>4. CASE handleTimeChange
  <2>1. (IF maxTime = 0 THEN 1 ELSE maxTime) \in Nat
    BY <1>1
  <2>2. currentTime' \in Nat /\ isPlaying' = FALSE
    BY <1>4, <2>1 DEF handleTimeChange
  <2>3. QED
    BY <1>1, <1>4, <2>2 DEF handleTimeChange, Moves, Types
<1>5. CASE SelectRow
  <2>1. PICK e \in Shown : MoveTo(e)
    BY <1>5 DEF SelectRow
  <2>2. e \in Events /\ e.ts \in Nat
    BY <1>1, <1>2, RowsTyped
  <2>3. currentTime' \in Nat /\ isPlaying' = FALSE
    <3>1. e.ts > startTime /\ startTime # NoTime => e.ts - startTime \in Nat
      BY <1>1, <2>2
    <3>2. QED
      BY <1>1, <2>1, <3>1 DEF MoveTo
  <2>4. QED
    BY <1>1, <1>5, <2>3 DEF SelectRow, Moves, Types
<1>6. CASE SetFilter
  BY <1>1, <1>6, TimelineAssumption DEF SetFilter, Moves, Types
<1>7. CASE \E block \in Blocks : Expand(block)
  <2>1. PICK block \in Blocks : Expand(block)
    BY <1>7
  <2>2. BlockLevel(block) \in Levels
    BY <1>1, RowsTyped, LevelOfBlock
  <2>3. Opened(block).level \in Levels /\ Opened(block).depth \in Nat
    BY <1>1, <2>2 DEF Opened
  <2>4. QED
    BY <1>1, <2>1, <2>3 DEF Expand, Moves, Types
<1>8. CASE SetViewMode
  BY <1>1, <1>8 DEF SetViewMode, Moves, Types
<1>9. CASE ToggleView
  BY <1>1, <1>9 DEF ToggleView, Moves, Types
<1>10. CASE ClosePanel
  BY <1>1, <1>10 DEF ClosePanel, Moves, Types
<1>11. CASE SelectAnchor
  BY <1>1, <1>11 DEF SelectAnchor, Moves, Types
<1>12. CASE handleDebugAction
  BY <1>1, <1>12 DEF handleDebugAction, Moves, Types
<1>13. QED
  BY <1>3, <1>4, <1>5, <1>6, <1>7, <1>8, <1>9, <1>10, <1>11, <1>12 DEF User

LEMMA ViewsMove ==
  ASSUME Types, TimeInv,
         \/ \E row \in Range(content.rows) : SelectDocumentRow(row)
         \/ \E parent \in Parents : toggleContext(parent)
         \/ ToggleAll
  PROVE  Moves
<1>1. /\ startTime \in Nat \union {NoTime} /\ currentTime \in Nat /\ maxTime \in Nat
      /\ minLogLevel \in Levels /\ maxDepth \in Nat /\ isPlaying \in BOOLEAN /\ events \in EventSeq
  BY DEF Types, TimeType
<1>2. \A e \in Events : e.ts \in Nat
  BY TimelineAssumption
<1> USE DEF filter, panel
<1>3. ASSUME NEW row \in Range(content.rows), SelectDocumentRow(row) PROVE Moves
  <2>1. events # <<>> /\ First(row.id).ts \in Nat
    BY <1>1, <1>2, FirstIs
  <2>2. startTime \in Nat /\ startTime # NoTime
    BY <1>1, <2>1 DEF TimeInv
  <2>3. currentTime' \in Nat /\ isPlaying' = FALSE
    <3>1. First(row.id).ts > startTime => First(row.id).ts - startTime \in Nat
      BY <2>1, <2>2
    <3>2. QED
      BY <1>3, <2>2, <3>1 DEF SelectDocumentRow
  <2>4. QED
    BY <1>1, <1>3, <2>3 DEF SelectDocumentRow, Moves, Types
<1>4. Ticks => Moves
  BY <1>1 DEF Ticks, Moves, Types
<1>5. QED
  BY <1>3, <1>4 DEF toggleContext, ToggleAll

-----------------------------------------------------------------------------
(* What came over the stream.                                               *)

LEMMA CameNothing ==
  ASSUME NEW f, NEW from \in Int, NEW to \in Int, to < from
  PROVE  CameFrom(<<>>, f, from, to)
<1> DEFINE w == <<>>
<1>1. DOMAIN w = {} /\ DOMAIN <<>> = {} /\ \A x \in from..to : FALSE
  OBVIOUS
<1>2. CameWith(<<>>, f, from, to, w)
  BY <1>1 DEF CameWith
<1>3. QED
  BY <1>2 DEF CameFrom

LEMMA CameEvent ==
  ASSUME NEW es \in EventSeq, NEW f, NEW from \in Int, NEW to \in Int, from - 1 <= to,
         CameFrom(es, f, from, to), f[to + 1].type = "event"
  PROVE  CameFrom(Append(es, f[to + 1].event), f, from, to + 1)
<1> DEFINE n == Len(es)
           new == Append(es, f[to + 1].event)
<1>1. n \in Nat /\ DOMAIN es = 1..n
  BY DEF EventSeq
<1>2. DOMAIN new = 1..n + 1 /\ new[n + 1] = f[to + 1].event /\ \A a \in 1..n : new[a] = es[a]
  BY DEF EventSeq
<1>3. PICK w : CameWith(es, f, from, to, w)
  BY DEF CameFrom
<1> DEFINE v == [a \in 1..n + 1 |-> IF a = n + 1 THEN to + 1 ELSE w[a]]
<1> HIDE DEF n, new
<1>4. DOMAIN v = 1..n + 1 /\ v[n + 1] = to + 1 /\ \A a \in 1..n : v[a] = w[a] /\ a \in 1..n + 1
  BY <1>1
<1>5. \A a \in 1..n + 1 : a \in 1..n \/ a = n + 1
  BY <1>1
<1> HIDE DEF v
<1>6. ASSUME NEW a \in 1..n + 1
      PROVE  v[a] \in from..to + 1 /\ f[v[a]].type = "event" /\ f[v[a]].event = new[a]
  <2>1. CASE a = n + 1
    BY <1>2, <1>4, <2>1
  <2>2. CASE a \in 1..n
    <3>1. w[a] \in from..to /\ f[w[a]].type = "event" /\ f[w[a]].event = es[a]
      BY <1>1, <1>3, <2>2 DEF CameWith
    <3>2. v[a] = w[a] /\ new[a] = es[a]
      BY <1>2, <1>4, <2>2
    <3>3. w[a] \in from..to + 1
      BY <3>1
    <3>4. QED
      BY <3>1, <3>2, <3>3
  <2>3. QED
    BY <1>5, <2>1, <2>2
<1>7. ASSUME NEW a \in 1..n + 1, NEW b \in 1..n + 1, a < b PROVE v[a] < v[b]
  <2>0. a \in 1..n
    BY <1>1, <1>7
  <2>1. a \in 1..n /\ w[a] \in from..to /\ v[a] = w[a]
    BY <1>1, <1>3, <1>4, <2>0 DEF CameWith
  <2>2. CASE b = n + 1
    BY <1>4, <2>1, <2>2
  <2>3. CASE b \in 1..n
    BY <1>1, <1>3, <1>4, <1>7, <2>1, <2>3 DEF CameWith
  <2>4. QED
    BY <1>5, <2>2, <2>3
<1>8. ASSUME NEW x \in from..to + 1, f[x].type = "event" PROVE \E a \in 1..n + 1 : v[a] = x
  <2>1. CASE x = to + 1
    BY <1>1, <1>4, <2>1
  <2>2. CASE x # to + 1
    <3>1. x \in from..to
      BY <2>2
    <3>2. PICK a \in 1..n : w[a] = x
      BY <1>1, <1>3, <1>8, <3>1 DEF CameWith
    <3>3. QED
      BY <1>4, <3>2
  <2>3. QED
    BY <2>1, <2>2
<1>9. CameWith(new, f, from, to + 1, v)
  BY <1>2, <1>4, <1>6, <1>7, <1>8 DEF CameWith
<1>10. QED
  BY <1>9 DEF CameFrom, new

LEMMA CameOther ==
  ASSUME NEW es, NEW f, NEW from \in Int, NEW to \in Int, from - 1 <= to,
         CameFrom(es, f, from, to), f[to + 1].type # "event"
  PROVE  CameFrom(es, f, from, to + 1)
<1>1. PICK w : CameWith(es, f, from, to, w)
  BY DEF CameFrom
<1>2. \A x \in from..to + 1 : x \in from..to \/ x = to + 1
  OBVIOUS
<1>3. \A x \in from..to : x \in from..to + 1
  OBVIOUS
<1>4. CameWith(es, f, from, to + 1, w)
  BY <1>1, <1>2, <1>3 DEF CameWith
<1>5. QED
  BY <1>4 DEF CameFrom

\* Events that came in turn are told in turn.
LEMMA CameInTurn ==
  ASSUME NEW es \in EventSeq, NEW f, NEW from \in Int, NEW to \in Int,
         CameFrom(es, f, from, to), TellsRun(EventsOf(f, from, to))
  PROVE  TellsRun(es)
<1> DEFINE told == EventsOf(f, from, to)
<1>1. PICK w : CameWith(es, f, from, to, w)
  BY DEF CameFrom
<1>2. \A i \in DOMAIN told : i \in from..to /\ f[i].type = "event" /\ told[i] = f[i].event
  BY DEF EventsOf
<1>3. \A a \in DOMAIN es : w[a] \in DOMAIN told /\ told[w[a]] = es[a] /\ w[a] \in Int /\ a \in Int
  BY <1>1 DEF CameWith, EventsOf, EventSeq
<1>4. \A k \in DOMAIN told : \E c \in DOMAIN es : w[c] = k
  BY <1>1, <1>2 DEF CameWith
<1>5. \A a, b \in DOMAIN es : a < b => w[a] < w[b]
  BY <1>1 DEF CameWith
<1>6. TellsRun(told)
  OBVIOUS
<1> HIDE DEF told
<1>7. \A a, b \in DOMAIN es : w[a] <= w[b] => a <= b
  BY <1>3, <1>5
<1>8. \A a, b \in DOMAIN es : w[a] < w[b] => a < b
  <2> SUFFICES ASSUME NEW a \in DOMAIN es, NEW b \in DOMAIN es, w[a] < w[b] PROVE a < b
    OBVIOUS
  <2>1. a \in Int /\ b \in Int /\ w[a] \in Int /\ w[b] \in Int
    BY <1>3
  <2>2. a <= b
    BY <1>7, <2>1
  <2>3. a # b
    BY <2>1
  <2>4. QED
    BY <2>1, <2>2, <2>3
<1>9. \A i, j \in DOMAIN es : es[i].run = es[j].run
  BY <1>3, <1>6 DEF TellsRun
<1>10. ASSUME NEW i \in DOMAIN es, NEW j \in DOMAIN es, i < j, OfStep(es[j], es[i].id)
       PROVE  /\ \E k \in DOMAIN es : k <= i /\ OfStep(es[k], es[i].id)
              /\ OfStep(es[i], es[i].id) /\ es[i].stage = "end" /\ es[j].stage = "start" =>
                   \E k \in DOMAIN es : k < i /\ OfStep(es[k], es[i].id) /\ es[k].stage = "start"
  <2>1. w[i] < w[j] /\ w[i] \in DOMAIN told /\ w[j] \in DOMAIN told /\ told[w[i]] = es[i] /\ told[w[j]] = es[j]
    BY <1>3, <1>5, <1>10
  <2>2. PICK k \in DOMAIN told : k <= w[i] /\ OfStep(told[k], es[i].id)
    BY <1>6, <1>10, <2>1 DEF TellsRun
  <2>3. PICK c \in DOMAIN es : w[c] = k
    BY <1>4
  <2>4. c <= i /\ OfStep(es[c], es[i].id)
    BY <1>3, <1>7, <2>2, <2>3
  <2>5. ASSUME OfStep(es[i], es[i].id), es[i].stage = "end", es[j].stage = "start"
        PROVE  \E d \in DOMAIN es : d < i /\ OfStep(es[d], es[i].id) /\ es[d].stage = "start"
    <3>1. PICK l \in DOMAIN told : l < w[i] /\ OfStep(told[l], es[i].id) /\ told[l].stage = "start"
      BY <1>6, <1>10, <2>1, <2>5 DEF TellsRun
    <3>2. PICK d \in DOMAIN es : w[d] = l
      BY <1>4
    <3>3. d < i /\ OfStep(es[d], es[i].id) /\ es[d].stage = "start"
      BY <1>3, <1>8, <3>1, <3>2
    <3>4. QED
      BY <3>3
  <2>6. QED
    BY <2>4, <2>5
<1>11. QED
  BY <1>9, <1>10 DEF TellsRun

-----------------------------------------------------------------------------
(* The invariant holds.                                                     *)

LEMMA InitIInv ==
  ASSUME PageInit
  PROVE  IInv
<1> USE DEF PageInit
<1>1. /\ at = 0 /\ run = 1 /\ drops = 0 /\ clicks = 0 /\ connected = FALSE /\ pending = <<>> /\ timer = FALSE
      /\ isPlaying = FALSE /\ minLogLevel = InitialLevel /\ maxDepth = InitialDepth
      /\ viewMode = "log" /\ viewOrder = {} /\ activePrompt = "none"
  BY DEF Init
<1> DEFINE Limits == /\ InitialLevel \in Levels /\ InitialDepth \in Nat
                     /\ 0 \in 0..MaxDrops /\ 0 \in 0..MaxClicks
<1>0. Limits
  BY TimelineAssumption
<1>2. CASE serialized = FALSE
  <2>1. feed \in Feeds /\ events = <<>> /\ startTime = NoTime /\ timelineError = FALSE
        /\ currentTime = 0 /\ maxTime = 0
    <3>1. feed \in Feeds /\ events = <<>>
      BY <1>2 DEF Init
    <3>2. Bounding(events) = {}
      BY <3>1 DEF Bounding
    <3>3. QED
      BY <1>2, <3>1, <3>2 DEF Init
  <2>2. FeedOK(feed)
    BY <2>1, TimelineAssumption
  <2>3. feed \in Seq(MessageType)
    BY <2>2 DEF FeedOK
  <2>4. events \o pending = <<>> /\ events \in EventSeq /\ pending \in EventSeq
    BY <1>1, <2>1 DEF EventSeq
  <2>5. TellsRun(events \o pending)
    BY <2>4 DEF TellsRun
  <2>6. at \in 0..Len(feed) /\ run \in Nat \ {0}
    BY <1>1, <2>3
  <2>6a. Types
    BY <1>0, <1>1, <1>2, <2>1, <2>3, <2>4, <2>6 DEF Types, TimeType
  <2>7. StreamInv
    BY <1>1, <1>2, <2>1, <2>5 DEF StreamInv
  <2>8. TimeInv
    BY <1>1, <1>2, <2>1 DEF TimeInv
  <2>9. QED
    BY <2>6a, <2>7, <2>8 DEF IInv
<1>3. CASE serialized # FALSE
  <2>1. serialized = TRUE /\ feed = <<>> /\ events \in Reports
    BY <1>3 DEF Init
  <2>2. ReportOK(events)
    BY <2>1, TimelineAssumption
  <2>3. events \in EventSeq /\ events # <<>> /\ TellsRun(events)
    BY <2>2 DEF ReportOK, EventSeq
  <2>4. events[1] \in Events
    BY <2>3 DEF EventSeq
  <2>5. events[1].ts \in Nat /\ events[1].ts # NoTime
    BY <2>4, TimelineAssumption DEF NoTime
  <2> DEFINE wrong == Bounding(events) # {} /\ events[1].ts # MinTimestamp(events)
             length == IF wrong \/ Bounding(events) = {} THEN 0
                       ELSE MaxTimestamp(events) - MinTimestamp(events)
  <2>6. startTime = events[1].ts /\ (timelineError <=> wrong) /\ timelineError \in BOOLEAN
        /\ currentTime = length /\ maxTime = length
    BY <2>1 DEF Init
  <2>7. length \in Nat
    <3>1. CASE Bounding(events) = {}
      BY <3>1
    <3>2. CASE Bounding(events) # {}
      <4>1. MinTimestamp(events) \in Nat /\ MaxTimestamp(events) \in Nat
            /\ MinTimestamp(events) <= MaxTimestamp(events)
        BY <2>3, <3>2, BoundsAre
      <4>2. MaxTimestamp(events) - MinTimestamp(events) \in Nat
        BY <4>1
      <4>3. QED
        BY <4>2
    <3>3. QED
      BY <3>1, <3>2
  <2>8. AtTheEnd(events) \/ timelineError
    BY <2>6 DEF AtTheEnd
  <2> HIDE DEF wrong, length
  <2>9. feed \in Seq(MessageType) /\ Len(feed) = 0 /\ pending \in EventSeq
    BY <1>1, <2>1 DEF EventSeq
  <2>10. Types
    <3>1. at \in 0..Len(feed) /\ run \in Nat \ {0} /\ serialized \in BOOLEAN
      BY <1>1, <2>1, <2>9
    <3>2. TimeType
      BY <2>5, <2>6, <2>7 DEF TimeType
    <3>3. QED
      BY <1>0, <1>1, <2>3, <2>9, <3>1, <3>2 DEF Types
  <2>11. StreamInv
    BY <1>1, <2>1, <2>3 DEF StreamInv
  <2>12. TimeInv
    BY <1>1, <2>5, <2>6, <2>8 DEF TimeInv
  <2>13. QED
    BY <2>10, <2>11, <2>12 DEF IInv
<1>4. QED
  BY <1>2, <1>3

LEMMA MovesIInv ==
  ASSUME IInv, Moves
  PROVE  IInv'
<1> USE DEF Moves, Clicks, stream, buffer
<1>1. clicks \in 0..MaxClicks /\ clicks < MaxClicks /\ clicks' = clicks + 1 /\ MaxClicks \in Nat
  BY TimelineAssumption DEF IInv, Types
<1>2. clicks' \in 0..MaxClicks /\ clicks' # 0
  BY <1>1
<1>3. /\ UNCHANGED <<feed, at, run, drops, connected, pending, timer, events, serialized>>
      /\ UNCHANGED <<startTime, maxTime, timelineError>>
  OBVIOUS
<1>4. TimeType'
  BY <1>3 DEF IInv, Types, TimeType
<1>5. Types'
  BY <1>2, <1>3, <1>4 DEF IInv, Types
<1>6. StreamInv'
  BY <1>3 DEF IInv, StreamInv, Inits
<1>7. TimeInv'
  BY <1>2, <1>3 DEF IInv, TimeInv
<1>8. QED
  BY <1>5, <1>6, <1>7 DEF IInv

LEMMA TickIInv ==
  ASSUME IInv, Tick
  PROVE  IInv'
<1>1. /\ UNCHANGED <<feed, at, run, drops, connected, pending, timer, events, serialized>>
      /\ UNCHANGED <<startTime, maxTime, timelineError, minLogLevel, maxDepth, viewMode, viewOrder, activePrompt, clicks>>
      /\ isPlaying
  BY DEF Tick, stream, buffer, filter, panel
<1>2. PICK delta \in Speeds : /\ currentTime' = Advanced(currentTime + delta).time
                              /\ isPlaying' = Advanced(currentTime + delta).playing
  BY DEF Tick
<1>3. currentTime \in Nat /\ maxTime \in Nat /\ delta \in Nat
  BY TimelineAssumption DEF IInv, Types, TimeType
<1>4. currentTime' \in Nat /\ isPlaying' \in BOOLEAN
  BY <1>2, <1>3 DEF Advanced
<1>5. TimeType'
  BY <1>1, <1>4 DEF IInv, Types, TimeType
<1>6. Types'
  BY <1>1, <1>4, <1>5 DEF IInv, Types
<1>7. StreamInv'
  BY <1>1 DEF IInv, StreamInv, Inits
<1>8. clicks # 0
  BY <1>1 DEF IInv, TimeInv
<1>9. TimeInv'
  BY <1>1, <1>8 DEF IInv, TimeInv
<1>10. QED
  BY <1>6, <1>7, <1>9 DEF IInv

LEMMA SameIInv ==
  ASSUME IInv, UNCHANGED vars
  PROVE  IInv'
<1>1. /\ UNCHANGED <<feed, at, run, drops, connected, pending, timer, events, serialized>>
      /\ UNCHANGED <<startTime, currentTime, maxTime, timelineError, isPlaying, minLogLevel, maxDepth>>
      /\ UNCHANGED <<viewMode, viewOrder, activePrompt, clicks>>
  BY DEF vars, stream, buffer, time, filter, panel
<1>2. Types'
  BY <1>1 DEF IInv, Types, TimeType
<1>3. StreamInv'
  BY <1>1 DEF IInv, StreamInv, Inits
<1>4. TimeInv'
  BY <1>1 DEF IInv, TimeInv, AtTheEnd
<1>5. QED
  BY <1>2, <1>3, <1>4 DEF IInv

\* The live page's part of the invariant, for what it will be.
Live(c, a, r, es, ps, t) ==
  /\ feed \in Feeds /\ r - 1 <= a
  /\ c => r \in Inits
  /\ r <= a => /\ r \in Inits /\ UntilInit(feed, r + 1, a)
               /\ CameFrom(es \o ps, feed, r + 1, a)
  /\ TellsRun(es \o ps)
  /\ ps # <<>> => t

LEMMA ConnectIInv ==
  ASSUME IInv, Connect
  PROVE  IInv'
<1>1. PICK i \in Inits : i >= run /\ run' = i /\ at' = i - 1
  BY DEF Connect
<1>2. /\ UNCHANGED <<serialized, feed, clicks, minLogLevel, maxDepth, drops, pending, timer, events, isPlaying>>
      /\ UNCHANGED <<viewMode, viewOrder, activePrompt>>
      /\ serialized = FALSE /\ connected' = TRUE
  BY DEF Connect, Streaming, filter, panel, IInv, Types
<1>3. feed \in Seq(MessageType) /\ i \in 1..Len(feed) /\ run' \in Nat \ {0} /\ at' \in 0..Len(feed)
  BY <1>1 DEF IInv, Types, Inits
<1>4. /\ TimeType'
      /\ startTime' = NoTime => startTime = NoTime
      /\ Bounding(events) # {} =>
           startTime' = MinTimestamp(events) /\ currentTime' = MaxTimestamp(events) - MinTimestamp(events)
  <2>1. TimeType /\ startTime \in Nat \union {NoTime} /\ currentTime \in Nat /\ events \in EventSeq
    BY DEF IInv, Types, TimeType
  <2>2. Effect(events, TRUE, startTime, currentTime)
    BY DEF Connect
  <2>3. TRUE \in BOOLEAN
    OBVIOUS
  <2>4. QED
    BY <2>1, <2>2, <2>3, EffectIs
<1>5. Types'
  BY <1>2, <1>3, <1>4 DEF IInv, Types
<1>6. Live(TRUE, at', run', events, pending, timer)
  <2>1. feed \in Feeds /\ TellsRun(events \o pending) /\ (pending # <<>> => timer)
    BY <1>2 DEF IInv, StreamInv
  <2>2. run' \in Inits /\ ~(run' <= at') /\ run' - 1 <= at'
    BY <1>1, <1>3
  <2>3. QED
    BY <2>1, <2>2 DEF Live
<1>7. StreamInv'
  BY <1>2, <1>6 DEF Live, StreamInv, Inits
<1>8. TimeInv'
  BY <1>2, <1>4 DEF IInv, TimeInv, AtTheEnd
<1>9. QED
  BY <1>5, <1>7, <1>8 DEF IInv

LEMMA LoseIInv ==
  ASSUME IInv, Lose
  PROVE  IInv'
<1>1. /\ UNCHANGED <<serialized, feed, clicks, minLogLevel, maxDepth, at, run, pending, timer, events, isPlaying>>
      /\ UNCHANGED <<viewMode, viewOrder, activePrompt>>
      /\ serialized = FALSE /\ connected' = FALSE
  BY DEF Lose, Streaming, filter, panel, IInv, StreamInv, Types
<1>2. drops' \in 0..MaxDrops
  <2>1. drops \in 0..MaxDrops /\ drops < MaxDrops /\ drops' = drops + 1 /\ MaxDrops \in Nat
    BY TimelineAssumption DEF Lose, IInv, Types
  <2>2. QED
    BY <2>1
<1>3. TimeType' /\ (startTime' = NoTime => startTime = NoTime)
  <2>1. TimeType /\ startTime \in Nat \union {NoTime} /\ currentTime \in Nat /\ events \in EventSeq
    BY DEF IInv, Types, TimeType
  <2>2. Effect(events, FALSE, startTime, currentTime)
    BY DEF Lose
  <2>3. FALSE \in BOOLEAN
    OBVIOUS
  <2>4. QED
    BY <2>1, <2>2, <2>3, EffectIs
<1>4. Types'
  BY <1>1, <1>2, <1>3 DEF IInv, Types
<1>5. StreamInv'
  BY <1>1 DEF IInv, StreamInv, Inits
<1>6. TimeInv'
  BY <1>1, <1>3 DEF IInv, TimeInv
<1>7. QED
  BY <1>4, <1>5, <1>6 DEF IInv

\* A connected page has seen the init its messages follow.
LEMMA MessageIs ==
  ASSUME IInv, NEW type, type # "init", Message(type)
  PROVE  /\ serialized = FALSE /\ connected /\ at' = at + 1 /\ at' \in 0..Len(feed)
         /\ UNCHANGED <<serialized, feed, clicks, minLogLevel, maxDepth, drops, connected>>
         /\ feed \in Seq(MessageType) /\ feed[at + 1] \in MessageType /\ feed[at + 1].type = type
         /\ at \in Nat /\ run \in Nat \ {0} /\ run <= at /\ run \in Inits /\ UntilInit(feed, run + 1, at + 1)
         /\ CameFrom(events \o pending, feed, run + 1, at)
<1>1. /\ connected /\ at < Len(feed) /\ feed[at + 1].type = type /\ at' = at + 1
      /\ UNCHANGED <<serialized, feed, clicks, minLogLevel, maxDepth, drops, connected>>
  BY DEF Message, Streaming, filter
<1>2. feed \in Seq(MessageType) /\ at \in 0..Len(feed) /\ run \in Nat \ {0} /\ serialized \in BOOLEAN
  BY DEF IInv, Types
<1>3. at' \in 0..Len(feed) /\ at + 1 \in 1..Len(feed) /\ feed[at + 1] \in MessageType /\ at \in Nat
  BY <1>1, <1>2
<1>4. serialized = FALSE
  BY <1>1, <1>2 DEF IInv, StreamInv
<1>5. run - 1 <= at /\ run \in Inits
  BY <1>1, <1>4 DEF IInv, StreamInv
<1>6. run # at + 1
  BY <1>1, <1>5 DEF Inits
<1>7. run <= at
  BY <1>2, <1>5, <1>6
<1>8. UntilInit(feed, run + 1, at) /\ CameFrom(events \o pending, feed, run + 1, at)
  BY <1>4, <1>7 DEF IInv, StreamInv
<1>9. UntilInit(feed, run + 1, at + 1)
  <2>1. \A k \in run + 1..at + 1 : k \in run + 1..at \/ k = at + 1
    BY <1>2
  <2>2. QED
    BY <1>1, <1>8, <2>1 DEF UntilInit
<1>10. QED
  BY <1>1, <1>2, <1>3, <1>4, <1>5, <1>7, <1>8, <1>9

\* What came since an init is told in turn.
LEMMA ToldInTurn ==
  ASSUME feed \in Feeds, NEW r \in Inits, NEW a \in DOMAIN feed, r <= a,
         UntilInit(feed, r + 1, a), NEW es \in EventSeq, CameFrom(es, feed, r + 1, a)
  PROVE  TellsRun(es)
<1>1. FeedOK(feed)
  BY TimelineAssumption
<1>2. TellsRun(EventsOf(feed, r + 1, a))
  BY <1>1 DEF FeedOK, UntilInit, Inits
<1>3. r + 1 \in Int /\ a \in Int
  BY <1>1 DEF FeedOK, Inits
<1>4. QED
  BY <1>2, <1>3, CameInTurn

LEMMA OtherIInv ==
  ASSUME IInv, ReceivePrompt \/ ReceiveFinalize
  PROVE  IInv'
<1>1. PICK type \in {"prompt", "finalize"} : Message(type)
  BY DEF ReceivePrompt, ReceiveFinalize
<1>2. /\ serialized = FALSE /\ connected /\ at' = at + 1 /\ at' \in 0..Len(feed)
      /\ UNCHANGED <<serialized, feed, clicks, minLogLevel, maxDepth, drops, connected>>
      /\ feed \in Seq(MessageType) /\ feed[at + 1] \in MessageType /\ feed[at + 1].type = type
      /\ at \in Nat /\ run \in Nat \ {0} /\ run <= at /\ run \in Inits /\ UntilInit(feed, run + 1, at + 1)
      /\ CameFrom(events \o pending, feed, run + 1, at)
  <2>1. type # "init"
    OBVIOUS
  <2>2. QED
    BY <1>1, <2>1, MessageIs
<1>3. /\ UNCHANGED <<run, pending, timer, events, startTime, currentTime, maxTime, timelineError, viewMode, viewOrder>>
      /\ isPlaying' = FALSE
  BY DEF ReceivePrompt, ReceiveFinalize, time, panel
<1>4. activePrompt' \in Prompts \union {"none"}
  <2>1. CASE ReceivePrompt
    <3>1. activePrompt' = feed[at + 1].prompt /\ feed[at + 1].type = "prompt"
      BY <2>1 DEF ReceivePrompt, Message
    <3>2. QED
      BY <1>2, <3>1 DEF MessageType
  <2>2. CASE ReceiveFinalize
    BY <2>2 DEF ReceiveFinalize, panel, IInv, Types
  <2>3. QED
    BY <2>1, <2>2
<1>5. Types'
  BY <1>2, <1>3, <1>4 DEF IInv, Types, TimeType
<1>6. CameFrom(events \o pending, feed, run + 1, at + 1)
  <2>1. feed[at + 1].type # "event" /\ run + 1 \in Int /\ at \in Int /\ run + 1 - 1 <= at
    BY <1>2
  <2>2. QED
    BY <1>2, <2>1, CameOther
<1>7. Live(TRUE, at + 1, run, events, pending, timer)
  <2>1. feed \in Feeds /\ TellsRun(events \o pending) /\ (pending # <<>> => timer)
    BY <1>2 DEF IInv, StreamInv
  <2>2. run - 1 <= at + 1
    BY <1>2
  <2>3. QED
    BY <1>2, <1>6, <2>1, <2>2 DEF Live
<1>8. StreamInv'
  BY <1>2, <1>3, <1>7 DEF Live, StreamInv, Inits
<1>9. TimeInv'
  BY <1>2, <1>3 DEF IInv, TimeInv, AtTheEnd
<1>10. QED
  BY <1>5, <1>8, <1>9 DEF IInv

LEMMA EventIInv ==
  ASSUME IInv, ReceiveEvent
  PROVE  IInv'
<1> DEFINE e == feed[at + 1].event
<1>1. /\ serialized = FALSE /\ connected /\ at' = at + 1 /\ at' \in 0..Len(feed)
      /\ UNCHANGED <<serialized, feed, clicks, minLogLevel, maxDepth, drops, connected>>
      /\ feed \in Seq(MessageType) /\ feed[at + 1] \in MessageType /\ feed[at + 1].type = "event"
      /\ at \in Nat /\ run \in Nat \ {0} /\ run <= at /\ run \in Inits /\ UntilInit(feed, run + 1, at + 1)
      /\ CameFrom(events \o pending, feed, run + 1, at)
  <2>1. Message("event") /\ "event" # "init"
    BY DEF ReceiveEvent
  <2>2. QED
    BY <2>1, MessageIs
<1>2. /\ UNCHANGED <<run, events, startTime, currentTime, maxTime, timelineError, isPlaying, viewMode, viewOrder, activePrompt>>
      /\ pending' = Append(pending, e) /\ timer' = TRUE
  BY DEF ReceiveEvent, time, panel
<1>3. e \in Events
  BY <1>1 DEF MessageType
<1>4. events \in EventSeq /\ pending \in EventSeq /\ feed \in Feeds
  BY <1>1 DEF IInv, Types, StreamInv
<1> HIDE DEF e
<1>5. /\ Append(pending, e) \in EventSeq /\ events \o pending \in EventSeq
      /\ events \o Append(pending, e) = Append(events \o pending, e)
      /\ Append(events \o pending, e) \in EventSeq
  BY <1>3, <1>4 DEF EventSeq
<1>6. Types'
  BY <1>1, <1>2, <1>5 DEF IInv, Types, TimeType
<1>7. CameFrom(events \o Append(pending, e), feed, run + 1, at + 1)
  <2>1. run + 1 \in Int /\ at \in Int /\ run + 1 - 1 <= at
    BY <1>1
  <2>2. CameFrom(Append(events \o pending, feed[at + 1].event), feed, run + 1, at + 1)
    BY <1>1, <1>5, <2>1, CameEvent
  <2>3. QED
    BY <1>5, <2>2 DEF e
<1>8. TellsRun(events \o Append(pending, e))
  <2>1. run <= at + 1 /\ at + 1 \in DOMAIN feed
    BY <1>1
  <2>2. QED
    BY <1>1, <1>4, <1>5, <1>7, <2>1, ToldInTurn
<1>9. Live(TRUE, at + 1, run, events, Append(pending, e), TRUE)
  <2>1. run - 1 <= at + 1
    BY <1>1
  <2>2. QED
    BY <1>1, <1>4, <1>7, <1>8, <2>1 DEF Live
<1>10. StreamInv'
  BY <1>1, <1>2, <1>9 DEF Live, StreamInv, Inits
<1>11. TimeInv'
  BY <1>1, <1>2 DEF IInv, TimeInv, AtTheEnd
<1>12. QED
  BY <1>6, <1>10, <1>11 DEF IInv

LEMMA ReceiveInitIInv ==
  ASSUME IInv, ReceiveInit
  PROVE  IInv'
<1>1. /\ connected /\ at < Len(feed) /\ feed[at + 1].type = "init" /\ at' = at + 1 /\ run' = at + 1
      /\ UNCHANGED <<serialized, feed, clicks, minLogLevel, maxDepth, drops, connected, timer, maxTime, isPlaying>>
      /\ UNCHANGED <<viewMode, viewOrder, activePrompt>>
      /\ pending' = <<>> /\ events' = <<>> /\ startTime' = NoTime /\ currentTime' = 0 /\ timelineError' = FALSE
  BY DEF ReceiveInit, Message, Streaming, filter, panel, ClearedPending
<1>2. feed \in Seq(MessageType) /\ at \in 0..Len(feed) /\ serialized \in BOOLEAN /\ maxTime \in Nat
  BY DEF IInv, Types, TimeType
<1>3. at' \in 0..Len(feed) /\ run' \in Nat \ {0} /\ at + 1 \in Inits
  BY <1>1, <1>2 DEF Inits
<1>4. <<>> \in EventSeq /\ <<>> \o <<>> = <<>>
  BY DEF EventSeq
<1>5. TimeType'
  BY <1>1, <1>2 DEF TimeType
<1>6. Types'
  BY <1>1, <1>3, <1>4, <1>5 DEF IInv, Types
<1>7. serialized = FALSE /\ feed \in Feeds
  BY <1>1, <1>2 DEF IInv, StreamInv
<1> DEFINE n == at + 1
<1>8. n \in Nat /\ n + 1 \in Int /\ n < n + 1 /\ n - 1 <= n /\ run' = n /\ at' = n /\ n \in Inits
  BY <1>1, <1>2, <1>3
<1> HIDE DEF n
<1>9. Live(TRUE, n, n, <<>>, <<>>, timer)
  <2>1. UntilInit(feed, n + 1, n)
    BY <1>8 DEF UntilInit
  <2>2. TellsRun(<<>> \o <<>>)
    BY <1>4 DEF TellsRun
  <2>3. CameFrom(<<>> \o <<>>, feed, n + 1, n)
    BY <1>4, <1>8, CameNothing
  <2>4. QED
    BY <1>7, <1>8, <2>1, <2>2, <2>3 DEF Live
<1>10. StreamInv'
  BY <1>1, <1>7, <1>8, <1>9 DEF Live, StreamInv, Inits
<1>11. Bounding(<<>>) = {}
  BY DEF Bounding
<1>12. TimeInv'
  BY <1>1, <1>11 DEF IInv, TimeInv, AtTheEnd
<1>13. QED
  BY <1>6, <1>10, <1>12 DEF IInv

LEMMA FlushIInv ==
  ASSUME IInv, FlushPending
  PROVE  IInv'
<1> DEFINE all == events \o pending
           start == IF events = <<>> /\ pending # <<>> THEN Now ELSE startTime
<1>1. /\ UNCHANGED <<serialized, feed, clicks, minLogLevel, maxDepth, at, run, drops, connected, isPlaying>>
      /\ UNCHANGED <<viewMode, viewOrder, activePrompt>>
      /\ timer /\ timer' = FALSE /\ pending' = <<>> /\ events' = all
  BY DEF FlushPending, Streaming, filter, panel
<1>2. /\ events \in EventSeq /\ pending \in EventSeq /\ connected \in BOOLEAN /\ serialized \in BOOLEAN
      /\ TimeType /\ startTime \in Nat \union {NoTime} /\ currentTime \in Nat
  BY DEF IInv, Types, TimeType
<1>3. /\ all \in EventSeq /\ <<>> \in EventSeq /\ all \o <<>> = all
      /\ pending = <<>> => all = events
      /\ all = <<>> => events = <<>> /\ pending = <<>>
  BY <1>2 DEF EventSeq
<1>4. start \in Nat \union {NoTime} /\ (start = NoTime => all = <<>>)
  <2>1. Now \in Nat /\ Now # NoTime
    BY TimelineAssumption DEF NoTime
  <2>2. startTime = NoTime => events = <<>>
    BY DEF IInv, TimeInv
  <2>3. QED
    BY <1>2, <1>3, <2>1, <2>2
<1> HIDE DEF all
<1>5. /\ pending = <<>> => UNCHANGED <<startTime, currentTime, maxTime, timelineError>>
      /\ pending # <<>> => Effect(all, connected, start, currentTime)
  BY <1>1 DEF FlushPending, time
<1> HIDE DEF start
<1>6. serialized = FALSE
  BY <1>1, <1>2 DEF IInv, StreamInv
<1>7. /\ TimeType' /\ (startTime' = NoTime => all = <<>>)
      /\ clicks = 0 /\ ~timelineError' /\ connected /\ Bounding(all) # {} =>
           startTime' = MinTimestamp(all) /\ currentTime' = MaxTimestamp(all) - MinTimestamp(all)
  <2>1. CASE pending = <<>>
    <3>1. UNCHANGED <<startTime, currentTime, maxTime, timelineError>> /\ all = events
      BY <1>3, <1>5, <2>1
    <3>2. QED
      BY <1>2, <3>1 DEF IInv, TimeInv, TimeType, AtTheEnd
  <2>2. CASE pending # <<>>
    BY <1>2, <1>3, <1>4, <1>5, <2>2, EffectIs
  <2>3. QED
    BY <2>1, <2>2
<1>8. Types'
  BY <1>1, <1>3, <1>7 DEF IInv, Types
<1>9. Live(connected, at, run, all, <<>>, FALSE)
  BY <1>3, <1>6 DEF IInv, StreamInv, Live, all
<1>10. StreamInv'
  BY <1>1, <1>6, <1>9 DEF Live, StreamInv, Inits
<1>11. TimeInv'
  BY <1>1, <1>6, <1>7 DEF IInv, TimeInv, AtTheEnd
<1>12. QED
  BY <1>8, <1>10, <1>11 DEF IInv

LEMMA NextIInv ==
  ASSUME IInv, [PageNext]_page
  PROVE  IInv'
<1>1. CASE Connect
  BY <1>1, ConnectIInv
<1>2. CASE Lose
  BY <1>2, LoseIInv
<1>3. CASE Receive
  BY <1>3, EventIInv, OtherIInv, ReceiveInitIInv DEF Receive
<1>4. CASE FlushPending
  BY <1>4, FlushIInv
<1>5. CASE Tick
  BY <1>5, TickIInv
<1>6. CASE User
  BY <1>6, UserMoves, MovesIInv DEF IInv
<1>7. CASE \/ \E row \in Range(content.rows) : SelectDocumentRow(row)
           \/ \E parent \in Parents : toggleContext(parent)
           \/ ToggleAll
  BY <1>7, ViewsMove, MovesIInv DEF IInv
<1>8. CASE UNCHANGED page
  BY <1>8, SameIInv DEF page
<1>9. QED
  BY <1>1, <1>2, <1>3, <1>4, <1>5, <1>6, <1>7, <1>8 DEF PageNext

LEMMA PageInvariant == PageSpec => []IInv
<1>1. PageInit => IInv
  BY InitIInv
<1>2. IInv /\ [PageNext]_page => IInv'
  BY NextIInv
<1>3. QED
  BY <1>1, <1>2, PTL DEF PageSpec

-----------------------------------------------------------------------------
(* What follows of it.                                                      *)

LEMMA IInvWhole ==
  ASSUME IInv
  PROVE  PageIsWhole
<1>1. TypeOK
  BY DEF IInv, Types, TimeType, TypeOK
<1>2. events \in EventSeq /\ pending \in EventSeq /\ TimeType
  BY DEF IInv, Types
<1>3. ShowsOneRun
  <2> DEFINE all == events \o pending
  <2>1. TellsRun(all)
    <3>1. CASE serialized
      <4>1. TellsRun(events) /\ pending = <<>>
        BY <3>1 DEF IInv, StreamInv
      <4>2. all = events
        BY <1>2, <4>1 DEF EventSeq
      <4>3. QED
        BY <4>1, <4>2
    <3>2. CASE ~serialized
      BY <3>2 DEF IInv, StreamInv
    <3>3. QED
      BY <3>1, <3>2
  <2>2. \A e \in Range(events) \union Range(pending) : \E i \in DOMAIN all : all[i] = e
    <3>1. \A i \in DOMAIN events : i \in DOMAIN all /\ all[i] = events[i]
      BY <1>2 DEF EventSeq
    <3>2. \A i \in DOMAIN pending : Len(events) + i \in DOMAIN all /\ all[Len(events) + i] = pending[i]
      BY <1>2 DEF EventSeq
    <3> HIDE DEF all
    <3>3. QED
      BY <3>1, <3>2 DEF Range
  <2> HIDE DEF all
  <2>3. QED
    BY <2>1, <2>2 DEF TellsRun, ShowsOneRun
<1>4. NothingStranded
  BY DEF IInv, StreamInv, NothingStranded
<1>5. UntouchedShowsAll
  <2> SUFFICES ASSUME clicks = 0, ~timelineError, serialized \/ connected,
                      NEW i \in DOMAIN events, ~events[i].apart
               PROVE  ~Future(events[i])
    BY DEF UntouchedShowsAll, Range
  <2>1. AtTheEnd(events) /\ Bounding(events) # {}
    BY DEF IInv, TimeInv, Bounding
  <2> DEFINE a == MinTimestamp(events)
             b == MaxTimestamp(events)
             t == events[i].ts
  <2>2. startTime = a /\ currentTime = b - a
    BY <2>1 DEF AtTheEnd
  <2>3. a \in Nat /\ b \in Nat /\ a <= t /\ t <= b
    BY <1>2, <2>1, BoundsAre
  <2>4. t \in Int
    BY <1>2, TimelineAssumption DEF EventSeq
  <2> HIDE DEF a, b, t
  <2>5. ~(t - a > b - a) /\ a # NoTime
    BY <2>3, <2>4 DEF NoTime
  <2>6. QED
    BY <2>2, <2>5 DEF Future, t
<1>6. PromptIsOpen
  BY DEF PromptIsOpen, enrichedSelectedEvent, Anchor, None
<1>7. QED
  BY <1>1, <1>3, <1>4, <1>5, <1>6 DEF PageIsWhole

\* The page keeps its types, shows one run, strands nothing, shows all of it as
\* past until it is touched, and leaves no prompt without its panel.
THEOREM PageAlwaysWhole == PageSpec => []PageIsWhole
<1>1. IInv => PageIsWhole
  BY IInvWhole
<1>2. QED
  BY <1>1, PageInvariant, PTL

-----------------------------------------------------------------------------
(* The graph of quads: there are boxes to tick once it has chosen.          *)

GraphInv ==
  /\ initialized \in BOOLEAN /\ touched \in BOOLEAN
  /\ touched => initialized
  /\ GraphIsOpen /\ ~initialized => chosen = {} /\ initialContexts(events) = {}

\* A toolbar is one of a graph that has chosen.
LEMMA ToolbarIs ==
  ASSUME GraphInv, HasToolbar
  PROVE  initialized
<1> SUFFICES ASSUME ~initialized PROVE FALSE
  OBVIOUS
<1>1. chosen = {} /\ initialContexts(events) = {} /\ universeQuads(events, chosen) # {}
  BY DEF HasToolbar, GraphInv
<1>2. PICK i \in Quads(events) : events[i].graph \notin Apart
  BY <1>1 DEF universeQuads
<1>3. events[i].graph \in initialContexts(events)
  BY <1>2 DEF initialContexts, ContextsOf
<1>4. QED
  BY <1>1, <1>3

LEMMA GraphNext ==
  ASSUME GraphInv, [PageNext]_page
  PROVE  GraphInv'
<1>1. CASE GraphFollows
  <2> DEFINE new == initialContexts(events')
             open == GraphIsOpen'
             stays == GraphIsOpen /\ open
  <2>1. /\ chosen' = IF ~open THEN {}
                     ELSE IF (~GraphIsOpen /\ open) \/ (events' # events /\ Initializes(events')) THEN new
                     ELSE chosen
        /\ initialized' = (open /\ ((stays /\ initialized) \/ new # {}))
        /\ touched' = (stays /\ touched)
    BY <1>1 DEF GraphFollows
  <2>2. open /\ ~initialized' => new = {} /\ ~(stays /\ initialized)
    BY <2>1
  <2>3. open /\ ~initialized' => chosen' = {}
    BY <2>1, <2>2 DEF GraphInv
  <2>4. touched' => initialized'
    BY <2>1 DEF GraphInv
  <2>5. initialized' \in BOOLEAN /\ touched' \in BOOLEAN
    BY <2>1
  <2>6. initialContexts(events)' = new
    BY DEF initialContexts, ContextsOf, Quads
  <2>7. QED
    BY <2>2, <2>3, <2>4, <2>5, <2>6 DEF GraphInv
<1>2. CASE Ticks /\ touched' = TRUE
  <2>1. UNCHANGED <<events, viewOrder, initialized>>
    BY <1>2 DEF Ticks, Clicks, buffer, panel
  <2>2. initialized /\ initialized'
    BY <1>2, <2>1, ToolbarIs DEF Ticks
  <2>3. QED
    BY <1>2, <2>1, <2>2 DEF GraphInv
<1>3. CASE UNCHANGED page
  <2>1. UNCHANGED <<events, viewOrder, chosen, initialized, touched>>
    BY <1>3 DEF page, vars, views, buffer, panel
  <2>2. QED
    BY <2>1 DEF GraphInv, GraphIsOpen, initialContexts, ContextsOf, Quads
<1>4. QED
  BY <1>1, <1>2, <1>3 DEF PageNext, Follow, toggleContext, ToggleAll

LEMMA GraphInvariant == PageSpec => []GraphInv
<1>1. PageInit => GraphInv
  BY DEF PageInit, Init, GraphInv, GraphIsOpen
<1>2. QED
  BY <1>1, GraphNext, PTL DEF PageSpec

-----------------------------------------------------------------------------
(* The document has each artifact once.                                     *)

PlacesIn(doc, id) == {r \in DOMAIN doc.rows : id \in doc.rows[r].artifacts}

\* What is claimed is in one row, and steps are not headers.
DocumentOK(doc) ==
  /\ \A id \in doc.claimed : PlacesIn(doc, id) # {}
  /\ \A r \in DOMAIN doc.rows : doc.rows[r].artifacts \subseteq doc.claimed
  /\ \A r, s \in DOMAIN doc.rows :
       doc.rows[r].artifacts \intersect doc.rows[s].artifacts # {} => r = s
  /\ "step" \notin doc.headers

\* What the document has of an event it was made with.
Written(doc, e) ==
  /\ e.kind \in Artifacts \ {"quad"} /\ e.level >= docLevel => e.id \in doc.claimed
  /\ CanBeActive(e) /\ e.level >= docLevel => \E r \in DOMAIN doc.rows : doc.rows[r].id = e.id

\* A row is added with artifacts that have no place yet.
LEMMA AddRowIs ==
  ASSUME NEW doc \in Document, DocumentOK(doc), NEW e, NEW a, a \intersect doc.claimed = {},
         NEW new, new = AddRow(doc, e, a)
  PROVE  /\ DocumentOK(new) /\ doc.claimed \union a = new.claimed
         /\ \E r \in DOMAIN new.rows : new.rows[r].id = e.id
         /\ \A r \in DOMAIN doc.rows : r \in DOMAIN new.rows /\ new.rows[r] = doc.rows[r]
<1> DEFINE n == Len(doc.rows)
           row == Row(e, a)
<1>1. /\ new.rows = Append(doc.rows, row) /\ new.claimed = doc.claimed \union a
      /\ new.headers = (IF IsHeader(e) THEN doc.headers \union {e.type} ELSE doc.headers)
  BY DEF AddRow
<1>2. row.id = e.id /\ row.artifacts = a
  BY DEF Row
<1> HIDE DEF row
<1>3. /\ n \in Nat /\ DOMAIN doc.rows = 1..n /\ DOMAIN new.rows = 1..n + 1
      /\ new.rows[n + 1] = row /\ \A r \in 1..n : new.rows[r] = doc.rows[r]
  <2>1. doc.rows \in Seq(RowType)
    BY DEF Document
  <2>2. QED
    BY <1>1, <2>1
<1> HIDE DEF n
<1>4. \A r \in 1..n : r \in 1..n + 1
  BY <1>3
<1>4a. n + 1 \in 1..n + 1 /\ \A r \in 1..n + 1 : r \in 1..n \/ r = n + 1
  BY <1>3
<1>5. \A id \in new.claimed : PlacesIn(new, id) # {}
  <2> SUFFICES ASSUME NEW id \in new.claimed PROVE \E r \in 1..n + 1 : id \in new.rows[r].artifacts
    BY <1>3 DEF PlacesIn
  <2>1. CASE id \in a
    BY <1>2, <1>3, <1>4a, <2>1
  <2>2. CASE id \in doc.claimed
    <3>1. PICK r \in 1..n : id \in doc.rows[r].artifacts
      BY <1>3, <2>2 DEF DocumentOK, PlacesIn
    <3>2. QED
      BY <1>3, <1>4, <3>1
  <2>3. QED
    BY <1>1, <2>1, <2>2
<1>6. \A r \in DOMAIN new.rows : new.rows[r].artifacts \subseteq new.claimed
  BY <1>1, <1>2, <1>3, <1>4a DEF DocumentOK
<1>7. ASSUME NEW r \in DOMAIN new.rows, NEW s \in DOMAIN new.rows,
             new.rows[r].artifacts \intersect new.rows[s].artifacts # {}
      PROVE  r = s
  <2>1. \A q \in 1..n : doc.rows[q].artifacts \intersect a = {}
    BY <1>3 DEF DocumentOK
  <2>2. QED
    BY <1>2, <1>3, <1>4a, <1>7, <2>1 DEF DocumentOK
<1>8. "step" \notin new.headers
  BY <1>1 DEF IsHeader, DocumentOK
<1>9. DocumentOK(new)
  BY <1>5, <1>6, <1>7, <1>8 DEF DocumentOK
<1>10. QED
  BY <1>1, <1>2, <1>3, <1>4, <1>4a, <1>9

\* Nothing the document has is lost by what is written after.
Keeps(doc, new) ==
  /\ doc.claimed \subseteq new.claimed
  /\ \A r \in DOMAIN doc.rows : r \in DOMAIN new.rows /\ new.rows[r] = doc.rows[r]

LEMMA WriteOK ==
  ASSUME docLevel \in Nat, NEW doc \in Document, DocumentOK(doc), NEW e \in Events
  PROVE  DocumentOK(Write(doc, e)) /\ Written(Write(doc, e), e) /\ Keeps(doc, Write(doc, e))
<1> DEFINE new == Write(doc, e)
<1> SUFFICES DocumentOK(new) /\ Written(new, e) /\ Keeps(doc, new)
  OBVIOUS
<1>1. Keeps(doc, doc)
  BY DEF Keeps
<1>2. ASSUME NEW a, a \intersect doc.claimed = {}, new = AddRow(doc, e, a),
             e.kind \in Artifacts => e.id \in a
      PROVE  DocumentOK(new) /\ Written(new, e) /\ Keeps(doc, new)
  <2> HIDE DEF new
  <2>1. /\ DocumentOK(new) /\ doc.claimed \union a = new.claimed
        /\ \E r \in DOMAIN new.rows : new.rows[r].id = e.id
        /\ \A r \in DOMAIN doc.rows : r \in DOMAIN new.rows /\ new.rows[r] = doc.rows[r]
    BY <1>2, AddRowIs
  <2>2. QED
    BY <1>2, <2>1 DEF Written, Keeps
<1>3. e.level \in Nat
  <2>1. e.level \in Levels /\ Levels \subseteq Nat
    BY TimelineAssumption
  <2>2. QED
    BY <2>1
<1>4. CASE e.level < docLevel \/ e.kind = "quad"
  <2>1. new = doc
    BY <1>4 DEF Write
  <2>2. ~(e.level >= docLevel) \/ e.kind = "quad"
    BY <1>3, <1>4
  <2>3. Written(doc, e)
    BY <2>2 DEF Written, CanBeActive
  <2>4. QED
    BY <1>1, <2>1, <2>3
<1>5. CASE ~(e.level < docLevel \/ e.kind = "quad") /\ e.kind \in Artifacts
  <2>1. CASE e.id \in doc.claimed
    <3>1. new = doc
      BY <1>5, <2>1 DEF Write
    <3>2. Written(doc, e)
      BY <1>5, <2>1 DEF Written, CanBeActive, Artifacts
    <3>3. QED
      BY <1>1, <3>1, <3>2
  <2>2. CASE e.id \notin doc.claimed
    <3>1. new = AddRow(doc, e, {e.id})
      BY <1>5, <2>2 DEF Write
    <3> HIDE DEF new
    <3>2. QED
      BY <1>2, <2>2, <3>1
  <2>3. QED
    BY <2>1, <2>2
<1>6. CASE ~(e.level < docLevel \/ e.kind = "quad") /\ e.kind \notin Artifacts
  <2>1. CASE e.kind = "log"
    <3>1. new = AddRow(doc, e, {})
      BY <1>6, <2>1 DEF Write
    <3> HIDE DEF new
    <3>2. QED
      BY <1>2, <1>6, <3>1
  <2>2. CASE e.kind # "log" /\ (e.kind # "lifecycle" \/ e.stage # "start" \/ e.type \in doc.headers \union {"other"})
    <3>1. new = doc
      BY <1>6, <2>2 DEF Write
    <3>2. Written(doc, e)
      BY <1>6, <2>2 DEF Written, CanBeActive, IsHeader, DocumentOK
    <3>3. QED
      BY <1>1, <3>1, <3>2
  <2>3. CASE e.kind = "lifecycle" /\ e.stage = "start" /\ e.type \notin doc.headers \union {"other"}
    <3>1. new = AddRow(doc, e, claimArtifacts(doc, e.id))
      BY <1>6, <2>3 DEF Write
    <3>2. claimArtifacts(doc, e.id) \intersect doc.claimed = {}
      BY DEF claimArtifacts
    <3> HIDE DEF new
    <3>3. QED
      BY <1>2, <1>6, <3>1, <3>2
  <2>4. QED
    BY <2>1, <2>2, <2>3
<1>7. QED
  BY <1>4, <1>5, <1>6

LEMMA WrittenStays ==
  ASSUME NEW doc, NEW new, Keeps(doc, new), NEW e, Written(doc, e)
  PROVE  Written(new, e)
BY DEF Keeps, Written

\* The document has what it is made of, each artifact once.
LEMMA ContentOK ==
  ASSUME events \in EventSeq, docLevel \in Nat
  PROVE  DocumentOK(content) /\ \A i \in DOMAIN events : Written(content, events[i])
<1>1. PICK m \in [0..Len(events) -> Document] :
           /\ m[0] = Blank
           /\ \A i \in 1..Len(events) : m[i] = Write(m[i - 1], events[i])
           /\ content = m[Len(events)]
  BY ContentIs
<1> DEFINE n == Len(events)
           T == {i \in 0..n : DocumentOK(m[i]) /\ \A j \in 1..i : Written(m[i], events[j])}
<1>2. n \in Nat /\ DOMAIN events = 1..n /\ \A i \in 1..n : events[i] \in Events
  BY DEF EventSeq
<1>3. 0 \in T
  BY <1>1 DEF DocumentOK, Blank
<1>4. ASSUME NEW i \in 1..n, i - 1 \in T PROVE i \in T
  <2>1. /\ i \in 0..n /\ m[i - 1] \in Document /\ m[i] = Write(m[i - 1], events[i]) /\ events[i] \in Events
        /\ DocumentOK(m[i - 1]) /\ \A j \in 1..i - 1 : Written(m[i - 1], events[j])
    BY <1>1, <1>2, <1>4
  <2>2. DocumentOK(m[i]) /\ Written(m[i], events[i]) /\ Keeps(m[i - 1], m[i])
    BY <2>1, WriteOK
  <2>3. ASSUME NEW j \in 1..i PROVE Written(m[i], events[j])
    <3>1. j = i \/ j \in 1..i - 1
      OBVIOUS
    <3>2. QED
      BY <2>1, <2>2, <3>1, WrittenStays
  <2>4. QED
    BY <2>1, <2>2, <2>3
<1> HIDE DEF n, T
<1>5. \A i \in 0..n : i \in T
  BY <1>2, <1>3, <1>4, UpTo
<1>6. n \in 0..n /\ content = m[n]
  BY <1>1, <1>2 DEF n
<1>7. QED
  BY <1>2, <1>5, <1>6 DEF T

LEMMA ArtifactsAreOnce ==
  ASSUME events \in EventSeq, docLevel \in Nat
  PROVE  ArtifactsOnce
<1>1. DocumentOK(content) /\ \A i \in DOMAIN events : Written(content, events[i])
  BY ContentOK
<1>2. \A id, r, s : r \in PlacesIn(content, id) /\ s \in PlacesIn(content, id) => r = s
  BY <1>1 DEF DocumentOK, PlacesIn
<1>3. \A id \in content.claimed : PlacesIn(content, id) # {}
  BY <1>1 DEF DocumentOK
<1>4. ASSUME NEW e \in Range(events), e.kind \in Artifacts, e.kind # "quad", e.level >= docLevel
      PROVE  PlacesIn(content, e.id) # {}
  <2>1. Written(content, e)
    BY <1>1 DEF Range
  <2>2. QED
    BY <1>3, <1>4, <2>1 DEF Written
<1>5. QED
  BY <1>2, <1>4 DEF ArtifactsOnce, PlacesIn

-----------------------------------------------------------------------------
(* The moment the views are at.                                             *)

\* The timeline starts with the least of what bounds it, and a report's with its
\* first event.
StartInv ==
  /\ serialized => events # <<>> /\ startTime = events[1].ts
  /\ ~serialized /\ Bounding(events) # {} => startTime = MinTimestamp(events)

LEMMA EffectStarts ==
  ASSUME NEW es, NEW live, NEW start, NEW current, Effect(es, live, start, current), Bounding(es) # {}
  PROVE  startTime' = MinTimestamp(es)
BY DEF Effect

LEMMA StartNext ==
  ASSUME IInv, StartInv, [PageNext]_page
  PROVE  StartInv'
<1>1. CASE UNCHANGED <<serialized, events, startTime>>
  BY <1>1 DEF StartInv
<1>2. CASE Connect
  <2>1. ~serialized /\ UNCHANGED <<serialized, events>>
    BY <1>2 DEF Connect, Streaming
  <2>2. Bounding(events) # {} => startTime' = MinTimestamp(events)
    BY <1>2, EffectStarts DEF Connect
  <2>3. QED
    BY <2>1, <2>2 DEF StartInv
<1>3. CASE Lose
  <2>1. ~serialized /\ UNCHANGED <<serialized, events>>
    BY <1>3 DEF Lose, Streaming, IInv, StreamInv
  <2>2. Bounding(events) # {} => startTime' = MinTimestamp(events)
    BY <1>3, EffectStarts DEF Lose
  <2>3. QED
    BY <2>1, <2>2 DEF StartInv
<1>4. CASE Receive
  <2>1. CASE ReceiveInit
    <3>1. ~serialized /\ UNCHANGED serialized /\ events' = <<>>
      BY <2>1 DEF ReceiveInit, Message, Streaming, IInv, StreamInv
    <3>2. Bounding(<<>>) = {}
      BY DEF Bounding
    <3>3. QED
      BY <3>1, <3>2 DEF StartInv
  <2>2. CASE ReceiveEvent \/ ReceivePrompt \/ ReceiveFinalize
    BY <1>1, <2>2 DEF ReceiveEvent, ReceivePrompt, ReceiveFinalize, Message, Streaming, time
  <2>3. QED
    BY <1>4, <2>1, <2>2 DEF Receive
<1>5. CASE FlushPending
  <2>1. ~serialized /\ UNCHANGED serialized /\ events' = events \o pending
    BY <1>5 DEF FlushPending, Streaming, IInv, StreamInv
  <2>2. CASE pending = <<>>
    <3>1. events' = events /\ startTime' = startTime
      BY <1>5, <2>1, <2>2 DEF FlushPending, time, IInv, Types, EventSeq
    <3>2. QED
      BY <1>1, <2>1, <3>1
  <2>3. CASE pending # <<>>
    <3>1. PICK start : Effect(events', connected, start, currentTime)
      BY <1>5, <2>3 DEF FlushPending
    <3>2. Bounding(events') # {} => startTime' = MinTimestamp(events')
      BY <3>1 DEF Effect
    <3>3. QED
      BY <2>1, <3>2 DEF StartInv, MinTimestamp, Bounding
  <2>4. QED
    BY <2>2, <2>3
<1>6. CASE Tick
  BY <1>1, <1>6 DEF Tick, buffer
<1>7. CASE Clicks
  BY <1>1, <1>7 DEF Clicks, buffer
<1>8. User => Clicks
  BY DEF User, togglePlay, handleTimeChange, SelectRow, SetFilter, Expand, SetViewMode, ToggleView,
         ClosePanel, SelectAnchor, handleDebugAction
<1>9. UNCHANGED page => UNCHANGED <<serialized, events, startTime>>
  BY DEF page, vars, buffer, time
<1>10. QED
  BY <1>1, <1>2, <1>3, <1>4, <1>5, <1>6, <1>7, <1>8, <1>9
     DEF PageNext, SelectDocumentRow, toggleContext, ToggleAll, Ticks

ViewsInv == IInv /\ GraphInv /\ StartInv /\ docLevel \in Levels

LEMMA ViewsInvariant == PageSpec => []ViewsInv
<1>1. PageInit => ViewsInv
  <2> SUFFICES ASSUME PageInit PROVE ViewsInv
    OBVIOUS
  <2>1. IInv
    BY InitIInv
  <2>2. GraphInv
    BY DEF PageInit, Init, GraphInv, GraphIsOpen
  <2>3. StartInv
    <3>1. CASE serialized = FALSE
      BY <3>1 DEF PageInit, Init, StartInv, Bounding
    <3>2. CASE serialized # FALSE
      <4>1. serialized = TRUE /\ events \in Reports /\ startTime = events[1].ts
        BY <3>2 DEF PageInit, Init
      <4>2. ReportOK(events)
        BY <4>1, TimelineAssumption
      <4>3. QED
        BY <4>1, <4>2 DEF ReportOK, StartInv
    <3>3. QED
      BY <3>1, <3>2
  <2>4. docLevel \in Levels
    BY TimelineAssumption DEF PageInit
  <2>5. QED
    BY <2>1, <2>2, <2>3, <2>4 DEF ViewsInv
<1>2. ViewsInv /\ [PageNext]_page => ViewsInv'
  <2> SUFFICES ASSUME ViewsInv, [PageNext]_page PROVE ViewsInv'
    OBVIOUS
  <2>1. IInv' /\ GraphInv' /\ StartInv'
    BY NextIInv, GraphNext, StartNext DEF ViewsInv
  <2>2. docLevel' \in Levels
    <3>1. docLevel \in Levels /\ minLogLevel' \in Levels
      BY <2>1 DEF ViewsInv, IInv, Types
    <3>2. DocumentFollows \/ UNCHANGED docLevel
      BY DEF PageNext, Follow, toggleContext, ToggleAll, Ticks, page, views
    <3>3. QED
      BY <3>1, <3>2 DEF DocumentFollows
  <2>3. QED
    BY <2>1, <2>2 DEF ViewsInv
<1>3. QED
  BY <1>1, <1>2, PTL DEF PageSpec

\* A run in order, and what there is to know of its events.
OrderedRun ==
  /\ events \in EventSeq /\ events # <<>> /\ ~events[1].apart /\ startTime = events[1].ts
  /\ startTime \in Nat /\ currentTime \in Nat /\ NowAt(currentTime) = currentTime + startTime
  /\ \A i \in DOMAIN events : events[i] \in Events /\ i \in Nat /\ i <= Len(events) /\ events[i].ts \in Nat /\ events[1].ts <= events[i].ts
  /\ \A i, j \in DOMAIN events : i <= j => events[i].ts <= events[j].ts

LEMMA OrderedIs ==
  ASSUME ViewsInv, InOrder
  PROVE  OrderedRun
<1>1. events \in EventSeq /\ events # <<>> /\ ~events[1].apart /\ currentTime \in Nat
  BY DEF ViewsInv, IInv, Types, TimeType, InOrder
<1>2. DOMAIN events = 1..Len(events) /\ Len(events) \in Nat \ {0}
  BY <1>1 DEF EventSeq
<1>3. \A i \in DOMAIN events : events[i] \in Events /\ i \in Nat /\ i <= Len(events) /\ events[i].ts \in Nat
  <2>1. \A e \in Events : e.ts \in Nat
    BY TimelineAssumption
  <2>2. \A i \in DOMAIN events : events[i] \in Events
    BY <1>1 DEF EventSeq
  <2>3. QED
    BY <1>2, <2>1, <2>2
<1>4. ASSUME NEW i \in DOMAIN events, NEW j \in DOMAIN events, i <= j PROVE events[i].ts <= events[j].ts
  <2>1. i \in Nat /\ j \in Nat /\ events[i].ts \in Nat /\ events[j].ts \in Nat
    BY <1>3
  <2>2. CASE i < j
    BY <2>2 DEF InOrder
  <2>3. CASE i = j
    BY <2>1, <2>3
  <2>4. QED
    BY <1>4, <2>1, <2>2, <2>3
<1>5. 1 \in DOMAIN events /\ \A i \in DOMAIN events : 1 <= i
  BY <1>2
<1>6. \A i \in DOMAIN events : events[1].ts <= events[i].ts
  BY <1>4, <1>5
<1>7. startTime = events[1].ts
  <2>1. CASE serialized
    BY <2>1 DEF ViewsInv, StartInv
  <2>2. CASE ~serialized
    <3>1. events[1].ts \in Bounding(events) /\ \A t \in Bounding(events) : events[1].ts <= t
      BY <1>1, <1>5, <1>6 DEF Bounding
    <3>2. startTime = Least(Bounding(events)) /\ Bounding(events) \in SUBSET Nat
      BY <1>3, <2>2, <3>1 DEF ViewsInv, StartInv, MinTimestamp, Bounding
    <3> DEFINE T == Bounding(events)
    <3> HIDE DEF T
    <3>3. Least(T) \in T /\ \A y \in T : Least(T) <= y
      BY <3>1, <3>2, LeastIs DEF T
    <3>4. Least(T) <= events[1].ts /\ events[1].ts <= Least(T) /\ Least(T) \in Nat /\ events[1].ts \in Nat
      BY <1>3, <1>5, <3>1, <3>2, <3>3 DEF T
    <3>5. QED
      BY <3>2, <3>4 DEF T
  <2>3. QED
    BY <2>1, <2>2
<1>8. startTime \in Nat /\ startTime # NoTime
  BY <1>3, <1>5, <1>7 DEF NoTime
<1>9. NowAt(currentTime) = currentTime + startTime
  BY <1>8 DEF NowAt
<1>10. QED
  BY <1>1, <1>3, <1>4, <1>6, <1>7, <1>8, <1>9 DEF OrderedRun

\* The greatest of indices of events that satisfy something.
LEMMA GreatestIndex ==
  ASSUME OrderedRun, NEW T \in SUBSET (DOMAIN events), T # {}
  PROVE  Greatest(T) \in T /\ \A i \in T : i <= Greatest(T)
<1>1. T \in SUBSET Nat /\ Len(events) \in Nat /\ \A i \in T : i <= Len(events)
  BY DEF OrderedRun, EventSeq
<1>2. QED
  BY <1>1, GreatestIs

\* What is after the last that is past is to come.
LEMMA LastActiveIs ==
  ASSUME OrderedRun, NEW T \in SUBSET (DOMAIN events), NEW i \in T
  PROVE  i > lastActiveIndex(T) <=> events[i].ts > NowAt(currentTime)
<1> DEFINE past == {j \in T : events[j].ts <= NowAt(currentTime)}
           now == NowAt(currentTime)
<1>1. now \in Nat /\ \A j \in T : j \in Nat \ {0} /\ events[j].ts \in Nat
  BY DEF OrderedRun, EventSeq
<1> HIDE DEF now
<1>2. CASE past = {}
  <2>1. lastActiveIndex(T) = 0
    BY <1>2 DEF lastActiveIndex
  <2>2. events[i].ts > now
    BY <1>1, <1>2 DEF now
  <2>3. QED
    BY <1>1, <2>1, <2>2 DEF now
<1>3. CASE past # {}
  <2> DEFINE g == Greatest(past)
  <2>1. lastActiveIndex(T) = g
    BY <1>3 DEF lastActiveIndex
  <2>2. g \in past /\ \A j \in past : j <= g
    <3>1. past \in SUBSET (DOMAIN events)
      OBVIOUS
    <3> HIDE DEF past
    <3>2. QED
      BY <1>3, <3>1, GreatestIndex
  <2> HIDE DEF g
  <2>3. g \in T /\ events[g].ts <= now
    BY <2>2 DEF now
  <2>4. i > g => events[i].ts > now
    <3>1. i > g => i \notin past
      BY <1>1, <2>2, <2>3
    <3>2. QED
      BY <1>1, <3>1 DEF now
  <2>5. events[i].ts > now => i > g
    <3>1. i <= g => events[i].ts <= events[g].ts
      BY <2>3 DEF OrderedRun
    <3>2. QED
      BY <1>1, <2>3, <3>1
  <2>6. QED
    BY <2>1, <2>4, <2>5 DEF now
<1>4. QED
  BY <1>2, <1>3

\* The active event is the last that can be and is past.
LEMMA ActiveIs ==
  ASSUME OrderedRun, NEW t, NEW a \in DOMAIN events, CanBeActive(events[a]), events[a].ts <= NowAt(t),
         \E row \in Range(content.rows) : row.id = events[a].id
  PROVE  ActiveAt(t) # None /\ ActiveAt(t).ts \in Nat /\ events[a].ts <= ActiveAt(t).ts
<1> DEFINE ids == {row.id : row \in Range(content.rows)}
           past == {i \in DOMAIN events : CanBeActive(events[i]) /\ events[i].ts <= NowAt(t) /\ events[i].id \in ids}
<1>1. a \in past /\ past \in SUBSET (DOMAIN events)
  OBVIOUS
<1>2. ActiveAt(t) = events[Greatest(past)]
  BY <1>1 DEF ActiveAt
<1> HIDE DEF past
<1>3. Greatest(past) \in past /\ a <= Greatest(past)
  BY <1>1, GreatestIndex
<1>4. Greatest(past) \in DOMAIN events
  BY <1>1, <1>3
<1>5. events[Greatest(past)] # None
  BY <1>4, TimelineAssumption DEF OrderedRun
<1>6. QED
  BY <1>2, <1>3, <1>4, <1>5 DEF OrderedRun

LEMMA ActiveIsPast ==
  ASSUME OrderedRun, NEW t, ActiveAt(t) # None
  PROVE  ActiveAt(t).ts <= NowAt(t)
<1> DEFINE ids == {row.id : row \in Range(content.rows)}
           past == {i \in DOMAIN events : CanBeActive(events[i]) /\ events[i].ts <= NowAt(t) /\ events[i].id \in ids}
<1>1. past # {} /\ ActiveAt(t) = events[Greatest(past)] /\ past \in SUBSET (DOMAIN events)
  BY DEF ActiveAt
<1>2. Greatest(past) \in past
  <2> HIDE DEF past
  <2>1. QED
    BY <1>1, GreatestIndex
<1>3. QED
  BY <1>1, <1>2

LEMMA AgreeOnNow ==
  ASSUME ViewsInv
  PROVE  ViewsAgreeOnNow
<1> SUFFICES ASSUME InOrder PROVE ViewsAgreeOnNow
  BY DEF ViewsAgreeOnNow
<1> DEFINE now == NowAt(currentTime)
           qs == universeQuads(events, chosen)
           active == ActiveAt(currentTime)
<1>1. OrderedRun
  BY OrderedIs
<1>2. traces \in SUBSET (DOMAIN events) /\ qs \in SUBSET (DOMAIN events) /\ Edges(qs) \subseteq qs
  BY DEF traces, universeQuads, Quads, Edges
<1>3. \A i \in traces : i > lastActiveIndex(traces) <=> events[i].ts > now
  BY <1>1, <1>2, LastActiveIs
<1> HIDE DEF qs
<1>4. \A i \in Edges(qs) : i > lastActiveIndex(qs) <=> events[i].ts > now
  BY <1>1, <1>2, LastActiveIs
<1>5. \A i \in Edges(qs) : i \in FutureEdges(qs) <=> events[i].ts > now
  BY <1>4 DEF FutureEdges
<1>6. ASSUME NEW a \in Edges(qs), events[a].nodes \intersect FutureNodes(qs) # {} PROVE events[a].ts > now
  <2> DEFINE kept == {events[i].nodes : i \in Edges(qs) \ FutureEdges(qs)}
  <2>1. PICK x \in events[a].nodes : x \in FutureNodes(qs)
    BY <1>6
  <2>2. x \notin UNION kept
    <3>1. FutureNodes(qs) = (UNION {events[i].nodes : i \in Edges(qs)}) \ (UNION kept)
      BY DEF FutureNodes
    <3> HIDE DEF kept
    <3>2. QED
      BY <2>1, <3>1
  <2>3. a \in Edges(qs) \ FutureEdges(qs) => events[a].nodes \in kept
    OBVIOUS
  <2> HIDE DEF kept
  <2>4. ~(a \in Edges(qs) \ FutureEdges(qs))
    BY <2>1, <2>2, <2>3
  <2>5. QED
    BY <1>5, <2>4
<1>7. ASSUME NEW row \in Range(content.rows), row.kind \notin Artifacts
      PROVE  RowIsFuture(row, currentTime) <=> row.ts > now
  <2>1. row.ts \in Nat
    <3>1. content.rows \in Seq(RowType)
      BY <1>1, RowsAreOfEvents DEF OrderedRun, Document
    <3>2. row \in RowType
      BY <3>1 DEF Range
    <3>3. QED
      BY <3>2 DEF RowType
  <2>2. now = currentTime + events[1].ts /\ currentTime \in Nat /\ events[1].ts \in Nat
    BY <1>1 DEF OrderedRun
  <2> HIDE DEF now
  <2>3. row.ts - events[1].ts > currentTime <=> row.ts > now
    BY <2>1, <2>2
  <2>4. QED
    BY <1>7, <2>3 DEF RowIsFuture, rawTime
<1>8. active # None => active.ts <= now
  BY <1>1, ActiveIsPast
<1>9. ASSUME NEW e \in Range(events), CanBeActive(e), e.level >= docLevel, e.ts <= now
      PROVE  active # None /\ e.ts <= active.ts
  <2>1. PICK a \in DOMAIN events : e = events[a]
    BY DEF Range
  <2>2. Written(content, e) /\ content \in Document
    <3>1. docLevel \in Nat
      BY TimelineAssumption DEF ViewsInv
    <3>2. QED
      BY <1>1, <2>1, <3>1, ContentOK, RowsAreOfEvents DEF OrderedRun
  <2>3. PICK r \in DOMAIN content.rows : content.rows[r].id = e.id
    BY <1>9, <2>2 DEF Written
  <2>4. \E row \in Range(content.rows) : row.id = events[a].id
    BY <2>1, <2>3 DEF Range
  <2>5. QED
    BY <1>1, <1>9, <2>1, <2>4, ActiveIs
<1>10. QED
  BY <1>3, <1>5, <1>6, <1>7, <1>8, <1>9 DEF ViewsAgreeOnNow, qs

\* The document has each artifact once, all views dim what is to come and only
\* that, and the graph's first choice never comes after one of the user's.
THEOREM ViewsAlwaysSound == PageSpec => []ViewsAreSound
<1>1. ViewsInv => ViewsAreSound
  <2> SUFFICES ASSUME ViewsInv PROVE ViewsAreSound
    OBVIOUS
  <2>1. events \in EventSeq /\ docLevel \in Nat
    BY TimelineAssumption DEF ViewsInv, IInv, Types
  <2>2. QED
    BY <2>1, ArtifactsAreOnce, AgreeOnNow DEF ViewsInv, GraphInv, ViewsAreSound
<1>2. QED
  BY <1>1, ViewsInvariant, PTL

-----------------------------------------------------------------------------
(* The rows of the log view, flattened, are the merged events.              *)

Flattens(s, m) ==
  /\ m \in [0..Len(s) -> EventSeq] /\ m[0] = <<>> /\ m[Len(s)] = FlattenSeq(s)
  /\ \A i \in 1..Len(s) : m[i] = m[i - 1] \o s[i]

LEMMA FlattenIs ==
  ASSUME NEW s \in Seq(EventSeq)
  PROVE  \E m : Flattens(s, m)
<1> DEFINE n == Len(s)
           g == [i \in 1..n |-> [x \in EventSeq |-> x \o s[i]]]
           flatten[i \in 1..n] == IF i = 1 THEN s[i] ELSE flatten[i - 1] \o s[i]
<1>1. n \in Nat /\ \A i \in 1..n : s[i] \in EventSeq
  OBVIOUS
<1>2. \A x, y \in EventSeq : x \o y \in EventSeq
  BY DEF EventSeq
<1>3. <<>> \in EventSeq /\ \A x \in EventSeq : <<>> \o x = x
  BY DEF EventSeq
<1>4. g \in Steps(n, EventSeq) /\ \A x \in EventSeq, i \in 1..n : g[i][x] = x \o s[i]
  BY <1>1, <1>2 DEF Steps
<1>5. n # 0 => FlattenSeq(s) = flatten[n]
  BY DEF FlattenSeq
<1>6. n = 0 => FlattenSeq(s) = <<>>
  BY DEF FlattenSeq
<1> HIDE DEF g, n
<1>7. PICK f : f \in MadeBy(n, EventSeq, <<>>, g)
  BY <1>1, <1>3, <1>4, Recursion
<1>8. f \in [0..n -> EventSeq] /\ f[0] = <<>>
  BY <1>7 DEF MadeBy
<1>9. ASSUME NEW i \in 1..n PROVE f[i] = f[i - 1] \o s[i]
  <2>1. f[i - 1] \in EventSeq
    BY <1>1, <1>8
  <2>2. QED
    BY <1>4, <1>7, <2>1 DEF MadeBy
<1> DEFINE h == [i \in 1..n |-> f[i]]
<1>10. h = [i \in 1..n |-> IF i = 1 THEN s[i] ELSE h[i - 1] \o s[i]]
  <2>1. ASSUME NEW i \in 1..n PROVE h[i] = IF i = 1 THEN s[i] ELSE h[i - 1] \o s[i]
    <3>1. CASE i = 1
      BY <1>1, <1>3, <1>8, <1>9, <3>1
    <3>2. CASE i # 1
      <4>1. i - 1 \in 1..n
        BY <1>1, <3>2
      <4>2. QED
        BY <1>9, <3>2, <4>1
    <3>3. QED
      BY <3>1, <3>2
  <2>2. QED
    BY <2>1
<1>11. flatten = [i \in 1..n |-> IF i = 1 THEN s[i] ELSE flatten[i - 1] \o s[i]]
  BY <1>10 DEF n
<1> HIDE DEF flatten, h
<1> DEFINE Same(i) == i = 0 \/ flatten[i] = f[i]
           T == {i \in 0..n : Same(i)}
<1>12. 0 \in T
  BY <1>1
<1>13. ASSUME NEW i \in 1..n, i - 1 \in T PROVE i \in T
  <2>1. i \in 0..n /\ Same(i - 1)
    BY <1>1, <1>13
  <2> HIDE DEF T
  <2>2. f[i] = f[i - 1] \o s[i]
    BY <1>9
  <2>3. CASE i = 1
    <3>0. i - 1 = 0
      BY <2>3
    <3>1. f[i] = <<>> \o s[i] /\ s[i] \in EventSeq
      BY <1>1, <1>8, <2>2, <3>0
    <3>2. flatten[i] = s[i]
      BY <1>11, <2>3
    <3>3. QED
      BY <1>3, <2>1, <2>3, <3>1, <3>2 DEF T
  <2>4. CASE i # 1
    <3>1. flatten[i - 1] = f[i - 1]
      BY <2>1, <2>4
    <3>2. flatten[i] = flatten[i - 1] \o s[i]
      BY <1>11, <2>4
    <3>3. QED
      BY <2>1, <2>2, <3>1, <3>2 DEF T
  <2>5. QED
    BY <2>3, <2>4
<1> HIDE DEF T
<1>14. n \in T
  <2>1. n \in 0..n
    BY <1>1
  <2>2. QED
    BY <1>1, <1>12, <1>13, <2>1, UpTo
<1>15. f[n] = FlattenSeq(s)
  BY <1>5, <1>6, <1>8, <1>14 DEF T
<1>16. Flattens(s, f)
  BY <1>8, <1>9, <1>15 DEF Flattens, n
<1>17. QED
  BY <1>16

LEMMA FlattenType ==
  ASSUME NEW s \in Seq(EventSeq)
  PROVE  FlattenSeq(s) \in EventSeq
<1>1. PICK m : Flattens(s, m)
  BY FlattenIs
<1>2. Len(s) \in 0..Len(s)
  OBVIOUS
<1>3. QED
  BY <1>1, <1>2 DEF Flattens

LEMMA FlattenAppend ==
  ASSUME NEW s \in Seq(EventSeq), NEW x \in EventSeq
  PROVE  FlattenSeq(Append(s, x)) = FlattenSeq(s) \o x
<1> DEFINE n == Len(s)
           new == Append(s, x)
<1>1. n \in Nat /\ new \in Seq(EventSeq) /\ Len(new) = n + 1 /\ new[n + 1] = x /\ \A i \in 1..n : new[i] = s[i]
  OBVIOUS
<1> HIDE DEF new
<1>2. PICK f : Flattens(s, f)
  BY FlattenIs
<1>3. PICK g : Flattens(new, g)
  BY <1>1, FlattenIs
<1> HIDE DEF n
<1>4. f[0] = <<>> /\ f[n] = FlattenSeq(s) /\ \A i \in 1..n : f[i] = f[i - 1] \o s[i]
  BY <1>2 DEF Flattens, n
<1>5. g[0] = <<>> /\ g[n + 1] = FlattenSeq(new) /\ \A i \in 1..n + 1 : g[i] = g[i - 1] \o new[i]
  BY <1>1, <1>3 DEF Flattens
<1> DEFINE T == {i \in 0..n : f[i] = g[i]}
<1>6. 0 \in T
  BY <1>1, <1>4, <1>5
<1>7. ASSUME NEW i \in 1..n, i - 1 \in T PROVE i \in T
  <2>1. i \in 0..n /\ i \in 1..n + 1 /\ new[i] = s[i]
    BY <1>1
  <2>2. QED
    BY <1>4, <1>5, <1>7, <2>1
<1> HIDE DEF T
<1>8. n \in T
  <2>1. n \in 0..n
    BY <1>1
  <2>2. QED
    BY <1>1, <1>6, <1>7, <2>1, UpTo
<1> DEFINE k == n + 1
<1>9. k \in 1..n + 1 /\ k - 1 = n /\ new[k] = x /\ g[k] = FlattenSeq(new)
  BY <1>1, <1>5
<1> HIDE DEF k
<1>10. g[k] = f[n] \o x
  <2>1. g[k] = g[k - 1] \o new[k]
    BY <1>5, <1>9
  <2>2. f[n] = g[n]
    BY <1>8 DEF T
  <2>3. QED
    BY <1>9, <2>1, <2>2
<1>11. QED
  BY <1>4, <1>9, <1>10 DEF new

\* All that was placed, and what it is placed in.
Whole(st) == FlattenSeq(st.rows) \o st.hidden

Hidden(e) == HideReason(e) # "shown"
AllHidden(row) == \A i \in DOMAIN row : Hidden(row[i])
RowOK(row) == (\E e \in Events : row = <<e>> /\ ~Hidden(e)) \/ AllHidden(row)
PlacedOK(st) == (\A r \in DOMAIN st.rows : RowOK(st.rows[r])) /\ AllHidden(st.hidden)

LEMMA RowSeqIs == \A s \in RowSeq : s \in Seq(EventSeq)
<1> SUFFICES ASSUME NEW s \in RowSeq PROVE s \in Seq(EventSeq)
  OBVIOUS
<1>1. s \in Seq(EventSeq \ {<<>>})
  BY DEF RowSeq
<1> HIDE DEF EventSeq
<1>2. QED
  BY <1>1

LEMMA FlushWhole ==
  ASSUME NEW st \in PlaceState
  PROVE  FlattenSeq(Flush(st).rows) = Whole(st) /\ (PlacedOK(st) => PlacedOK(Flush(st)))
<1>1. st.rows \in Seq(EventSeq) /\ st.hidden \in EventSeq /\ FlattenSeq(st.rows) \in EventSeq
  BY RowSeqIs, FlattenType DEF PlaceState
<1>2. CASE st.hidden = <<>>
  <2>1. Flush(st) = st /\ Whole(st) = FlattenSeq(st.rows)
    BY <1>1, <1>2 DEF Flush, Whole, EventSeq
  <2>2. QED
    BY <2>1
<1>3. CASE st.hidden # <<>>
  <2> DEFINE rows == Append(st.rows, st.hidden)
  <2>1. Flush(st) = [rows |-> rows, hidden |-> <<>>]
    BY <1>3 DEF Flush
  <2>2. FlattenSeq(rows) = Whole(st)
    BY <1>1, FlattenAppend DEF Whole
  <2>3. \A r \in DOMAIN rows : (r \in DOMAIN st.rows /\ rows[r] = st.rows[r]) \/ rows[r] = st.hidden
    BY <1>1
  <2> HIDE DEF rows
  <2>4. PlacedOK(st) => PlacedOK(Flush(st))
    <3>1. AllHidden(<<>>)
      BY DEF AllHidden
    <3>2. AllHidden(st.hidden) => RowOK(st.hidden)
      BY DEF RowOK
    <3>3. Flush(st).rows = rows /\ Flush(st).hidden = <<>>
      BY <2>1
    <3>4. QED
      BY <2>3, <3>1, <3>2, <3>3 DEF PlacedOK
  <2>5. QED
    BY <2>1, <2>2, <2>4
<1>4. QED
  BY <1>2, <1>3

LEMMA PlaceWhole ==
  ASSUME NEW st \in PlaceState, NEW e \in Events
  PROVE  Whole(Place(st, e)) = Append(Whole(st), e) /\ (PlacedOK(st) => PlacedOK(Place(st, e)))
<1>1. /\ st.rows \in Seq(EventSeq) /\ st.hidden \in EventSeq /\ FlattenSeq(st.rows) \in EventSeq
      /\ Whole(st) \in EventSeq
  <2>1. st.rows \in Seq(EventSeq) /\ st.hidden \in EventSeq /\ FlattenSeq(st.rows) \in EventSeq
    BY RowSeqIs, FlattenType DEF PlaceState
  <2>2. QED
    BY <2>1 DEF Whole, EventSeq
<1>2. CASE HideReason(e) = "shown"
  <2> DEFINE flushed == Flush(st).rows
             rows == Append(flushed, <<e>>)
  <2>1. Place(st, e) = [rows |-> rows, hidden |-> <<>>]
    BY <1>2 DEF Place
  <2>2. flushed \in Seq(EventSeq) /\ FlattenSeq(flushed) = Whole(st) /\ (PlacedOK(st) => PlacedOK(Flush(st)))
    BY FlushType, FlushWhole, RowSeqIs DEF PlaceState
  <2>3. \A r \in DOMAIN rows : (r \in DOMAIN flushed /\ rows[r] = flushed[r]) \/ rows[r] = <<e>>
    BY <2>2
  <2>4. <<e>> \in EventSeq
    BY DEF EventSeq
  <2> HIDE DEF flushed
  <2>5. FlattenSeq(rows) = Whole(st) \o <<e>>
    BY <2>2, <2>4, FlattenAppend
  <2> HIDE DEF rows
  <2>6. Whole(Place(st, e)) = Append(Whole(st), e)
    <3>1. Whole(Place(st, e)) = FlattenSeq(rows) \o <<>>
      BY <2>1 DEF Whole
    <3>2. \A w \in EventSeq : (w \o <<e>>) \o <<>> = Append(w, e)
      BY DEF EventSeq
    <3>3. QED
      BY <1>1, <2>5, <3>1, <3>2
  <2>7. PlacedOK(st) => PlacedOK(Place(st, e))
    <3>1. AllHidden(<<>>)
      BY DEF AllHidden
    <3>2. RowOK(<<e>>)
      BY <1>2 DEF RowOK, Hidden
    <3>3. Place(st, e).rows = rows /\ Place(st, e).hidden = <<>>
      BY <2>1
    <3>4. PlacedOK(st) => \A r \in DOMAIN flushed : RowOK(flushed[r])
      BY <2>2 DEF PlacedOK, flushed
    <3>5. QED
      BY <2>3, <3>1, <3>2, <3>3, <3>4 DEF PlacedOK
  <2>8. QED
    BY <2>6, <2>7
<1>3. CASE HideReason(e) # "shown"
  <2> DEFINE hidden == Append(st.hidden, e)
  <2>1. Place(st, e) = [rows |-> st.rows, hidden |-> hidden]
    BY <1>3 DEF Place, PlaceState
  <2>2. \A i \in DOMAIN hidden : (i \in DOMAIN st.hidden /\ hidden[i] = st.hidden[i]) \/ hidden[i] = e
    BY <1>1 DEF EventSeq
  <2>3. FlattenSeq(st.rows) \o hidden = Append(FlattenSeq(st.rows) \o st.hidden, e)
    <3>1. \A x, y \in EventSeq : x \o Append(y, e) = Append(x \o y, e)
      BY DEF EventSeq
    <3>2. QED
      BY <1>1, <3>1
  <2> HIDE DEF hidden
  <2>4. Place(st, e).rows = st.rows /\ Place(st, e).hidden = hidden
    BY <2>1
  <2>5. AllHidden(st.hidden) => AllHidden(hidden)
    BY <1>3, <2>2 DEF AllHidden, Hidden
  <2>6. QED
    BY <2>3, <2>4, <2>5 DEF Whole, PlacedOK
<1>4. QED
  BY <1>2, <1>3

LEMMA VisibleIs ==
  ASSUME events \in EventSeq
  PROVE  /\ FlattenSeq(visibleEvents) = mergedEvents
         /\ visibleEvents \in RowSeq /\ \A r \in DOMAIN visibleEvents : RowOK(visibleEvents[r])
<1> DEFINE merged == mergedEvents
           n == Len(merged)
<1>1. merged \in EventSeq /\ visibleEvents \in RowSeq
  BY RowsAreEvents
<1>2. n \in Nat /\ \A i \in 1..n : merged[i] \in Events
  BY <1>1 DEF EventSeq
<1>3. PICK m \in [0..n -> PlaceState] :
           /\ m[0] = NothingPlaced
           /\ \A i \in 1..n : m[i] = Place(m[i - 1], merged[i])
           /\ Placed = m[n]
  BY <1>1, PlacedIs
<1> DEFINE Begins(w, i) == w \in EventSeq /\ Len(w) = i /\ \A j \in 1..i : w[j] = merged[j]
           T == {i \in 0..n : PlacedOK(m[i]) /\ Begins(Whole(m[i]), i)}
<1>4. ASSUME NEW w, NEW i \in 1..n, Begins(w, i - 1) PROVE Begins(Append(w, merged[i]), i)
  <2>1. w \in EventSeq /\ Len(w) = i - 1 /\ merged[i] \in Events
    BY <1>2, <1>4
  <2>2. /\ Append(w, merged[i]) \in EventSeq /\ Len(Append(w, merged[i])) = i
        /\ Append(w, merged[i])[i] = merged[i] /\ \A j \in 1..i - 1 : Append(w, merged[i])[j] = w[j]
    BY <2>1 DEF EventSeq
  <2>3. \A j \in 1..i : j = i \/ j \in 1..i - 1
    OBVIOUS
  <2>4. QED
    BY <1>4, <2>2, <2>3
<1>5. Begins(<<>>, 0)
  BY DEF EventSeq
<1> HIDE DEF merged, n, Begins
<1>6. 0 \in T
  <2>1. Whole(NothingPlaced) = <<>>
    <3>1. FlattenSeq(<<>>) = <<>>
      BY DEF FlattenSeq
    <3>2. QED
      BY <3>1 DEF Whole, NothingPlaced
  <2>2. PlacedOK(NothingPlaced)
    BY DEF NothingPlaced, PlacedOK, AllHidden
  <2>3. 0 \in 0..n
    BY <1>2
  <2>4. QED
    BY <1>3, <1>5, <2>1, <2>2, <2>3
<1>7. ASSUME NEW i \in 1..n, i - 1 \in T PROVE i \in T
  <2>1. /\ i \in 0..n /\ m[i - 1] \in PlaceState /\ m[i] = Place(m[i - 1], merged[i]) /\ merged[i] \in Events
        /\ PlacedOK(m[i - 1]) /\ Begins(Whole(m[i - 1]), i - 1)
    BY <1>2, <1>3, <1>7
  <2>2. Whole(m[i]) = Append(Whole(m[i - 1]), merged[i]) /\ PlacedOK(m[i])
    BY <2>1, PlaceWhole
  <2>3. QED
    BY <1>4, <2>1, <2>2
<1> HIDE DEF T
<1>8. n \in T
  <2>1. n \in 0..n
    BY <1>2
  <2>2. QED
    BY <1>2, <1>6, <1>7, <2>1, UpTo
<1>9. PlacedOK(Placed) /\ Begins(Whole(Placed), n) /\ Placed \in PlaceState
  BY <1>3, <1>8, RowsAreEvents DEF T
<1>10. FlattenSeq(visibleEvents) = Whole(Placed) /\ PlacedOK(Flush(Placed))
  BY <1>9, FlushWhole DEF visibleEvents
<1>11. \A w : Begins(w, n) => w = merged
  BY <1>1, <1>2 DEF Begins, EventSeq, n
<1>12. FlattenSeq(visibleEvents) = mergedEvents
  BY <1>9, <1>10, <1>11 DEF merged
<1>13. QED
  BY <1>1, <1>10, <1>12 DEF PlacedOK, visibleEvents

\* What is in a row of the log view: one event that is shown, or hidden ones.
LEMMA ShownAndBlocks ==
  ASSUME events \in EventSeq
  PROVE  /\ \A e \in Shown : ~Hidden(e) /\ e \in Events
         /\ \A block \in Blocks : block \in EventSeq \ {<<>>} /\ AllHidden(block)
<1> DEFINE rows == visibleEvents
<1>1. \A row \in Range(rows) : row \in EventSeq \ {<<>>} /\ RowOK(row)
  <2>1. rows \in Seq(EventSeq \ {<<>>}) /\ \A r \in DOMAIN rows : RowOK(rows[r])
    BY VisibleIs DEF RowSeq
  <2> HIDE DEF rows, EventSeq
  <2>2. \A r \in DOMAIN rows : rows[r] \in EventSeq \ {<<>>}
    BY <2>1
  <2>3. QED
    BY <2>1, <2>2 DEF Range
<1> HIDE DEF rows
<1>2. ASSUME NEW row \in Range(rows)
      PROVE  1 \in DOMAIN row /\ row[1] \in Events /\ (Hidden(row[1]) => AllHidden(row))
  <2>1. row \in EventSeq /\ row # <<>>
    BY <1>1
  <2>2. 1 \in DOMAIN row /\ row[1] \in Events
    BY <2>1 DEF EventSeq
  <2>3. \A e : row = <<e>> => row[1] = e
    OBVIOUS
  <2>4. QED
    BY <1>1, <2>2, <2>3 DEF RowOK
<1>3. QED
  BY <1>1, <1>2 DEF Shown, Blocks, IsBlock, Hidden, rows

-----------------------------------------------------------------------------
(* What a click does.                                                       *)

LEMMA NoneCounted ==
  ASSUME NEW block \in EventSeq, NEW reason, CountOf(block, reason) = 0, NEW i \in DOMAIN block
  PROVE  HideReason(block[i]) # reason
<1> DEFINE S == {j \in DOMAIN block : HideReason(block[j]) = reason}
<1>1. IsFiniteSet(DOMAIN block)
  <2>1. Len(block) \in Nat /\ DOMAIN block = 1..Len(block)
    BY DEF EventSeq
  <2>2. QED
    BY <2>1, FS_Interval
<1>2. IsFiniteSet(S)
  BY <1>1, FS_Subset
<1>3. Cardinality(S) = 0
  BY DEF CountOf
<1> HIDE DEF S
<1>4. S = {}
  BY <1>2, <1>3, FS_EmptySet
<1>5. QED
  BY <1>4 DEF S

\* What is hidden by the level alone is below it.
LEMMA BlockBelow ==
  ASSUME minLogLevel \in Nat, NEW block \in EventSeq, block # <<>>, AllHidden(block), CountOf(block, "depth") = 0
  PROVE  BlockLevel(block) < minLogLevel
<1> DEFINE levels == {e.level : e \in Range(block)}
           s == [i \in DOMAIN block |-> block[i].level]
<1>1. ASSUME NEW i \in DOMAIN block PROVE block[i].level \in Nat /\ block[i].level < minLogLevel
  <2>1. block[i] \in Events
    BY DEF EventSeq
  <2>2. block[i].level \in Levels /\ Levels \subseteq Nat
    BY <2>1, TimelineAssumption
  <2>3. HideReason(block[i]) # "depth" /\ HideReason(block[i]) # "shown"
    BY NoneCounted DEF AllHidden, Hidden
  <2>4. QED
    BY <2>2, <2>3 DEF HideReason
<1>2. 1 \in DOMAIN block
  BY DEF EventSeq
<1>3. levels \in SUBSET Nat /\ levels # {} /\ \A l \in levels : l <= minLogLevel /\ l < minLogLevel
  BY <1>1, <1>2 DEF Range
<1> HIDE DEF levels
<1>4. Greatest(levels) \in levels
  BY <1>3, GreatestIs
<1>5. QED
  BY <1>3, <1>4 DEF BlockLevel, levels

LEMMA ExpandShows ==
  ASSUME Types, NEW block \in Blocks, Expand(block),
         CountOf(block, "depth") = 0 \/ CountOf(block, "depth") >= CountOf(block, "level"),
         NEW e \in Shown
  PROVE  e.level >= minLogLevel' /\ e.depth <= maxDepth'
<1>1. minLogLevel \in Nat /\ maxDepth \in Nat /\ events \in EventSeq
  BY TimelineAssumption DEF Types
<1>2. e.level \in Nat /\ e.depth \in Nat /\ e.level >= minLogLevel /\ e.depth <= maxDepth
  <2>1. e \in Events /\ HideReason(e) = "shown"
    BY <1>1, ShownAndBlocks DEF Hidden
  <2>2. e.level \in Levels /\ Levels \subseteq Nat /\ e.depth \in Nat
    BY <2>1, TimelineAssumption
  <2>3. e.level \in Nat
    BY <2>2
  <2>4. ~(e.level < minLogLevel) /\ ~(e.depth > maxDepth)
    BY <2>1 DEF HideReason
  <2>5. QED
    BY <1>1, <2>2, <2>3, <2>4
<1>3. block \in EventSeq /\ block # <<>> /\ AllHidden(block)
  BY <1>1, ShownAndBlocks
<1>4. CASE CountOf(block, "depth") > 0 /\ CountOf(block, "depth") >= CountOf(block, "level")
  BY <1>1, <1>2, <1>4 DEF Expand, Opened
<1>5. CASE CountOf(block, "depth") = 0
  <2>1. BlockLevel(block) \in Nat /\ BlockLevel(block) < minLogLevel
    <3>1. BlockLevel(block) \in Levels /\ Levels \subseteq Nat
      BY <1>3, LevelOfBlock, TimelineAssumption
    <3>2. QED
      BY <1>1, <1>3, <1>5, <3>1, BlockBelow
  <2>2. minLogLevel' = BlockLevel(block) /\ maxDepth' = maxDepth
    BY <1>5 DEF Expand, Opened
  <2>3. QED
    BY <1>1, <1>2, <2>1, <2>2
<1>6. CountOf(block, "depth") \in Nat
  <2> DEFINE S == {j \in DOMAIN block : HideReason(block[j]) = "depth"}
  <2>1. IsFiniteSet(DOMAIN block)
    <3>1. Len(block) \in Nat /\ DOMAIN block = 1..Len(block)
      BY <1>3 DEF EventSeq
    <3>2. QED
      BY <3>1, FS_Interval
  <2>2. IsFiniteSet(S)
    BY <2>1, FS_Subset
  <2>3. QED
    BY <2>2, FS_CardinalityType DEF CountOf
<1>7. QED
  BY <1>4, <1>5, <1>6

\* Opening a block of the log view hides nothing that is shown.
THEOREM ExpandsWithoutHiding == PageSpec => ExpandNeverHides
<1> DEFINE Step == \A block \in Blocks :
                     Expand(block) /\ (CountOf(block, "depth") = 0 \/ CountOf(block, "depth") >= CountOf(block, "level"))
                       => \A e \in Shown : e.level >= minLogLevel' /\ e.depth <= maxDepth'
<1>1. IInv => [Step]_vars
  BY ExpandShows DEF IInv
<1>2. QED
  BY <1>1, PageInvariant, PTL DEF ExpandNeverHides

\* While the graph stays, only a click changes what is chosen once the user has.
LEMMA ChosenStays ==
  ASSUME ViewsInv, PageNext, GraphIsOpen, GraphIsOpen', touched, clicks' = clicks
  PROVE  chosen' = chosen
<1>1. initialized
  BY DEF ViewsInv, GraphInv
<1>2. CASE GraphFollows
  BY <1>1, <1>2 DEF GraphFollows, Initializes
<1>3. ~Ticks
  <2>1. clicks \in Nat
    BY DEF ViewsInv, IInv, Types
  <2>2. QED
    BY <2>1 DEF Ticks, Clicks
<1>4. QED
  BY <1>2, <1>3 DEF PageNext, Follow, toggleContext, ToggleAll

\* What a parent holds is gone with it.
LEMMA DeselectedIsGone ==
  ASSUME NEW parent, "all" \notin chosen, NEW new, new = Deselected(parent), new # {},
         NEW a \in universeQuads(events, new)
  PROVE  ParentOf(events[a].graph) # parent
<1> DEFINE ctx == events[a].graph
<1>1. "all" \notin new /\ parent \notin new /\ new \intersect Children(parent) = {}
  BY DEF Deselected
<1>2. a \in Quads(events) /\ matchesSelection(ctx, new)
  BY <1>1 DEF universeQuads
<1>3. ctx \in ContextsOf(events)
  BY <1>2 DEF ContextsOf
<1>4. CASE ParentOf(ctx) \in new
  BY <1>1, <1>4
<1>5. CASE ctx \in new
  BY <1>1, <1>3, <1>5 DEF ParentOf, Children
<1>6. QED
  BY <1>2, <1>4, <1>5 DEF matchesSelection

\* A click on a row brings the page to where the row is.
LEMMA RowIsReached ==
  ASSUME ViewsInv, InOrder, NEW row \in Range(content.rows), SelectDocumentRow(row),
         First(row.id).ts = row.ts
  PROVE  /\ ~RowIsFuture(row, currentTime')
         /\ CanBeActive(First(row.id)) => ActiveAt(currentTime').ts = row.ts
<1> DEFINE T == {i \in DOMAIN events : events[i].id = row.id}
           a == Least(T)
           t == currentTime'
<1>1. OrderedRun
  BY OrderedIs
<1>2. content \in Document /\ RowsOf(content)
  BY <1>1, RowsAreOfEvents DEF OrderedRun
<1>3. T \in SUBSET Nat /\ T # {}
  <2>1. T \in SUBSET Nat
    BY <1>1 DEF OrderedRun
  <2>2. PICK i \in DOMAIN events : events[i].id = row.id
    BY <1>2 DEF RowsOf, RowOf, Range
  <2>3. QED
    BY <2>1, <2>2
<1>4. a \in T
  <2> HIDE DEF T
  <2>1. QED
    BY <1>3, LeastIs
<1>5. First(row.id) = events[a]
  BY DEF First
<1> HIDE DEF a
<1>6. a \in DOMAIN events /\ events[a].id = row.id /\ events[a].ts = row.ts
  BY <1>4, <1>5
<1>7. events[a].ts \in Nat /\ startTime <= events[a].ts /\ startTime \in Nat /\ startTime = events[1].ts /\ startTime # NoTime
  BY <1>1, <1>6 DEF OrderedRun, NoTime
<1>8. t = events[a].ts - startTime
  <2>1. t = IF events[a].ts > startTime THEN events[a].ts - startTime ELSE 0
    BY <1>5, <1>7 DEF SelectDocumentRow
  <2>2. QED
    BY <1>7, <2>1
<1>9. NowAt(t) = events[a].ts
  <2>1. NowAt(t) = t + startTime
    BY <1>7 DEF NowAt
  <2>2. QED
    BY <1>7, <1>8, <2>1
<1>10. ~RowIsFuture(row, t)
  <2>1. rawTime(row) = t
    BY <1>6, <1>7, <1>8 DEF rawTime
  <2>2. t \in Int
    BY <1>7, <1>8
  <2>3. QED
    BY <2>1, <2>2 DEF RowIsFuture
<1>11. ASSUME CanBeActive(First(row.id)) PROVE ActiveAt(t).ts = row.ts
  <2> DEFINE now == NowAt(t)
             active == ActiveAt(t)
  <2>1. active # None /\ active.ts \in Nat /\ events[a].ts <= active.ts
    <3>1. events[a].ts <= NowAt(t)
      BY <1>7, <1>9
    <3>2. CanBeActive(events[a])
      BY <1>5, <1>11
    <3>3. \E r \in Range(content.rows) : r.id = events[a].id
      BY <1>6
    <3> HIDE DEF t
    <3>4. QED
      BY <1>1, <1>6, <3>1, <3>2, <3>3, ActiveIs
  <2>2. active.ts <= now
    <3> HIDE DEF t
    <3>1. QED
      BY <1>1, <2>1, ActiveIsPast
  <2> HIDE DEF t, now, active
  <2>3. active.ts = events[a].ts
    BY <1>7, <1>9, <2>1, <2>2 DEF now
  <2>4. QED
    BY <1>6, <2>3 DEF active
<1>12. QED
  BY <1>10, <1>11

\* Opening a block hides nothing; what the user has chosen stays, and what is
\* unticked goes with its family; and a click on a row brings the page to it.
THEOREM ClicksAlwaysObeyed == PageSpec => ClicksAreObeyed
<1> DEFINE Chosen == GraphIsOpen /\ GraphIsOpen' /\ touched /\ clicks' = clicks => chosen' = chosen
           Unticks == \A parent \in Parents :
             toggleContext(parent) /\ parent \in chosen /\ chosen' # {} =>
               \A i \in universeQuads(events, chosen') : ParentOf(events[i].graph) # parent
           Reaches == \A row \in Range(content.rows) :
             SelectDocumentRow(row) /\ InOrder /\ First(row.id).ts = row.ts =>
               /\ ~RowIsFuture(row, currentTime')
               /\ CanBeActive(First(row.id)) => ActiveAt(currentTime').ts = row.ts
<1>1. ASSUME ViewsInv, PageNext PROVE Chosen
  BY <1>1, ChosenStays
<1>2. Unticks
  BY DeselectedIsGone DEF toggleContext
<1>3. ASSUME ViewsInv PROVE Reaches
  BY <1>3, RowIsReached
<1>4. ViewsInv /\ [PageNext]_page => [Chosen /\ Unticks /\ Reaches]_page
  <2> HIDE DEF Chosen, Unticks, Reaches
  <2>1. QED
    BY <1>1, <1>2, <1>3
<1>5. PageSpec => ExpandNeverHides
  BY ExpandsWithoutHiding
<1>6. QED
  BY <1>4, <1>5, ViewsInvariant, PTL DEF ClicksAreObeyed, PageSpec

-----------------------------------------------------------------------------
(* The merged events tell the moment.                                       *)

FirstOf(rows, id, p) ==
  p \in DOMAIN rows /\ rows[p].id = id /\ \A q \in DOMAIN rows : rows[q].id = id => p <= q

ReplacedAt(rows, new, p, e) ==
  DOMAIN new = DOMAIN rows /\ new[p] = e /\ \A q \in DOMAIN rows : q # p => new[q] = rows[q]

AddedTo(rows, new, e) ==
  /\ Len(rows) + 1 \in DOMAIN new /\ Len(rows) + 1 \notin DOMAIN rows /\ new[Len(rows) + 1] = e
  /\ \A q \in DOMAIN rows : q \in DOMAIN new /\ new[q] = rows[q]
  /\ \A q \in DOMAIN new : q \in DOMAIN rows \/ q = Len(rows) + 1

LEMMA FirstExists ==
  ASSUME NEW rows \in EventSeq, NEW q \in DOMAIN rows
  PROVE  \E p : FirstOf(rows, rows[q].id, p)
<1> DEFINE same == {i \in DOMAIN rows : rows[i].id = rows[q].id}
<1>1. same \in SUBSET Nat /\ same # {}
  BY DEF EventSeq
<1>2. Least(same) \in same /\ \A y \in same : Least(same) <= y
  <2> HIDE DEF same
  <2>1. QED
    BY <1>1, LeastIs
<1>3. FirstOf(rows, rows[q].id, Least(same))
  BY <1>2 DEF FirstOf
<1>4. QED
  BY <1>3

\* A merge replaces the first row of the step or adds one.
Merges(rows, e, new) ==
  \/ \E p : FirstOf(rows, e.id, p) /\ e.kind = "lifecycle" /\ Replaces(rows[p], e) /\ ReplacedAt(rows, new, p, e)
  \/ /\ AddedTo(rows, new, e)
     /\ \A p : FirstOf(rows, e.id, p) /\ e.kind = "lifecycle" => ~Replaces(rows[p], e)

LEMMA MergeIs ==
  ASSUME NEW rows \in EventSeq, NEW e \in Events
  PROVE  Merges(rows, e, Merge(rows, e))
<1> DEFINE same == {i \in DOMAIN rows : rows[i].id = e.id}
           new == Merge(rows, e)
           a == Least(same)
<1>1. same \in SUBSET Nat
  BY DEF EventSeq
<1>2. new = IF e.kind = "lifecycle" /\ same # {} /\ Replaces(rows[a], e)
            THEN [rows EXCEPT ![a] = e] ELSE Append(rows, e)
  BY DEF Merge
<1>3. same # {} => FirstOf(rows, e.id, a)
  <2> SUFFICES ASSUME same # {} PROVE FirstOf(rows, e.id, a)
    OBVIOUS
  <2>1. a \in same /\ \A y \in same : a <= y
    <3> HIDE DEF same
    <3>1. QED
      BY <1>1, LeastIs
  <2> HIDE DEF a
  <2>2. QED
    BY <2>1 DEF FirstOf
<1>4. \A p : FirstOf(rows, e.id, p) => same # {} /\ p = a
  <2> SUFFICES ASSUME NEW p, FirstOf(rows, e.id, p) PROVE same # {} /\ p = a
    OBVIOUS
  <2>1. p \in same
    BY DEF FirstOf
  <2>2. FirstOf(rows, e.id, a)
    BY <1>3, <2>1
  <2> HIDE DEF a, same
  <2>3. p \in Nat /\ a \in Nat
    BY <1>1, <2>1, <2>2 DEF FirstOf, EventSeq
  <2>4. p <= a /\ a <= p
    BY <2>2 DEF FirstOf
  <2>5. QED
    BY <2>1, <2>3, <2>4
<1>5. a \in DOMAIN rows => ReplacedAt(rows, [rows EXCEPT ![a] = e], a, e)
  BY DEF ReplacedAt
<1>6. AddedTo(rows, Append(rows, e), e)
  <2>1. Len(rows) \in Nat /\ DOMAIN rows = 1..Len(rows)
    BY DEF EventSeq
  <2>2. DOMAIN Append(rows, e) = 1..Len(rows) + 1 /\ Append(rows, e)[Len(rows) + 1] = e
        /\ \A q \in 1..Len(rows) : Append(rows, e)[q] = rows[q]
    BY DEF EventSeq
  <2>3. QED
    BY <2>1, <2>2 DEF AddedTo
<1> HIDE DEF same, new, a
<1>7. CASE e.kind = "lifecycle" /\ same # {} /\ Replaces(rows[a], e)
  BY <1>2, <1>3, <1>5, <1>7 DEF Merges, FirstOf, new
<1>8. CASE ~(e.kind = "lifecycle" /\ same # {} /\ Replaces(rows[a], e))
  BY <1>2, <1>4, <1>6, <1>8 DEF Merges, new
<1>9. QED
  BY <1>7, <1>8

\* The rows after k events: a step's first row is a report, and what is gone was
\* replaced by a later report.
StepsFirst(rows) ==
  \A q \in DOMAIN rows, j \in DOMAIN events :
    OfStep(events[j], rows[q].id) => \E p \in DOMAIN rows : p <= q /\ OfStep(rows[p], rows[q].id)

StepsThere(rows, k) ==
  \A i \in 1..k : events[i].kind = "lifecycle" => \E q \in DOMAIN rows : OfStep(rows[q], events[i].id)

NothingLost(rows, k) ==
  \A i \in 1..k : \/ \E q \in DOMAIN rows : rows[q] = events[i]
                  \/ events[i].kind = "lifecycle" /\ \E j \in i + 1..k : events[j].id = events[i].id

MergedInv(rows, k) == Len(rows) <= k /\ StepsFirst(rows) /\ StepsThere(rows, k) /\ NothingLost(rows, k)

LEMMA FirstIsReport ==
  ASSUME NEW rows \in EventSeq, StepsFirst(rows), NEW id, NEW p, FirstOf(rows, id, p),
         NEW j \in DOMAIN events, OfStep(events[j], id)
  PROVE  OfStep(rows[p], id)
<1>1. p \in DOMAIN rows /\ rows[p].id = id /\ p \in Nat
  BY DEF FirstOf, EventSeq
<1>2. PICK q \in DOMAIN rows : q <= p /\ OfStep(rows[q], id)
  BY <1>1 DEF StepsFirst
<1>3. p <= q /\ q \in Nat
  BY <1>2 DEF FirstOf, OfStep, EventSeq
<1>4. QED
  BY <1>1, <1>2, <1>3

LEMMA MergedStep ==
  ASSUME events \in EventSeq, TellsRun(events), NEW k \in DOMAIN events,
         NEW rows \in EventSeq, MergedInv(rows, k - 1),
         NEW new \in EventSeq, Merges(rows, events[k], new)
  PROVE  MergedInv(new, k)
<1> DEFINE e == events[k]
<1>1. k \in Nat \ {0} /\ DOMAIN events = 1..Len(events) /\ Len(events) \in Nat /\ k <= Len(events)
  BY DEF EventSeq
<1>2. \A i \in 1..k : i \in 1..k - 1 \/ i = k
  BY <1>1
<1>3. Len(rows) <= k - 1 /\ StepsFirst(rows) /\ StepsThere(rows, k - 1) /\ NothingLost(rows, k - 1)
  BY DEF MergedInv
<1>4. DOMAIN rows = 1..Len(rows) /\ Len(rows) \in Nat /\ DOMAIN new = 1..Len(new) /\ Len(new) \in Nat
  BY DEF EventSeq
<1>5. \A i \in 1..k - 1 : \A j \in i + 1..k - 1 : j \in i + 1..k
  BY <1>1
<1>6. \A i \in 1..k - 1 : k \in i + 1..k
  BY <1>1
<1>7. ASSUME NEW p, FirstOf(rows, e.id, p), e.kind = "lifecycle", ReplacedAt(rows, new, p, e)
      PROVE  MergedInv(new, k)
  <2> HIDE DEF e
  <2>1. p \in DOMAIN rows /\ rows[p].id = e.id /\ DOMAIN new = DOMAIN rows /\ new[p] = e
        /\ \A q \in DOMAIN rows : q # p => new[q] = rows[q]
    BY <1>7 DEF FirstOf, ReplacedAt
  <2>2. \A q \in DOMAIN rows : \A id : OfStep(rows[q], id) => OfStep(new[q], id)
    BY <1>7, <2>1 DEF OfStep
  <2>3. \A q \in DOMAIN rows : new[q].id = rows[q].id
    BY <2>1
  <2>4. OfStep(rows[p], e.id)
    BY <1>3, <1>7, FirstIsReport DEF OfStep, e
  <2>5. Len(new) <= k
    BY <1>1, <1>3, <1>4, <2>1
  <2>6. StepsFirst(new)
    BY <1>3, <2>1, <2>2, <2>3 DEF StepsFirst
  <2>7. StepsThere(new, k)
    BY <1>2, <1>3, <2>1, <2>2, <2>4 DEF StepsThere, e
  <2>8. ASSUME NEW i \in 1..k
        PROVE  \/ \E q \in DOMAIN new : new[q] = events[i]
               \/ events[i].kind = "lifecycle" /\ \E j \in i + 1..k : events[j].id = events[i].id
    <3>1. CASE i = k
      BY <2>1, <3>1 DEF e
    <3>2. CASE i \in 1..k - 1
      <4>1. CASE \E q \in DOMAIN rows : rows[q] = events[i]
        <5>1. PICK q \in DOMAIN rows : rows[q] = events[i]
          BY <4>1
        <5>2. CASE q = p
          <6>1. events[i].kind = "lifecycle" /\ events[k].id = events[i].id
            BY <2>1, <2>4, <5>1, <5>2 DEF OfStep, e
          <6>2. QED
            BY <1>6, <3>2, <6>1
        <5>3. QED
          BY <2>1, <5>1, <5>2
      <4>2. CASE events[i].kind = "lifecycle" /\ \E j \in i + 1..k - 1 : events[j].id = events[i].id
        BY <1>5, <3>2, <4>2
      <4>3. QED
        BY <1>3, <3>2, <4>1, <4>2 DEF NothingLost
    <3>3. QED
      BY <1>2, <3>1, <3>2
  <2>9. QED
    BY <2>5, <2>6, <2>7, <2>8 DEF MergedInv, NothingLost
<1>8. ASSUME AddedTo(rows, new, e) PROVE MergedInv(new, k)
  <2> DEFINE n == Len(rows) + 1
  <2>1. n \in DOMAIN new /\ new[n] = e /\ (\A q \in DOMAIN rows : q \in DOMAIN new /\ new[q] = rows[q])
        /\ \A q \in DOMAIN new : q \in DOMAIN rows \/ q = n
    BY <1>8 DEF AddedTo
  <2>2. n \in Nat /\ \A q \in DOMAIN rows : q \in Nat /\ q <= n
    BY <1>4
  <2>3. Len(new) <= k
    <3>1. Len(new) \in DOMAIN new \/ Len(new) = 0
      BY <1>4
    <3>2. Len(new) <= Len(rows) + 1
      BY <1>4, <2>1, <3>1
    <3>3. QED
      BY <1>1, <1>3, <1>4, <3>2
  <2> HIDE DEF n, e
  <2>4. ASSUME NEW j \in DOMAIN events, OfStep(events[j], e.id)
        PROVE  \E p \in DOMAIN new : p <= n /\ OfStep(new[p], e.id)
    <3>1. CASE e.kind = "lifecycle"
      BY <2>1, <2>2, <3>1 DEF OfStep
    <3>2. CASE e.kind # "lifecycle"
      <4>1. \E i \in 1..k - 1 : OfStep(events[i], e.id)
        <5>1. \E i \in DOMAIN events : i <= k /\ OfStep(events[i], e.id)
          <6>1. CASE k < j
            BY <2>4, <6>1 DEF TellsRun, e
          <6>2. CASE ~(k < j)
            <7>1. j <= k
              BY <1>1, <6>2
            <7>2. QED
              BY <2>4, <7>1
          <6>3. QED
            BY <6>1, <6>2
        <5>2. PICK i \in DOMAIN events : i <= k /\ OfStep(events[i], e.id)
          BY <5>1
        <5>3. i # k
          BY <3>2, <5>2 DEF OfStep, e
        <5>4. i \in 1..k - 1
          BY <1>1, <5>2, <5>3
        <5>5. QED
          BY <5>2, <5>4
      <4>2. PICK i \in 1..k - 1 : OfStep(events[i], e.id)
        BY <4>1
      <4>3. PICK q \in DOMAIN rows : OfStep(rows[q], e.id)
        BY <1>3, <4>2 DEF StepsThere, OfStep
      <4>4. QED
        BY <2>1, <2>2, <4>3
    <3>3. QED
      BY <3>1, <3>2
  <2>5. StepsFirst(new)
    <3> SUFFICES ASSUME NEW q \in DOMAIN new, NEW j \in DOMAIN events, OfStep(events[j], new[q].id)
                 PROVE  \E p \in DOMAIN new : p <= q /\ OfStep(new[p], new[q].id)
      BY DEF StepsFirst
    <3>1. CASE q = n
      BY <2>1, <2>4, <3>1
    <3>2. CASE q \in DOMAIN rows
      <4>1. PICK p \in DOMAIN rows : p <= q /\ OfStep(rows[p], rows[q].id)
        BY <1>3, <2>1, <3>2 DEF StepsFirst
      <4>2. QED
        BY <2>1, <3>2, <4>1
    <3>3. QED
      BY <2>1, <3>1, <3>2
  <2>6. StepsThere(new, k)
    <3> SUFFICES ASSUME NEW i \in 1..k, events[i].kind = "lifecycle"
                 PROVE  \E q \in DOMAIN new : OfStep(new[q], events[i].id)
      BY DEF StepsThere
    <3>1. CASE i = k
      BY <2>1, <3>1 DEF OfStep, e
    <3>2. CASE i \in 1..k - 1
      BY <1>3, <2>1, <3>2 DEF StepsThere
    <3>3. QED
      BY <1>2, <3>1, <3>2
  <2>7. NothingLost(new, k)
    <3> SUFFICES ASSUME NEW i \in 1..k
                 PROVE  \/ \E q \in DOMAIN new : new[q] = events[i]
                        \/ events[i].kind = "lifecycle" /\ \E j \in i + 1..k : events[j].id = events[i].id
      BY DEF NothingLost
    <3>1. CASE i = k
      BY <2>1, <3>1 DEF e
    <3>2. CASE i \in 1..k - 1
      BY <1>3, <1>5, <2>1, <3>2 DEF NothingLost
    <3>3. QED
      BY <1>2, <3>1, <3>2
  <2>8. QED
    BY <2>3, <2>5, <2>6, <2>7 DEF MergedInv
<1>9. QED
  BY <1>7, <1>8 DEF Merges

\* A step that ran once has at most one start, and an end after it.
LEMMA OnceStages ==
  ASSUME events \in EventSeq, NEW id, RunOnce(id),
         NEW i \in DOMAIN events, NEW j \in DOMAIN events, OfStep(events[i], id), OfStep(events[j], id),
         events[i].stage = events[j].stage
  PROVE  i = j
<1> SUFFICES ASSUME i # j PROVE FALSE
  OBVIOUS
<1> DEFINE S == Reported(id, events[i].stage)
<1>1. events[i].stage \in {"start", "end"}
  BY TimelineAssumption DEF OfStep, EventSeq
<1>2. {i, j} \subseteq S
  BY DEF Reported, OfStep
<1>3. IsFiniteSet(S)
  <2>1. Len(events) \in Nat /\ DOMAIN events = 1..Len(events)
    BY DEF EventSeq
  <2>2. IsFiniteSet(DOMAIN events) /\ S \subseteq DOMAIN events
    BY <2>1, FS_Interval DEF Reported
  <2>3. QED
    BY <2>2, FS_Subset
<1>4. Cardinality(S) <= 1
  BY <1>1 DEF RunOnce
<1> HIDE DEF S
<1>5. Cardinality({i, j}) <= Cardinality(S) /\ Cardinality(S) \in Nat
  BY <1>2, <1>3, FS_Subset, FS_CardinalityType
<1>6. Cardinality({i, j}) = 2
  <2> DEFINE J == {j}
  <2>1. IsFiniteSet(J) /\ Cardinality(J) = 1
    BY FS_Singleton
  <2>2. i \notin J /\ J \union {i} = {i, j}
    OBVIOUS
  <2> HIDE DEF J
  <2>3. Cardinality(J \union {i}) = Cardinality(J) + 1
    BY <2>1, <2>2, FS_AddElement
  <2>4. QED
    BY <2>1, <2>2, <2>3
<1>7. QED
  BY <1>4, <1>5, <1>6

LEMMA OnceInTurn ==
  ASSUME events \in EventSeq, TellsRun(events), NEW id, RunOnce(id),
         NEW i \in DOMAIN events, NEW j \in DOMAIN events, i < j, OfStep(events[i], id), OfStep(events[j], id)
  PROVE  events[i].stage = "start" /\ events[j].stage = "end"
<1>1. i \in Nat /\ j \in Nat /\ i # j
  BY DEF EventSeq
<1>2. events[i].stage # events[j].stage
  BY <1>1, OnceStages
<1>3. events[i].stage \in {"start", "end"} /\ events[j].stage \in {"start", "end"}
  BY TimelineAssumption DEF OfStep, EventSeq
<1>4. ~(events[i].stage = "end" /\ events[j].stage = "start")
  <2> SUFFICES ASSUME events[i].stage = "end", events[j].stage = "start" PROVE FALSE
    OBVIOUS
  <2>1. events[i].id = id
    BY DEF OfStep
  <2>2. PICK k \in DOMAIN events : k < i /\ OfStep(events[k], id) /\ events[k].stage = "start"
    BY <2>1 DEF TellsRun
  <2>3. k = j
    BY <2>2, OnceStages
  <2>4. QED
    BY <1>1, <2>2, <2>3
<1>5. QED
  BY <1>2, <1>3, <1>4

\* The reports of a step among the first k events, and its rows.
ReportsTo(k, id) == {i \in 1..k : OfStep(events[i], id)}
RowsOfStep(rows, id) == {q \in DOMAIN rows : OfStep(rows[q], id)}

OneTold(rows, k, id) ==
  \E i, q : ReportsTo(k, id) = {i} /\ RowsOfStep(rows, id) = {q} /\ rows[q] = events[i]

BothTold(rows, k, id) ==
  \E s, t : /\ ReportsTo(k, id) = {s, t} /\ s < t
            /\ \/ (Future(events[s]) <=> Future(events[t])) /\ \E q : RowsOfStep(rows, id) = {q} /\ rows[q] = events[t]
               \/ /\ ~(Future(events[s]) <=> Future(events[t]))
                  /\ \E q, r : RowsOfStep(rows, id) = {q, r} /\ rows[q] = events[s] /\ rows[r] = events[t]

\* Of a step that ran once there is its last report; or both, when the current
\* time is between them.
TellsStep(rows, k, id) ==
  \/ ReportsTo(k, id) = {} /\ RowsOfStep(rows, id) = {}
  \/ OneTold(rows, k, id)
  \/ BothTold(rows, k, id)

LEMMA TellsStepNext ==
  ASSUME events \in EventSeq, TellsRun(events), NEW id, RunOnce(id), NEW k \in DOMAIN events,
         NEW rows \in EventSeq, StepsFirst(rows), TellsStep(rows, k - 1, id),
         NEW new \in EventSeq, Merges(rows, events[k], new)
  PROVE  TellsStep(new, k, id)
<1> DEFINE e == events[k]
           n == Len(rows) + 1
           R == ReportsTo(k - 1, id)
           Q == RowsOfStep(rows, id)
<1>1. k \in Nat \ {0} /\ DOMAIN events = 1..Len(events) /\ Len(events) \in Nat /\ k <= Len(events)
  BY DEF EventSeq
<1>2. (\A i \in 1..k : i \in 1..k - 1 \/ i = k) /\ (\A i \in 1..k - 1 : i \in 1..k /\ i \in DOMAIN events /\ i < k) /\ k \in 1..k
  BY <1>1
<1>3. CASE ~OfStep(e, id)
  <2>1. ReportsTo(k, id) = R
    BY <1>2, <1>3 DEF ReportsTo
  <2>2. RowsOfStep(new, id) = Q /\ \A q \in Q : new[q] = rows[q]
    <3>1. CASE \E p : FirstOf(rows, e.id, p) /\ e.kind = "lifecycle" /\ ReplacedAt(rows, new, p, e)
      <4>1. PICK p : FirstOf(rows, e.id, p) /\ e.kind = "lifecycle" /\ ReplacedAt(rows, new, p, e)
        BY <3>1
      <4>2. rows[p].id # id /\ new[p].id # id
        BY <1>3, <4>1 DEF OfStep, FirstOf, ReplacedAt
      <4>3. QED
        BY <4>1, <4>2 DEF RowsOfStep, ReplacedAt, OfStep
    <3>2. CASE AddedTo(rows, new, e)
      BY <1>3, <3>2 DEF AddedTo, RowsOfStep
    <3>3. QED
      BY <3>1, <3>2 DEF Merges
  <2>3. QED
    BY <2>1, <2>2 DEF TellsStep, OneTold, BothTold
<1>4. CASE OfStep(e, id)
  <2>1. ReportsTo(k, id) = R \union {k} /\ e.id = id /\ e.kind = "lifecycle"
    BY <1>2, <1>4 DEF ReportsTo, OfStep
  <2>2. \A p : FirstOf(rows, id, p) => p \in Q
    BY <1>4, FirstIsReport DEF RowsOfStep, FirstOf
  <2>3. \A p : ReplacedAt(rows, new, p, e) /\ p \in Q => RowsOfStep(new, id) = Q /\ new[p] = e
    BY <1>4 DEF ReplacedAt, RowsOfStep
  <2>4. AddedTo(rows, new, e) => RowsOfStep(new, id) = Q \union {n} /\ new[n] = e /\ \A q \in Q : new[q] = rows[q]
    BY <1>4 DEF AddedTo, RowsOfStep
  <2>5. CASE R = {} /\ Q = {}
    <3>1. AddedTo(rows, new, e)
      BY <2>1, <2>2, <2>5 DEF Merges
    <3>2. ReportsTo(k, id) = {k} /\ RowsOfStep(new, id) = {n} /\ new[n] = events[k]
      BY <2>1, <2>4, <2>5, <3>1
    <3> HIDE DEF n
    <3>3. QED
      BY <3>2 DEF TellsStep, OneTold
  <2>6. CASE OneTold(rows, k - 1, id)
    <3>1. PICK i, q : R = {i} /\ Q = {q} /\ rows[q] = events[i]
      BY <2>6 DEF OneTold
    <3>2. i \in DOMAIN events /\ i < k /\ OfStep(events[i], id)
      BY <1>2, <3>1 DEF ReportsTo
    <3>3. events[i].stage = "start" /\ e.stage = "end"
      BY <1>4, <3>2, OnceInTurn
    <3>4. Replaces(rows[q], e) <=> (Future(events[i]) <=> Future(e))
      BY <3>1, <3>3 DEF Replaces
    <3>5. q \in DOMAIN rows /\ rows[q].id = id
      BY <3>1 DEF RowsOfStep, OfStep
    <3>6. ReportsTo(k, id) = {i, k}
      BY <2>1, <3>1
    <3>7. FirstOf(rows, id, q)
      <4>1. PICK p : FirstOf(rows, id, p)
        BY <3>5, FirstExists
      <4>2. p = q
        BY <2>2, <3>1, <4>1
      <4>3. QED
        BY <4>1, <4>2
    <3>8. CASE \E p : FirstOf(rows, id, p) /\ Replaces(rows[p], e) /\ ReplacedAt(rows, new, p, e)
      <4>1. Replaces(rows[q], e) /\ ReplacedAt(rows, new, q, e)
        BY <2>2, <3>1, <3>8
      <4>2. RowsOfStep(new, id) = {q} /\ new[q] = events[k]
        BY <2>3, <3>1, <4>1
      <4>3. BothTold(new, k, id)
        BY <3>2, <3>4, <3>6, <4>1, <4>2 DEF BothTold
      <4>4. QED
        BY <4>3 DEF TellsStep
    <3>9. CASE AddedTo(rows, new, e) /\ \A p : FirstOf(rows, id, p) => ~Replaces(rows[p], e)
      <4>1. ~(Future(events[i]) <=> Future(events[k]))
        BY <3>4, <3>7, <3>9
      <4>2. RowsOfStep(new, id) = {q, n} /\ new[q] = events[i] /\ new[n] = events[k]
        BY <2>4, <3>1, <3>9
      <4> HIDE DEF n
      <4>3. BothTold(new, k, id)
        BY <3>2, <3>6, <4>1, <4>2 DEF BothTold
      <4>4. QED
        BY <4>3 DEF TellsStep
    <3>10. QED
      BY <2>1, <3>8, <3>9 DEF Merges
  <2>7. CASE BothTold(rows, k - 1, id)
    <3>1. PICK s, t : R = {s, t} /\ s < t
      BY <2>7 DEF BothTold
    <3>2. /\ s \in DOMAIN events /\ s < k /\ OfStep(events[s], id)
          /\ t \in DOMAIN events /\ t < k /\ OfStep(events[t], id)
      BY <1>2, <3>1 DEF ReportsTo
    <3>3. events[t].stage = "end" /\ events[t].stage = "start"
      BY <1>4, <3>1, <3>2, OnceInTurn
    <3>4. QED
      BY <3>3
  <2>8. QED
    BY <2>5, <2>6, <2>7 DEF TellsStep
<1>5. QED
  BY <1>3, <1>4

\* All of the merged events.
LEMMA MergedOK ==
  ASSUME events \in EventSeq, TellsRun(events)
  PROVE  /\ mergedEvents \in EventSeq /\ MergedInv(mergedEvents, Len(events))
         /\ \A id : RunOnce(id) => TellsStep(mergedEvents, Len(events), id)
<1> DEFINE n == Len(events)
           Good(rows, i) == MergedInv(rows, i) /\ \A id : RunOnce(id) => TellsStep(rows, i, id)
<1>1. PICK m \in [0..n -> EventSeq] :
           /\ m[0] = <<>>
           /\ \A i \in 1..n : m[i] = Merge(m[i - 1], events[i])
           /\ mergedEvents = m[n]
  BY MergedIs
<1>2. n \in Nat /\ DOMAIN events = 1..n /\ \A i \in 1..n : events[i] \in Events
  BY DEF EventSeq
<1> HIDE DEF n
<1> DEFINE T == {i \in 0..n : Good(m[i], i)}
<1>3. Good(<<>>, 0)
  <2>1. MergedInv(<<>>, 0)
    BY DEF MergedInv, StepsFirst, StepsThere, NothingLost
  <2>2. \A id : TellsStep(<<>>, 0, id)
    BY DEF TellsStep, ReportsTo, RowsOfStep
  <2>3. QED
    BY <2>1, <2>2
<1>4. ASSUME NEW i \in 1..n, Good(m[i - 1], i - 1) PROVE Good(m[i], i)
  <2>1. i \in DOMAIN events /\ m[i - 1] \in EventSeq /\ m[i] \in EventSeq /\ Merges(m[i - 1], events[i], m[i])
    <3>1. i - 1 \in 0..n /\ i \in 0..n /\ i \in DOMAIN events
      BY <1>2
    <3>2. m[i - 1] \in EventSeq /\ m[i] \in EventSeq /\ m[i] = Merge(m[i - 1], events[i]) /\ events[i] \in Events
      BY <1>1, <1>2, <3>1
    <3>3. QED
      BY <3>1, <3>2, MergeIs
  <2>2. MergedInv(m[i], i)
    BY <1>4, <2>1, MergedStep
  <2>3. ASSUME NEW id, RunOnce(id) PROVE TellsStep(m[i], i, id)
    <3>1. StepsFirst(m[i - 1]) /\ TellsStep(m[i - 1], i - 1, id)
      BY <1>4, <2>3 DEF MergedInv
    <3>2. QED
      BY <2>1, <2>3, <3>1, TellsStepNext
  <2>4. QED
    BY <2>2, <2>3
<1> HIDE DEF Good
<1>5. 0 \in T
  BY <1>1, <1>2, <1>3
<1>6. \A i \in 1..n : i - 1 \in T => i \in T
  BY <1>2, <1>4
<1> HIDE DEF T
<1>7. \A i \in 0..n : i \in T
  BY <1>2, <1>5, <1>6, UpTo
<1>8. n \in 0..n
  BY <1>2
<1>9. Good(mergedEvents, n)
  BY <1>1, <1>7, <1>8 DEF T
<1>10. QED
  BY <1>1, <1>8, <1>9 DEF Good, n

\* What is not dimmed of a step that ran once.
LEMMA PastRowsAre ==
  ASSUME events \in EventSeq, NEW rows \in EventSeq, NEW id, TellsStep(rows, Len(events), id),
         NEW past, past = {i \in DOMAIN events : events[i].id = id /\ events[i].kind = "lifecycle" /\ ~Future(events[i])}
  PROVE  {r \in Range(rows) : r.id = id /\ r.kind = "lifecycle" /\ ~Future(r)}
           = IF past = {} THEN {} ELSE {events[Greatest(past)]}
<1> DEFINE n == Len(events)
           R == ReportsTo(n, id)
           Q == RowsOfStep(rows, id)
           shown == {r \in Range(rows) : r.id = id /\ r.kind = "lifecycle" /\ ~Future(r)}
<1>1. n \in Nat /\ DOMAIN events = 1..n
  BY DEF EventSeq
<1>2. \A i : i \in past <=> i \in R /\ ~Future(events[i])
  BY <1>1 DEF ReportsTo, OfStep
<1>3. \A r : r \in shown <=> \E q \in Q : rows[q] = r /\ ~Future(r)
  BY DEF Range, RowsOfStep, OfStep
<1>4. past # {} => Greatest(past) \in past /\ \A i \in past : i <= Greatest(past)
  <2>1. past \in SUBSET Nat /\ \A i \in past : i <= n
    BY <1>1
  <2>2. QED
    BY <1>1, <2>1, GreatestIs
<1>5. \A i \in past : i \in Nat
  BY <1>1
<1> HIDE DEF n, R, Q, shown
<1> DEFINE g == Greatest(past)
<1> HIDE DEF g
<1>6. past # {} => g \in past /\ \A i \in past : i <= g
  BY <1>4 DEF g
<1>7. shown = IF past = {} THEN {} ELSE {events[g]}
  <2>1. CASE R = {} /\ Q = {}
    BY <1>2, <1>3, <2>1
  <2>2. CASE OneTold(rows, n, id)
    <3>1. PICK i, q : R = {i} /\ Q = {q} /\ rows[q] = events[i]
      BY <2>2 DEF OneTold, R, Q
    <3>2. CASE Future(events[i])
      BY <1>2, <1>3, <3>1, <3>2
    <3>3. CASE ~Future(events[i])
      <4>1. past = {i} /\ g = i
        BY <1>2, <1>6, <3>1, <3>3
      <4>2. shown = {events[i]}
        BY <1>3, <3>1, <3>3
      <4>3. QED
        BY <4>1, <4>2
    <3>4. QED
      BY <3>2, <3>3
  <2>3. CASE BothTold(rows, n, id)
    <3>1. PICK s, t : /\ R = {s, t} /\ s < t
                      /\ \/ (Future(events[s]) <=> Future(events[t])) /\ \E q : Q = {q} /\ rows[q] = events[t]
                         \/ /\ ~(Future(events[s]) <=> Future(events[t]))
                            /\ \E q, r : Q = {q, r} /\ rows[q] = events[s] /\ rows[r] = events[t]
      BY <2>3 DEF BothTold, R, Q
    <3>2. s \in Nat /\ t \in Nat
      BY <1>1, <3>1 DEF R, ReportsTo, n
    <3>3. CASE (Future(events[s]) <=> Future(events[t])) /\ \E q : Q = {q} /\ rows[q] = events[t]
      <4>1. PICK q : Q = {q} /\ rows[q] = events[t]
        BY <3>3
      <4>2. CASE Future(events[t])
        BY <1>2, <1>3, <3>1, <3>3, <4>1, <4>2
      <4>3. CASE ~Future(events[t])
        <5>1. past = {s, t}
          BY <1>2, <3>1, <3>3, <4>3
        <5>2. g = t
          BY <1>6, <3>1, <3>2, <5>1
        <5>3. shown = {events[t]}
          BY <1>3, <4>1, <4>3
        <5>4. QED
          BY <5>1, <5>2, <5>3
      <4>4. QED
        BY <4>2, <4>3
    <3>4. CASE ~(Future(events[s]) <=> Future(events[t])) /\ \E q, r : Q = {q, r} /\ rows[q] = events[s] /\ rows[r] = events[t]
      <4>1. PICK q, r : Q = {q, r} /\ rows[q] = events[s] /\ rows[r] = events[t]
        BY <3>4
      <4>2. PICK u \in {s, t} : ~Future(events[u]) /\ \A v \in {s, t} : v # u => Future(events[v])
        BY <3>4
      <4>3. past = {u} /\ g = u
        <5>1. past = {u}
          BY <1>2, <3>1, <4>2
        <5>2. QED
          BY <1>6, <5>1
      <4>4. shown = {events[u]}
        <5>1. \A x : x \in shown <=> (x = events[s] \/ x = events[t]) /\ ~Future(x)
          BY <1>3, <4>1
        <5>2. \A x : x \in shown <=> x = events[u]
          BY <4>2, <5>1
        <5>3. QED
          BY <5>2
      <4>5. QED
        BY <4>3, <4>4
    <3>5. QED
      BY <3>1, <3>3, <3>4
  <2>4. QED
    BY <2>1, <2>2, <2>3 DEF TellsStep, R, Q, n
<1>8. QED
  BY <1>7 DEF shown, g

\* The events shown tell a run in turn.
LEMMA ShownInTurn ==
  ASSUME IInv
  PROVE  events \in EventSeq /\ TellsRun(events)
<1>1. events \in EventSeq /\ pending \in EventSeq
  BY DEF IInv, Types
<1>2. CASE serialized
  BY <1>1, <1>2 DEF IInv, StreamInv
<1>3. CASE ~serialized
  <2> DEFINE all == events \o pending
  <2>1. TellsRun(all)
    BY <1>3 DEF IInv, StreamInv
  <2>2. \A i \in DOMAIN events : i \in DOMAIN all /\ all[i] = events[i] /\ i \in Nat
    BY <1>1 DEF EventSeq
  <2>3. \A j \in DOMAIN events, k \in DOMAIN all : k <= j => k \in DOMAIN events
    BY <1>1 DEF EventSeq
  <2> HIDE DEF all
  <2>4. \A i, j \in DOMAIN events : events[i].run = events[j].run
    BY <2>1, <2>2 DEF TellsRun
  <2>5. ASSUME NEW i \in DOMAIN events, NEW j \in DOMAIN events, i < j, OfStep(events[j], events[i].id)
        PROVE  /\ \E k \in DOMAIN events : k <= i /\ OfStep(events[k], events[i].id)
               /\ OfStep(events[i], events[i].id) /\ events[i].stage = "end" /\ events[j].stage = "start" =>
                    \E k \in DOMAIN events : k < i /\ OfStep(events[k], events[i].id) /\ events[k].stage = "start"
    <3>1. PICK k \in DOMAIN all : k <= i /\ OfStep(all[k], events[i].id)
      BY <2>1, <2>2, <2>5 DEF TellsRun
    <3>2. k \in DOMAIN events /\ OfStep(events[k], events[i].id)
      BY <2>2, <2>3, <3>1
    <3>3. ASSUME OfStep(events[i], events[i].id), events[i].stage = "end", events[j].stage = "start"
          PROVE  \E l \in DOMAIN events : l < i /\ OfStep(events[l], events[i].id) /\ events[l].stage = "start"
      <4>1. PICK l \in DOMAIN all : l < i /\ OfStep(all[l], events[i].id) /\ all[l].stage = "start"
        BY <2>1, <2>2, <2>5, <3>3 DEF TellsRun
      <4>2. l <= i
        <5>1. l \in Nat /\ i \in Nat
          BY <1>1, <2>2, <4>1 DEF all, EventSeq
        <5>2. QED
          BY <4>1, <5>1
      <4>3. l \in DOMAIN events
        BY <2>3, <4>1, <4>2
      <4>4. QED
        BY <2>2, <4>1, <4>3
    <3>4. QED
      BY <3>1, <3>2, <3>3
  <2>6. QED
    BY <1>1, <2>4, <2>5 DEF TellsRun
<1>4. QED
  BY <1>2, <1>3

LEMMA RowsTell ==
  ASSUME IInv
  PROVE  RowsTellTheMoment
<1> DEFINE rows == FlattenSeq(visibleEvents)
           n == Len(events)
           Past(id) == {i \in DOMAIN events : events[i].id = id /\ events[i].kind = "lifecycle" /\ ~Future(events[i])}
           Replaced(i) == \E j \in DOMAIN events : j > i /\ events[j].id = events[i].id
<1>1. events \in EventSeq /\ TellsRun(events) /\ n \in Nat /\ DOMAIN events = 1..n
  BY ShownInTurn DEF EventSeq
<1>2. rows = mergedEvents
  BY <1>1, VisibleIs
<1> HIDE DEF rows
<1>3. rows \in EventSeq /\ MergedInv(rows, n) /\ \A id : RunOnce(id) => TellsStep(rows, n, id)
  BY <1>1, <1>2, MergedOK
<1>4. \A e \in Range(events) : e.kind = "lifecycle" /\ RunOnce(e.id) =>
        {r \in Range(rows) : r.id = e.id /\ r.kind = "lifecycle" /\ ~Future(r)}
          = IF Past(e.id) = {} THEN {} ELSE {events[Greatest(Past(e.id))]}
  BY <1>1, <1>3, PastRowsAre
<1>5. ASSUME NEW i \in DOMAIN events
      PROVE  (events[i].kind = "lifecycle" /\ Replaced(i)) \/ events[i] \in Range(rows)
  <2>1. \/ \E q \in DOMAIN rows : rows[q] = events[i]
        \/ events[i].kind = "lifecycle" /\ \E j \in i + 1..n : events[j].id = events[i].id
    BY <1>1, <1>3 DEF MergedInv, NothingLost
  <2>2. \A j \in i + 1..n : j \in DOMAIN events /\ j > i
    BY <1>1
  <2>3. QED
    BY <2>1, <2>2 DEF Range
<1>6. Len(rows) <= Len(events)
  BY <1>3 DEF MergedInv
<1>7. QED
  BY <1>4, <1>5, <1>6 DEF RowsTellTheMoment, rows

\* Every row not dimmed tells the run as it was at the current time, and no event
\* is in no row but a report that a later one of its step replaced.
THEOREM RowsAlwaysTell == PageSpec => []RowsTellTheMoment
<1>1. IInv => RowsTellTheMoment
  BY RowsTell
<1>2. QED
  BY <1>1, PageInvariant, PTL
=============================================================================
