------------------------- MODULE CuratedBrainProofs -------------------------
(***************************************************************************)
(* What the tiers behind CuratedBrain guarantee for all texts and facts,   *)
(* through writes and consolidations that raise half-way, forgets,         *)
(* snapshots and restores: the cache is fresh, facts are captured, what is *)
(* forgotten is gone, the vectors mirror the episodes, and a consolidation *)
(* loses no current fact and no support.                                   *)
(*                                                                         *)
(* The folds of the model, over the facts of a write and the members of a  *)
(* cluster, are reasoned about by minimal counterexamples: the subsets of  *)
(* a finite set are well-founded (MinimalSubset), and so are the numbers.  *)
(***************************************************************************)
EXTENDS CuratedBrain, FiniteSetTheorems, TLAPS

\* The facts rows state.
Facts(rows) == {FactOf(r) : r \in rows}

\* Rows are rows about facts, their ids were given out, each to one of them, and
\* one row at most is open for a subject and predicate.
RowsTyped(rows, counter) ==
    /\ \A r \in rows : /\ r = Row(r.id, FactOf(r), r.open)
                       /\ r.id \in 1 .. counter /\ FactOf(r) \in AllFacts
    /\ \A x, y \in rows : x.id = y.id => x = y
    /\ \A x, y \in rows : x.open /\ y.open /\ SameKey(x, y) => x = y

\* The fields of an episode and of a vector.
IsEpisode(e) == e = [id |-> e.id, text |-> e.text, link |-> e.link, support |-> e.support]

IsVector(v) == v = [rid |-> v.rid, text |-> v.text, tags |-> v.tags]

\* Episodes and vectors have their types and ids tell them apart.
EpisodesTyped(episodes, counter) ==
    /\ \A e \in episodes :
          /\ IsEpisode(e) /\ e.id \in 1 .. counter /\ e.text \in Texts
          /\ e.link \in AllFacts \union {NoLink} /\ e.support \in Nat \ {0}
    /\ \A x, y \in episodes : x.id = y.id => x = y

VectorsTyped(vectors, counter) ==
    /\ \A v \in vectors : /\ IsVector(v) /\ v.rid \in 1 .. counter
                          /\ v.tags \subseteq Subjects
    /\ \A x, y \in vectors : x.rid = y.rid => x = y

\* The tiers of a brain have their types.
Typed(b) ==
    /\ b = [rows |-> b.rows, episodes |-> b.episodes, vectors |-> b.vectors,
            asserted |-> b.asserted, known |-> b.known, counter |-> b.counter]
    /\ b.counter \in Nat
    /\ RowsTyped(b.rows, b.counter) /\ EpisodesTyped(b.episodes, b.counter)
    /\ VectorsTyped(b.vectors, b.counter)
    /\ b.asserted \subseteq Texts /\ b.known \subseteq Subjects

\* What was stated has a row, and so have the facts of the texts that are not
\* extracted again, unless they were erased or a write of them raised.
Captured(b, o, u) ==
    /\ o \subseteq Facts(b.rows) \union u
    /\ \A x \in b.asserted : FactsIn(Says[x]) \subseteq Facts(b.rows) \union u

\* A forgotten name is nowhere.
Absent(b, g) ==
    \A s \in g : /\ \A r \in b.rows : s \notin Names(r)
                 /\ \A e \in b.episodes : e.link # NoLink => s \notin Names(e.link)
                 /\ \A v \in b.vectors : s \notin v.tags
                 /\ s \notin b.known

\* Each episode has its vector and each vector its episode.
Mirrored(episodes, vectors) ==
    /\ \A e \in episodes : \E v \in vectors : v.rid = e.id /\ v.text = e.text
    /\ \A v \in vectors : \E e \in episodes : v.rid = e.id /\ v.text = e.text

\* Unless a consolidation broke off.
Mirrors(b, h) == ~h => Mirrored(b.episodes, b.vectors)

\* A brain and the history it goes with: now, and when the snapshot was taken.
Sound(b, o, u, g, h) ==
    Typed(b) /\ Captured(b, o, u) /\ Absent(b, g) /\ Mirrors(b, h)

\* The brain and the snapshot are sound, and the cache is fresh.
Inv ==
    /\ Sound(brain, owed, unrouted, gone, halfway)
    /\ saved # NoBlob =>
         Sound(saved.brain, saved.owed, saved.unrouted, saved.gone, saved.halfway)
    /\ CacheIsFresh

-----------------------------------------------------------------------------
(* Induction: on the subsets of a finite set, and on how many there are *)

\* A member of U with no other member of U inside.
HasMinimal(U) == \E T \in U : \A V \in U : V \subseteq T => V = T

\* Among the subsets of a finite set that have a property, one is minimal.
LEMMA MinimalSubset ==
    ASSUME NEW S, IsFiniteSet(S), NEW U \in SUBSET (SUBSET S), NEW X \in U
    PROVE  HasMinimal(U)
<1>1. IsWellFoundedOn(StrictSubsetOrdering(S), FiniteSubsetsOf(S))
  BY FS_StrictSubsetOrderingWellFounded
<1>2. U \subseteq FiniteSubsetsOf(S)
  BY FS_FiniteSubsetsOfFinite
<1>3. \E T \in U : \A V \in U : ~ (<<V, T>> \in StrictSubsetOrdering(S))
  BY <1>1, <1>2, WFMin
<1> QED
  BY <1>3 DEF StrictSubsetOrdering, HasMinimal

\* A set of numbers has a least one.
LEMMA LeastNumber ==
    ASSUME NEW U, U \subseteq Nat, U # {}
    PROVE  \E n \in U : \A m \in U : n <= m
<1>1. PICK n \in U : n \in Nat
  OBVIOUS
<1> DEFINE W == {0 .. m : m \in {k \in U : k <= n}}
<1>2. W \in SUBSET (SUBSET (0 .. n)) /\ 0 .. n \in W
  <2>1. 0 .. n \in W
    BY <1>1
  <2>2. ASSUME NEW m \in {k \in U : k <= n} PROVE 0 .. m \subseteq 0 .. n
    BY <1>1
  <2> QED
    BY <2>1, <2>2
<1>3. IsFiniteSet(0 .. n)
  BY <1>1, FS_Interval
<1> HIDE DEF W
<1>7. HasMinimal(W)
  BY <1>2, <1>3, MinimalSubset
<1>4. PICK T \in W : \A V \in W : V \subseteq T => V = T
  BY <1>7 DEF HasMinimal
<1>5. PICK m \in U : m <= n /\ T = 0 .. m
  BY <1>4 DEF W
<1>6. ASSUME NEW k \in U, k < m PROVE FALSE
  <2>1. 0 .. k \in W /\ 0 .. k \subseteq T /\ m \in T /\ m \notin 0 .. k
    BY <1>1, <1>5, <1>6 DEF W
  <2> QED
    BY <2>1, <1>4
<1> QED
  BY <1>5, <1>6

\* The greatest index of a sequence is its length.
LEMMA MaxOfPrefix ==
    ASSUME NEW n \in Nat \ {0}
    PROVE  Max(1 .. n) = n
<1>1. n \in 1 .. n /\ \A y \in 1 .. n : n >= y
  OBVIOUS
<1>2. \A x \in 1 .. n : (\A y \in 1 .. n : x >= y) => x = n
  OBVIOUS
<1> QED
  BY <1>1, <1>2 DEF Max

\* A finite set of numbers has a greatest one.
LEMMA MaxIn ==
    ASSUME NEW S, S \subseteq Nat, IsFiniteSet(S), S # {}
    PROVE  Max(S) \in S
<1> DEFINE U == {T \in SUBSET S : T # {} /\ ~ \E x \in T : \A y \in T : x >= y}
<1>1. SUFFICES ASSUME S \in U PROVE FALSE
  <2>2. \E x \in S : \A y \in S : x >= y
    BY <1>1
  <2> QED
    BY <2>2 DEF Max
<1>2. U \in SUBSET (SUBSET S)
  OBVIOUS
<1>7. HasMinimal(U)
  <2> HIDE DEF U
  <2> QED
    BY <1>1, <1>2, MinimalSubset
<1>9. PICK T \in U : \A V \in U : V \subseteq T => V = T
  BY <1>7 DEF HasMinimal
<1>3. PICK x \in T : TRUE
  OBVIOUS
<1>4. T \ {x} \notin U
  BY <1>9, <1>3
<1>5. CASE T \ {x} = {}
  BY <1>5, <1>3
<1>6. CASE T \ {x} # {}
  <2>1. PICK y \in T \ {x} : \A z \in T \ {x} : y >= z
    BY <1>4, <1>6
  <2>2. x \in Nat /\ y \in Nat /\ T \subseteq Nat
    BY <1>3, <2>1
  <2>3. CASE x >= y
    BY <2>1, <2>2, <2>3, <1>3
  <2>4. CASE y >= x
    BY <2>1, <2>2, <2>4, <1>3
  <2> QED
    BY <2>2, <2>3, <2>4
<1> QED
  BY <1>5, <1>6

-----------------------------------------------------------------------------
(* What a write does to the structured tier, one fact at a time *)

\* One step of the fold that routes the facts numbered in s.
RouteStep(g, s, rows, counter, facts, late) ==
    IF s = {} THEN [rows |-> rows, counter |-> counter]
    ELSE [rows    |-> AssertRow(g[s \ {Max(s)}].rows, g[s \ {Max(s)}].counter + 1,
                                facts[Max(s)], late),
          counter |-> g[s \ {Max(s)}].counter + 1]

\* A function that takes this step at all subsets of the numbers.
Folded(g, rows, counter, facts, late) ==
    g = [s \in SUBSET DOMAIN facts |-> RouteStep(g, s, rows, counter, facts, late)]

\* A fold over the sets of at most k numbers.
FoldedUpTo(k, g, rows, counter, facts, late) ==
    /\ g = [s \in SUBSET DOMAIN facts |-> g[s]]
    /\ \A s \in SUBSET DOMAIN facts :
          Cardinality(s) <= k => g[s] = RouteStep(g, s, rows, counter, facts, late)

\* Routing is such a fold: there is a function over the subsets of the facts' numbers
\* that takes one step at each, and Route is its value for all of them.
LEMMA RouteIsFolded ==
    ASSUME NEW rows, NEW counter, NEW facts \in Seq(AllFacts), NEW late
    PROVE  \E g : /\ Folded(g, rows, counter, facts, late)
                  /\ Route(rows, counter, facts, late) = g[DOMAIN facts]
<1> DEFINE D == DOMAIN facts
           P(k, g) == FoldedUpTo(k, g, rows, counter, facts, late)
           B(g, s) == RouteStep(g, s, rows, counter, facts, late)
           U == {k \in Nat : ~ \E g : P(k, g)}
<1>9. Len(facts) \in Nat /\ D = 1 .. Len(facts)
  OBVIOUS
<1>1. IsFiniteSet(D) /\ D \subseteq Nat /\ Cardinality(D) = Len(facts)
  <2>1. IsFiniteSet(1 .. Len(facts)) /\ Cardinality(1 .. Len(facts)) = Len(facts)
    BY <1>9, FS_Interval
  <2> QED
    BY <2>1, <1>9
<1>2. \A s \in SUBSET D : s # {} => /\ Cardinality(s) \in Nat /\ Max(s) \in s
                                    /\ Cardinality(s \ {Max(s)}) = Cardinality(s) - 1
  <2> TAKE s \in SUBSET D
  <2>1. IsFiniteSet(s) /\ s \subseteq Nat
    BY <1>1, FS_Subset
  <2> QED
    BY <2>1, MaxIn, FS_RemoveElement, FS_CardinalityType
<1>3. \A s \in SUBSET D : Cardinality(s) \in Nat /\ Cardinality(s) <= Len(facts)
  BY <1>1, FS_Subset, FS_CardinalityType
<1>4. U = {}
  <2>1. SUFFICES ASSUME U # {} PROVE FALSE
    OBVIOUS
  <2>2. PICK k \in U : \A m \in U : k <= m
    <3>1. U \subseteq Nat
      OBVIOUS
    <3> QED
      BY <2>1, <3>1, LeastNumber
  <2>3. CASE k = 0
    <3> DEFINE h == [s \in SUBSET D |-> [rows |-> rows, counter |-> counter]]
    <3>1. \A s \in SUBSET D : Cardinality(s) <= 0 => s = {}
      BY <1>1, <1>3, FS_EmptySet, FS_Subset
    <3>2. P(0, h)
      BY <3>1 DEF FoldedUpTo, RouteStep
    <3> QED
      BY <3>2, <2>3, <2>2
  <2>4. CASE k # 0
    <3>1. k - 1 \in Nat /\ k - 1 \notin U
      BY <2>2, <2>4
    <3>2. PICK g : P(k - 1, g)
      BY <3>1
    <3> DEFINE h == [s \in SUBSET D |-> IF Cardinality(s) <= k - 1 THEN g[s] ELSE B(g, s)]
    <3>3. \A s \in SUBSET D : Cardinality(s) <= k => B(g, s) = B(h, s)
      <4> TAKE s \in SUBSET D
      <4> HAVE Cardinality(s) <= k
      <4>1. CASE s = {}
        BY <4>1 DEF RouteStep
      <4>2. CASE s # {}
        <5>1. s \ {Max(s)} \in SUBSET D /\ Cardinality(s \ {Max(s)}) <= k - 1
          BY <1>2, <1>3, <4>2, <3>1
        <5>2. h[s \ {Max(s)}] = g[s \ {Max(s)}]
          BY <5>1
        <5> HIDE DEF h
        <5> QED
          BY <5>2 DEF RouteStep
      <4> QED
        BY <4>1, <4>2
    <3>4. \A s \in SUBSET D : Cardinality(s) <= k => h[s] = B(g, s)
      BY <3>2 DEF FoldedUpTo
    <3>5. h = [s \in SUBSET D |-> h[s]]
      OBVIOUS
    <3>6. P(k, h)
      <4> HIDE DEF h
      <4> QED
        BY <3>3, <3>4, <3>5 DEF FoldedUpTo
    <3> QED
      BY <3>6, <2>2
  <2> QED
    BY <2>3, <2>4
<1>5. PICK h : P(Len(facts), h)
  BY <1>4, <1>9
<1>6. Folded(h, rows, counter, facts, late)
  BY <1>5, <1>3 DEF Folded, FoldedUpTo
<1> DEFINE iter == CHOOSE g : Folded(g, rows, counter, facts, late)
<1>7. Folded(iter, rows, counter, facts, late)
  BY <1>6
<1>8. Route(rows, counter, facts, late) = iter[D]
  BY DEF Route, FoldLeft, MapThenFoldSet, Folded, RouteStep
<1> QED
  BY <1>7, <1>8

\* Rows and their parts.
LEMMA RowIs ==
    ASSUME NEW n, NEW f \in AllFacts, NEW b
    PROVE  /\ Row(n, f, b) = Row(Row(n, f, b).id, f, Row(n, f, b).open)
           /\ Row(n, f, b).id = n /\ FactOf(Row(n, f, b)) = f
           /\ Close(Row(n, f, b)) = Row(n, f, FALSE)
<1>1. /\ Row(n, f, b).id = n /\ Row(n, f, b).open = b
      /\ Row(n, f, b) = Row(Row(n, f, b).id, f, Row(n, f, b).open)
  BY DEF Row
<1>2. /\ Row(n, f, b).subject = f.subject /\ Row(n, f, b).predicate = f.predicate
      /\ Row(n, f, b).object = f.object
  BY DEF Row
<1>3. FactOf(Row(n, f, b)) = f
  <2>1. f = [subject |-> f.subject, predicate |-> f.predicate, object |-> f.object]
    BY SaysAssumption
  <2> QED
    BY <1>2, <2>1 DEF FactOf
<1>4. ASSUME NEW w
      PROVE  [[id |-> n, subject |-> f.subject, predicate |-> f.predicate,
               object |-> f.object, open |-> b] EXCEPT !.open = w]
               = [id |-> n, subject |-> f.subject, predicate |-> f.predicate,
                  object |-> f.object, open |-> w]
  OBVIOUS
<1>5. Close(Row(n, f, b)) = Row(n, f, FALSE)
  BY <1>4, Zenon DEF Row, Close
<1> QED
  BY <1>1, <1>3, <1>5

\* Closing a row leaves its id and its fact.
LEMMA CloseIs ==
    ASSUME NEW r, NEW f \in AllFacts, r = Row(r.id, f, r.open)
    PROVE  /\ Close(r).id = r.id /\ FactOf(Close(r)) = f /\ ~Close(r).open
           /\ Close(r) = Row(r.id, f, Close(r).open)
<1> DEFINE q == Row(r.id, f, r.open)
           c == Row(r.id, f, FALSE)
<1>1. Close(q) = c
  BY RowIs
<1>2. Close(r) = c
  BY <1>1
<1>3. c.id = r.id /\ FactOf(c) = f /\ c = Row(c.id, f, c.open)
  BY RowIs
<1>4. \A b : Row(r.id, f, b).open = b
  BY DEF Row
<1>5. c.open = FALSE
  BY <1>4, Zenon
<1>6. ~Close(r).open
  BY <1>2, <1>5, Zenon
<1> QED
  BY <1>2, <1>3, <1>6

\* Asserting a fact uses up one id, drops no fact and adds this one.
LEMMA AssertRowIs ==
    ASSUME NEW rows, NEW n \in Nat, RowsTyped(rows, n), NEW f \in AllFacts, NEW late
    PROVE  /\ RowsTyped(AssertRow(rows, n + 1, f, late), n + 1)
           /\ Facts(AssertRow(rows, n + 1, f, late)) = Facts(rows) \union {f}
<1> DEFINE cur == OpenRows(rows, f)
           A == AssertRow(rows, n + 1, f, late)
<1>1. \A r \in rows : r.id \in 1 .. n + 1 /\ r.id # n + 1
  BY DEF RowsTyped
<1>2. \A r \in rows : /\ Close(r).id = r.id /\ FactOf(Close(r)) = FactOf(r)
                      /\ Close(r) = Row(r.id, FactOf(r), Close(r).open)
                      /\ FactOf(r) \in AllFacts
  BY CloseIs DEF RowsTyped
<1> DEFINE closed == Row(n + 1, f, FALSE)
           opened == Row(n + 1, f, TRUE)
<1>3. /\ closed.id = n + 1 /\ FactOf(closed) = f /\ closed = Row(closed.id, f, closed.open)
      /\ opened.id = n + 1 /\ FactOf(opened) = f /\ opened = Row(opened.id, f, opened.open)
  <2> DEFINE id == n + 1
  <2> HIDE DEF id
  <2>1. ASSUME NEW b
        PROVE  /\ Row(id, f, b).id = id /\ FactOf(Row(id, f, b)) = f
               /\ Row(id, f, b) = Row(Row(id, f, b).id, f, Row(id, f, b).open)
    BY RowIs
  <2>4. \A b : /\ Row(id, f, b).id = id /\ FactOf(Row(id, f, b)) = f
               /\ Row(id, f, b) = Row(Row(id, f, b).id, f, Row(id, f, b).open)
    BY <2>1, Zenon
  <2>2. /\ Row(id, f, FALSE).id = id /\ FactOf(Row(id, f, FALSE)) = f
        /\ Row(id, f, FALSE) = Row(Row(id, f, FALSE).id, f, Row(id, f, FALSE).open)
    BY <2>4, Zenon
  <2>3. /\ Row(id, f, TRUE).id = id /\ FactOf(Row(id, f, TRUE)) = f
        /\ Row(id, f, TRUE) = Row(Row(id, f, TRUE).id, f, Row(id, f, TRUE).open)
    BY <2>4, Zenon
  <2> QED
    BY <2>2, <2>3 DEF id
<1> HIDE DEF closed, opened
<1>7. ~closed.open /\ opened.open
  <2>1. \A b : Row(n + 1, f, b).open = b
    BY DEF Row
  <2>2. Row(n + 1, f, FALSE).open = FALSE /\ Row(n + 1, f, TRUE).open = TRUE
    BY <2>1, Zenon
  <2> QED
    BY <2>2, Zenon DEF closed, opened
<1>8. \A r \in rows : ~Close(r).open
  BY CloseIs DEF RowsTyped
<1>4. CASE \E r \in cur : r.object = f.object
  <2>1. A = rows
    BY <1>4 DEF AssertRow
  <2>2. PICK r \in rows : SameKey(r, f) /\ r.object = f.object
    BY <1>4 DEF OpenRows
  <2>3. FactOf(r) = f
    BY <2>2, SaysAssumption DEF FactOf, SameKey
  <2>4. RowsTyped(rows, n + 1)
    BY <1>1 DEF RowsTyped
  <2>5. f \in Facts(rows)
    BY <2>2, <2>3 DEF Facts
  <2> QED
    BY <2>1, <2>4, <2>5
<1>5. CASE ~ (\E r \in cur : r.object = f.object) /\ late /\ cur # {}
  <2>1. A = rows \union {closed}
    BY <1>5 DEF AssertRow, closed
  <2>4. \A x, y \in A : x.open /\ y.open /\ SameKey(x, y) => x = y
    BY <2>1, <1>7 DEF RowsTyped
  <2>2. RowsTyped(A, n + 1)
    <3> HIDE DEF A
    <3> QED
      BY <2>1, <2>4, <1>1, <1>3 DEF RowsTyped
  <2>3. Facts(A) = Facts(rows) \union {f}
    BY <2>1, <1>3 DEF Facts
  <2> QED
    BY <2>2, <2>3
<1>6. CASE ~ (\E r \in cur : r.object = f.object) /\ ~ (late /\ cur # {})
  <2>1. A = (rows \ cur) \union {Close(r) : r \in cur} \union {opened}
    BY <1>6 DEF AssertRow, opened
  <2>2. cur \subseteq rows
    BY DEF OpenRows
  <2> HIDE DEF A, cur
  <2>3. ASSUME NEW a \in A
        PROVE  /\ a = Row(a.id, FactOf(a), a.open)
               /\ a.id \in 1 .. n + 1 /\ FactOf(a) \in AllFacts
    <3>1. CASE a \in rows
      BY <3>1, <1>1 DEF RowsTyped
    <3>2. CASE a = opened
      BY <3>2, <1>3
    <3>3. ASSUME NEW r \in cur, a = Close(r) PROVE <2>3!2
      BY <3>3, <2>2, <1>1, <1>2 DEF RowsTyped
    <3> QED
      BY <2>1, <3>1, <3>2, <3>3
  <2>4. \A a \in A : \/ a.id = n + 1 /\ a = opened
                     \/ a \in rows \ cur
                     \/ \E r \in cur : a = Close(r) /\ a.id = r.id
    BY <2>1, <2>2, <1>2, <1>3
  <2>5. \A x, y \in A : x.id = y.id => x = y
    BY <2>4, <2>2, <1>1, <1>2 DEF RowsTyped
  <2>6. Facts(A) \subseteq Facts(rows) \union {f}
    BY <2>4, <2>2, <1>2, <1>3 DEF Facts
  <2>7. Facts(rows) \union {f} \subseteq Facts(A)
    <3>1. ASSUME NEW r \in rows PROVE FactOf(r) \in Facts(A)
      <4>1. CASE r \in cur
        <5>1. Close(r) \in A /\ FactOf(Close(r)) = FactOf(r)
          BY <4>1, <2>1, <1>2
        <5> QED
          BY <5>1 DEF Facts
      <4>2. CASE r \notin cur
        BY <4>2, <2>1 DEF Facts
      <4> QED
        BY <4>1, <4>2
    <3>2. f \in Facts(A)
      BY <2>1, <1>3 DEF Facts
    <3> QED
      BY <3>1, <3>2 DEF Facts
  <2>8. ASSUME NEW x \in A, NEW y \in A, x.open, y.open, SameKey(x, y) PROVE x = y
    <3>1. \A a \in A : a.open => a = opened \/ (a \in rows /\ ~SameKey(a, f))
      <4> TAKE a \in A
      <4> HAVE a.open
      <4>1. a \notin {Close(r) : r \in cur}
        BY <1>8, <2>2
      <4>2. CASE a \in rows \ cur
        BY <4>2 DEF cur, OpenRows
      <4> QED
        BY <4>1, <4>2, <2>1
    <3>2. SameKey(opened, f)
      <4>1. opened.subject = f.subject /\ opened.predicate = f.predicate
        BY DEF opened, Row
      <4> QED
        BY <4>1 DEF SameKey
    <3>3. CASE x \in rows /\ y \in rows
      BY <3>3, <2>8 DEF RowsTyped
    <3>4. CASE x = opened
      BY <3>1, <3>2, <3>4, <2>8 DEF SameKey
    <3>5. CASE y = opened
      BY <3>1, <3>2, <3>5, <2>8 DEF SameKey
    <3> QED
      BY <3>1, <3>3, <3>4, <3>5, <2>8
  <2> QED
    BY <2>3, <2>5, <2>6, <2>7, <2>8 DEF RowsTyped, A
<1> QED
  BY <1>4, <1>5, <1>6

\* So does a write, for each of its facts.
LEMMA RouteIs ==
    ASSUME NEW rows, NEW counter \in Nat, RowsTyped(rows, counter),
           NEW facts \in Seq(AllFacts), NEW late,
           NEW to, to = Route(rows, counter, facts, late)
    PROVE  /\ to.counter \in Nat /\ to.counter >= counter
           /\ RowsTyped(to.rows, to.counter)
           /\ Facts(to.rows) = Facts(rows) \union FactsIn(facts)
<1>1. PICK g : Folded(g, rows, counter, facts, late) /\ to = g[DOMAIN facts]
  BY RouteIsFolded
<1> DEFINE Good(k) ==
             /\ g[1 .. k].counter \in Nat /\ g[1 .. k].counter >= counter
             /\ RowsTyped(g[1 .. k].rows, g[1 .. k].counter)
             /\ Facts(g[1 .. k].rows) = Facts(rows) \union {facts[i] : i \in 1 .. k}
           U == {k \in 0 .. Len(facts) : ~ Good(k)}
<1>2. Len(facts) \in Nat /\ DOMAIN facts = 1 .. Len(facts)
  OBVIOUS
<1>3. \A s \in SUBSET DOMAIN facts : g[s] = RouteStep(g, s, rows, counter, facts, late)
  BY <1>1 DEF Folded
<1>4. Good(0)
  <2>1. 1 .. 0 = {} /\ 1 .. 0 \in SUBSET DOMAIN facts
    OBVIOUS
  <2>2. g[1 .. 0] = [rows |-> rows, counter |-> counter]
    BY <2>1, <1>3 DEF RouteStep
  <2> QED
    BY <2>1, <2>2
<1>5. ASSUME NEW k \in 1 .. Len(facts), Good(k - 1) PROVE Good(k)
  <2> DEFINE h == g[1 .. (k - 1)]
  <2>1. 1 .. k \in SUBSET DOMAIN facts /\ 1 .. k # {} /\ Max(1 .. k) = k
    <3>1. k \in Nat \ {0} /\ k \in 1 .. k /\ 1 .. k \subseteq 1 .. Len(facts)
      BY <1>2
    <3>2. Max(1 .. k) = k
      BY <3>1, MaxOfPrefix
    <3> QED
      BY <3>1, <3>2, <1>2
  <2>2. (1 .. k) \ {k} = 1 .. (k - 1)
    BY <1>2
  <2>3. g[1 .. k] = [rows    |-> AssertRow(h.rows, h.counter + 1, facts[k], late),
                     counter |-> h.counter + 1]
    BY <1>3, <2>1, <2>2 DEF RouteStep
  <2>4. facts[k] \in AllFacts
    BY <1>2
  <2> HIDE DEF h
  <2>5. /\ h.counter \in Nat /\ h.counter >= counter /\ RowsTyped(h.rows, h.counter)
        /\ Facts(h.rows) = Facts(rows) \union {facts[i] : i \in 1 .. (k - 1)}
    BY <1>5 DEF h
  <2>6. /\ RowsTyped(g[1 .. k].rows, h.counter + 1)
        /\ Facts(g[1 .. k].rows) = Facts(h.rows) \union {facts[k]}
    BY <2>3, <2>4, <2>5, AssertRowIs
  <2>7. {facts[i] : i \in 1 .. k} = {facts[i] : i \in 1 .. (k - 1)} \union {facts[k]}
    BY <2>1, <2>2
  <2> QED
    BY <2>3, <2>5, <2>6, <2>7
<1>6. U = {}
  <2>1. SUFFICES ASSUME U # {} PROVE FALSE
    OBVIOUS
  <2>2. PICK k \in U : \A m \in U : k <= m
    <3>1. U \subseteq Nat
      BY <1>2
    <3> HIDE DEF U
    <3> QED
      BY <2>1, <3>1, LeastNumber
  <2>3. k \in 1 .. Len(facts) /\ k - 1 \in 0 .. Len(facts) /\ k - 1 \notin U
    BY <2>2, <1>2, <1>4
  <2>4. Good(k - 1)
    BY <2>3
  <2> QED
    BY <2>2, <2>3, <2>4, <1>5
<1>7. Good(Len(facts))
  BY <1>6, <1>2
<1>8. FactsIn(facts) = {facts[i] : i \in 1 .. Len(facts)}
  BY <1>2 DEF FactsIn
<1> QED
  BY <1>1, <1>2, <1>7, <1>8

-----------------------------------------------------------------------------
(* What a consolidation makes of a cluster *)

\* One step of the fold that adds up the supports of the members in s.
SumStep(g, s) ==
    IF s = {} THEN 0
    ELSE (CHOOSE x \in s : TRUE).support + g[s \ {CHOOSE x \in s : TRUE}]

\* A function that does so at all subsets, and at those of at most k members.
Summed(g, members) == g = [s \in SUBSET members |-> SumStep(g, s)]

SummedUpTo(k, g, members) ==
    /\ g = [s \in SUBSET members |-> g[s]]
    /\ \A s \in SUBSET members : Cardinality(s) <= k => g[s] = SumStep(g, s)

\* The same for the sum of supports.
LEMMA TotalIsSummed ==
    ASSUME NEW members, IsFiniteSet(members)
    PROVE  \E g : Summed(g, members) /\ TotalSupport(members) = g[members]
<1> DEFINE P(k, g) == SummedUpTo(k, g, members)
           B(g, s) == SumStep(g, s)
           U == {k \in Nat : ~ \E g : P(k, g)}
           pick(s) == CHOOSE x \in s : TRUE
<1>1. \A s \in SUBSET members : s # {} =>
         /\ Cardinality(s) \in Nat /\ pick(s) \in s
         /\ Cardinality(s \ {pick(s)}) = Cardinality(s) - 1
  <2> TAKE s \in SUBSET members
  <2> HAVE s # {}
  <2>1. IsFiniteSet(s) /\ pick(s) \in s
    BY FS_Subset
  <2> HIDE DEF pick
  <2> QED
    BY <2>1, FS_RemoveElement, FS_CardinalityType
<1>2. \A s \in SUBSET members : IsFiniteSet(s) /\ Cardinality(s) \in Nat
  BY FS_Subset, FS_CardinalityType
<1>3. Cardinality(members) \in Nat
      /\ \A s \in SUBSET members : Cardinality(s) <= Cardinality(members)
  BY FS_Subset, FS_CardinalityType
<1>4. U = {}
  <2>1. SUFFICES ASSUME U # {} PROVE FALSE
    OBVIOUS
  <2>2. PICK k \in U : \A m \in U : k <= m
    <3>1. U \subseteq Nat
      OBVIOUS
    <3> HIDE DEF U
    <3> QED
      BY <2>1, <3>1, LeastNumber
  <2>3. CASE k = 0
    <3> DEFINE h == [s \in SUBSET members |-> 0]
    <3>1. \A s \in SUBSET members : Cardinality(s) <= 0 => s = {}
      BY <1>2, FS_EmptySet
    <3>2. P(0, h)
      BY <3>1 DEF SummedUpTo, SumStep
    <3> QED
      BY <3>2, <2>3, <2>2
  <2>4. CASE k # 0
    <3>1. k - 1 \in Nat /\ k - 1 \notin U
      BY <2>2, <2>4
    <3>2. PICK g : P(k - 1, g)
      BY <3>1
    <3> DEFINE h == [s \in SUBSET members |->
                       IF Cardinality(s) <= k - 1 THEN g[s] ELSE B(g, s)]
    <3>3. \A s \in SUBSET members : Cardinality(s) <= k => B(g, s) = B(h, s)
      <4> TAKE s \in SUBSET members
      <4> HAVE Cardinality(s) <= k
      <4>1. CASE s = {}
        BY <4>1 DEF SumStep
      <4>2. CASE s # {}
        <5>1. s \ {pick(s)} \in SUBSET members /\ Cardinality(s \ {pick(s)}) <= k - 1
          BY <1>1, <4>2, <3>1
        <5>2. h[s \ {pick(s)}] = g[s \ {pick(s)}]
          BY <5>1
        <5> HIDE DEF h
        <5> QED
          BY <5>2 DEF SumStep
      <4> QED
        BY <4>1, <4>2
    <3>4. \A s \in SUBSET members : Cardinality(s) <= k => h[s] = B(g, s)
      BY <3>2 DEF SummedUpTo
    <3>5. h = [s \in SUBSET members |-> h[s]]
      OBVIOUS
    <3>6. P(k, h)
      <4> HIDE DEF h
      <4> QED
        BY <3>3, <3>4, <3>5 DEF SummedUpTo
    <3> QED
      BY <3>6, <2>2
  <2> QED
    BY <2>3, <2>4
<1>5. PICK h : P(Cardinality(members), h)
  BY <1>4, <1>3
<1>6. Summed(h, members)
  BY <1>5, <1>3 DEF Summed, SummedUpTo
<1> DEFINE iter == CHOOSE g : Summed(g, members)
<1>7. Summed(iter, members)
  BY <1>6
<1>8. TotalSupport(members) = iter[members]
  BY DEF TotalSupport, FoldSet, MapThenFoldSet, Summed, SumStep
<1> QED
  BY <1>7, <1>8

\* Members that writes supported.
Supported(members) ==
    IsFiniteSet(members) /\ \A e \in members : e.support \in Nat \ {0}

\* A claim is supported by at least one write.
LEMMA TotalIsPositive ==
    ASSUME NEW members, Supported(members)
    PROVE  /\ TotalSupport(members) \in Nat
           /\ members # {} => TotalSupport(members) # 0
<1>1. PICK g : Summed(g, members) /\ TotalSupport(members) = g[members]
  BY TotalIsSummed DEF Supported
<1> DEFINE Good(s) == g[s] \in Nat /\ (s # {} => g[s] # 0)
           U == {s \in SUBSET members : ~ Good(s)}
<1>2. U = {}
  <2>1. SUFFICES ASSUME NEW X \in U PROVE FALSE
    OBVIOUS
  <2>2. U \in SUBSET (SUBSET members)
    OBVIOUS
  <2>3. HasMinimal(U)
    <3> HIDE DEF U
    <3> QED
      BY <2>1, <2>2, MinimalSubset DEF Supported
  <2>4. PICK s \in U : \A t \in U : t \subseteq s => t = s
    BY <2>3 DEF HasMinimal
  <2>5. CASE s = {}
    BY <2>4, <2>5, <1>1 DEF Summed, SumStep
  <2>6. CASE s # {}
    <3> DEFINE x == CHOOSE x \in s : TRUE
    <3>1. x \in s
      BY <2>6
    <3>2. g[s] = x.support + g[s \ {x}]
      BY <1>1, <2>6, <2>4 DEF Summed, SumStep
    <3> HIDE DEF x
    <3>3. s \ {x} \in SUBSET members /\ s \ {x} \notin U
      BY <2>4, <3>1
    <3>4. g[s \ {x}] \in Nat /\ x.support \in Nat \ {0}
      BY <3>1, <3>3, <2>4 DEF Supported
    <3> QED
      BY <3>2, <3>4, <2>4
  <2> QED
    BY <2>5, <2>6
<1> QED
  BY <1>1, <1>2

\* The sum over a set is the fold's value for it, whichever set was folded.
LEMMA SameSum ==
    ASSUME NEW members, IsFiniteSet(members), NEW g, Summed(g, members),
           NEW part \in SUBSET members
    PROVE  TotalSupport(part) = g[part]
<1>1. IsFiniteSet(part)
  BY FS_Subset
<1>2. PICK h : Summed(h, part) /\ TotalSupport(part) = h[part]
  BY <1>1, TotalIsSummed
<1> DEFINE U == {s \in SUBSET part : g[s] # h[s]}
<1>3. U = {}
  <2>1. SUFFICES ASSUME NEW X \in U PROVE FALSE
    OBVIOUS
  <2>2. U \in SUBSET (SUBSET part)
    OBVIOUS
  <2>3. HasMinimal(U)
    <3> HIDE DEF U
    <3> QED
      BY <1>1, <2>1, <2>2, MinimalSubset
  <2>4. PICK s \in U : \A t \in U : t \subseteq s => t = s
    BY <2>3 DEF HasMinimal
  <2>5. s \in SUBSET part /\ s \in SUBSET members /\ g[s] # h[s]
    BY <2>4
  <2>6. g[s] = SumStep(g, s) /\ h[s] = SumStep(h, s)
    BY <2>5, <1>2 DEF Summed
  <2>7. CASE s = {}
    BY <2>5, <2>6, <2>7 DEF SumStep
  <2>8. CASE s # {}
    <3> DEFINE x == CHOOSE x \in s : TRUE
    <3>1. x \in s
      BY <2>8
    <3>2. g[s] = x.support + g[s \ {x}] /\ h[s] = x.support + h[s \ {x}]
      BY <2>6, <2>8 DEF SumStep
    <3> HIDE DEF x
    <3>3. s \ {x} \in SUBSET part /\ s \ {x} \notin U
      BY <2>4, <2>5, <3>1
    <3> QED
      BY <2>5, <3>2, <3>3
  <2> QED
    BY <2>7, <2>8
<1> QED
  BY <1>2, <1>3

\* A sum over a set is that of one member, chosen first or not, and the rest.
LEMMA TotalWithout ==
    ASSUME NEW members, Supported(members), NEW e \in members
    PROVE  TotalSupport(members) = e.support + TotalSupport(members \ {e})
<1> DEFINE U == {s \in SUBSET members :
                   \E x \in s : TotalSupport(s) # x.support + TotalSupport(s \ {x})}
<1>1. SUFFICES ASSUME members \in U PROVE FALSE
  OBVIOUS
<1>2. U \in SUBSET (SUBSET members)
  OBVIOUS
<1>3. HasMinimal(U)
  <2> HIDE DEF U
  <2> QED
    BY <1>1, <1>2, MinimalSubset DEF Supported
<1>4. PICK s \in U : \A t \in U : t \subseteq s => t = s
  BY <1>3 DEF HasMinimal
<1>5. PICK x \in s : TotalSupport(s) # x.support + TotalSupport(s \ {x})
  BY <1>4
<1>6. s \in SUBSET members /\ s # {}
  BY <1>4, <1>5
<1> DEFINE p == CHOOSE y \in s : TRUE
<1>7. p \in s
  BY <1>6
<1>8. TotalSupport(s) = p.support + TotalSupport(s \ {p})
  <2>1. IsFiniteSet(s)
    BY <1>6, FS_Subset DEF Supported
  <2>2. PICK g : Summed(g, s) /\ TotalSupport(s) = g[s]
    BY <2>1, TotalIsSummed
  <2>3. g[s] = p.support + g[s \ {p}]
    BY <2>2, <1>6 DEF Summed, SumStep
  <2> HIDE DEF p
  <2>4. TotalSupport(s \ {p}) = g[s \ {p}]
    BY <2>1, <2>2, SameSum
  <2> QED
    BY <2>2, <2>3, <2>4
<1> HIDE DEF p
<1>9. p # x
  BY <1>5, <1>8
<1>10. s \ {p} \notin U /\ s \ {x} \notin U
  BY <1>4, <1>5, <1>7
<1>11. /\ TotalSupport(s \ {p}) = x.support + TotalSupport((s \ {p}) \ {x})
       /\ TotalSupport(s \ {x}) = p.support + TotalSupport((s \ {x}) \ {p})
  BY <1>5, <1>6, <1>7, <1>9, <1>10
<1>12. (s \ {p}) \ {x} = (s \ {x}) \ {p}
  OBVIOUS
<1>13. p.support \in Nat /\ x.support \in Nat
  BY <1>5, <1>6, <1>7 DEF Supported
<1>14. TotalSupport((s \ {x}) \ {p}) \in Nat
  <2>1. Supported((s \ {x}) \ {p})
    BY <1>6, FS_Subset DEF Supported
  <2> QED
    BY <2>1, TotalIsPositive
<1>15. /\ TotalSupport(s) = p.support + (x.support + TotalSupport((s \ {x}) \ {p}))
       /\ TotalSupport(s) # x.support + (p.support + TotalSupport((s \ {x}) \ {p}))
  BY <1>5, <1>8, <1>11, <1>12
<1> DEFINE rest == TotalSupport((s \ {x}) \ {p})
<1> HIDE DEF rest
<1>16. p.support + (x.support + rest) = x.support + (p.support + rest)
  BY <1>13, <1>14 DEF rest
<1> QED
  BY <1>15, <1>16 DEF rest

\* An empty sum.
LEMMA NothingSumsUp == TotalSupport({}) = 0
<1>1. PICK g : Summed(g, {}) /\ TotalSupport({}) = g[{}]
  BY TotalIsSummed, FS_EmptySet
<1> QED
  BY <1>1 DEF Summed, SumStep

\* The sums of two parts add up.
LEMMA TotalOfUnion ==
    ASSUME NEW A, NEW B, Supported(A \union B), A \intersect B = {}
    PROVE  TotalSupport(A \union B) = TotalSupport(A) + TotalSupport(B)
<1> DEFINE U == {s \in SUBSET A :
                   TotalSupport(s \union B) # TotalSupport(s) + TotalSupport(B)}
<1>0. /\ \A s \in SUBSET (A \union B) : Supported(s)
      /\ \A s \in SUBSET (A \union B) : TotalSupport(s) \in Nat
  <2>1. \A s \in SUBSET (A \union B) : Supported(s)
    BY FS_Subset DEF Supported
  <2> QED
    BY <2>1, TotalIsPositive
<1>1. SUFFICES ASSUME A \in U PROVE FALSE
  OBVIOUS
<1>2. U \in SUBSET (SUBSET A) /\ IsFiniteSet(A)
  BY <1>0 DEF Supported
<1>3. HasMinimal(U)
  <2> HIDE DEF U
  <2> QED
    BY <1>1, <1>2, MinimalSubset
<1>4. PICK s \in U : \A t \in U : t \subseteq s => t = s
  BY <1>3 DEF HasMinimal
<1>5. s \in SUBSET A /\ TotalSupport(s \union B) # TotalSupport(s) + TotalSupport(B)
  BY <1>4
<1>6. CASE s = {}
  <2>1. TotalSupport({}) = 0
    BY NothingSumsUp
  <2>2. s \union B = B /\ B \in SUBSET (A \union B)
    BY <1>6
  <2> QED
    BY <1>0, <1>5, <1>6, <2>1, <2>2
<1>7. CASE s # {}
  <2>1. PICK x \in s : TRUE
    BY <1>7
  <2>2. s \ {x} \in SUBSET A /\ s \ {x} \notin U
    BY <1>4, <1>5, <2>1
  <2>3. TotalSupport((s \ {x}) \union B) = TotalSupport(s \ {x}) + TotalSupport(B)
    BY <2>2
  <2>4. (s \union B) \ {x} = (s \ {x}) \union B
    BY <1>5, <2>1
  <2>5. s \in SUBSET (A \union B) /\ s \union B \in SUBSET (A \union B)
        /\ s \ {x} \in SUBSET (A \union B) /\ B \in SUBSET (A \union B)
    BY <1>5
  <2>6. /\ TotalSupport(s) = x.support + TotalSupport(s \ {x})
        /\ TotalSupport(s \union B) = x.support + TotalSupport((s \union B) \ {x})
    BY <1>0, <2>1, <2>5, TotalWithout
  <2>7. x.support \in Nat
    BY <1>0, <2>1, <2>5 DEF Supported
  <2>8. TotalSupport(s \ {x}) \in Nat /\ TotalSupport(B) \in Nat
    BY <1>0, <2>5
  <2> DEFINE rest == TotalSupport(s \ {x})
             other == TotalSupport(B)
  <2>9. /\ TotalSupport(s \union B) = x.support + (rest + other)
        /\ TotalSupport(s) + other = (x.support + rest) + other
    BY <2>3, <2>4, <2>6
  <2>10. rest \in Nat /\ other \in Nat
    BY <2>8
  <2> HIDE DEF rest, other
  <2>11. x.support + (rest + other) = (x.support + rest) + other
    BY <2>7, <2>10
  <2> QED
    BY <1>5, <2>9, <2>11 DEF other
<1> QED
  BY <1>6, <1>7

\* A cluster has a representative.
LEMMA RepresentativeIn ==
    ASSUME NEW members, IsFiniteSet(members), members # {},
           \A e \in members : e.support \in Nat /\ e.id \in Nat
    PROVE  Representative(members) \in members
<1> DEFINE Beats(e, x) == e.support > x.support \/ (e.support = x.support /\ e.id <= x.id)
           Led(T) == \E e \in T : \A x \in T : Beats(e, x)
           U == {T \in SUBSET members : T # {} /\ ~ Led(T)}
<1>1. SUFFICES ASSUME members \in U PROVE FALSE
  <2>1. Led(members)
    BY <1>1
  <2> QED
    BY <2>1 DEF Representative
<1>2. U \in SUBSET (SUBSET members)
  OBVIOUS
<1>3. HasMinimal(U)
  <2> HIDE DEF U
  <2> QED
    BY <1>1, <1>2, MinimalSubset
<1>4. PICK T \in U : \A V \in U : V \subseteq T => V = T
  BY <1>3 DEF HasMinimal
<1>5. PICK e \in T : TRUE
  BY <1>4
<1>6. \A x \in members : Beats(x, x)
  OBVIOUS
<1>10. \A x, y \in members : Beats(x, y) \/ Beats(y, x)
  OBVIOUS
<1>11. \A x, y, z \in members : Beats(x, y) /\ Beats(y, z) => Beats(x, z)
  OBVIOUS
<1>7. T \ {e} \notin U /\ T \subseteq members
  BY <1>4, <1>5
<1> HIDE DEF Beats
<1>8. CASE T \ {e} = {}
  <2>1. T = {e}
    BY <1>8, <1>5
  <2>2. e \in members
    BY <1>5, <1>7
  <2>3. Beats(e, e)
    BY <2>2, <1>6
  <2> QED
    BY <2>1, <2>3, <1>4
<1>9. CASE T \ {e} # {}
  <2>1. PICK y \in T \ {e} : \A x \in T \ {e} : Beats(y, x)
    BY <1>7, <1>9
  <2>4. ~ Led(T) /\ y \in members /\ e \in members
    BY <1>4, <1>5, <1>7, <2>1
  <2>2. CASE Beats(y, e)
    <3>1. \A x \in T : Beats(y, x)
      BY <2>1, <2>2
    <3> QED
      BY <3>1, <2>1, <2>4
  <2>3. CASE Beats(e, y)
    <3>1. ASSUME NEW x \in T PROVE Beats(e, x)
      <4>1. x \in members
        BY <1>7
      <4>2. CASE x = e
        BY <4>2, <2>4, <1>6
      <4>3. CASE x # e
        <5>1. Beats(y, x)
          BY <4>3, <2>1
        <5> QED
          BY <5>1, <2>3, <2>4, <4>1, <1>11
      <4> QED
        BY <4>2, <4>3
    <3> QED
      BY <3>1, <1>5, <2>4
  <2> QED
    BY <2>2, <2>3, <2>4, <1>10
<1> QED
  BY <1>8, <1>9

\* A claim is its representative with a new id and the support of all.
LEMMA ClaimIs ==
    ASSUME NEW id, NEW n \in Nat, NEW episodes, EpisodesTyped(episodes, n),
           NEW members \in SUBSET episodes, IsFiniteSet(members), members # {}
    PROVE  /\ \E e \in members :
                Claim(id, members) = [id |-> id, text |-> e.text, link |-> e.link,
                                      support |-> Claim(id, members).support]
           /\ Claim(id, members).support \in Nat \ {0}
<1> DEFINE e == Representative(members)
<1>1. e \in members
  BY RepresentativeIn DEF EpisodesTyped
<1>2. TotalSupport(members) \in Nat \ {0}
  <2>1. Supported(members)
    BY DEF EpisodesTyped, Supported
  <2> QED
    BY <2>1, TotalIsPositive
<1>3. Claim(id, members) = [e EXCEPT !.id = id, !.support = TotalSupport(members)]
  BY DEF Claim, TotalSupport
<1>4. e = [id |-> e.id, text |-> e.text, link |-> e.link, support |-> e.support]
  BY <1>1 DEF EpisodesTyped, IsEpisode
<1> HIDE DEF e
<1>5. Claim(id, members) = [id |-> id, text |-> e.text, link |-> e.link,
                            support |-> TotalSupport(members)]
  BY <1>3, <1>4
<1>6. Claim(id, members).support = TotalSupport(members)
  BY <1>5
<1> QED
  BY <1>1, <1>2, <1>5, <1>6

\* Ids tell episodes apart, so there are finitely many.
LEMMA EpisodesFinite ==
    ASSUME NEW episodes, NEW n \in Nat, EpisodesTyped(episodes, n)
    PROVE  IsFiniteSet(episodes)
<1> DEFINE idOf == [e \in episodes |-> e.id]
<1>1. idOf \in Injection(episodes, 1 .. n)
  BY DEF Injection, IsInjective, EpisodesTyped
<1>2. IsFiniteSet(1 .. n)
  BY FS_Interval
<1> QED
  BY <1>1, <1>2, FS_Injection

\* Clusters are sets of episodes, none empty.
Clustering(clusters) ==
    clusters \subseteq SUBSET brain.episodes /\ {} \notin clusters

\* The clusters of a clustering are numbered, each has one number and one claim.
LEMMA OrderIs ==
    ASSUME Typed(brain), NEW clusters, Clustering(clusters)
    PROVE  /\ Cardinality(clusters) \in Nat
           /\ \E order \in [1 .. Cardinality(clusters) -> clusters] :
                /\ \A c \in clusters : \E i \in 1 .. Cardinality(clusters) : order[i] = c
                /\ \A i, j \in 1 .. Cardinality(clusters) : order[i] = order[j] => i = j
                /\ Claims(clusters) = {Claim(brain.counter + i, order[i]) :
                                         i \in 1 .. Cardinality(clusters)}
<1> DEFINE n == Cardinality(clusters)
           order == CHOOSE q \in [1 .. n -> clusters] :
                      \A c \in clusters : \E i \in DOMAIN q : q[i] = c
<1>1. IsFiniteSet(brain.episodes)
  BY EpisodesFinite DEF Typed
<1>2. IsFiniteSet(clusters)
  BY <1>1, FS_SUBSET, FS_Subset DEF Clustering
<1>3. n \in Nat /\ ExistsBijection(1 .. n, clusters)
  BY <1>2, FS_CardinalityType
<1>4. \E q \in [1 .. n -> clusters] : \A c \in clusters : \E i \in DOMAIN q : q[i] = c
  BY <1>3 DEF ExistsBijection, Bijection, Injection, Surjection
<1>5. /\ order \in [1 .. n -> clusters]
      /\ \A c \in clusters : \E i \in 1 .. n : order[i] = c
  BY <1>4
<1>6. Claims(clusters) = {Claim(brain.counter + i, order[i]) : i \in 1 .. n}
  BY DEF Claims
<1>7. \A i, j \in 1 .. n : order[i] = order[j] => i = j
  <2>1. IsFiniteSet(1 .. n) /\ Cardinality(1 .. n) = n
    BY <1>3, FS_Interval
  <2> HIDE DEF order
  <2>2. order \in Surjection(1 .. n, clusters)
    BY <1>5 DEF Surjection
  <2>3. order \in Injection(1 .. n, clusters)
    BY <2>1, <2>2, FS_SurjSameCardinalityImpliesInj
  <2> QED
    BY <2>3 DEF Injection, IsInjective
<1> HIDE DEF order
<1> QED
  BY <1>3, <1>5, <1>6, <1>7

\* The claims of a clustering have new ids, one each, and say what episodes said.
LEMMA ClaimsAre ==
    ASSUME Typed(brain), NEW clusters, Clustering(clusters)
    PROVE  /\ Cardinality(clusters) \in Nat
           /\ \A c \in Claims(clusters) :
                /\ \E e \in UNION clusters :
                     c = [id |-> c.id, text |-> e.text, link |-> e.link,
                          support |-> c.support]
                /\ c.id \in brain.counter + 1 .. brain.counter + Cardinality(clusters)
                /\ c.support \in Nat \ {0}
           /\ \A x, y \in Claims(clusters) : x.id = y.id => x = y
<1> DEFINE n == Cardinality(clusters)
<1>1. EpisodesTyped(brain.episodes, brain.counter) /\ brain.counter \in Nat
  BY DEF Typed
<1>2. IsFiniteSet(brain.episodes)
  BY <1>1, EpisodesFinite
<1>4. n \in Nat
  BY OrderIs
<1>6. PICK order \in [1 .. n -> clusters] :
         Claims(clusters) = {Claim(brain.counter + i, order[i]) : i \in 1 .. n}
  BY OrderIs
<1>7. Claims(clusters) = {Claim(brain.counter + i, order[i]) : i \in 1 .. n}
  BY <1>6
<1> HIDE DEF n
<1>8. ASSUME NEW i \in 1 .. n
      PROVE  /\ \E e \in UNION clusters :
                  Claim(brain.counter + i, order[i])
                    = [id |-> brain.counter + i, text |-> e.text, link |-> e.link,
                       support |-> Claim(brain.counter + i, order[i]).support]
             /\ Claim(brain.counter + i, order[i]).support \in Nat \ {0}
  <2>1. order[i] \in clusters
    BY <1>6
  <2>2. order[i] \in SUBSET brain.episodes /\ order[i] # {}
    BY <2>1 DEF Clustering
  <2>3. IsFiniteSet(order[i])
    BY <2>2, <1>2, FS_Subset
  <2> DEFINE m == order[i]
             id == brain.counter + i
  <2> HIDE DEF m, id
  <2>4. /\ \E e \in m : Claim(id, m) = [id |-> id, text |-> e.text, link |-> e.link,
                                        support |-> Claim(id, m).support]
        /\ Claim(id, m).support \in Nat \ {0}
    BY <2>2, <2>3, <1>1, ClaimIs DEF m
  <2> QED
    BY <2>1, <2>4 DEF m, id
<1>9. \A i \in 1 .. n : Claim(brain.counter + i, order[i]).id = brain.counter + i
  <2> TAKE i \in 1 .. n
  <2>1. PICK e : Claim(brain.counter + i, order[i])
                   = [id |-> brain.counter + i, text |-> e.text, link |-> e.link,
                      support |-> Claim(brain.counter + i, order[i]).support]
    BY <1>8
  <2> DEFINE c == Claim(brain.counter + i, order[i])
             id == brain.counter + i
             s == c.support
  <2>2. c = [id |-> id, text |-> e.text, link |-> e.link, support |-> s]
    BY <2>1
  <2> HIDE DEF c, id, s
  <2>3. c.id = id
    BY <2>2
  <2> QED
    BY <2>3 DEF c, id
<1>10. ASSUME NEW c \in Claims(clusters)
       PROVE  /\ \E e \in UNION clusters :
                   c = [id |-> c.id, text |-> e.text, link |-> e.link,
                        support |-> c.support]
              /\ c.id \in brain.counter + 1 .. brain.counter + n
              /\ c.support \in Nat \ {0}
  <2>1. PICK i \in 1 .. n : c = Claim(brain.counter + i, order[i])
    BY <1>7
  <2>2. c.id = brain.counter + i
    BY <2>1, <1>9
  <2>3. c.id \in brain.counter + 1 .. brain.counter + n
    BY <2>2, <1>1, <1>4
  <2> QED
    BY <2>1, <2>2, <2>3, <1>8
<1>11. ASSUME NEW x \in Claims(clusters), NEW y \in Claims(clusters), x.id = y.id
       PROVE  x = y
  <2>1. PICK i \in 1 .. n : x = Claim(brain.counter + i, order[i])
    BY <1>7
  <2>2. PICK j \in 1 .. n : y = Claim(brain.counter + j, order[j])
    BY <1>7
  <2>3. brain.counter + i = brain.counter + j
    BY <2>1, <2>2, <1>9, <1>11
  <2>4. i = j
    BY <2>3, <1>1, <1>4
  <2> QED
    BY <2>1, <2>2, <2>4
<1> QED
  BY <1>4, <1>10, <1>11 DEF n

\* What is known of a claim and its vector.
LEMMA ClaimVectorIs ==
    ASSUME Typed(brain), NEW clusters, Clustering(clusters), NEW c \in Claims(clusters)
    PROVE  /\ IsEpisode(c) /\ c.text \in Texts /\ c.link \in AllFacts \union {NoLink}
           /\ \E e \in brain.episodes : c.link = e.link
           /\ IsVector(ClaimVector(c)) /\ ClaimVector(c).rid = c.id
           /\ ClaimVector(c).text = c.text
           /\ ClaimVector(c).tags = IF c.link = NoLink THEN {} ELSE {c.link.subject}
           /\ ClaimVector(c).tags \subseteq Subjects
<1>1. PICK e \in UNION clusters :
         c = [id |-> c.id, text |-> e.text, link |-> e.link, support |-> c.support]
  BY ClaimsAre
<1>2. e \in brain.episodes
  BY DEF Clustering
<1>3. c.text = e.text /\ c.link = e.link
  BY <1>1
<1>4. e.text \in Texts /\ e.link \in AllFacts \union {NoLink}
  BY <1>2 DEF Typed, EpisodesTyped
<1>5. IsEpisode(c)
  BY <1>1, <1>3 DEF IsEpisode
<1>6. /\ IsVector(ClaimVector(c)) /\ ClaimVector(c).rid = c.id
      /\ ClaimVector(c).text = c.text
      /\ ClaimVector(c).tags = IF c.link = NoLink THEN {} ELSE {c.link.subject}
  BY DEF ClaimVector, IsVector
<1>7. ClaimVector(c).tags \subseteq Subjects
  BY <1>3, <1>4, <1>6, SaysAssumption
<1> QED
  BY <1>2, <1>3, <1>4, <1>5, <1>6, <1>7

\* The vector tier after a consolidation: old vectors, and new ones of claims.
LEMMA RevectoredIs ==
    ASSUME Typed(brain), NEW clusters, Clustering(clusters), NEW outdated
    PROVE  /\ VectorsTyped(Revectored(outdated, clusters),
                           brain.counter + Cardinality(clusters))
           /\ \A v \in Revectored(outdated, clusters) :
                \/ v \in brain.vectors \/ v.tags = {}
                \/ \E e \in brain.episodes : e.link # NoLink /\ v.tags = {e.link.subject}
<1> DEFINE V == Revectored(outdated, clusters)
           n == Cardinality(clusters)
<1>1. n \in Nat /\ brain.counter \in Nat /\ VectorsTyped(brain.vectors, brain.counter)
  BY ClaimsAre DEF Typed
<1>2. \A v \in V : v \in brain.vectors \/ \E c \in Claims(clusters) : v = ClaimVector(c)
  BY DEF Revectored
<1>3. \A c \in Claims(clusters) : c.id \in brain.counter + 1 .. brain.counter + n
  BY ClaimsAre
<1>4. \A x, y \in Claims(clusters) : x.id = y.id => x = y
  BY ClaimsAre
<1> HIDE DEF V, n
<1>5. ASSUME NEW v \in V
      PROVE  IsVector(v) /\ v.rid \in 1 .. brain.counter + n /\ v.tags \subseteq Subjects
  <2>1. CASE v \in brain.vectors
    BY <2>1, <1>1 DEF VectorsTyped
  <2>2. ASSUME NEW c \in Claims(clusters), v = ClaimVector(c)
        PROVE  IsVector(v) /\ v.rid \in 1 .. brain.counter + n /\ v.tags \subseteq Subjects
    <3>1. IsVector(v) /\ v.rid = c.id /\ v.tags \subseteq Subjects
      BY <2>2, ClaimVectorIs
    <3> QED
      BY <3>1, <1>1, <1>3
  <2> QED
    BY <2>1, <2>2, <1>2
<1>6. ASSUME NEW x \in V, NEW y \in V, x.rid = y.rid PROVE x = y
  <2>1. \A v \in brain.vectors : v.rid \in 1 .. brain.counter
    BY <1>1 DEF VectorsTyped
  <2>2. \A c \in Claims(clusters) : ClaimVector(c).rid = c.id
    BY ClaimVectorIs
  <2>3. CASE x \in brain.vectors /\ y \in brain.vectors
    BY <2>3, <1>6, <1>1 DEF VectorsTyped
  <2>4. CASE x \in brain.vectors /\ \E c \in Claims(clusters) : y = ClaimVector(c)
    BY <2>1, <2>2, <2>4, <1>1, <1>3, <1>6
  <2>5. CASE y \in brain.vectors /\ \E c \in Claims(clusters) : x = ClaimVector(c)
    BY <2>1, <2>2, <2>5, <1>1, <1>3, <1>6
  <2>6. CASE (\E c \in Claims(clusters) : x = ClaimVector(c))
             /\ (\E c \in Claims(clusters) : y = ClaimVector(c))
    BY <2>2, <2>6, <1>4, <1>6
  <2> QED
    BY <1>2, <2>3, <2>4, <2>5, <2>6
<1>7. ASSUME NEW v \in V
      PROVE  \/ v \in brain.vectors \/ v.tags = {}
             \/ \E e \in brain.episodes : e.link # NoLink /\ v.tags = {e.link.subject}
  <2>1. ASSUME NEW c \in Claims(clusters), v = ClaimVector(c)
        PROVE  \/ v.tags = {}
               \/ \E e \in brain.episodes : e.link # NoLink /\ v.tags = {e.link.subject}
    BY <2>1, ClaimVectorIs
  <2> QED
    BY <2>1, <1>2
<1> QED
  BY <1>5, <1>6, <1>7 DEF VectorsTyped, V, n

\* The episodes after a consolidation.
LEMMA ConsolidatedIs ==
    ASSUME Typed(brain), NEW clusters, Clustering(clusters),
           NEW outdated \in SUBSET brain.episodes,
           NEW E, E = (brain.episodes \ (outdated \union UNION clusters))
                        \union Claims(clusters)
    PROVE  /\ EpisodesTyped(E, brain.counter + Cardinality(clusters))
           /\ \A e \in E : \E x \in brain.episodes : e.link = x.link
           /\ Mirrored(brain.episodes, brain.vectors)
                => Mirrored(E, Revectored(outdated, clusters))
<1> DEFINE n == Cardinality(clusters)
           out == outdated \union UNION clusters
           V == Revectored(outdated, clusters)
<1>1. n \in Nat /\ brain.counter \in Nat /\ EpisodesTyped(brain.episodes, brain.counter)
  BY ClaimsAre DEF Typed
<1>2. \A c \in Claims(clusters) : c.id \in brain.counter + 1 .. brain.counter + n
                                  /\ c.support \in Nat \ {0}
  BY ClaimsAre
<1>3. \A x, y \in Claims(clusters) : x.id = y.id => x = y
  BY ClaimsAre
<1>4. \A c \in Claims(clusters) :
         /\ IsEpisode(c) /\ c.text \in Texts /\ c.link \in AllFacts \union {NoLink}
         /\ \E e \in brain.episodes : c.link = e.link
         /\ ClaimVector(c).rid = c.id /\ ClaimVector(c).text = c.text
  BY ClaimVectorIs
<1>5. V = {v \in brain.vectors : v.rid \notin {e.id : e \in out}}
            \union {ClaimVector(c) : c \in Claims(clusters)}
  BY DEF Revectored
<1>6. out \subseteq brain.episodes
  BY DEF Clustering
<1>7. \A e \in E : e \in brain.episodes \ out \/ e \in Claims(clusters)
  OBVIOUS
<1> HIDE DEF n, out, V
<1>8. EpisodesTyped(E, brain.counter + n)
  <2>1. ASSUME NEW e \in E
        PROVE  /\ IsEpisode(e) /\ e.id \in 1 .. brain.counter + n /\ e.text \in Texts
               /\ e.link \in AllFacts \union {NoLink} /\ e.support \in Nat \ {0}
    <3>1. CASE e \in brain.episodes
      BY <3>1, <1>1 DEF EpisodesTyped
    <3>2. CASE e \in Claims(clusters)
      BY <3>2, <1>1, <1>2, <1>4
    <3> QED
      BY <3>1, <3>2, <1>7
  <2>2. ASSUME NEW x \in E, NEW y \in E, x.id = y.id PROVE x = y
    <3>1. \A e \in brain.episodes : e.id \in 1 .. brain.counter
      BY <1>1 DEF EpisodesTyped
    <3>2. CASE x \in brain.episodes /\ y \in brain.episodes
      BY <3>2, <2>2, <1>1 DEF EpisodesTyped
    <3>3. CASE x \in brain.episodes /\ y \in Claims(clusters)
      BY <3>1, <3>3, <2>2, <1>1, <1>2
    <3>4. CASE y \in brain.episodes /\ x \in Claims(clusters)
      BY <3>1, <3>4, <2>2, <1>1, <1>2
    <3>5. CASE x \in Claims(clusters) /\ y \in Claims(clusters)
      BY <3>5, <2>2, <1>3
    <3> QED
      BY <1>7, <3>2, <3>3, <3>4, <3>5
  <2> QED
    BY <2>1, <2>2 DEF EpisodesTyped
<1>9. \A e \in E : \E x \in brain.episodes : e.link = x.link
  BY <1>4, <1>7
<1>10. ASSUME Mirrored(brain.episodes, brain.vectors) PROVE Mirrored(E, V)
  <2>1. ASSUME NEW e \in E PROVE \E v \in V : v.rid = e.id /\ v.text = e.text
    <3>1. CASE e \in Claims(clusters)
      BY <3>1, <1>4, <1>5
    <3>2. CASE e \in brain.episodes \ out
      <4>1. PICK v \in brain.vectors : v.rid = e.id /\ v.text = e.text
        BY <3>2, <1>10 DEF Mirrored
      <4>2. \A x \in out : x.id # e.id
        BY <3>2, <1>1, <1>6 DEF EpisodesTyped
      <4>3. v \in V
        BY <4>1, <4>2, <1>5
      <4> QED
        BY <4>1, <4>3
    <3> QED
      BY <3>1, <3>2, <1>7
  <2>2. ASSUME NEW v \in V PROVE \E e \in E : v.rid = e.id /\ v.text = e.text
    <3>1. ASSUME NEW c \in Claims(clusters), v = ClaimVector(c)
          PROVE  \E e \in E : v.rid = e.id /\ v.text = e.text
      <4>1. c \in E
        OBVIOUS
      <4> QED
        BY <3>1, <4>1, <1>4
    <3>2. CASE v \in brain.vectors /\ v.rid \notin {e.id : e \in out}
      <4>1. PICK e \in brain.episodes : v.rid = e.id /\ v.text = e.text
        BY <3>2, <1>10 DEF Mirrored
      <4>2. e \notin out
        BY <4>1, <3>2
      <4>3. e \in E
        BY <4>2 DEF out
      <4> QED
        BY <4>1, <4>3
    <3> QED
      BY <3>1, <3>2, <1>5
  <2> QED
    BY <2>1, <2>2 DEF Mirrored
<1> QED
  BY <1>8, <1>9, <1>10 DEF n, V

\* Each cluster has one claim, which carries the support of the cluster.
LEMMA ClaimOfCluster ==
    ASSUME Typed(brain), NEW clusters, Clustering(clusters)
    PROVE  \E claim :
              /\ Claims(clusters) = {claim[c] : c \in clusters}
              /\ \A c \in clusters : /\ \E e \in c : claim[c].link = e.link
                                     /\ claim[c].support = TotalSupport(c)
                                     /\ claim[c].id > brain.counter
<1> DEFINE n == Cardinality(clusters)
<1>1. EpisodesTyped(brain.episodes, brain.counter) /\ brain.counter \in Nat
  BY DEF Typed
<1>2. IsFiniteSet(brain.episodes)
  BY <1>1, EpisodesFinite
<1>4. n \in Nat
  BY OrderIs
<1>6. PICK order \in [1 .. n -> clusters] :
         /\ \A c \in clusters : \E i \in 1 .. n : order[i] = c
         /\ \A i, j \in 1 .. n : order[i] = order[j] => i = j
         /\ Claims(clusters) = {Claim(brain.counter + i, order[i]) : i \in 1 .. n}
  BY OrderIs
<1>7. Claims(clusters) = {Claim(brain.counter + i, order[i]) : i \in 1 .. n}
  BY <1>6
<1>8. \A i, j \in 1 .. n : order[i] = order[j] => i = j
  BY <1>6
<1> DEFINE indexOf == [c \in clusters |-> CHOOSE i \in 1 .. n : order[i] = c]
           claim == [c \in clusters |-> Claim(brain.counter + indexOf[c], c)]
<1> HIDE DEF n
<1>9. \A c \in clusters : indexOf[c] \in 1 .. n /\ order[indexOf[c]] = c
  BY <1>6
<1>10. \A i \in 1 .. n : order[i] \in clusters /\ indexOf[order[i]] = i
  BY <1>6, <1>8, <1>9
<1> HIDE DEF indexOf
<1>11. Claims(clusters) = {claim[c] : c \in clusters}
  <2>1. ASSUME NEW i \in 1 .. n
        PROVE  Claim(brain.counter + i, order[i]) \in {claim[c] : c \in clusters}
    BY <1>10
  <2>2. ASSUME NEW c \in clusters
        PROVE  claim[c] \in {Claim(brain.counter + i, order[i]) : i \in 1 .. n}
    <3>1. claim[c] = Claim(brain.counter + indexOf[c], order[indexOf[c]])
      BY <1>9
    <3> QED
      BY <3>1, <1>9
  <2> QED
    BY <2>1, <2>2, <1>7
<1>12. ASSUME NEW c \in clusters
       PROVE  /\ \E e \in c : claim[c].link = e.link
              /\ claim[c].support = TotalSupport(c)
              /\ claim[c].id > brain.counter
  <2> DEFINE id == brain.counter + indexOf[c]
             e == Representative(c)
  <2>1. c \in SUBSET brain.episodes /\ c # {} /\ IsFiniteSet(c)
    BY <1>2, FS_Subset DEF Clustering
  <2>2. e \in c
    <3>1. \A x \in c : x.support \in Nat /\ x.id \in Nat
      BY <2>1, <1>1 DEF EpisodesTyped
    <3> QED
      BY <2>1, <3>1, RepresentativeIn
  <2>3. claim[c] = [e EXCEPT !.id = id, !.support = TotalSupport(c)]
    BY DEF Claim, TotalSupport
  <2>4. e = [id |-> e.id, text |-> e.text, link |-> e.link, support |-> e.support]
    BY <1>1, <2>1, <2>2 DEF EpisodesTyped, IsEpisode
  <2>5. id > brain.counter
    BY <1>1, <1>4, <1>9
  <2> HIDE DEF e, id, claim
  <2>6. claim[c] = [id |-> id, text |-> e.text, link |-> e.link, support |-> TotalSupport(c)]
    BY <2>3, <2>4
  <2>7. claim[c].link = e.link /\ claim[c].support = TotalSupport(c) /\ claim[c].id = id
    BY <2>6
  <2> QED
    BY <2>2, <2>5, <2>7
<1> HIDE DEF claim
<1> QED
  BY <1>11, <1>12

-----------------------------------------------------------------------------
(* The invariant is kept, operation by operation *)

\* The facts of a write are facts of its text.
LEMMA IntakeIs ==
    ASSUME NEW text \in Texts, NEW supplied \in BOOLEAN, Writing(text, supplied)
    PROVE  /\ Intake(text, supplied) \in Seq(AllFacts)
           /\ FactsIn(Intake(text, supplied)) \subseteq FactsIn(Says[text])
           /\ FactsIn(Says[text]) \subseteq AllFacts
           /\ ~supplied => \/ Intake(text, supplied) = Says[text]
                           \/ text \in brain.asserted /\ Intake(text, supplied) = <<>>
<1>1. Says[text] \in Seq(AllFacts)
  BY SaysAssumption
<1>2. FactsIn(Says[text]) \subseteq AllFacts
  BY DEF AllFacts
<1>3. FactsIn(<<>>) = {} /\ <<>> \in Seq(AllFacts)
  BY DEF FactsIn
<1>4. CASE supplied
  <2>1. Says[text] # <<>>
    BY <1>4 DEF Writing
  <2>2. Len(Says[text]) \in Nat \ {0}
    BY <1>1, <2>1
  <2>3. /\ SubSeq(Says[text], 1, 1) \in Seq(AllFacts)
        /\ DOMAIN SubSeq(Says[text], 1, 1) = {1}
        /\ SubSeq(Says[text], 1, 1)[1] = Says[text][1]
    BY <1>1, <2>2
  <2>4. FactsIn(SubSeq(Says[text], 1, 1)) \subseteq FactsIn(Says[text])
    BY <1>1, <2>2, <2>3 DEF FactsIn
  <2> QED
    BY <1>2, <1>4, <2>3, <2>4 DEF Intake
<1>5. CASE ~supplied
  BY <1>1, <1>2, <1>3, <1>5 DEF Intake
<1> QED
  BY <1>4, <1>5

\* The invariant holds of an empty brain.
LEMMA InitInv == Init => Inv
<1> SUFFICES ASSUME Init PROVE Inv
  OBVIOUS
<1>1. /\ brain.rows = {} /\ brain.episodes = {} /\ brain.vectors = {}
      /\ brain.asserted = {} /\ brain.known = {} /\ brain.counter = 0
  BY DEF Init, Empty
<1>2. Typed(brain)
  BY <1>1 DEF Init, Empty, Typed, RowsTyped, EpisodesTyped, VectorsTyped
<1>3. Sound(brain, owed, unrouted, gone, halfway)
  BY <1>1, <1>2 DEF Init, Sound, Captured, Absent, Mirrors, Mirrored
<1> QED
  BY <1>3 DEF Init, Inv, CacheIsFresh

\* What all writes that return have in common.
LEMMA SettleInv ==
    ASSUME Inv, NEW text \in Texts, NEW supplied \in BOOLEAN, NEW late,
           Writing(text, supplied),
           NEW episodes, NEW vectors, NEW counter \in Nat, counter >= brain.counter,
           EpisodesTyped(episodes, counter), VectorsTyped(vectors, counter),
           Mirrored(brain.episodes, brain.vectors) => Mirrored(episodes, vectors),
           \A e \in episodes : \/ e.link = NoLink
                               \/ e.link \in FactsIn(Intake(text, supplied))
                               \/ \E x \in brain.episodes : e.link = x.link,
           \A v \in vectors : \/ v.tags \subseteq {f.subject : f \in FactsIn(Intake(text, supplied))}
                              \/ v \in brain.vectors,
           Settle(text, supplied, late, episodes, vectors, counter)
    PROVE  Inv'
<1> DEFINE facts  == Intake(text, supplied)
           stated == IF supplied THEN FactsIn(facts) ELSE FactsIn(Says[text])
           routed == Route(brain.rows, counter, facts, late)
<1>1. /\ brain' = [rows |-> routed.rows, episodes |-> episodes, vectors |-> vectors,
                   asserted |-> Guarded(text, supplied), known |-> Registered(facts),
                   counter |-> routed.counter]
      /\ derived' = NoCache
      /\ owed' = owed \union stated /\ unrouted' = unrouted \ FactsIn(facts)
      /\ gone' = gone \ UNION {Names(f) : f \in stated}
      /\ UNCHANGED <<saved, halfway>>
  BY DEF Settle
<1>2. /\ facts \in Seq(AllFacts) /\ FactsIn(facts) \subseteq FactsIn(Says[text])
      /\ FactsIn(Says[text]) \subseteq AllFacts
      /\ ~supplied => facts = Says[text] \/ (text \in brain.asserted /\ facts = <<>>)
  BY IntakeIs
<1>3. FactsIn(facts) \subseteq stated /\ stated \subseteq AllFacts
  BY <1>2
<1>4. Typed(brain) /\ brain.counter \in Nat /\ RowsTyped(brain.rows, brain.counter)
  BY DEF Inv, Sound, Typed
<1>5. RowsTyped(brain.rows, counter)
  BY <1>4 DEF RowsTyped
<1>6. /\ routed.counter \in Nat /\ routed.counter >= counter
      /\ RowsTyped(routed.rows, routed.counter)
      /\ Facts(routed.rows) = Facts(brain.rows) \union FactsIn(facts)
  <2> HIDE DEF facts
  <2> QED
    BY <1>2, <1>5, RouteIs
<1> HIDE DEF facts, stated, routed
<1>7. /\ brain'.rows = routed.rows /\ brain'.episodes = episodes
      /\ brain'.vectors = vectors /\ brain'.asserted = Guarded(text, supplied)
      /\ brain'.known = Registered(facts) /\ brain'.counter = routed.counter
  BY <1>1
<1>8. Guarded(text, supplied) \subseteq Texts
  BY <1>4 DEF Guarded, Typed
<1>9. Registered(facts) \subseteq Subjects
  <2>1. \A f \in FactsIn(facts) : f.subject \in Subjects
    BY <1>2, SaysAssumption
  <2> QED
    BY <1>4, <2>1 DEF Registered, Typed
<1>10. Typed(brain)'
  <2>1. EpisodesTyped(episodes, routed.counter)
    BY <1>6 DEF EpisodesTyped
  <2>2. VectorsTyped(vectors, routed.counter)
    BY <1>6 DEF VectorsTyped
  <2>3. brain' = [rows |-> brain'.rows, episodes |-> brain'.episodes,
                  vectors |-> brain'.vectors, asserted |-> brain'.asserted,
                  known |-> brain'.known, counter |-> brain'.counter]
    BY <1>1, <1>7
  <2> QED
    BY <1>6, <1>7, <1>8, <1>9, <2>1, <2>2, <2>3 DEF Typed
<1>11. Captured(brain, owed, unrouted)'
  <2> SUFFICES /\ owed' \subseteq Facts(routed.rows) \union unrouted'
               /\ \A x \in Guarded(text, supplied) :
                    FactsIn(Says[x]) \subseteq Facts(routed.rows) \union unrouted'
    BY <1>7 DEF Captured
  <2>1. /\ owed \subseteq Facts(brain.rows) \union unrouted
        /\ \A x \in brain.asserted : FactsIn(Says[x]) \subseteq Facts(brain.rows) \union unrouted
    BY DEF Inv, Sound, Captured
  <2>2. Facts(brain.rows) \union unrouted \subseteq Facts(routed.rows) \union unrouted'
    BY <1>1, <1>6
  <2>3. stated \subseteq Facts(routed.rows) \union unrouted'
    <3>1. CASE stated = FactsIn(facts)
      BY <3>1, <1>6
    <3>2. CASE ~supplied
      BY <3>2, <2>1, <2>2, <1>2, <1>3, <1>6 DEF stated
    <3> QED
      BY <3>1, <3>2 DEF stated
  <2>4. owed' \subseteq Facts(routed.rows) \union unrouted'
    BY <1>1, <2>1, <2>2, <2>3
  <2>5. ASSUME NEW x \in Guarded(text, supplied)
        PROVE  FactsIn(Says[x]) \subseteq Facts(routed.rows) \union unrouted'
    <3>1. CASE x \in brain.asserted
      BY <3>1, <2>1, <2>2
    <3>2. CASE x = text /\ ~supplied
      BY <3>2, <2>3 DEF stated
    <3> QED
      BY <3>1, <3>2 DEF Guarded
  <2> QED
    BY <2>4, <2>5
<1>12. Absent(brain, gone)'
  <2> SUFFICES ASSUME NEW s \in gone'
               PROVE  /\ \A r \in routed.rows : s \notin Names(r)
                      /\ \A e \in episodes : e.link # NoLink => s \notin Names(e.link)
                      /\ \A v \in vectors : s \notin v.tags
                      /\ s \notin Registered(facts)
    BY <1>7 DEF Absent
  <2>1. s \in gone /\ \A f \in FactsIn(facts) : s \notin Names(f)
    BY <1>1, <1>3
  <2>2. /\ \A r \in brain.rows : s \notin Names(r)
        /\ \A e \in brain.episodes : e.link # NoLink => s \notin Names(e.link)
        /\ \A v \in brain.vectors : s \notin v.tags
        /\ s \notin brain.known
    BY <2>1 DEF Inv, Sound, Absent
  <2>3. \A f \in FactsIn(facts) : s # f.subject
    BY <2>1 DEF Names
  <2>4. ASSUME NEW r \in routed.rows PROVE s \notin Names(r)
    <3>1. FactOf(r) \in Facts(brain.rows) \union FactsIn(facts)
      BY <1>6 DEF Facts
    <3>2. Names(r) = Names(FactOf(r)) /\ \A q \in brain.rows : Names(q) = Names(FactOf(q))
      BY DEF Names, FactOf
    <3> QED
      BY <3>1, <3>2, <2>1, <2>2 DEF Facts
  <2>5. \A e \in episodes : e.link # NoLink => s \notin Names(e.link)
    BY <2>1, <2>2 DEF facts
  <2>6. \A v \in vectors : s \notin v.tags
    BY <2>2, <2>3 DEF facts
  <2>7. s \notin Registered(facts)
    BY <2>2, <2>3 DEF Registered
  <2> QED
    BY <2>4, <2>5, <2>6, <2>7
<1>13. Mirrors(brain, halfway)'
  BY <1>1, <1>7 DEF Inv, Sound, Mirrors
<1> QED
  BY <1>1, <1>10, <1>11, <1>12, <1>13 DEF Inv, Sound, CacheIsFresh

\* STORE: one episode and one vector with a new id.
LEMMA StoredInv ==
    ASSUME Inv, NEW text \in Texts, NEW supplied \in BOOLEAN, NEW late,
           WriteStored(text, supplied, late)
    PROVE  Inv'
<1> DEFINE facts == Intake(text, supplied)
           id    == brain.counter + 1
           link  == IF facts = <<>> THEN NoLink ELSE facts[1]
           tags  == IF facts = <<>> THEN {} ELSE {facts[1].subject}
           e     == [id |-> id, text |-> text, link |-> link, support |-> 1]
           v     == [rid |-> id, text |-> text, tags |-> tags]
           E     == brain.episodes \union {e}
           V     == brain.vectors \union {v}
<1>1. Writing(text, supplied) /\ Settle(text, supplied, late, E, V, id)
  BY DEF WriteStored
<1>2. facts \in Seq(AllFacts)
  BY <1>1, IntakeIs
<1>3. facts # <<>> => facts[1] \in FactsIn(facts) /\ facts[1] \in AllFacts
  <2> HAVE facts # <<>>
  <2>1. 1 \in DOMAIN facts
    BY <1>2
  <2> QED
    BY <1>2, <2>1 DEF FactsIn
<1>4. /\ brain.counter \in Nat /\ EpisodesTyped(brain.episodes, brain.counter)
      /\ VectorsTyped(brain.vectors, brain.counter)
  BY DEF Inv, Sound, Typed
<1>5. /\ id \in Nat /\ id >= brain.counter /\ id \in 1 .. id
      /\ \A k \in 1 .. brain.counter : k # id /\ k \in 1 .. id
  BY <1>4
<1>6. /\ e.id = id /\ e.text = text /\ e.link = link /\ e.support = 1 /\ IsEpisode(e)
      /\ v.rid = id /\ v.text = text /\ v.tags = tags /\ IsVector(v)
  BY DEF IsEpisode, IsVector
<1>7. link \in AllFacts \union {NoLink} /\ (link = NoLink \/ link \in FactsIn(facts))
  BY <1>3
<1>8. tags \subseteq {f.subject : f \in FactsIn(facts)} /\ tags \subseteq Subjects
  BY <1>3, SaysAssumption
<1> HIDE DEF facts, id, link, tags, e, v
<1>9. EpisodesTyped(E, id)
  <2>1. \A x \in brain.episodes :
           /\ IsEpisode(x) /\ x.id \in 1 .. id /\ x.id # id /\ x.text \in Texts
           /\ x.link \in AllFacts \union {NoLink} /\ x.support \in Nat \ {0}
    BY <1>4, <1>5 DEF EpisodesTyped
  <2>2. \A x, y \in brain.episodes : x.id = y.id => x = y
    BY <1>4 DEF EpisodesTyped
  <2>3. e.support \in Nat \ {0} /\ e.id \in 1 .. id
    BY <1>5, <1>6
  <2> QED
    BY <2>1, <2>2, <2>3, <1>6, <1>7 DEF EpisodesTyped
<1>10. VectorsTyped(V, id)
  <2>1. \A x \in brain.vectors : /\ IsVector(x) /\ x.rid \in 1 .. id /\ x.rid # id
                                 /\ x.tags \subseteq Subjects
    BY <1>4, <1>5 DEF VectorsTyped
  <2>2. \A x, y \in brain.vectors : x.rid = y.rid => x = y
    BY <1>4 DEF VectorsTyped
  <2> QED
    BY <2>1, <2>2, <1>5, <1>6, <1>8 DEF VectorsTyped
<1>11. Mirrored(brain.episodes, brain.vectors) => Mirrored(E, V)
  BY <1>6 DEF Mirrored
<1>12. \A x \in E : \/ x.link = NoLink \/ x.link \in FactsIn(facts)
                    \/ \E y \in brain.episodes : x.link = y.link
  BY <1>6, <1>7
<1>13. \A x \in V : x.tags \subseteq {f.subject : f \in FactsIn(facts)} \/ x \in brain.vectors
  BY <1>6, <1>8
<1> HIDE DEF E, V
<1> QED
  BY <1>1, <1>5, <1>9, <1>10, <1>11, <1>12, <1>13, SettleInv DEF facts

\* REINFORCE: the same episodes, one with more support.
LEMMA ReinforcedInv ==
    ASSUME Inv, NEW text \in Texts, NEW supplied \in BOOLEAN, NEW late,
           WriteReinforced(text, supplied, late)
    PROVE  Inv'
<1>1. PICK near : LET target == {e \in brain.episodes : e.id = near.rid}
                  IN  /\ Writing(text, supplied)
                      /\ Settle(text, supplied, late,
                                (brain.episodes \ target)
                                  \union {[e EXCEPT !.support = @ + 1] : e \in target},
                                brain.vectors, brain.counter)
  BY DEF WriteReinforced
<1> DEFINE target == {e \in brain.episodes : e.id = near.rid}
           more(e) == [e EXCEPT !.support = @ + 1]
           E == (brain.episodes \ target) \union {more(e) : e \in target}
<1>2. /\ brain.counter \in Nat /\ EpisodesTyped(brain.episodes, brain.counter)
      /\ VectorsTyped(brain.vectors, brain.counter)
  BY DEF Inv, Sound, Typed
<1>3. \A e \in brain.episodes : /\ IsEpisode(more(e)) /\ more(e).id = e.id
                               /\ more(e).text = e.text /\ more(e).link = e.link
                               /\ more(e).support \in Nat \ {0}
  <2> TAKE e \in brain.episodes
  <2>1. IsEpisode(e) /\ e.support \in Nat \ {0}
    BY <1>2 DEF EpisodesTyped
  <2>2. more(e) = [id |-> e.id, text |-> e.text, link |-> e.link, support |-> e.support + 1]
    BY <2>1 DEF IsEpisode
  <2> HIDE DEF more
  <2> QED
    BY <2>1, <2>2 DEF IsEpisode
<1>4. target \subseteq brain.episodes
  OBVIOUS
<1> HIDE DEF more, target
<1>5. \A x \in E : x \in brain.episodes \ target \/ \E e \in target : x = more(e)
  OBVIOUS
<1>6. \A x \in E : \E e \in brain.episodes : x.id = e.id /\ x.text = e.text /\ x.link = e.link
  BY <1>3, <1>4, <1>5
<1>7. \A e \in brain.episodes : \E x \in E : x.id = e.id /\ x.text = e.text
  <2> TAKE e \in brain.episodes
  <2>1. CASE e \in target
    <3>1. more(e) \in E
      BY <2>1
    <3> QED
      BY <3>1, <1>3
  <2>2. CASE e \notin target
    <3>1. e \in E
      BY <2>2
    <3> QED
      BY <3>1
  <2> QED
    BY <2>1, <2>2
<1>8. EpisodesTyped(E, brain.counter)
  <2>1. ASSUME NEW x \in E
        PROVE  /\ IsEpisode(x) /\ x.id \in 1 .. brain.counter /\ x.text \in Texts
               /\ x.link \in AllFacts \union {NoLink} /\ x.support \in Nat \ {0}
    BY <1>2, <1>3, <1>4, <1>5 DEF EpisodesTyped
  <2>2. ASSUME NEW x \in E, NEW y \in E, x.id = y.id PROVE x = y
    BY <1>2, <1>3, <1>4, <1>5, <2>2 DEF EpisodesTyped
  <2> QED
    BY <2>1, <2>2 DEF EpisodesTyped
<1> HIDE DEF E
<1>9. Mirrored(brain.episodes, brain.vectors) => Mirrored(E, brain.vectors)
  BY <1>6, <1>7 DEF Mirrored
<1>10. Writing(text, supplied) /\ Settle(text, supplied, late, E, brain.vectors, brain.counter)
  BY <1>1 DEF E, more, target
<1> QED
  BY <1>2, <1>6, <1>8, <1>9, <1>10, SettleInv

\* DISCARD: the same episodes and vectors.
LEMMA DiscardedInv ==
    ASSUME Inv, NEW text \in Texts, NEW supplied \in BOOLEAN, NEW late,
           WriteDiscarded(text, supplied, late)
    PROVE  Inv'
<1>1. /\ Writing(text, supplied)
      /\ Settle(text, supplied, late, brain.episodes, brain.vectors, brain.counter)
  BY DEF WriteDiscarded
<1>2. /\ brain.counter \in Nat /\ EpisodesTyped(brain.episodes, brain.counter)
      /\ VectorsTyped(brain.vectors, brain.counter)
  BY DEF Inv, Sound, Typed
<1> QED
  BY <1>1, <1>2, SettleInv

\* A write that raised: a guarded text whose facts have no rows, and are unrouted.
LEMMA FailsInv ==
    ASSUME Inv, NEW text \in Texts, NEW supplied \in BOOLEAN, WriteFails(text, supplied)
    PROVE  Inv'
<1> DEFINE facts == Intake(text, supplied)
<1>1. /\ Writing(text, supplied)
      /\ brain' = [brain EXCEPT !.asserted = Guarded(text, supplied),
                                !.known = Registered(facts)]
      /\ derived' = NoCache
      /\ gone' = gone \ UNION {Names(f) : f \in FactsIn(Says[text])}
      /\ unrouted' = unrouted \union
                       ((IF supplied THEN {} ELSE FactsIn(facts)) \ Facts(brain.rows))
      /\ UNCHANGED <<saved, owed, halfway>>
  BY DEF WriteFails, Facts
<1>2. /\ FactsIn(facts) \subseteq FactsIn(Says[text]) /\ FactsIn(Says[text]) \subseteq AllFacts
      /\ ~supplied => facts = Says[text] \/ (text \in brain.asserted /\ facts = <<>>)
  BY <1>1, IntakeIs
<1>3. Typed(brain)
  BY DEF Inv, Sound
<1> HIDE DEF facts
<1>4. /\ brain' = [rows |-> brain.rows, episodes |-> brain.episodes,
                   vectors |-> brain.vectors, asserted |-> Guarded(text, supplied),
                   known |-> Registered(facts), counter |-> brain.counter]
  BY <1>1, <1>3 DEF Typed
<1>5. /\ brain'.rows = brain.rows /\ brain'.episodes = brain.episodes
      /\ brain'.vectors = brain.vectors /\ brain'.asserted = Guarded(text, supplied)
      /\ brain'.known = Registered(facts) /\ brain'.counter = brain.counter
  BY <1>4
<1>6. Typed(brain)'
  <2>1. Guarded(text, supplied) \subseteq Texts
    BY <1>3 DEF Guarded, Typed
  <2>2. \A f \in FactsIn(facts) : f.subject \in Subjects
    BY <1>2, SaysAssumption
  <2>3. Registered(facts) \subseteq Subjects
    BY <1>3, <2>2 DEF Registered, Typed
  <2> QED
    BY <1>3, <1>4, <1>5, <2>1, <2>3 DEF Typed
<1>7. Absent(brain, gone)'
  <2> SUFFICES ASSUME NEW s \in gone'
               PROVE  /\ \A r \in brain.rows : s \notin Names(r)
                      /\ \A e \in brain.episodes : e.link # NoLink => s \notin Names(e.link)
                      /\ \A v \in brain.vectors : s \notin v.tags
                      /\ s \notin Registered(facts)
    BY <1>5 DEF Absent
  <2>1. s \in gone /\ \A f \in FactsIn(facts) : s \notin Names(f)
    BY <1>1, <1>2
  <2>2. \A f \in FactsIn(facts) : s # f.subject
    BY <2>1 DEF Names
  <2> QED
    BY <2>1, <2>2 DEF Inv, Sound, Absent, Registered
<1>8. Captured(brain, owed, unrouted)'
  <2> SUFFICES /\ owed \subseteq Facts(brain.rows) \union unrouted'
               /\ \A x \in Guarded(text, supplied) :
                    FactsIn(Says[x]) \subseteq Facts(brain.rows) \union unrouted'
    BY <1>1, <1>5 DEF Captured
  <2>1. /\ owed \subseteq Facts(brain.rows) \union unrouted
        /\ \A x \in brain.asserted : FactsIn(Says[x]) \subseteq Facts(brain.rows) \union unrouted
    BY DEF Inv, Sound, Captured
  <2>2. ASSUME NEW x \in Guarded(text, supplied)
        PROVE  FactsIn(Says[x]) \subseteq Facts(brain.rows) \union unrouted'
    <3>1. CASE x \in brain.asserted
      BY <3>1, <2>1, <1>1
    <3>2. CASE x = text /\ ~supplied
      BY <3>2, <2>1, <1>1, <1>2
    <3> QED
      BY <3>1, <3>2 DEF Guarded
  <2> QED
    BY <1>1, <2>1, <2>2
<1>9. Mirrors(brain, halfway)'
  BY <1>1, <1>5 DEF Inv, Sound, Mirrors
<1> QED
  BY <1>1, <1>6, <1>7, <1>8, <1>9 DEF Inv, Sound, CacheIsFresh

\* What forgets have in common; names that are gone now must be nowhere in the rest.
LEMMA EraseInv ==
    ASSUME Inv, NEW rows \in SUBSET brain.rows, NEW doomed, NEW known \in SUBSET brain.known,
           Erase(rows, doomed, known),
           \A s \in gone' \ gone :
              /\ \A r \in brain.rows \ rows : s \notin Names(r)
              /\ \A e \in brain.episodes :
                   e.id \notin doomed /\ e.link # NoLink => s \notin Names(e.link)
              /\ \A v \in brain.vectors : v.rid \notin doomed => s \notin v.tags
              /\ s \notin known
    PROVE  Inv'
<1> DEFINE removed == {e \in brain.episodes : e.id \in doomed}
           kept    == {v \in brain.vectors : v.rid \notin doomed}
           guarded == brain.asserted \ {e.text : e \in removed}
<1>1. /\ brain' = [brain EXCEPT
                     !.rows     = brain.rows \ rows,
                     !.episodes = brain.episodes \ removed,
                     !.vectors  = kept,
                     !.asserted = guarded,
                     !.known    = known]
      /\ derived' = NoCache
      /\ owed' = owed \ Facts(rows) /\ unrouted' = unrouted \union Facts(rows)
      /\ UNCHANGED <<saved, halfway>>
  BY DEF Erase, Facts
<1>2. Typed(brain)
  BY DEF Inv, Sound
<1>3. /\ \A e \in brain.episodes \ removed : e.id \notin doomed
      /\ kept \subseteq brain.vectors /\ \A v \in kept : v.rid \notin doomed
      /\ \A v \in brain.vectors : v.rid \notin doomed => v \in kept
      /\ \A e \in brain.episodes : e.id \notin doomed => e \in brain.episodes \ removed
      /\ guarded \subseteq brain.asserted
  OBVIOUS
<1> HIDE DEF removed, kept, guarded
<1>4. brain' = [rows |-> brain.rows \ rows, episodes |-> brain.episodes \ removed,
                vectors |-> kept, asserted |-> guarded, known |-> known,
                counter |-> brain.counter]
  BY <1>1, <1>2 DEF Typed
<1>5. /\ brain'.rows = brain.rows \ rows /\ brain'.episodes = brain.episodes \ removed
      /\ brain'.vectors = kept /\ brain'.asserted = guarded
      /\ brain'.known = known /\ brain'.counter = brain.counter
  BY <1>4
<1>6. Typed(brain)'
  <2>1. RowsTyped(brain.rows \ rows, brain.counter)
    BY <1>2 DEF Typed, RowsTyped
  <2>2. EpisodesTyped(brain.episodes \ removed, brain.counter)
    BY <1>2 DEF Typed, EpisodesTyped
  <2>3. VectorsTyped(kept, brain.counter)
    BY <1>2, <1>3 DEF Typed, VectorsTyped
  <2> QED
    BY <1>2, <1>3, <1>4, <1>5, <2>1, <2>2, <2>3 DEF Typed
<1>7. Captured(brain, owed, unrouted)'
  <2> SUFFICES /\ owed \ Facts(rows) \subseteq Facts(brain.rows \ rows) \union unrouted \union Facts(rows)
               /\ \A x \in guarded :
                    FactsIn(Says[x])
                      \subseteq Facts(brain.rows \ rows) \union unrouted \union Facts(rows)
    BY <1>1, <1>5 DEF Captured
  <2>1. Facts(brain.rows) \subseteq Facts(brain.rows \ rows) \union Facts(rows)
    BY DEF Facts
  <2>2. /\ owed \subseteq Facts(brain.rows) \union unrouted
        /\ \A x \in brain.asserted : FactsIn(Says[x]) \subseteq Facts(brain.rows) \union unrouted
    BY DEF Inv, Sound, Captured
  <2> QED
    BY <1>3, <2>1, <2>2
<1>8. Absent(brain, gone)'
  <2> SUFFICES ASSUME NEW s \in gone'
               PROVE  /\ \A r \in brain.rows \ rows : s \notin Names(r)
                      /\ \A e \in brain.episodes \ removed :
                           e.link # NoLink => s \notin Names(e.link)
                      /\ \A v \in kept : s \notin v.tags
                      /\ s \notin known
    BY <1>5 DEF Absent
  <2>1. CASE s \in gone
    BY <2>1, <1>3 DEF Inv, Sound, Absent
  <2>2. CASE s \notin gone
    BY <2>2, <1>3
  <2> QED
    BY <2>1, <2>2
<1>9. Mirrors(brain, halfway)'
  <2> SUFFICES ASSUME Mirrored(brain.episodes, brain.vectors)
               PROVE  Mirrored(brain.episodes \ removed, kept)
    BY <1>1, <1>5 DEF Inv, Sound, Mirrors
  <2> QED
    BY <1>3 DEF Mirrored
<1> QED
  BY <1>1, <1>6, <1>7, <1>8, <1>9 DEF Inv, Sound, CacheIsFresh

\* A name in no row, link, tag or vocabulary that remains.
LEMMA ForgetInv ==
    ASSUME Inv, NEW s \in Subjects, Forget(s)
    PROVE  Inv'
<1> DEFINE rows   == {r \in brain.rows : s \in Names(r)}
           doomed == LinkedTo(brain, LAMBDA f : s \in Names(f)) \union Tagged(s)
           known  == brain.known \ {s}
<1>1. Erase(rows, doomed, known) /\ gone' = gone \union {s}
  BY DEF Forget
<1>2. /\ \A r \in brain.rows \ rows : s \notin Names(r)
      /\ s \notin known
  OBVIOUS
<1>3. \A e \in brain.episodes : e.id \notin doomed /\ e.link # NoLink => s \notin Names(e.link)
  BY DEF LinkedTo
<1>4. \A v \in brain.vectors : v.rid \notin doomed => s \notin v.tags
  BY DEF Tagged
<1>5. rows \in SUBSET brain.rows /\ known \in SUBSET brain.known
  OBVIOUS
<1>6. \A t \in gone' \ gone : t = s
  BY <1>1
<1> HIDE DEF rows, doomed, known
<1> QED
  BY <1>1, <1>2, <1>3, <1>4, <1>5, <1>6, EraseInv

\* One predicate of a subject: no name is gone.
LEMMA ForgetKeyInv ==
    ASSUME Inv, NEW s, NEW p, ForgetKey(s, p)
    PROVE  Inv'
<1> DEFINE rows   == {r \in brain.rows : r.subject = s /\ r.predicate = p}
           doomed == LinkedTo(brain, LAMBDA f : f.subject = s /\ f.predicate = p)
<1>1. Erase(rows, doomed, brain.known) /\ gone' = gone
  BY DEF ForgetKey
<1>2. rows \in SUBSET brain.rows /\ brain.known \in SUBSET brain.known
  OBVIOUS
<1>3. gone' \ gone = {}
  BY <1>1
<1> HIDE DEF rows, doomed
<1> QED
  BY <1>1, <1>2, <1>3, EraseInv

\* What consolidations have in common: other episodes and vectors, further ids.
LEMMA RearrangedInv ==
    ASSUME Inv, NEW episodes, NEW vectors, NEW counter \in Nat, counter >= brain.counter,
           brain' = [brain EXCEPT !.episodes = episodes, !.vectors = vectors,
                                  !.counter = counter],
           EpisodesTyped(episodes, counter), VectorsTyped(vectors, counter),
           \A e \in episodes : \E x \in brain.episodes : e.link = x.link,
           \A v \in vectors :
              \/ v \in brain.vectors \/ v.tags = {}
              \/ \E e \in brain.episodes : e.link # NoLink /\ v.tags = {e.link.subject},
           \/ halfway'
           \/ /\ halfway' = halfway
              /\ Mirrored(brain.episodes, brain.vectors) => Mirrored(episodes, vectors),
           derived' = NoCache, UNCHANGED <<saved, owed, unrouted, gone>>
    PROVE  Inv'
<1>1. Typed(brain)
  BY DEF Inv, Sound
<1>2. brain' = [rows |-> brain.rows, episodes |-> episodes, vectors |-> vectors,
                asserted |-> brain.asserted, known |-> brain.known, counter |-> counter]
  BY <1>1 DEF Typed
<1>3. /\ brain'.rows = brain.rows /\ brain'.episodes = episodes
      /\ brain'.vectors = vectors /\ brain'.asserted = brain.asserted
      /\ brain'.known = brain.known /\ brain'.counter = counter
  BY <1>2
<1>4. Typed(brain)'
  <2>1. RowsTyped(brain.rows, counter)
    <3>1. \A k \in 1 .. brain.counter : k \in 1 .. counter
      BY <1>1 DEF Typed
    <3> QED
      BY <1>1, <3>1 DEF Typed, RowsTyped
  <2> QED
    BY <1>1, <1>2, <1>3, <2>1 DEF Typed
<1>5. Captured(brain, owed, unrouted)'
  BY <1>3 DEF Inv, Sound, Captured
<1>6. Absent(brain, gone)'
  <2> SUFFICES ASSUME NEW s \in gone
               PROVE  /\ \A r \in brain.rows : s \notin Names(r)
                      /\ \A e \in episodes : e.link # NoLink => s \notin Names(e.link)
                      /\ \A v \in vectors : s \notin v.tags
                      /\ s \notin brain.known
    BY <1>3 DEF Absent
  <2>1. /\ \A r \in brain.rows : s \notin Names(r)
        /\ \A e \in brain.episodes : e.link # NoLink => s \notin Names(e.link)
        /\ \A v \in brain.vectors : s \notin v.tags
        /\ s \notin brain.known
    BY DEF Inv, Sound, Absent
  <2>2. \A e \in brain.episodes : e.link # NoLink => s # e.link.subject
    BY <2>1 DEF Names
  <2>3. \A v \in vectors : s \notin v.tags
    BY <2>1, <2>2
  <2> QED
    BY <2>1, <2>3
<1>7. Mirrors(brain, halfway)'
  BY <1>3 DEF Inv, Sound, Mirrors
<1> QED
  BY <1>4, <1>5, <1>6, <1>7 DEF Inv, Sound, CacheIsFresh

\* Groups are merged into clusters of episodes.
LEMMA GroupsAre ==
    ASSUME NEW groups, groups \subseteq Groups
    PROVE  Clustering({Living(g) : g \in Merging(groups)})
<1>1. \A g \in Merging(groups) : Cardinality(Living(g)) > 1
  BY DEF Merging
<1>2. \A g : Living(g) \subseteq brain.episodes
  BY DEF Living, Members, Linked
<1>3. Cardinality({}) = 0
  BY FS_EmptySet
<1>4. \A g \in Merging(groups) : Living(g) # {}
  BY <1>1, <1>3
<1> QED
  BY <1>2, <1>4 DEF Clustering

\* A consolidation that ends.
LEMMA ConsolidateInv ==
    ASSUME Inv, Consolidate
    PROVE  Inv'
<1>1. PICK free \in FreeClusters :
         LET outdated == UNION {Outdated(g) : g \in Groups}
             clusters == {Living(g) : g \in Merging(Groups)} \union ({free} \ {{}})
         IN  brain' = [brain EXCEPT
                         !.episodes = (brain.episodes \ (outdated \union UNION clusters))
                                        \union Claims(clusters),
                         !.vectors  = Revectored(outdated, clusters),
                         !.counter  = @ + Cardinality(clusters)]
  BY DEF Consolidate
<1> DEFINE outdated == UNION {Outdated(g) : g \in Groups}
           clusters == {Living(g) : g \in Merging(Groups)} \union ({free} \ {{}})
           E == (brain.episodes \ (outdated \union UNION clusters)) \union Claims(clusters)
           V == Revectored(outdated, clusters)
           n == brain.counter + Cardinality(clusters)
<1>2. Typed(brain) /\ brain.counter \in Nat
  BY DEF Inv, Sound, Typed
<1>3. outdated \in SUBSET brain.episodes
  BY DEF Outdated, Members, Linked
<1>4. Clustering(clusters)
  <2>1. Clustering({Living(g) : g \in Merging(Groups)})
    BY GroupsAre
  <2>2. free \subseteq brain.episodes
    BY DEF FreeClusters
  <2> QED
    BY <2>1, <2>2 DEF Clustering
<1>5. derived' = NoCache /\ UNCHANGED <<saved, owed, unrouted, gone, halfway>>
  BY DEF Consolidate
<1>6. brain' = [brain EXCEPT !.episodes = E, !.vectors = V, !.counter = n]
  BY <1>1
<1> HIDE DEF outdated, clusters
<1>7. n \in Nat /\ n >= brain.counter
  BY <1>2, <1>4, ClaimsAre
<1>8. /\ VectorsTyped(V, n)
      /\ \A v \in V : \/ v \in brain.vectors \/ v.tags = {}
                      \/ \E e \in brain.episodes : e.link # NoLink /\ v.tags = {e.link.subject}
  BY <1>2, <1>4, RevectoredIs
<1>9. /\ EpisodesTyped(E, n)
      /\ \A e \in E : \E x \in brain.episodes : e.link = x.link
      /\ Mirrored(brain.episodes, brain.vectors) => Mirrored(E, V)
  BY <1>2, <1>3, <1>4, ConsolidatedIs
<1> HIDE DEF E, V, n
<1> QED
  BY <1>5, <1>6, <1>7, <1>8, <1>9, RearrangedInv

\* A consolidation that raised: vectors without episodes, but no forgotten name.
LEMMA ConsolidateFailsInv ==
    ASSUME Inv, ConsolidateFails
    PROVE  Inv'
<1>1. \E done, out, dropped :
         done \subseteq Groups /\ HalfMerged(done, out, dropped)
  <2>1. CASE \E g \in Merging(Groups) : \E done \in SUBSET (Groups \ {g}), dropped \in {{}, Living(g)} :
                HalfMerged(done, UNION {Outdated(h) : h \in done \union {g}}, dropped)
    <3>1. PICK g \in Merging(Groups) : \E done \in SUBSET (Groups \ {g}), dropped \in {{}, Living(g)} :
             HalfMerged(done, UNION {Outdated(h) : h \in done \union {g}}, dropped)
      BY <2>1
    <3>2. PICK done \in SUBSET (Groups \ {g}), dropped \in {{}, Living(g)} :
             HalfMerged(done, UNION {Outdated(h) : h \in done \union {g}}, dropped)
      BY <3>1
    <3> DEFINE out == UNION {Outdated(h) : h \in done \union {g}}
    <3>3. done \subseteq Groups /\ HalfMerged(done, out, dropped)
      BY <3>2
    <3> HIDE DEF out
    <3> QED
      BY <3>3
  <2>2. CASE \E free \in FreeClusters :
                HalfMerged(Groups, UNION {Outdated(h) : h \in Groups}, free)
    <3> DEFINE out == UNION {Outdated(h) : h \in Groups}
    <3>1. PICK free \in FreeClusters : HalfMerged(Groups, out, free)
      BY <2>2
    <3> HIDE DEF out
    <3> QED
      BY <3>1
  <2> QED
    BY <2>1, <2>2 DEF ConsolidateFails
<1>2. PICK done, out, dropped : done \subseteq Groups /\ HalfMerged(done, out, dropped)
  BY <1>1
<1> DEFINE clusters == {Living(h) : h \in Merging(done)}
           V == Revectored(out \union dropped, clusters)
           extra == IF dropped = {} THEN 0 ELSE 1
           m == brain.counter + Cardinality(clusters)
           n == brain.counter + Cardinality(clusters) + extra
<1>3. Typed(brain) /\ brain.counter \in Nat
  BY DEF Inv, Sound, Typed
<1>4. Clustering(clusters)
  BY <1>2, GroupsAre
<1>5. /\ derived' = NoCache /\ UNCHANGED <<saved, owed, unrouted, gone>>
      /\ halfway' = TRUE
  BY DEF ConsolidateFails
<1>6. brain' = [brain EXCEPT !.vectors = V, !.counter = n]
  BY <1>2 DEF HalfMerged
<1>7. extra \in Nat
  OBVIOUS
<1> HIDE DEF clusters, extra
<1>8. m \in Nat /\ n \in Nat /\ n >= m /\ n >= brain.counter
  BY <1>3, <1>4, <1>7, ClaimsAre
<1>9. /\ VectorsTyped(V, m)
      /\ \A v \in V : \/ v \in brain.vectors \/ v.tags = {}
                      \/ \E e \in brain.episodes : e.link # NoLink /\ v.tags = {e.link.subject}
  BY <1>3, <1>4, RevectoredIs
<1> HIDE DEF V, m, n
<1>10. VectorsTyped(V, n)
  BY <1>8, <1>9 DEF VectorsTyped
<1>11. EpisodesTyped(brain.episodes, n)
  BY <1>3, <1>8 DEF Typed, EpisodesTyped
<1>12. brain' = [brain EXCEPT !.episodes = brain.episodes, !.vectors = V, !.counter = n]
  BY <1>6, <1>3 DEF Typed
<1> QED
  BY <1>5, <1>8, <1>9, <1>10, <1>11, <1>12, RearrangedInv

\* An empty brain again.
LEMMA ResetInv ==
    ASSUME Inv, Reset
    PROVE  Inv'
<1>1. brain' = Empty /\ derived' = NoCache /\ saved' = saved
      /\ owed' = {} /\ unrouted' = {} /\ gone' = {} /\ halfway' = FALSE
  BY DEF Reset
<1>2. /\ Empty.rows = {} /\ Empty.episodes = {} /\ Empty.vectors = {}
      /\ Empty.asserted = {} /\ Empty.known = {} /\ Empty.counter = 0
  BY DEF Empty
<1>3. Typed(Empty)
  BY <1>2 DEF Empty, Typed, RowsTyped, EpisodesTyped, VectorsTyped
<1>4. Sound(Empty, {}, {}, {}, FALSE)
  BY <1>2, <1>3 DEF Sound, Captured, Absent, Mirrors, Mirrored
<1> QED
  BY <1>1, <1>4 DEF Inv, CacheIsFresh

\* A snapshot holds the brain as it is, with its history.
LEMMA SnapshotInv ==
    ASSUME Inv, Snapshot
    PROVE  Inv'
<1>1. saved' = [brain |-> brain, owed |-> owed, unrouted |-> unrouted, gone |-> gone,
                halfway |-> halfway]
  BY DEF Snapshot
<1>2. /\ saved'.brain = brain /\ saved'.owed = owed /\ saved'.unrouted = unrouted
      /\ saved'.gone = gone /\ saved'.halfway = halfway
  BY <1>1
<1> QED
  BY <1>2 DEF Inv, Snapshot, CacheIsFresh

\* A restored brain comes with the history it was saved with.
LEMMA RestoreInv ==
    ASSUME Inv, Restore
    PROVE  Inv'
BY DEF Inv, Restore, CacheIsFresh

\* A query fills the cache from the brain as it is.
LEMMA QueryInv ==
    ASSUME Inv, Query
    PROVE  Inv'
BY DEF Inv, Query, CacheIsFresh

\* Every step.
LEMMA StepInv == Inv /\ [Next]_vars => Inv'
<1> SUFFICES ASSUME Inv, [Next]_vars PROVE Inv'
  OBVIOUS
<1>1. ASSUME NEW text \in Texts, NEW supplied \in BOOLEAN, NEW late \in BOOLEAN,
             \/ WriteStored(text, supplied, late)
             \/ WriteReinforced(text, supplied, late)
             \/ WriteDiscarded(text, supplied, late)
      PROVE  Inv'
  BY <1>1, StoredInv, ReinforcedInv, DiscardedInv
<1>2. ASSUME NEW text \in Texts, NEW supplied \in BOOLEAN, WriteFails(text, supplied)
      PROVE  Inv'
  BY <1>2, FailsInv
<1>3. CASE Query
  BY <1>3, QueryInv
<1>4. ASSUME NEW s \in Subjects, Forget(s) PROVE Inv'
  BY <1>4, ForgetInv
<1>5. ASSUME NEW f \in AllFacts, ForgetKey(f.subject, f.predicate) PROVE Inv'
  BY <1>5, ForgetKeyInv
<1>6. CASE Consolidate
  BY <1>6, ConsolidateInv
<1>7. CASE ConsolidateFails
  BY <1>7, ConsolidateFailsInv
<1>8. CASE Reset
  BY <1>8, ResetInv
<1>9. CASE Snapshot
  BY <1>9, SnapshotInv
<1>10. CASE Restore
  BY <1>10, RestoreInv
<1>11. CASE UNCHANGED vars
  BY <1>11 DEF vars, Inv, CacheIsFresh
<1> QED
  BY <1>1, <1>2, <1>3, <1>4, <1>5, <1>6, <1>7, <1>8, <1>9, <1>10, <1>11 DEF Next

-----------------------------------------------------------------------------
(* Consolidation as a compression *)

\* The episodes of a group that are current all state the same fact.
LEMMA LivingAgree ==
    ASSUME Typed(brain), NEW g, NEW x \in Living(g), NEW y \in Living(g)
    PROVE  x.link = y.link
<1>1. /\ x \in brain.episodes /\ x.link # NoLink /\ SameKey(x.link, g) /\ IsCurrent(x.link)
      /\ y \in brain.episodes /\ y.link # NoLink /\ SameKey(y.link, g) /\ IsCurrent(y.link)
  BY DEF Living, Members, Linked
<1>2. PICK r \in brain.rows : r.open /\ SameKey(r, x.link) /\ r.object = x.link.object
  BY <1>1 DEF IsCurrent, OpenRows
<1>3. PICK q \in brain.rows : q.open /\ SameKey(q, y.link) /\ q.object = y.link.object
  BY <1>1 DEF IsCurrent, OpenRows
<1>4. SameKey(r, q)
  BY <1>1, <1>2, <1>3 DEF SameKey
<1>5. r = q
  BY <1>2, <1>3, <1>4 DEF Typed, RowsTyped
<1>6. x.link \in AllFacts /\ y.link \in AllFacts
  BY <1>1 DEF Typed, EpisodesTyped
<1> QED
  BY <1>1, <1>2, <1>3, <1>5, <1>6, SaysAssumption DEF SameKey

\* What groups of episodes go by.
KeyOf(f) == [subject |-> f.subject, predicate |-> f.predicate]

\* A group is the key its members share.
LEMMA GroupIsKey ==
    ASSUME NEW g \in Groups, NEW f, SameKey(f, g)
    PROVE  g = KeyOf(f)
BY DEF Groups, SameKey, KeyOf

\* All current episodes of a fact are in one group, and nothing else is current there.
LEMMA LivingIs ==
    ASSUME Typed(brain), NEW f \in CurrentLinks
    PROVE  /\ f # NoLink /\ IsCurrent(f) /\ KeyOf(f) \in Groups
           /\ Living(KeyOf(f)) = {x \in brain.episodes : x.link = f}
           /\ Living(KeyOf(f)) # {}
<1>1. PICK e \in brain.episodes : e.link = f /\ f # NoLink /\ IsCurrent(f)
  BY DEF CurrentLinks, Linked
<1>2. KeyOf(f) \in Groups
  BY <1>1 DEF Groups, Linked, KeyOf
<1>3. SameKey(f, KeyOf(f))
  BY DEF SameKey, KeyOf
<1>4. \A x \in brain.episodes : x.link = f => x \in Living(KeyOf(f))
  BY <1>1, <1>3 DEF Living, Members, Linked
<1>5. \A x \in Living(KeyOf(f)) : x \in brain.episodes /\ x.link = f
  BY <1>1, <1>4, LivingAgree DEF Living, Members, Linked
<1> QED
  BY <1>1, <1>2, <1>4, <1>5

\* A consolidation compresses: every current fact that had an episode keeps one,
\* with the support of all, and no support of free texts is lost.
LEMMA ConsolidationCompresses ==
    ASSUME Inv, Consolidate
    PROVE  /\ CurrentLinks' = CurrentLinks
           /\ \A f \in CurrentLinks :
                \E e \in brain'.episodes :
                   /\ {x \in brain'.episodes : x.link = f} = {e}
                   /\ e.support = TotalSupport({x \in brain.episodes : x.link = f})
           /\ \A e \in brain'.episodes : e.link # NoLink => IsCurrent(e.link)
           /\ TotalSupport({x \in brain'.episodes : x.link = NoLink})
                = TotalSupport({x \in brain.episodes : x.link = NoLink})
<1>1. PICK free \in FreeClusters :
         LET outdated == UNION {Outdated(g) : g \in Groups}
             clusters == {Living(g) : g \in Merging(Groups)} \union ({free} \ {{}})
         IN  brain' = [brain EXCEPT
                         !.episodes = (brain.episodes \ (outdated \union UNION clusters))
                                        \union Claims(clusters),
                         !.vectors  = Revectored(outdated, clusters),
                         !.counter  = @ + Cardinality(clusters)]
  BY DEF Consolidate
<1> DEFINE outdated == UNION {Outdated(g) : g \in Groups}
           merged   == {Living(g) : g \in Merging(Groups)}
           clusters == merged \union ({free} \ {{}})
           old == brain.episodes
           new == (old \ (outdated \union UNION clusters)) \union Claims(clusters)
           L(f) == {x \in old : x.link = f}
           M(f) == {x \in new : x.link = f}
<1>2. Typed(brain) /\ EpisodesTyped(old, brain.counter) /\ brain.counter \in Nat
  BY DEF Inv, Sound, Typed
<1>3. brain'.episodes = new /\ brain'.rows = brain.rows
  BY <1>1, <1>2 DEF Typed
<1>4. free \subseteq old /\ \A e \in free : e.link = NoLink
  BY DEF FreeClusters, Linked
<1>5. Clustering(clusters)
  <2>1. Clustering(merged)
    BY GroupsAre
  <2> QED
    BY <1>4, <2>1 DEF Clustering
<1>6. PICK claim : /\ Claims(clusters) = {claim[c] : c \in clusters}
                   /\ \A c \in clusters : /\ \E e \in c : claim[c].link = e.link
                                          /\ claim[c].support = TotalSupport(c)
                                          /\ claim[c].id > brain.counter
  <2> HIDE DEF clusters
  <2> QED
    BY <1>2, <1>5, ClaimOfCluster
<1>7. IsFiniteSet(old) /\ \A s \in SUBSET old : Supported(s)
  <2>1. IsFiniteSet(old)
    BY <1>2, EpisodesFinite
  <2> QED
    BY <1>2, <2>1, FS_Subset DEF Supported, EpisodesTyped
\* The members of a merged cluster state one fact, which is current.
<1>8. ASSUME NEW c \in merged, NEW x \in c
      PROVE  /\ x.link # NoLink /\ IsCurrent(x.link)
             /\ c = L(x.link) /\ x.link \in CurrentLinks
             /\ KeyOf(x.link) \in Merging(Groups)
  <2>1. PICK g \in Merging(Groups) : c = Living(g)
    OBVIOUS
  <2>2. x \in Linked /\ SameKey(x.link, g) /\ IsCurrent(x.link) /\ g \in Groups
    BY <2>1 DEF Living, Members, Merging
  <2>3. g = KeyOf(x.link)
    BY <2>2, GroupIsKey
  <2>4. x.link \in CurrentLinks
    BY <2>2 DEF CurrentLinks
  <2>5. Living(KeyOf(x.link)) = L(x.link)
    BY <1>2, <2>4, LivingIs
  <2> QED
    BY <2>1, <2>2, <2>3, <2>4, <2>5 DEF Linked
\* Claims by the cluster they come from.
<1>9. ASSUME NEW c \in clusters
      PROVE  IF c \in merged THEN /\ claim[c].link # NoLink /\ IsCurrent(claim[c].link)
                                  /\ c = L(claim[c].link)
                                  /\ KeyOf(claim[c].link) \in Merging(Groups)
             ELSE c = free /\ claim[c].link = NoLink
  <2>1. PICK e \in c : claim[c].link = e.link
    BY <1>6
  <2>2. CASE c \in merged
    BY <2>1, <2>2, <1>8
  <2>3. CASE c \notin merged
    BY <2>1, <2>3, <1>4
  <2> QED
    BY <2>2, <2>3
\* Outdated episodes are linked and not current.
<1>10. /\ \A x \in outdated : x \in old /\ x.link # NoLink /\ ~IsCurrent(x.link)
       /\ \A x \in old : x.link # NoLink /\ ~IsCurrent(x.link) => x \in outdated
  <2>1. ASSUME NEW x \in outdated PROVE x \in old /\ x.link # NoLink /\ ~IsCurrent(x.link)
    BY DEF Outdated, Living, Members, Linked
  <2>2. ASSUME NEW x \in old, x.link # NoLink, ~IsCurrent(x.link) PROVE x \in outdated
    <3>1. KeyOf(x.link) \in Groups /\ SameKey(x.link, KeyOf(x.link))
      BY <2>2 DEF Groups, Linked, KeyOf, SameKey
    <3>2. x \in Outdated(KeyOf(x.link))
      BY <2>2, <3>1 DEF Outdated, Living, Members, Linked
    <3> QED
      BY <3>1, <3>2
  <2> QED
    BY <2>1, <2>2
<1> HIDE DEF outdated, merged
<1>11. \A e \in new : \/ e \in old /\ e \notin outdated /\ e \notin UNION clusters
                      \/ \E c \in clusters : e = claim[c]
  BY <1>6
<1>12. \A c \in clusters : claim[c] \in new
  BY <1>6
<1>13. clusters = merged \union ({free} \ {{}})
  OBVIOUS
<1> HIDE DEF new, clusters
<1>14. ASSUME NEW f \in CurrentLinks
       PROVE  \E e \in new : M(f) = {e} /\ e.support = TotalSupport(L(f))
  <2> DEFINE g == KeyOf(f)
  <2>1. /\ f # NoLink /\ IsCurrent(f) /\ g \in Groups
        /\ Living(g) = L(f) /\ Living(g) # {}
    BY <1>2, LivingIs
  <2>2. IsFiniteSet(L(f)) /\ Cardinality(L(f)) \in Nat /\ Cardinality(L(f)) # 0
    BY <2>1, <1>7, FS_Subset, FS_CardinalityType, FS_EmptySet
  <2>3. CASE Cardinality(L(f)) > 1
    <3>1. g \in Merging(Groups)
      BY <2>1, <2>3 DEF Merging
    <3>2. L(f) \in merged /\ L(f) \in clusters
      BY <2>1, <3>1, <1>13 DEF merged
    <3>3. claim[L(f)].link = f
      BY <1>6, <3>2
    <3>4. claim[L(f)].support = TotalSupport(L(f)) /\ claim[L(f)] \in new
      BY <1>6, <1>12, <3>2
    <3>5. ASSUME NEW e \in new, e.link = f PROVE e = claim[L(f)]
      <4>1. ~ (e \in old /\ e \notin UNION clusters)
        BY <3>2, <3>5
      <4>2. PICK c \in clusters : e = claim[c]
        BY <4>1, <1>11
      <4>3. c = L(f)
        BY <4>2, <3>5, <1>9, <2>1
      <4> QED
        BY <4>2, <4>3
    <3> QED
      BY <3>3, <3>4, <3>5
  <2>4. CASE Cardinality(L(f)) = 1
    <3>1. PICK e : L(f) = {e}
      BY <2>2, <2>4, FS_Singleton
    <3>2. e \in old /\ e.link = f
      BY <3>1
    <3>3. g \notin Merging(Groups)
      BY <2>1, <2>4 DEF Merging
    <3>4. \A c \in clusters : claim[c].link # f
      BY <3>3, <1>9, <2>1
    <3>5. e \notin UNION clusters
      BY <3>2, <3>3, <1>8, <1>13, <1>4, <2>1
    <3>6. e \notin outdated
      BY <3>2, <1>10, <2>1
    <3>7. e \in new
      BY <3>2, <3>5, <3>6 DEF new
    <3>8. M(f) = {e}
      BY <3>1, <3>2, <3>4, <3>7, <1>11
    <3>9. TotalSupport({e}) = e.support
      <4>1. Supported({e}) /\ Supported({}) /\ e.support \in Nat
        BY <1>7, <3>2 DEF Supported
      <4>2. TotalSupport({e}) = e.support + TotalSupport({e} \ {e})
        BY <4>1, TotalWithout
      <4>3. TotalSupport({}) = 0
        BY NothingSumsUp
      <4>4. {e} \ {e} = {}
        OBVIOUS
      <4> QED
        BY <4>1, <4>2, <4>3, <4>4
    <3> QED
      BY <3>1, <3>7, <3>8, <3>9
  <2> QED
    BY <2>2, <2>3, <2>4
<1>15. ASSUME NEW e \in new, e.link # NoLink PROVE IsCurrent(e.link)
  <2>1. CASE e \in old /\ e \notin outdated
    BY <2>1, <1>10, <1>15
  <2>2. ASSUME NEW c \in clusters, e = claim[c] PROVE IsCurrent(e.link)
    BY <2>2, <1>9, <1>15
  <2> QED
    BY <2>1, <2>2, <1>11
<1>16. CurrentLinks' = CurrentLinks
  <2>1. \A f : IsCurrent(f)' <=> IsCurrent(f)
    BY <1>3 DEF IsCurrent, OpenRows
  <2>2. CurrentLinks' = {e.link : e \in {x \in new : x.link # NoLink /\ IsCurrent(x.link)}}
    BY <1>3, <2>1 DEF CurrentLinks, Linked, IsCurrent, OpenRows
  <2>3. \A e \in new : \E x \in old : e.link = x.link
    <3> TAKE e \in new
    <3>1. CASE e \in old
      BY <3>1
    <3>2. ASSUME NEW c \in clusters, e = claim[c] PROVE \E x \in old : e.link = x.link
      BY <3>2, <1>5, <1>6 DEF Clustering
    <3> QED
      BY <3>1, <3>2, <1>11
  <2>4. CurrentLinks' \subseteq CurrentLinks
    BY <2>2, <2>3 DEF CurrentLinks, Linked
  <2>5. ASSUME NEW f \in CurrentLinks PROVE f \in CurrentLinks'
    <3>1. PICK e \in new : M(f) = {e}
      BY <1>14
    <3>2. e.link = f
      BY <3>1
    <3>3. f # NoLink /\ IsCurrent(f)
      BY <1>2, LivingIs
    <3> QED
      BY <3>2, <3>3, <2>2
  <2> QED
    BY <2>4, <2>5
<1>17. TotalSupport(M(NoLink)) = TotalSupport(L(NoLink))
  <2>1. \A c \in merged : c \intersect L(NoLink) = {}
    BY <1>8
  <2>2. L(NoLink) \intersect outdated = {}
    BY <1>10
  <2>3. CASE free = {}
    <3>1. clusters = merged
      BY <2>3, <1>5, <1>13 DEF Clustering
    <3>2. \A c \in clusters : claim[c].link # NoLink
      BY <3>1, <1>9
    <3>3. M(NoLink) \subseteq L(NoLink)
      BY <3>2, <1>11
    <3>4. L(NoLink) \subseteq M(NoLink)
      BY <3>1, <2>1, <2>2 DEF new
    <3> QED
      BY <3>3, <3>4
  <2>4. CASE free # {}
    <3> DEFINE c == claim[free]
               rest == L(NoLink) \ free
    <3>1. free \in clusters /\ free \notin merged /\ free \subseteq L(NoLink)
      BY <2>4, <1>4, <1>8, <1>13
    <3>2. c \in new /\ c.link = NoLink /\ c.support = TotalSupport(free)
      BY <3>1, <1>6, <1>9, <1>12
    <3>3. c \notin old
      BY <3>1, <1>2, <1>6 DEF EpisodesTyped
    <3>4. M(NoLink) \subseteq rest \union {c}
      <4>1. ASSUME NEW e \in new, e.link = NoLink PROVE e \in rest \union {c}
        <5>1. CASE e \in old /\ e \notin UNION clusters
          BY <5>1, <4>1, <3>1
        <5>2. ASSUME NEW d \in clusters, e = claim[d] PROVE e = c
          BY <5>2, <4>1, <1>9
        <5> QED
          BY <5>1, <5>2, <1>11
      <4> QED
        BY <4>1
    <3>5. rest \subseteq M(NoLink)
      <4>1. ASSUME NEW e \in rest PROVE e \in new
        BY <2>1, <2>2, <1>13 DEF new
      <4> QED
        BY <4>1
    <3> HIDE DEF c, rest
    <3>6. M(NoLink) = rest \union {c}
      BY <3>2, <3>4, <3>5
    <3>7. L(NoLink) = rest \union free /\ rest \intersect free = {}
      BY <3>1 DEF rest
    <3>8. rest \intersect {c} = {}
      BY <3>3 DEF rest
    <3>9. Supported(rest) /\ Supported(free) /\ Supported(rest \union free)
      BY <1>7, <3>1 DEF rest
    <3>10. c.support \in Nat \ {0}
      BY <2>4, <3>2, <3>9, TotalIsPositive
    <3>11. Supported({c}) /\ Supported(rest \union {c})
      BY <3>9, <3>10, FS_AddElement, FS_Singleton DEF Supported
    <3>12. TotalSupport({c}) = c.support
      <4>1. TotalSupport({c}) = c.support + TotalSupport({c} \ {c})
        BY <3>11, TotalWithout
      <4>2. {c} \ {c} = {}
        OBVIOUS
      <4> QED
        BY <3>10, <4>1, <4>2, NothingSumsUp
    <3>13. /\ TotalSupport(rest \union free) = TotalSupport(rest) + TotalSupport(free)
           /\ TotalSupport(rest \union {c}) = TotalSupport(rest) + TotalSupport({c})
      BY <3>7, <3>8, <3>9, <3>11, TotalOfUnion
    <3> QED
      BY <3>2, <3>6, <3>7, <3>12, <3>13
  <2> QED
    BY <2>3, <2>4
<1> QED
  BY <1>3, <1>14, <1>15, <1>16, <1>17

-----------------------------------------------------------------------------
(* Theorems *)

\* The parts of Inv hold of the brain and of the snapshot after any operations.
THEOREM InvIsInvariant == Spec => []Inv
<1>1. Init => Inv
  BY InitInv
<1>2. Inv /\ [Next]_vars => Inv'
  BY StepInv
<1> QED
  BY <1>1, <1>2, PTL DEF Spec

\* Every part of the state has its type: no id is given twice, neither by writes nor
\* by the claims of a consolidation, and claims are supported.
THEOREM TypeCorrect == Spec => []TypeOK
<1>1. Inv => TypeOK
  BY DEF Inv, Sound, Typed, RowsTyped, EpisodesTyped, VectorsTyped, TypeOK
<1> QED
  BY <1>1, InvIsInvariant, PTL

\* No operation changes what the cache is derived from and leaves the cache.
THEOREM CacheIsFreshHolds == Spec => []CacheIsFresh
<1>1. Inv => CacheIsFresh
  BY DEF Inv
<1> QED
  BY <1>1, InvIsInvariant, PTL

\* A fact of a write that returned has a row, whatever the gate and later operations
\* did, except one that was forgotten or whose write raised and that was restated
\* since in a guarded text only: the echo guard skips what has rows, and these.
THEOREM FactsCapturedHolds == Spec => []FactsCaptured
<1>1. Inv => FactsCaptured
  BY DEF Inv, Sound, Captured, Facts, FactsCaptured
<1> QED
  BY <1>1, InvIsInvariant, PTL

\* A forgotten name is in no row, link, tag or vocabulary until it is mentioned again.
THEOREM ForgottenIsGoneHolds == Spec => []ForgottenIsGone
<1>1. Inv => ForgottenIsGone
  BY DEF Inv, Sound, Absent, ForgottenIsGone, Linked
<1> QED
  BY <1>1, InvIsInvariant, PTL

\* Without a consolidation that broke off there is one vector per episode: ids make
\* the two sets equally large.
THEOREM VectorsMirrorEpisodesHolds == Spec => []VectorsMirrorEpisodes
<1>1. ASSUME Inv PROVE VectorsMirrorEpisodes
  <2> SUFFICES ASSUME ~halfway
               PROVE  /\ {<<v.rid, v.text>> : v \in brain.vectors}
                           = {<<e.id, e.text>> : e \in brain.episodes}
                      /\ Cardinality(brain.vectors) = Cardinality(brain.episodes)
    BY DEF VectorsMirrorEpisodes
  <2> DEFINE E == brain.episodes
             V == brain.vectors
             f == [e \in E |-> CHOOSE v \in V : v.rid = e.id]
  <2>1. /\ \A e \in E : \E v \in V : v.rid = e.id /\ v.text = e.text
        /\ \A v \in V : \E e \in E : v.rid = e.id /\ v.text = e.text
    BY <1>1 DEF Inv, Sound, Mirrors, Mirrored
  <2>2. EpisodesTyped(E, brain.counter) /\ VectorsTyped(V, brain.counter) /\ brain.counter \in Nat
    BY <1>1 DEF Inv, Sound, Typed
  <2>3. IsFiniteSet(E)
    BY <2>2, EpisodesFinite
  <2> HIDE DEF E, V
  <2>4. \A e \in E : f[e] \in V /\ f[e].rid = e.id
    BY <2>1
  <2>5. \A x, y \in E : x.id = y.id => x = y
    BY <2>2 DEF EpisodesTyped
  <2>6. \A x, y \in V : x.rid = y.rid => x = y
    BY <2>2 DEF VectorsTyped
  <2>7. f \in [E -> V]
    BY <2>4
  <2>8. \A x, y \in E : f[x] = f[y] => x = y
    BY <2>4, <2>5
  <2>9. \A v \in V : \E e \in E : f[e] = v
    BY <2>1, <2>4, <2>6
  <2> HIDE DEF f
  <2>10. f \in Bijection(E, V)
    BY <2>7, <2>8, <2>9 DEF Bijection, Injection, IsInjective, Surjection
  <2>11. ExistsBijection(E, V)
    BY <2>10 DEF ExistsBijection
  <2>12. Cardinality(V) = Cardinality(E)
    BY <2>3, <2>11, FS_Bijection
  <2>13. {<<v.rid, v.text>> : v \in V} = {<<e.id, e.text>> : e \in E}
    BY <2>1
  <2> QED
    BY <2>12, <2>13 DEF E, V
<1> QED
  BY <1>1, InvIsInvariant, PTL

\* A consolidation keeps one episode per current fact and the support of all.
THEOREM ConsolidationKeepsCurrentHolds == Spec => ConsolidationKeepsCurrent
<1>1. ASSUME Inv, [Next]_vars
      PROVE  [Consolidate =>
                /\ CurrentLinks' = CurrentLinks
                /\ \A f \in CurrentLinks :
                     \E e \in brain'.episodes :
                        /\ {x \in brain'.episodes : x.link = f} = {e}
                        /\ e.support = TotalSupport({x \in brain.episodes : x.link = f})
                /\ \A e \in brain'.episodes : e.link # NoLink => IsCurrent(e.link)
                /\ TotalSupport({x \in brain'.episodes : x.link = NoLink})
                     = TotalSupport({x \in brain.episodes : x.link = NoLink})]_vars
  BY <1>1, ConsolidationCompresses
<1> QED
  BY <1>1, InvIsInvariant, PTL DEF Spec, ConsolidationKeepsCurrent

=============================================================================
