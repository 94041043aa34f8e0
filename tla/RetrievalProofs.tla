--------------------------- MODULE RetrievalProofs ---------------------------
(***************************************************************************)
(* What a query may serve, for all texts, facts and questions: no record   *)
(* linked to a superseded fact or spelling one out, the fact at the end of *)
(* a path that was asked for, and a fact of every entity named.            *)
(***************************************************************************)
EXTENDS Retrieval, CuratedBrainProofs

\* The subjects of all rows are in the vocabulary.
AllKnown(b) == \A r \in b.rows : r.subject \in b.known

\* Of the brain's, and of the snapshot's.
Vocabulary == AllKnown(brain) /\ (saved # NoBlob => AllKnown(saved.brain))

-----------------------------------------------------------------------------
(* The vocabulary *)

\* A write registers the subjects of the facts it routes.
LEMMA SettleKnows ==
    ASSUME Inv, Vocabulary, NEW text \in Texts, NEW supplied \in BOOLEAN, NEW late,
           Writing(text, supplied), NEW episodes, NEW vectors,
           NEW counter \in Nat, counter >= brain.counter,
           Settle(text, supplied, late, episodes, vectors, counter)
    PROVE  AllKnown(brain)' /\ saved' = saved
<1> DEFINE facts  == Intake(text, supplied)
           routed == Route(brain.rows, counter, facts, late)
<1>1. brain'.rows = routed.rows /\ brain'.known = Registered(facts) /\ saved' = saved
  BY DEF Settle
<1>2. facts \in Seq(AllFacts)
  BY IntakeIs
<1>3. RowsTyped(brain.rows, counter)
  <2>1. brain.counter \in Nat /\ RowsTyped(brain.rows, brain.counter)
    BY DEF Inv, Sound, Typed
  <2> QED
    BY <2>1 DEF RowsTyped
<1>4. Facts(routed.rows) = Facts(brain.rows) \union FactsIn(facts)
  <2> HIDE DEF facts
  <2> QED
    BY <1>2, <1>3, RouteIs
<1> HIDE DEF facts, routed
<1>5. ASSUME NEW r \in routed.rows PROVE r.subject \in Registered(facts)
  <2>1. FactOf(r) \in Facts(brain.rows) \union FactsIn(facts) /\ FactOf(r).subject = r.subject
    BY <1>4 DEF Facts, FactOf
  <2>2. \A x \in brain.rows : x.subject \in brain.known /\ FactOf(x).subject = x.subject
    BY DEF Vocabulary, AllKnown, FactOf
  <2> QED
    BY <2>1, <2>2 DEF Registered, Facts
<1> QED
  BY <1>1, <1>5 DEF AllKnown

\* A name leaves the vocabulary only with the rows that have it for a subject.
LEMMA EraseKnows ==
    ASSUME Inv, Vocabulary, NEW rows, NEW doomed, NEW known, Erase(rows, doomed, known),
           \A r \in brain.rows \ rows : r.subject \in brain.known => r.subject \in known
    PROVE  AllKnown(brain)' /\ saved' = saved
<1>1. Typed(brain) /\ saved' = saved
  BY DEF Inv, Sound, Erase
<1>2. brain'.rows = brain.rows \ rows /\ brain'.known = known
  BY <1>1 DEF Typed, Erase
<1> QED
  BY <1>1, <1>2 DEF Vocabulary, AllKnown

\* The other operations add no row.
LEMMA VocabularyStep == Inv /\ Vocabulary /\ [Next]_vars => Vocabulary'
<1> SUFFICES ASSUME Inv, Vocabulary, [Next]_vars PROVE Vocabulary'
  OBVIOUS
<1>1. Typed(brain) /\ brain.counter \in Nat
  BY DEF Inv, Sound, Typed
<1>2. SUFFICES ASSUME ~ (AllKnown(brain)' /\ saved' = saved) PROVE Vocabulary'
  BY DEF Vocabulary
<1>3. ASSUME NEW text \in Texts, NEW supplied \in BOOLEAN, NEW late \in BOOLEAN,
             \/ WriteStored(text, supplied, late)
             \/ WriteReinforced(text, supplied, late)
             \/ WriteDiscarded(text, supplied, late)
      PROVE  Vocabulary'
  <2>1. \E counter \in {brain.counter, brain.counter + 1} : \E episodes, vectors :
           Writing(text, supplied) /\ Settle(text, supplied, late, episodes, vectors, counter)
    <3>1. CASE WriteStored(text, supplied, late)
      BY <3>1 DEF WriteStored
    <3>2. CASE WriteReinforced(text, supplied, late)
      BY <3>2 DEF WriteReinforced
    <3>3. CASE WriteDiscarded(text, supplied, late)
      BY <3>3 DEF WriteDiscarded
    <3> QED
      BY <1>3, <3>1, <3>2, <3>3
  <2>4. PICK counter \in {brain.counter, brain.counter + 1} : \E episodes, vectors :
           Writing(text, supplied) /\ Settle(text, supplied, late, episodes, vectors, counter)
    BY <2>1
  <2>2. PICK episodes, vectors :
           Writing(text, supplied) /\ Settle(text, supplied, late, episodes, vectors, counter)
    BY <2>4
  <2>3. counter \in Nat /\ counter >= brain.counter
    BY <1>1
  <2> QED
    BY <1>2, <2>2, <2>3, SettleKnows
<1>4. ASSUME NEW text \in Texts, NEW supplied \in BOOLEAN, WriteFails(text, supplied)
      PROVE  Vocabulary'
  <2>1. /\ brain'.rows = brain.rows /\ brain'.known = Registered(Intake(text, supplied))
        /\ saved' = saved
    BY <1>1, <1>4 DEF WriteFails, Typed
  <2> QED
    BY <2>1 DEF Vocabulary, AllKnown, Registered
<1>5. CASE Query
  BY <1>2, <1>5 DEF Query, Vocabulary, AllKnown
<1>6. ASSUME NEW s \in Subjects, Forget(s) PROVE Vocabulary'
  <2>1. ASSUME NEW r \in brain.rows \ {x \in brain.rows : s \in Names(x)}, r.subject \in brain.known
        PROVE  r.subject \in brain.known \ {s}
    BY <2>1 DEF Names
  <2> QED
    BY <1>2, <1>6, <2>1, EraseKnows DEF Forget
<1>7. ASSUME NEW f \in AllFacts, ForgetKey(f.subject, f.predicate) PROVE Vocabulary'
  BY <1>2, <1>7, EraseKnows DEF ForgetKey
<1>8. CASE Consolidate
  BY <1>1, <1>8 DEF Consolidate, Vocabulary, AllKnown, Typed
<1>9. CASE ConsolidateFails
  <2>1. ASSUME NEW done, NEW out, NEW dropped, HalfMerged(done, out, dropped)
        PROVE  brain'.rows = brain.rows /\ brain'.known = brain.known
    BY <1>1, <2>1 DEF HalfMerged, Typed
  <2>2. brain'.rows = brain.rows /\ brain'.known = brain.known /\ saved' = saved
    BY <1>9, <2>1 DEF ConsolidateFails
  <2> QED
    BY <2>2 DEF Vocabulary, AllKnown
<1>10. CASE Reset
  BY <1>2, <1>10 DEF Reset, Empty, AllKnown
<1>11. CASE Snapshot
  <2>1. saved'.brain = brain /\ brain' = brain
    BY <1>11 DEF Snapshot
  <2> QED
    BY <2>1 DEF Vocabulary, AllKnown
<1>12. CASE Restore
  BY <1>12 DEF Restore, Vocabulary, AllKnown
<1>13. CASE UNCHANGED vars
  BY <1>13 DEF vars, Vocabulary, AllKnown
<1> QED
  BY <1>3, <1>4, <1>5, <1>6, <1>7, <1>8, <1>9, <1>10, <1>11, <1>12, <1>13 DEF Next

-----------------------------------------------------------------------------
(* What may be served *)

\* The derived state a query uses is the one it would compute.
LEMMA CachedIs == Inv => Cached = Derive(brain)
BY DEF Inv, CacheIsFresh, Cached

\* A record is filtered by its link and by its words, with what is superseded now.
LEMMA NothingStale == Inv => NothingStaleServed
<1> SUFFICES ASSUME Inv, NEW q \in Questions, NEW v \in Servable(q),
                    NEW f \in StaleFacts(brain)
             PROVE  /\ \A e \in brain.episodes : e.id = v.rid => e.link # f
                    /\ ~(Names(f) \subseteq Words[v.text])
  BY DEF NothingStaleServed
<1>1. ~Stale(v)
  BY DEF Servable
<1>2. /\ <<f.subject, f.object>> \in Cached.pairs
      /\ \A e \in brain.episodes : e.link = f => e.id \in Cached.stale
  BY CachedIs DEF Derive
<1>3. ~({f.subject, f.object} \subseteq Words[v.text])
  BY <1>1, <1>2 DEF Stale
<1> QED
  BY <1>1, <1>2, <1>3 DEF Stale, Names

-----------------------------------------------------------------------------
(* The end of a path *)

\* A token is at its position, and no other is.
LEMMA PositionIs ==
    ASSUME NEW T, NEW order \in Seq(T), NEW x \in FactsIn(order)
    PROVE  /\ Position(x, order) \in DOMAIN order /\ Position(x, order) \in Nat
           /\ order[Position(x, order)] = x
           /\ \A j \in DOMAIN order : order[j] = x => Position(x, order) <= j
<1> DEFINE U == {i \in DOMAIN order : order[i] = x}
<1>1. U \subseteq Nat /\ U # {}
  BY DEF FactsIn
<1>2. PICK i \in U : \A j \in U : i <= j
  <2> HIDE DEF U
  <2> QED
    BY <1>1, LeastNumber
<1>3. /\ Position(x, order) \in DOMAIN order /\ order[Position(x, order)] = x
      /\ \A j \in DOMAIN order : order[j] = x => Position(x, order) <= j
  BY <1>2 DEF Position
<1> QED
  BY <1>1, <1>3

\* The only member is the least.
LEMMA LeastOfOne ==
    ASSUME NEW x \in FactsIn(Alphabet)
    PROVE  Least({x}, Alphabet) = x
<1>1. Position(x, Alphabet) \in Nat
  BY QuestionAssumption, PositionIs
<1> QED
  BY <1>1 DEF Least

\* The rows two hops from a name.
LEMMA TwoHops ==
    ASSUME NEW name, NEW p, NEW a
    PROVE  Resolved(name, <<p, a>>) = Hop({r \in OpenOf(name) : r.predicate = p}, a)
<1> DEFINE first == {r \in OpenOf(name) : r.predicate = p}
           one == <<a>>
           B(g, s) == IF s = {} THEN first ELSE Hop(g[s \ {Max(s)}], one[Max(s)])
           iter == CHOOSE g : g = [s \in SUBSET DOMAIN one |-> B(g, s)]
           h == [s \in SUBSET DOMAIN one |-> IF s = {} THEN first ELSE Hop(first, a)]
<1>1. <<p, a>> # <<>> /\ Head(<<p, a>>) = p /\ Tail(<<p, a>>) = one
  OBVIOUS
<1>2. Resolved(name, <<p, a>>) = FoldLeft(Hop, first, one)
  <2> HIDE DEF one
  <2> QED
    BY <1>1 DEF Resolved
<1>3. FoldLeft(Hop, first, one) = iter[DOMAIN one]
  BY DEF FoldLeft, MapThenFoldSet
<1>4. DOMAIN one = {1} /\ one[1] = a /\ Max({1}) = 1
  <2>1. Max({1}) = 1
    BY DEF Max
  <2> QED
    BY <2>1
<1> HIDE DEF one
<1>5. SUBSET DOMAIN one = {{}, {1}} /\ {1} \ {1} = {} /\ {1} # {}
  BY <1>4
<1>6. \A g : g[{}] = first => \A s \in SUBSET DOMAIN one : B(g, s) = h[s]
  <2> TAKE g
  <2> HAVE g[{}] = first
  <2>1. B(g, {}) = first /\ B(g, {1}) = Hop(first, a)
    BY <1>4, <1>5
  <2>2. h[{}] = first /\ h[{1}] = Hop(first, a)
    BY <1>5
  <2> HIDE DEF B, h
  <2> QED
    BY <1>5, <2>1, <2>2
<1>7. h = [s \in SUBSET DOMAIN one |-> B(h, s)]
  <2>1. h[{}] = first
    BY <1>5
  <2>2. \A s \in SUBSET DOMAIN one : B(h, s) = h[s]
    <3> HIDE DEF h, B
    <3> QED
      BY <1>6, <2>1
  <2>3. h = [s \in SUBSET DOMAIN one |-> h[s]]
    OBVIOUS
  <2> HIDE DEF h, B
  <2> QED
    BY <2>2, <2>3
<1>8. iter = [s \in SUBSET DOMAIN one |-> B(iter, s)]
  <2> HIDE DEF h, B
  <2> QED
    BY <1>7
<1>9. iter[{}] = first
  <2>1. iter[{}] = B(iter, {})
    <3> HIDE DEF B, iter
    <3> QED
      BY <1>5, <1>8
  <2> QED
    BY <2>1
<1>10. iter[{1}] = Hop(first, a)
  <2>1. iter[{1}] = B(iter, {1})
    <3> HIDE DEF B, iter
    <3> QED
      BY <1>5, <1>8
  <2> HIDE DEF iter
  <2> QED
    BY <2>1, <1>4, <1>5, <1>9
<1> QED
  BY <1>2, <1>3, <1>4, <1>10

\* What the question is and what is stored.
Asked(q, r, x) ==
    /\ r \in brain.rows /\ x \in brain.rows
    /\ r.open /\ x.open /\ r.object = x.subject /\ IsAttribute(x.predicate)
    /\ q = <<r.subject, r.predicate, x.predicate>> /\ Unambiguous(q)

\* The planner finds the name, the relation and the attribute, and no other.
LEMMA Planned ==
    ASSUME Inv, Vocabulary, NEW q \in Questions, NEW r, NEW x, Asked(q, r, x)
    PROVE  /\ Entity(q) = r.subject /\ r.subject # NoName
           /\ r.subject # r.predicate /\ r.subject # x.predicate
           /\ Stored(q) = {r.predicate, x.predicate}
           /\ r.predicate \in Relations(q) /\ x.predicate \notin Relations(q)
           /\ r.predicate \in FactsIn(Alphabet) /\ x.predicate \in FactsIn(Alphabet)
<1>1. /\ q = <<r.subject, r.predicate, x.predicate>>
      /\ TokensOf(q) = {r.subject, r.predicate, x.predicate} /\ FactsIn(q) = TokensOf(q)
  <2>1. q = <<r.subject, r.predicate, x.predicate>>
    BY DEF Asked
  <2> QED
    BY <2>1 DEF TokensOf, FactsIn
<1>2. /\ {r.subject, r.predicate, x.predicate} \subseteq FactsIn(Alphabet)
      /\ r.subject # NoName
  BY <1>1, QuestionAssumption
<1>3. r.subject \in brain.known /\ x.subject \in brain.known /\ brain.known \subseteq Subjects
  BY DEF Asked, Vocabulary, AllKnown, Inv, Sound, Typed
<1>4. /\ r.predicate \notin Subjects /\ x.predicate \notin Subjects
      /\ r.subject \notin {y.predicate : y \in brain.rows}
  BY <1>1, <1>3 DEF Asked, Unambiguous
<1>5. Mentioned(q) = {r.subject}
  BY <1>1, <1>3, <1>4 DEF Mentioned
<1>6. Entity(q) = r.subject
  BY <1>2, <1>5, LeastOfOne DEF Entity
<1>7. Stored(q) = {r.predicate, x.predicate}
  BY <1>1, <1>4, CachedIs DEF Stored, Derive, Asked
<1>8. r.predicate \in Cached.relations
  BY <1>3, CachedIs DEF Derive, Asked
<1>9. x.predicate \notin HardRelations \union Cached.relations
  BY CachedIs DEF Derive, Asked, IsAttribute
<1> QED
  BY <1>2, <1>3, <1>4, <1>6, <1>7, <1>8, <1>9 DEF Relations

\* The words after the name are read as the relation and the attribute.
LEMMA ChainOf ==
    ASSUME Inv, Vocabulary, NEW q \in Questions, NEW r, NEW x, Asked(q, r, x)
    PROVE  Chain(q) = <<r.predicate, x.predicate>>
<1> DEFINE p == r.predicate
           a == x.predicate
           rest == SubSeq(q, Position(Entity(q), q) + 1, Len(q))
           stored == Stored(q)
           asked == stored \union Suggested(q)
           link(i) == FirstOf(Denoted(asked, rest[i]), stored)
           run(n) == \A i \in 1 .. n : Denoted(asked, rest[i]) # {}
                                     /\ (i < n => link(i) \in Relations(q))
           runs == {n \in 0 .. Len(rest) : run(n)}
<1>1. q = <<r.subject, p, a>> /\ Entity(q) = r.subject /\ Entity(q) # NoName
  BY Planned DEF Asked
<1>2. Position(Entity(q), q) = 1
  <2>1. q \in Seq({r.subject, p, a}) /\ DOMAIN q = 1 .. 3 /\ q[1] = r.subject
    BY <1>1
  <2>2. r.subject \in FactsIn(q)
    BY <2>1 DEF FactsIn
  <2>3. Position(r.subject, q) \in DOMAIN q /\ Position(r.subject, q) <= 1
    BY <2>1, <2>2, PositionIs
  <2> QED
    BY <1>1, <2>1, <2>3
<1>3. Len(rest) = 2 /\ rest[1] = p /\ rest[2] = a
  BY <1>1, <1>2
<1>4. Denoted(asked, p) = {p} /\ Denoted(asked, a) = {a}
  BY Planned DEF Denoted
<1>5. FirstOf({p}, stored) = p /\ FirstOf({a}, stored) = a
  <2>1. {p} \intersect Stored(q) = {p} /\ {a} \intersect Stored(q) = {a}
    BY Planned
  <2>2. Least({p}, Alphabet) = p /\ Least({a}, Alphabet) = a
    BY Planned, LeastOfOne
  <2> QED
    BY <2>1, <2>2 DEF FirstOf
<1>6. link(1) = p /\ link(2) = a
  BY <1>3, <1>4, <1>5
<1>7. Chain(q) = [i \in 1 .. Max(runs) |-> link(i)]
  BY <1>1 DEF Chain
<1>8. runs = 0 .. 2
  <2>1. \A i \in 1 .. 2 : Denoted(asked, rest[i]) # {}
    <3>1. Denoted(asked, rest[1]) # {} /\ Denoted(asked, rest[2]) # {}
      BY <1>3, <1>4
    <3> HIDE DEF rest
    <3> QED
      BY <3>1
  <2>2. link(1) \in Relations(q)
    BY <1>6, Planned
  <2> HIDE DEF rest, link
  <2>3. run(0) /\ run(1) /\ run(2)
    BY <2>1, <2>2
  <2> HIDE DEF run
  <2> QED
    BY <1>3, <2>3
<1>9. Max(0 .. 2) = 2
  <2>1. 2 \in 0 .. 2 /\ \A y \in 0 .. 2 : 2 >= y
    OBVIOUS
  <2>2. \A z \in 0 .. 2 : (\A y \in 0 .. 2 : z >= y) => z = 2
    OBVIOUS
  <2> QED
    BY <2>1, <2>2 DEF Max
<1> HIDE DEF rest, link, runs
<1>10. Chain(q) = [i \in 1 .. 2 |-> link(i)]
  BY <1>7, <1>8, <1>9
<1> QED
  BY <1>6, <1>10

\* The plan is to follow the relation and then the attribute.
LEMMA HopsOf ==
    ASSUME Inv, Vocabulary, NEW q \in Questions, NEW r, NEW x, Asked(q, r, x)
    PROVE  Hops(q) = <<r.predicate, x.predicate>>
<1> DEFINE p == r.predicate
           a == x.predicate
           chain == Chain(q)
           ends  == chain # <<>> /\ Last(chain) \notin Relations(q)
           links == IF ends THEN Front(chain) ELSE chain
<1>1. chain = <<p, a>>
  BY ChainOf
<1>2. ends /\ links = <<p>>
  <2>1. \A u, w : <<u, w>> # <<>> /\ Last(<<u, w>>) = w /\ Front(<<u, w>>) = <<u>>
    <3> TAKE u, w
    <3>1. Len(<<u, w>>) = 2 /\ <<u, w>>[2] = w /\ <<u, w>> # <<>>
      OBVIOUS
    <3>2. SubSeq(<<u, w>>, 1, 1) = <<u>>
      <4> DEFINE both == <<u, w>>
      <4>1. both \in Seq({u, w}) /\ Len(both) = 2 /\ both[1] = u
        OBVIOUS
      <4> HIDE DEF both
      <4>2. /\ SubSeq(both, 1, 1) \in Seq({u, w}) /\ Len(SubSeq(both, 1, 1)) = 1
            /\ SubSeq(both, 1, 1)[1] = u
        BY <4>1
      <4>3. \A z \in Seq({u, w}) : Len(z) = 1 /\ z[1] = u => z = <<u>>
        OBVIOUS
      <4>4. SubSeq(both, 1, 1) = <<u>>
        BY <4>2, <4>3
      <4> QED
        BY <4>4 DEF both
    <3>3. Front(<<u, w>>) = SubSeq(<<u, w>>, 1, 1)
      BY <3>1 DEF Front
    <3> QED
      BY <3>1, <3>2, <3>3 DEF Last
  <2>2. chain # <<>> /\ Last(chain) = a /\ Front(chain) = <<p>>
    <3> HIDE DEF chain, p, a
    <3> QED
      BY <1>1, <2>1
  <2> HIDE DEF chain
  <2> QED
    BY <2>2, Planned
<1>3. /\ Relations(q) \intersect Stored(q) = {p} /\ Attributes(q) \intersect Stored(q) = {a}
      /\ Relations(q) # {} /\ Attributes(q) # {}
  BY Planned DEF Attributes
<1>4. Least({p}, Alphabet) = p /\ Least({a}, Alphabet) = a
  BY Planned, LeastOfOne
<1>5. FirstOf(Relations(q), Stored(q)) = p /\ FirstOf(Attributes(q), Stored(q)) = a
  BY <1>3, <1>4 DEF FirstOf
<1>6. ~ (Len(links) >= 2)
  <2>1. \A u : Len(<<u>>) = 1
    OBVIOUS
  <2> HIDE DEF links, ends
  <2> QED
    BY <1>2, <2>1
<1> HIDE DEF links, ends, chain
<1> QED
  BY <1>3, <1>5, <1>6 DEF Hops, links, ends, chain

\* One row is open for each key, so both hops lead to one row.
LEMMA PathIsAnswered ==
    ASSUME Inv, Vocabulary, NEW q \in Questions, NEW r, NEW x, Asked(q, r, x)
    PROVE  FactLines(q) = {x}
<1>1. \A y, z \in brain.rows : y.open /\ z.open /\ SameKey(y, z) => y = z
  BY DEF Inv, Sound, Typed, RowsTyped
<1>2. {y \in OpenOf(r.subject) : y.predicate = r.predicate} = {r}
  BY <1>1 DEF OpenOf, SameKey, Asked
<1>3. Hop({r}, x.predicate) = {x}
  BY <1>1 DEF Hop, SameKey, Asked
<1>4. Resolved(r.subject, <<r.predicate, x.predicate>>) = {x}
  BY <1>2, <1>3, TwoHops
<1>5. Hit(q) = {x}
  BY <1>4, HopsOf, Planned DEF Hit
<1> QED
  BY <1>5 DEF FactLines

-----------------------------------------------------------------------------
(* A fact of every entity *)

\* Ids tell rows apart, so there are finitely many.
LEMMA RowsFinite == Inv => IsFiniteSet(brain.rows)
<1> SUFFICES ASSUME Inv PROVE IsFiniteSet(brain.rows)
  OBVIOUS
<1> DEFINE idOf == [r \in brain.rows |-> r.id]
<1>1. brain.counter \in Nat
  BY DEF Inv, Sound, Typed
<1>2. idOf \in Injection(brain.rows, 1 .. brain.counter)
  BY DEF Injection, IsInjective, Inv, Sound, Typed, RowsTyped
<1>3. IsFiniteSet(1 .. brain.counter)
  BY <1>1, FS_Interval
<1> QED
  BY <1>2, <1>3, FS_Injection

\* The predicates of a name that come before this row's.
Before(r) ==
    {p \in {x.predicate : x \in OpenOf(r.subject)} :
       Position(p, Alphabet) < Position(r.predicate, Alphabet)}

\* They are counted, and only the first row has none.
LEMMA DepthIs ==
    ASSUME Inv, NEW r
    PROVE  Depth(r) \in Nat /\ (Depth(r) = 0 <=> Before(r) = {})
<1> DEFINE predicateOf == [x \in OpenOf(r.subject) |-> x.predicate]
           all == {x.predicate : x \in OpenOf(r.subject)}
<1>1. IsFiniteSet(OpenOf(r.subject))
  BY RowsFinite, FS_Subset DEF OpenOf
<1>2. IsFiniteSet(all)
  <2>1. predicateOf \in Surjection(OpenOf(r.subject), all)
    BY DEF Surjection
  <2> HIDE DEF predicateOf, all
  <2> QED
    BY <1>1, <2>1, FS_Surjection
<1>3. IsFiniteSet(Before(r))
  BY <1>2, FS_Subset DEF Before
<1>4. Depth(r) = Cardinality(Before(r))
  BY DEF Depth, Before
<1> QED
  BY <1>3, <1>4, FS_CardinalityType, FS_EmptySet

\* Predicates have positions of their own.
LEMMA PredicateAt ==
    ASSUME Inv, NEW r \in brain.rows
    PROVE  /\ Position(r.predicate, Alphabet) \in Nat
           /\ \A x \in brain.rows :
                Position(x.predicate, Alphabet) = Position(r.predicate, Alphabet)
                  => x.predicate = r.predicate
<1>1. \A x \in brain.rows : x.predicate \in FactsIn(Alphabet)
  <2> TAKE x \in brain.rows
  <2>1. FactOf(x) \in AllFacts /\ FactOf(x).predicate = x.predicate
    BY DEF Inv, Sound, Typed, RowsTyped, FactOf
  <2> QED
    BY <2>1, QuestionAssumption
<1>2. \A x \in brain.rows : /\ Position(x.predicate, Alphabet) \in Nat
                            /\ Alphabet[Position(x.predicate, Alphabet)] = x.predicate
  BY <1>1, PositionIs, QuestionAssumption
<1> QED
  BY <1>2

\* Every name with a current fact has a first one.
LEMMA FirstFact ==
    ASSUME Inv, NEW s, OpenOf(s) # {}
    PROVE  \E r \in OpenOf(s) : Depth(r) = 0
<1> DEFINE at(r) == Position(r.predicate, Alphabet)
           U == {at(r) : r \in OpenOf(s)}
<1>1. \A r \in OpenOf(s) : at(r) \in Nat
  BY PredicateAt DEF OpenOf
<1>2. PICK n \in U : \A m \in U : n <= m
  <2>1. U \subseteq Nat /\ U # {}
    BY <1>1
  <2> HIDE DEF U
  <2> QED
    BY <2>1, LeastNumber
<1>3. PICK r \in OpenOf(s) : n = at(r)
  BY <1>2
<1>4. \A x \in OpenOf(s) : at(r) <= at(x) /\ at(x) \in Nat /\ at(r) \in Nat
  BY <1>1, <1>2, <1>3
<1>5. Before(r) = {}
  <2>1. r.subject = s
    BY DEF OpenOf
  <2> QED
    BY <1>4, <2>1 DEF Before
<1> QED
  BY <1>5, DepthIs

\* A name has no more than one first fact.
LEMMA OneFirstFact ==
    ASSUME Inv, NEW s, NEW x \in OpenOf(s), NEW y \in OpenOf(s), Depth(x) = 0, Depth(y) = 0
    PROVE  x = y
<1>1. /\ x \in brain.rows /\ y \in brain.rows /\ x.open /\ y.open
      /\ x.subject = s /\ y.subject = s
  BY DEF OpenOf
<1>2. Before(x) = {} /\ Before(y) = {}
  BY DepthIs
<1>3. /\ ~ (Position(y.predicate, Alphabet) < Position(x.predicate, Alphabet))
      /\ ~ (Position(x.predicate, Alphabet) < Position(y.predicate, Alphabet))
  BY <1>1, <1>2 DEF Before
<1>4. x.predicate = y.predicate
  BY <1>1, <1>3, PredicateAt
<1> QED
  BY <1>1, <1>4 DEF Inv, Sound, Typed, RowsTyped, SameKey

\* The names of a question that have a current fact.
Named(q) == {s \in Subjects \intersect TokensOf(q) : OpenOf(s) # {}}

\* Only first facts of other names come before a first fact.
LEMMA FewBefore ==
    ASSUME Inv, Vocabulary, NEW q \in Questions, IsFiniteSet(Named(q)),
           NEW s \in Named(q), NEW r \in OpenOf(s), Depth(r) = 0
    PROVE  /\ Cardinality({x \in Candidates(q) : Sooner(x, r)}) \in Nat
           /\ Cardinality({x \in Candidates(q) : Sooner(x, r)}) < Cardinality(Named(q))
<1> DEFINE before == {x \in Candidates(q) : Sooner(x, r)}
           nameOf == [x \in before |-> x.subject]
           others == Named(q) \ {s}
<1>1. ASSUME NEW x \in before
      PROVE  Depth(x) = 0 /\ x.subject \in others /\ x \in OpenOf(x.subject)
  <2>1. PICK name \in Mentioned(q) : x \in OpenOf(name)
    BY DEF Candidates
  <2>2. x.subject = name /\ name \in Named(q)
    BY <2>1 DEF OpenOf, Mentioned, Named, Inv, Sound, Typed
  <2>3. Depth(x) \in Nat /\ Sooner(x, r)
    BY DepthIs
  <2>4. Depth(x) = 0 /\ Position(x.subject, Alphabet) < Position(r.subject, Alphabet)
    BY <2>3 DEF Sooner
  <2>5. Position(s, Alphabet) \in Nat /\ r.subject = s
    <3>1. s \in FactsIn(Alphabet)
      BY QuestionAssumption DEF Named, TokensOf, FactsIn
    <3> QED
      BY <3>1, PositionIs, QuestionAssumption DEF OpenOf
  <2>6. x.subject # s
    BY <2>4, <2>5
  <2> QED
    BY <2>1, <2>2, <2>4, <2>6
<1>2. nameOf \in Injection(before, others)
  <2>1. \A x, y \in before : x.subject = y.subject => x = y
    BY <1>1, OneFirstFact
  <2> HIDE DEF before, others
  <2> QED
    BY <1>1, <2>1 DEF Injection, IsInjective
<1>3. /\ IsFiniteSet(others) /\ Cardinality(others) = Cardinality(Named(q)) - 1
      /\ Cardinality(Named(q)) \in Nat
  BY FS_RemoveElement, FS_CardinalityType
<1> HIDE DEF before, nameOf, others
<1>4. Cardinality(before) <= Cardinality(others) /\ IsFiniteSet(before)
  BY <1>2, <1>3, FS_Injection
<1>5. Cardinality(before) \in Nat /\ Cardinality(others) \in Nat
  BY <1>3, <1>4, FS_CardinalityType
<1> QED
  BY <1>3, <1>4, <1>5 DEF before

\* The names of a question and the places for facts can be compared.
LEMMA NamedAndBudget ==
    ASSUME Inv, NEW q
    PROVE  /\ IsFiniteSet(Named(q)) /\ Cardinality(Named(q)) \in Nat
           /\ FactBudget \in Int
<1>1. IsFiniteSet(Named(q))
  <2> DEFINE subjectOf == [r \in brain.rows |-> r.subject]
             all == {r.subject : r \in brain.rows}
  <2>1. subjectOf \in Surjection(brain.rows, all)
    BY DEF Surjection
  <2>2. Named(q) \subseteq all
    BY DEF Named, OpenOf
  <2> HIDE DEF subjectOf, all
  <2>3. IsFiniteSet(all)
    BY <2>1, RowsFinite, FS_Surjection
  <2> QED
    BY <2>2, <2>3, FS_Subset
<1>2. FactBudget \in Int
  BY QuestionAssumption DEF FactBudget
<1> QED
  BY <1>1, <1>2, FS_CardinalityType

\* A name's first fact is within the budget, if there is a place for each name.
LEMMA NamedIsAnswered ==
    ASSUME Inv, Vocabulary, NEW q \in Questions, Hit(q) = {},
           Cardinality(Named(q)) <= FactBudget, NEW s \in Named(q)
    PROVE  \E r \in FactLines(q) : r.subject = s
<1>1. PICK r \in OpenOf(s) : Depth(r) = 0
  BY FirstFact DEF Named
<1>2. r \in Candidates(q) /\ r.subject = s
  <2>1. r \in brain.rows /\ r.subject = s
    BY DEF OpenOf
  <2>2. s \in Mentioned(q)
    BY <2>1 DEF Named, Mentioned, Vocabulary, AllKnown
  <2> QED
    BY <2>1, <2>2 DEF Candidates
<1>3. /\ Cardinality({x \in Candidates(q) : Sooner(x, r)}) \in Nat
      /\ Cardinality({x \in Candidates(q) : Sooner(x, r)}) < Cardinality(Named(q))
  BY <1>1, NamedAndBudget, FewBefore
<1>4. Cardinality({x \in Candidates(q) : Sooner(x, r)}) < FactBudget
  BY <1>3, NamedAndBudget
<1>5. r \in Backstop(q)
  BY <1>2, <1>4 DEF Backstop
<1> QED
  BY <1>2, <1>5 DEF FactLines

\* Both parts.
LEMMA KnownAnswered == Inv /\ Vocabulary => KnownIsAnswered
<1> SUFFICES ASSUME Inv, Vocabulary PROVE KnownIsAnswered
  OBVIOUS
<1>1. ASSUME NEW q \in Questions, NEW r \in brain.rows, NEW x \in brain.rows,
             r.open /\ x.open /\ r.object = x.subject /\ IsAttribute(x.predicate),
             q = <<r.subject, r.predicate, x.predicate>>, Unambiguous(q)
      PROVE  FactLines(q) = {x}
  <2>1. Asked(q, r, x)
    BY <1>1 DEF Asked
  <2> QED
    BY <2>1, PathIsAnswered
<1>2. ASSUME NEW q \in Questions, Hit(q) = {}, Cardinality(Named(q)) <= FactBudget,
             NEW s \in Named(q)
      PROVE  \E r \in FactLines(q) : r.subject = s
  BY <1>2, NamedIsAnswered
<1>3. ASSUME NEW q \in Questions
      PROVE  \/ Named(q) \subseteq {r.subject : r \in FactLines(q)}
             \/ Hit(q) # {} \/ Cardinality(Named(q)) > FactBudget
  BY <1>2, NamedAndBudget
<1> QED
  BY <1>1, <1>3 DEF KnownIsAnswered, Named

-----------------------------------------------------------------------------
(* Theorems *)

\* The vocabulary has the subjects of all rows, in the brain and in the snapshot,
\* whatever was written, forgotten or restored.
THEOREM VocabularyIsInvariant == Spec => [](Inv /\ Vocabulary)
<1>1. Init => Vocabulary
  BY DEF Init, Empty, Vocabulary, AllKnown
<1>2. Inv /\ Inv' /\ Vocabulary /\ [Next]_vars => Vocabulary'
  BY VocabularyStep
<1>3. Spec => []Inv
  BY InvIsInvariant
<1> QED
  BY <1>1, <1>2, <1>3, PTL DEF Spec

\* No record that may be served is that of an episode linked to a superseded fact,
\* nor has it the subject and the value of one in its words.
THEOREM NothingStaleServedHolds == Spec => []NothingStaleServed
<1>1. Inv => NothingStaleServed
  BY NothingStale
<1> QED
  BY <1>1, InvIsInvariant, PTL

\* A path of a relation and an attribute leads to its fact, and every entity named
\* that has a current fact has one in the context while the budget lasts.
THEOREM KnownIsAnsweredHolds == Spec => []KnownIsAnswered
<1>1. Inv /\ Vocabulary => KnownIsAnswered
  BY KnownAnswered
<1> QED
  BY <1>1, VocabularyIsInvariant, PTL
=============================================================================
