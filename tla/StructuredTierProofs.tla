------------------------ MODULE StructuredTierProofs ------------------------
(***************************************************************************)
(* What StructuredTier guarantees for all subjects, predicates, objects    *)
(* and timestamps.  The inductive invariant Inv says the same of the live  *)
(* rows and of the rows of the last snapshot, because Load makes the       *)
(* latter live again; it adds that no id above the counter is in use, as a *)
(* row or as a link, without which a new row could be mistaken for the     *)
(* missing replacement of an old one.                                      *)
(***************************************************************************)
EXTENDS StructuredTier, TLAPS

IdsUpTo(rows, n) ==
    /\ DOMAIN rows \subseteq 1 .. n
    /\ \A i \in DOMAIN rows : rows[i].superseded_by \in 0 .. n

SoundRows(rows, n) ==
    /\ n \in 0 .. MaxId
    /\ IsRows(rows)
    /\ IdsUpTo(rows, n)
    /\ SingleOpenIn(rows)
    /\ NoInvertedIn(rows)
    /\ LinkedIn(rows)

Inv ==
    /\ SoundRows(facts, counter)
    /\ saved = [rows |-> saved.rows, counter |-> saved.counter]
    /\ SoundRows(saved.rows, saved.counter)
    /\ by_key \in [Keys -> SUBSET (1 .. MaxId)]
    /\ by_obj \in [Values -> SUBSET (1 .. MaxId)]
    /\ IndexesExact

-----------------------------------------------------------------------------
(* Lemmas on sets of rows *)

\* A row may be added under the next id when its interval is in order, it is
\* linked exactly if it is closed, its link is right, and if it is open the
\* rows of its key are closed.
LEMMA AddRow ==
    ASSUME NEW rows, NEW n, SoundRows(rows, n), n < MaxId,
           NEW f \in Fact,
           f.valid_from <= f.valid_to,
           IsOpen(f) <=> f.superseded_by = NoFact,
           f.valid_to = INF => IsOpen(f),
           IsOpen(f) => \A i \in DOMAIN rows : KeyOf(rows[i]) = KeyOf(f) => ~IsOpen(rows[i]),
           f.superseded_by # NoFact =>
              /\ f.superseded_by \in DOMAIN rows
              /\ KeyOf(rows[f.superseded_by]) = KeyOf(f)
              /\ rows[f.superseded_by].valid_from = f.valid_to
    PROVE  SoundRows(With(rows, n + 1, f), n + 1)
<1> DEFINE new == With(rows, n + 1, f)
<1>1. /\ n \in Nat /\ n + 1 \in 1 .. MaxId /\ n + 1 \notin DOMAIN rows
      /\ DOMAIN new = DOMAIN rows \union {n + 1}
      /\ new[n + 1] = f
      /\ \A i \in DOMAIN rows : new[i] = rows[i]
  BY BoundsAssumption DEF SoundRows, IdsUpTo, With
<1>2. IsRows(new)
  BY <1>1 DEF SoundRows, IsRows, With
<1>3. IdsUpTo(new, n + 1)
  BY <1>1 DEF SoundRows, IdsUpTo, NoFact, Fact
<1>4. SingleOpenIn(new)
  BY <1>1 DEF SoundRows, SingleOpenIn
<1>5. NoInvertedIn(new)
  BY <1>1 DEF SoundRows, NoInvertedIn
<1>6. LinkedIn(new)
  <2> SUFFICES ASSUME NEW i \in DOMAIN new
               PROVE  /\ IsOpen(new[i]) <=> new[i].superseded_by = NoFact
                      /\ new[i].valid_to = INF => IsOpen(new[i])
                      /\ new[i].superseded_by \in DOMAIN new =>
                           /\ KeyOf(new[new[i].superseded_by]) = KeyOf(new[i])
                           /\ new[new[i].superseded_by].valid_from = new[i].valid_to
    BY DEF LinkedIn
  <2>1. CASE i = n + 1
    <3>1. f.superseded_by # n + 1
      BY <1>1 DEF NoFact
    <3>2. NoFact \notin DOMAIN new
      BY <1>1 DEF SoundRows, IdsUpTo, NoFact
    <3> QED
      BY <1>1, <2>1, <3>1, <3>2
  <2>2. CASE i \in DOMAIN rows
    <3>1. new[i] = rows[i] /\ rows[i].superseded_by # n + 1
      BY <1>1, <2>2 DEF SoundRows, IdsUpTo
    <3> QED
      BY <1>1, <2>2, <3>1 DEF SoundRows, LinkedIn
  <2> QED
    BY <1>1, <2>1, <2>2
<1> HIDE DEF new
<1>7. QED
  BY <1>1, <1>2, <1>3, <1>4, <1>5, <1>6 DEF SoundRows, new

\* Closing the open row of a key and appending its replacement under the
\* next id keeps the rows sound.
LEMMA ReplaceRow ==
    ASSUME NEW rows, NEW n, SoundRows(rows, n), n < MaxId,
           NEW s \in Subjects, NEW p \in Predicates, NEW o \in Objects,
           NEW vf \in Times, NEW t \in Times,
           NEW cur \in DOMAIN rows, IsOpen(rows[cur]), KeyOf(rows[cur]) = <<s, p>>,
           rows[cur].valid_from <= vf,
           NEW closed,
           closed = [rows EXCEPT ![cur].valid_to = vf, ![cur].expired_at = t,
                                 ![cur].superseded_by = n + 1]
    PROVE  SoundRows(With(closed, n + 1, OpenFact(s, p, o, vf, t)), n + 1)
<1> DEFINE f == OpenFact(s, p, o, vf, t)
           new == With(closed, n + 1, f)
           old == [rows[cur] EXCEPT !.valid_to = vf, !.expired_at = t,
                                    !.superseded_by = n + 1]
<1>1. /\ n \in Nat /\ n + 1 \in 1 .. MaxId /\ n + 1 \notin DOMAIN rows /\ cur # n + 1
      /\ DOMAIN closed = DOMAIN rows /\ closed[cur] = old
      /\ \A i \in DOMAIN rows \ {cur} : closed[i] = rows[i]
      /\ DOMAIN new = DOMAIN rows \union {n + 1}
      /\ new[n + 1] = f /\ new[cur] = old
      /\ \A i \in DOMAIN rows \ {cur} : new[i] = rows[i]
  BY BoundsAssumption DEF SoundRows, IdsUpTo, With, IsRows
<1>2. /\ vf \in Nat /\ t \in Nat /\ INF \in Nat /\ vf < INF /\ t < INF
  BY TimesAssumption, InfAssumption
<1>3. /\ rows[cur] \in Fact /\ old \in Fact /\ f \in Fact
  <2>1. rows[cur] \in Fact
    BY DEF SoundRows, IsRows
  <2> QED
    BY <1>1, <2>1 DEF Fact, OpenFact, Recorded, NoFact
<1>4. /\ KeyOf(old) = <<s, p>> /\ KeyOf(f) = <<s, p>>
      /\ old.valid_from = rows[cur].valid_from /\ old.valid_to = vf
      /\ old.superseded_by = n + 1
      /\ f.valid_from = vf /\ f.valid_to = INF /\ f.superseded_by = NoFact
      /\ ~IsOpen(old) /\ old.valid_to # INF /\ IsOpen(f)
  BY <1>2, <1>3 DEF KeyOf, OpenFact, Recorded, IsOpen, Fact
<1>5. IsRows(new)
  BY <1>1, <1>3 DEF SoundRows, IsRows, With
<1> HIDE DEF f, old, new
<1>6. IdsUpTo(new, n + 1)
  <2>1. \A i \in DOMAIN rows : i \in 1 .. n + 1 /\ rows[i].superseded_by \in 0 .. n + 1
    BY <1>1 DEF SoundRows, IdsUpTo
  <2>2. \A i \in DOMAIN new : new[i].superseded_by \in 0 .. n + 1
    BY <1>1, <1>4, <2>1 DEF NoFact
  <2> QED
    BY <1>1, <2>1, <2>2 DEF IdsUpTo
<1>7. SingleOpenIn(new)
  <2>1. \A i \in DOMAIN rows \ {cur} : KeyOf(rows[i]) = <<s, p>> => ~IsOpen(rows[i])
    BY DEF SoundRows, SingleOpenIn
  <2> QED
    BY <1>1, <1>4, <2>1 DEF SoundRows, SingleOpenIn
<1>8. NoInvertedIn(new)
  BY <1>1, <1>2, <1>4 DEF SoundRows, NoInvertedIn
<1>9. LinkedIn(new)
  <2> SUFFICES ASSUME NEW i \in DOMAIN new
               PROVE  /\ IsOpen(new[i]) <=> new[i].superseded_by = NoFact
                      /\ new[i].valid_to = INF => IsOpen(new[i])
                      /\ new[i].superseded_by \in DOMAIN new =>
                           /\ KeyOf(new[new[i].superseded_by]) = KeyOf(new[i])
                           /\ new[new[i].superseded_by].valid_from = new[i].valid_to
    BY DEF LinkedIn
  <2>1. CASE i = n + 1
    <3>1. NoFact \notin DOMAIN new
      BY <1>1 DEF SoundRows, IdsUpTo, NoFact
    <3> QED
      BY <1>1, <1>4, <2>1, <3>1
  <2>2. CASE i = cur
    BY <1>1, <1>4, <2>2 DEF NoFact
  <2>3. CASE i \in DOMAIN rows \ {cur}
    <3> DEFINE r == rows[i].superseded_by
    <3>1. new[i] = rows[i] /\ r # n + 1
      BY <1>1, <2>3 DEF SoundRows, IdsUpTo
    <3>2. /\ IsOpen(rows[i]) <=> r = NoFact
          /\ rows[i].valid_to = INF => IsOpen(rows[i])
          /\ r \in DOMAIN rows => KeyOf(rows[r]) = KeyOf(rows[i])
                                  /\ rows[r].valid_from = rows[i].valid_to
      BY <2>3 DEF SoundRows, LinkedIn
    <3>3. r \in DOMAIN rows =>
            KeyOf(new[r]) = KeyOf(rows[r]) /\ new[r].valid_from = rows[r].valid_from
      BY <1>1, <1>4
    <3> QED
      BY <1>1, <3>1, <3>2, <3>3
  <2> QED
    BY <1>1, <2>1, <2>2, <2>3
<1>10. QED
  BY <1>1, <1>5, <1>6, <1>7, <1>8, <1>9 DEF SoundRows, new, f

\* Removing rows keeps the others sound: a link may dangle, never be wrong.
LEMMA RemoveRows ==
    ASSUME NEW rows, NEW n, SoundRows(rows, n), NEW kept, kept \subseteq DOMAIN rows
    PROVE  SoundRows([i \in kept |-> rows[i]], n)
BY DEF SoundRows, IsRows, IdsUpTo, SingleOpenIn, NoInvertedIn, LinkedIn

-----------------------------------------------------------------------------
(* Lemmas on the state *)

\* When a key has an open fact, the loop of assert_fact finds it: there is
\* exactly one, and the index leads to it.
LEMMA FirstOpenFound ==
    ASSUME Inv, NEW key \in Keys, OpenIds(key) # {}
    PROVE  /\ FirstOpen(key) \in DOMAIN facts
           /\ IsOpen(facts[FirstOpen(key)])
           /\ KeyOf(facts[FirstOpen(key)]) = key
<1>1. PICK i \in OpenIds(key) : TRUE
  OBVIOUS
<1>2. \A j \in OpenIds(key) :
        j \in DOMAIN facts /\ IsOpen(facts[j]) /\ KeyOf(facts[j]) = key /\ j \in Nat
  BY BoundsAssumption DEF OpenIds, Inv, IndexesExact, SoundRows, IsRows
<1>3. \A j \in OpenIds(key) : i = j /\ i <= j
  BY <1>1, <1>2 DEF Inv, SoundRows, SingleOpenIn
<1>4. FirstOpen(key) \in OpenIds(key)
  BY <1>1, <1>3 DEF FirstOpen
<1>5. QED
  BY <1>2, <1>4

\* When the loop finds none, every fact of the key is closed.
LEMMA NoneOpen ==
    ASSUME Inv, NEW key \in Keys, OpenIds(key) = {}
    PROVE  \A i \in DOMAIN facts : KeyOf(facts[i]) = key => ~IsOpen(facts[i])
BY DEF OpenIds, Inv, IndexesExact

\* Indexing a new row keeps the indexes exact, when the rows that were there
\* keep their subject, predicate and object.
LEMMA IndexedRow ==
    ASSUME Inv, NEW f \in Fact, counter < MaxId,
           Index(counter + 1, f),
           NEW old, DOMAIN old = DOMAIN facts,
           \A i \in DOMAIN facts : /\ KeyOf(old[i]) = KeyOf(facts[i])
                                  /\ ValueOf(old[i]) = ValueOf(facts[i]),
           facts' = With(old, counter + 1, f)
    PROVE  /\ by_key' \in [Keys -> SUBSET (1 .. MaxId)]
           /\ by_obj' \in [Values -> SUBSET (1 .. MaxId)]
           /\ IndexesExact'
<1>1. KeyOf(f) \in Keys /\ ValueOf(f) \in Values
  BY DEF KeyOf, ValueOf, Keys, Values, Fact
<1>2. /\ counter + 1 \in 1 .. MaxId /\ counter + 1 \notin DOMAIN facts
      /\ DOMAIN facts' = DOMAIN facts \union {counter + 1}
      /\ facts'[counter + 1] = f
      /\ \A i \in DOMAIN facts : facts'[i] = old[i]
  BY BoundsAssumption DEF Inv, SoundRows, IdsUpTo, With
<1>3. /\ by_key' \in [Keys -> SUBSET (1 .. MaxId)]
      /\ by_obj' \in [Values -> SUBSET (1 .. MaxId)]
  BY <1>1, <1>2 DEF Inv, Index
<1>4. ASSUME NEW k \in Keys
      PROVE  by_key'[k] = {i \in DOMAIN facts' : KeyOf(facts'[i]) = k}
  <2>1. by_key[k] = {i \in DOMAIN facts : KeyOf(facts[i]) = k}
    BY DEF Inv, IndexesExact
  <2>2. by_key'[k] = IF k = KeyOf(f) THEN by_key[k] \union {counter + 1} ELSE by_key[k]
    BY <1>1 DEF Inv, Index
  <2>3. QED
    BY <1>2, <2>1, <2>2
<1>5. ASSUME NEW v \in Values
      PROVE  by_obj'[v] = {i \in DOMAIN facts' : ValueOf(facts'[i]) = v}
  <2>1. by_obj[v] = {i \in DOMAIN facts : ValueOf(facts[i]) = v}
    BY DEF Inv, IndexesExact
  <2>2. by_obj'[v] = IF v = ValueOf(f) THEN by_obj[v] \union {counter + 1} ELSE by_obj[v]
    BY <1>1 DEF Inv, Index
  <2>3. QED
    BY <1>2, <2>1, <2>2
<1>6. QED
  BY <1>3, <1>4, <1>5 DEF IndexesExact

-----------------------------------------------------------------------------
(* The invariant *)

\* The empty store is sound.
LEMMA InitInv == Init => Inv
<1> SUFFICES ASSUME Init PROVE Inv
  OBVIOUS
<1>1. SoundRows([i \in {} |-> NoFact], 0)
  BY BoundsAssumption DEF SoundRows, IsRows, IdsUpTo, SingleOpenIn, NoInvertedIn, LinkedIn
<1>2. IndexesExact
  BY DEF Init, IndexesExact
<1>3. QED
  BY <1>1, <1>2 DEF Init, Inv

\* A late fact enters closed, before the open one, and linked to it.
LEMMA HistoricalInv ==
    ASSUME Inv, NEW s \in Subjects, NEW p \in Predicates, NEW o \in Objects,
           NEW vf \in Times, NEW t \in Times, InsertHistorical(s, p, o, vf, t)
    PROVE  Inv'
<1> DEFINE cur  == FirstOpen(<<s, p>>)
           hist == Recorded(s, p, o, vf, facts[cur].valid_from, t, cur)
<1>1. <<s, p>> \in Keys
  BY DEF Keys
<1>2. cur \in DOMAIN facts /\ KeyOf(facts[cur]) = <<s, p>> /\ IsOpen(facts[cur])
  BY <1>1, FirstOpenFound DEF InsertHistorical
<1>3. facts[cur] \in Fact /\ cur \in 1 .. MaxId
  BY <1>2 DEF Inv, SoundRows, IsRows
<1>4. /\ vf \in Nat /\ INF \in Nat
      /\ facts[cur].valid_from \in Times /\ facts[cur].valid_from \in Nat
      /\ facts[cur].valid_from < INF /\ vf < facts[cur].valid_from
  BY <1>3, TimesAssumption, InfAssumption DEF Fact, InsertHistorical
<1>5. hist \in Fact
  BY <1>3, <1>4, BoundsAssumption DEF Fact, Recorded
<1>6. /\ KeyOf(hist) = <<s, p>>
      /\ hist.valid_from = vf /\ hist.valid_to = facts[cur].valid_from
      /\ hist.superseded_by = cur /\ cur # NoFact
      /\ ~IsOpen(hist) /\ hist.valid_to # INF
  BY <1>3, <1>4, BoundsAssumption DEF KeyOf, Recorded, IsOpen, NoFact
<1>7. /\ facts' = With(facts, counter + 1, hist) /\ Index(counter + 1, hist)
      /\ counter < MaxId /\ counter' = counter + 1 /\ saved' = saved
  BY DEF InsertHistorical, NextId
<1> HIDE DEF hist
<1>8. SoundRows(facts', counter')
  BY <1>2, <1>4, <1>5, <1>6, <1>7, AddRow DEF Inv
<1>9. /\ by_key' \in [Keys -> SUBSET (1 .. MaxId)]
      /\ by_obj' \in [Values -> SUBSET (1 .. MaxId)]
      /\ IndexesExact'
  BY <1>5, <1>7, IndexedRow
<1>10. QED
  BY <1>7, <1>8, <1>9 DEF Inv

\* A conflicting fact closes the open one at its own beginning.
LEMMA SupersedeInv ==
    ASSUME Inv, NEW s \in Subjects, NEW p \in Predicates, NEW o \in Objects,
           NEW vf \in Times, NEW t \in Times, Supersede(s, p, o, vf, t)
    PROVE  Inv'
<1> DEFINE cur    == FirstOpen(<<s, p>>)
           closed == [facts EXCEPT ![cur].valid_to = vf,
                                   ![cur].expired_at = t,
                                   ![cur].superseded_by = counter + 1]
           new    == OpenFact(s, p, o, vf, t)
<1>1. <<s, p>> \in Keys
  BY DEF Keys
<1>2. cur \in DOMAIN facts /\ KeyOf(facts[cur]) = <<s, p>> /\ IsOpen(facts[cur])
  BY <1>1, FirstOpenFound DEF Supersede
<1>3. /\ facts' = With(closed, counter + 1, new) /\ Index(counter + 1, new)
      /\ facts[cur].valid_from <= vf
      /\ counter < MaxId /\ counter' = counter + 1 /\ saved' = saved
  BY DEF Supersede, NextId
<1>4. SoundRows(facts', counter')
  BY <1>2, <1>3, ReplaceRow DEF Inv
<1>5. /\ DOMAIN closed = DOMAIN facts
      /\ \A i \in DOMAIN facts : /\ KeyOf(closed[i]) = KeyOf(facts[i])
                                /\ ValueOf(closed[i]) = ValueOf(facts[i])
  <2>1. /\ facts \in [DOMAIN facts -> Fact]
        /\ \A i \in DOMAIN facts : facts[i] \in Fact
    BY DEF Inv, SoundRows, IsRows
  <2>2. QED
    BY <2>1, <1>2 DEF KeyOf, ValueOf, Fact
<1>6. new \in Fact
  BY InfAssumption DEF Fact, OpenFact, Recorded, NoFact
<1> HIDE DEF closed, new
<1>7. /\ by_key' \in [Keys -> SUBSET (1 .. MaxId)]
      /\ by_obj' \in [Values -> SUBSET (1 .. MaxId)]
      /\ IndexesExact'
  BY <1>3, <1>5, <1>6, IndexedRow
<1>8. QED
  BY <1>3, <1>4, <1>7 DEF Inv

\* The first fact of a key, or the first after all were forgotten or closed.
LEMMA FirstInv ==
    ASSUME Inv, NEW s \in Subjects, NEW p \in Predicates, NEW o \in Objects,
           NEW vf \in Times, NEW t \in Times, InsertFirst(s, p, o, vf, t)
    PROVE  Inv'
<1> DEFINE new == OpenFact(s, p, o, vf, t)
<1>1. <<s, p>> \in Keys
  BY DEF Keys
<1>2. \A i \in DOMAIN facts : KeyOf(facts[i]) = <<s, p>> => ~IsOpen(facts[i])
  BY <1>1, NoneOpen DEF InsertFirst
<1>3. /\ new \in Fact /\ KeyOf(new) = <<s, p>> /\ IsOpen(new)
      /\ new.superseded_by = NoFact /\ new.valid_from <= new.valid_to
  BY InfAssumption, TimesAssumption DEF Fact, OpenFact, Recorded, NoFact, KeyOf, IsOpen
<1>4. /\ facts' = With(facts, counter + 1, new) /\ Index(counter + 1, new)
      /\ counter < MaxId /\ counter' = counter + 1 /\ saved' = saved
  BY DEF InsertFirst, NextId
<1> HIDE DEF new
<1>5. SoundRows(facts', counter')
  BY <1>2, <1>3, <1>4, AddRow DEF Inv
<1>6. /\ by_key' \in [Keys -> SUBSET (1 .. MaxId)]
      /\ by_obj' \in [Values -> SUBSET (1 .. MaxId)]
      /\ IndexesExact'
  BY <1>3, <1>4, IndexedRow
<1>7. QED
  BY <1>4, <1>5, <1>6 DEF Inv

\* forget: whatever set of rows a call dooms, the rest stays sound and the
\* rebuilt indexes are exact.
LEMMA RetractInv ==
    ASSUME Inv, NEW doomed, Retract(doomed)
    PROVE  Inv'
<1> DEFINE kept == DOMAIN facts \ doomed
<1>1. CASE doomed = {}
  BY <1>1 DEF Retract, Inv, IndexesExact
<1>2. CASE doomed # {}
  <2>1. /\ facts' = [i \in kept |-> facts[i]]
        /\ by_key' = [k \in Keys |-> {i \in kept : KeyOf(facts[i]) = k}]
        /\ by_obj' = [v \in Values |-> {i \in kept : ValueOf(facts[i]) = v}]
        /\ counter' = counter /\ saved' = saved
    BY <1>2 DEF Retract
  <2>2. SoundRows(facts', counter')
    BY <2>1, RemoveRows DEF Inv
  <2>3. kept \subseteq 1 .. MaxId
    BY DEF Inv, SoundRows, IsRows
  <2>4. IndexesExact'
    BY <2>1 DEF IndexesExact
  <2>5. /\ by_key' \in [Keys -> SUBSET (1 .. MaxId)]
        /\ by_obj' \in [Values -> SUBSET (1 .. MaxId)]
    BY <2>1, <2>3
  <2>6. QED
    BY <2>1, <2>2, <2>4, <2>5 DEF Inv
<1>3. QED
  BY <1>1, <1>2

\* load() makes the rows of the last snapshot live and indexes them afresh.
LEMMA LoadInv == ASSUME Inv, Load PROVE Inv'
<1>1. /\ facts' = saved.rows /\ counter' = saved.counter /\ saved' = saved
      /\ by_key' = [k \in Keys |->
                      {i \in DOMAIN saved.rows : KeyOf(saved.rows[i]) = k}]
      /\ by_obj' = [v \in Values |->
                      {i \in DOMAIN saved.rows : ValueOf(saved.rows[i]) = v}]
  BY DEF Load
<1>2. DOMAIN saved.rows \subseteq 1 .. MaxId
  BY DEF Inv, SoundRows, IsRows
<1>3. IndexesExact'
  BY <1>1 DEF IndexesExact
<1>4. QED
  BY <1>1, <1>2, <1>3 DEF Inv

\* Every operation of the store keeps the invariant.
LEMMA StepInv == Inv /\ [Next]_vars => Inv'
<1> SUFFICES ASSUME Inv, [Next]_vars PROVE Inv'
  OBVIOUS
<1>1. ASSUME NEW s \in Subjects, NEW p \in Predicates, NEW o \in Objects,
             NEW vf \in Times, NEW t \in Times, AssertFact(s, p, o, vf, t)
      PROVE  Inv'
  <2>1. CASE Reassert(s, p, o, vf, t)
    <3>1. /\ UNCHANGED <<facts, by_key, by_obj, saved>>
          /\ counter < MaxId /\ counter' = counter + 1
      BY <2>1 DEF Reassert, NextId
    <3>2. SoundRows(facts, counter + 1)
      BY <3>1, BoundsAssumption DEF Inv, SoundRows, IdsUpTo
    <3>3. QED
      BY <3>1, <3>2 DEF Inv, IndexesExact
  <2>2. CASE InsertHistorical(s, p, o, vf, t)
    BY <2>2, HistoricalInv
  <2>3. CASE Supersede(s, p, o, vf, t)
    BY <2>3, SupersedeInv
  <2>4. CASE InsertFirst(s, p, o, vf, t)
    BY <2>4, FirstInv
  <2>5. QED
    BY <1>1, <2>1, <2>2, <2>3, <2>4 DEF AssertFact
<1>2. ASSUME NEW s \in Subjects, Forget(s) PROVE Inv'
  BY <1>2, RetractInv DEF Forget
<1>3. ASSUME NEW s \in Subjects, NEW p \in Predicates, ForgetKey(s, p) PROVE Inv'
  BY <1>3, RetractInv DEF ForgetKey
<1>4. CASE Save
  <2>1. saved' = [rows |-> facts, counter |-> counter]
        /\ UNCHANGED <<facts, by_key, by_obj, counter>>
    BY <1>4 DEF Save
  <2>2. QED
    BY <2>1 DEF Inv, IndexesExact
<1>5. CASE Load
  BY <1>5, LoadInv
<1>6. CASE UNCHANGED vars
  BY <1>6 DEF vars, Inv, IndexesExact
<1>7. QED
  BY <1>1, <1>2, <1>3, <1>4, <1>5, <1>6 DEF Next

\* In every reachable state the live rows and the saved rows are sound, and
\* the indexes are exact: the invariant all other theorems rest on.
THEOREM Invariance == Spec => []Inv
BY InitInv, StepInv, PTL DEF Spec

-----------------------------------------------------------------------------
(* What follows from the invariant *)

\* Every reachable state of the store has its type.
THEOREM TypeCorrect == Spec => []TypeOK
<1>1. Inv => TypeOK
  BY DEF Inv, SoundRows, TypeOK
<1>2. QED
  BY <1>1, Invariance, PTL

\* assert_fact, forget and load never leave two open facts of one key.
THEOREM OneOpenFact == Spec => []SingleOpen
<1>1. Inv => SingleOpen
  BY DEF Inv, SoundRows, SingleOpen
<1>2. QED
  BY <1>1, Invariance, PTL

\* No order of the timestamps of the calls inverts a valid interval.
THEOREM IntervalsOrdered == Spec => []NoInverted
<1>1. Inv => NoInverted
  BY DEF Inv, SoundRows, NoInverted
<1>2. QED
  BY <1>1, Invariance, PTL

\* A closed fact ends where the stored replacement it is linked to begins.
THEOREM LinksRight == Spec => []Linked
<1>1. Inv => Linked
  BY DEF Inv, SoundRows, Linked
<1>2. QED
  BY <1>1, Invariance, PTL

\* The two derived indexes never differ from the list of facts.
THEOREM IndexesRight == Spec => []IndexesExact
<1>1. Inv => IndexesExact
  BY DEF Inv
<1>2. QED
  BY <1>1, Invariance, PTL

\* max() over a set of one row is that row.
LEMMA LatestOfOne ==
    ASSUME NEW i \in Nat, facts[i].valid_from \in Nat, facts[i].created_at \in Nat
    PROVE  Latest({i}) = i
BY DEF Latest, Maxima

\* current() is the single open fact of the key, or none.
LEMMA CurrentFact ==
    ASSUME Inv, NEW key \in Keys
    PROVE  /\ OpenIds(key) = {} => Current(key) = NoFact
           /\ \A i \in OpenIds(key) : OpenIds(key) = {i} /\ Current(key) = i
<1>1. OpenIds(key) = {} => Current(key) = NoFact
  BY DEF Current, Latest
<1>2. ASSUME NEW i \in OpenIds(key)
      PROVE  OpenIds(key) = {i} /\ Current(key) = i
  <2>1. \A j \in OpenIds(key) :
          j \in DOMAIN facts /\ IsOpen(facts[j]) /\ KeyOf(facts[j]) = key
    BY DEF OpenIds, Inv, IndexesExact
  <2>2. OpenIds(key) = {i}
    BY <2>1 DEF Inv, SoundRows, SingleOpenIn
  <2>3. i \in Nat /\ facts[i] \in Fact
    BY <2>1, BoundsAssumption DEF Inv, SoundRows, IsRows
  <2>4. facts[i].valid_from \in Nat /\ facts[i].created_at \in Nat
    BY <2>3, TimesAssumption DEF Fact
  <2>5. QED
    BY <2>2, <2>3, <2>4, LatestOfOne DEF Current
<1>3. QED
  BY <1>1, <1>2

\* "Who has this value now" and "what is the value now" give one answer.
THEOREM InverseRight == Spec => []InverseAgrees
<1>1. ASSUME Inv, NEW s \in Subjects, NEW p \in Predicates, NEW o \in Objects
      PROVE  s \in SubjectsWhere(<<p, o>>) <=>
               /\ Current(<<s, p>>) # NoFact
               /\ facts[Current(<<s, p>>)].object = o
  <2>1. <<s, p>> \in Keys /\ <<p, o>> \in Values
    BY DEF Keys, Values
  <2>2. /\ by_key[<<s, p>>] = {i \in DOMAIN facts : KeyOf(facts[i]) = <<s, p>>}
        /\ by_obj[<<p, o>>] = {i \in DOMAIN facts : ValueOf(facts[i]) = <<p, o>>}
    BY <1>1, <2>1 DEF Inv, IndexesExact
  <2>3. DOMAIN facts \subseteq 1 .. MaxId
    BY <1>1 DEF Inv, SoundRows, IsRows
  <2>4. s \in SubjectsWhere(<<p, o>>) <=>
          \E i \in OpenIds(<<s, p>>) : facts[i].object = o
    BY <2>2 DEF SubjectsWhere, OpenIds, KeyOf, ValueOf
  <2>5. \A i \in OpenIds(<<s, p>>) : i # NoFact
    BY <2>2, <2>3, BoundsAssumption DEF OpenIds, NoFact
  <2>6. QED
    BY <1>1, <2>1, <2>4, <2>5, CurrentFact
<1>2. Inv => InverseAgrees
  BY <1>1 DEF InverseAgrees
<1>3. QED
  BY <1>2, Invariance, PTL

\* An assertion deletes nothing and changes nothing but the row it closes.
THEOREM SupersedeIsNonLossy == Spec => NonLossy
<1>1. ASSUME Inv, Asserting PROVE KeepsHistory
  <2>1. PICK s \in Subjects, p \in Predicates, o \in Objects,
             vf \in Times, t \in Times : AssertFact(s, p, o, vf, t)
    BY <1>1 DEF Asserting
  <2>2. /\ counter + 1 \notin DOMAIN facts
        /\ \A i \in DOMAIN facts : facts[i] \in Fact
        /\ facts \in [DOMAIN facts -> Fact]
    BY <1>1, BoundsAssumption DEF Inv, SoundRows, IdsUpTo, IsRows
  <2>3. CASE Reassert(s, p, o, vf, t)
    BY <2>3 DEF Reassert, KeepsHistory
  <2>4. CASE InsertHistorical(s, p, o, vf, t)
    BY <2>2, <2>4 DEF InsertHistorical, KeepsHistory, With
  <2>5. CASE InsertFirst(s, p, o, vf, t)
    BY <2>2, <2>5 DEF InsertFirst, KeepsHistory, With
  <2>6. CASE Supersede(s, p, o, vf, t)
    <3> DEFINE cur    == FirstOpen(<<s, p>>)
               closed == [facts EXCEPT ![cur].valid_to = vf,
                                       ![cur].expired_at = t,
                                       ![cur].superseded_by = counter + 1]
    <3>1. <<s, p>> \in Keys
      BY DEF Keys
    <3>2. cur \in DOMAIN facts /\ IsOpen(facts[cur])
      BY <1>1, <2>6, <3>1, FirstOpenFound DEF Supersede
    <3>3. /\ facts' = With(closed, counter + 1, OpenFact(s, p, o, vf, t))
          /\ counter' = counter + 1
      BY <2>6 DEF Supersede, NextId
    <3>4. /\ DOMAIN facts' = DOMAIN facts \union {counter + 1}
          /\ \A i \in DOMAIN facts : facts'[i] = closed[i]
          /\ \A i \in DOMAIN facts \ {cur} : facts'[i] = facts[i]
          /\ facts'[cur] = [facts[cur] EXCEPT !.valid_to = vf, !.expired_at = t,
                                             !.superseded_by = counter + 1]
      BY <2>2, <3>2, <3>3 DEF With
    <3>5. vf # INF
      BY TimesAssumption, InfAssumption
    <3>6. /\ facts'[cur] = [facts[cur] EXCEPT !.valid_to = facts'[cur].valid_to,
                                             !.expired_at = facts'[cur].expired_at,
                                             !.superseded_by = counter']
          /\ ~IsOpen(facts'[cur])
      BY <2>2, <3>2, <3>3, <3>4, <3>5 DEF IsOpen, Fact
    <3>7. QED
      BY <3>2, <3>4, <3>6 DEF KeepsHistory
  <2>7. QED
    BY <2>1, <2>3, <2>4, <2>5, <2>6 DEF AssertFact
<1>2. Inv /\ [Next]_vars => [Asserting => KeepsHistory]_vars
  BY <1>1
<1>3. QED
  BY <1>2, Invariance, PTL DEF Spec, NonLossy

\* A belief at a time no stored timestamp exceeds is the current fact.
THEOREM NowIsCurrent == Spec => []CurrentIsAsOfNow
<1>1. ASSUME Inv, NEW k \in Keys, NEW now \in Times,
             \A i \in by_key[k] :
               /\ facts[i].valid_from <= now /\ facts[i].created_at <= now
               /\ facts[i].valid_to \in 0 .. now \union {INF}
      PROVE  AsOf(k, now) = Current(k)
  <2>1. now \in Nat /\ INF \in Nat /\ now < INF
    BY TimesAssumption, InfAssumption
  <2>2. \A i \in by_key[k] : i \in DOMAIN facts
    BY <1>1 DEF Inv, IndexesExact
  <2>3. \A i \in by_key[k] : facts[i].valid_to = INF => IsOpen(facts[i])
    BY <1>1, <2>2 DEF Inv, SoundRows, LinkedIn
  <2>4. \A i \in by_key[k] : BelievedAt(facts[i], now) <=> IsOpen(facts[i])
    BY <1>1, <2>1, <2>3 DEF BelievedAt, IsOpen
  <2>5. {i \in by_key[k] : BelievedAt(facts[i], now)} = OpenIds(k)
    BY <2>4 DEF OpenIds
  <2>6. QED
    BY <2>5 DEF AsOf, Current
<1>2. Inv => CurrentIsAsOfNow
  BY <1>1 DEF CurrentIsAsOfNow
<1>3. QED
  BY <1>2, Invariance, PTL

\* Assertions in time order never rewrite a belief about the past.
THEOREM PastIsKept == Spec => PastBeliefsKept
<1>1. ASSUME Inv, NEW s \in Subjects, NEW p \in Predicates, NEW o \in Objects,
             NEW t \in Times, AssertFact(s, p, o, t, t),
             \A i \in by_key[<<s, p>>] :
                facts[i].valid_from <= t /\ facts[i].created_at <= t,
             NEW k \in Keys, NEW d \in Times, d < t
      PROVE  AsOf(k, d)' = AsOf(k, d)
  <2> DEFINE cands == {i \in by_key[k] : BelievedAt(facts[i], d)}
  <2>1. /\ d \in Nat /\ t \in Nat /\ INF \in Nat /\ d < INF /\ t < INF
        /\ <<s, p>> \in Keys
    BY TimesAssumption, InfAssumption DEF Keys
  <2>2. /\ counter + 1 \notin DOMAIN facts
        /\ \A i \in DOMAIN facts : facts[i] \in Fact
        /\ by_key[k] = {i \in DOMAIN facts : KeyOf(facts[i]) = k}
        /\ by_key \in [Keys -> SUBSET (1 .. MaxId)]
    BY <1>1, BoundsAssumption DEF Inv, SoundRows, IdsUpTo, IsRows, IndexesExact
  <2>3. \A i \in by_key[k] :
          /\ facts'[i].valid_from = facts[i].valid_from
          /\ facts'[i].created_at = facts[i].created_at
          /\ BelievedAt(facts'[i], d) <=> BelievedAt(facts[i], d)
    <3>1. CASE Reassert(s, p, o, t, t)
      BY <3>1 DEF Reassert
    <3>2. CASE InsertHistorical(s, p, o, t, t)
      BY <2>2, <3>2 DEF InsertHistorical, With
    <3>3. CASE InsertFirst(s, p, o, t, t)
      BY <2>2, <3>3 DEF InsertFirst, With
    <3>4. CASE Supersede(s, p, o, t, t)
      <4> DEFINE cur    == FirstOpen(<<s, p>>)
                 closed == [facts EXCEPT ![cur].valid_to = t,
                                         ![cur].expired_at = t,
                                         ![cur].superseded_by = counter + 1]
      <4>1. cur \in DOMAIN facts /\ IsOpen(facts[cur])
        BY <1>1, <2>1, <3>4, FirstOpenFound DEF Supersede
      <4>2. facts' = With(closed, counter + 1, OpenFact(s, p, o, t, t))
        BY <3>4 DEF Supersede
      <4>3. /\ \A i \in DOMAIN facts \ {cur} : facts'[i] = facts[i]
            /\ facts'[cur] = [facts[cur] EXCEPT !.valid_to = t, !.expired_at = t,
                                               !.superseded_by = counter + 1]
        BY <2>2, <4>1, <4>2 DEF With
      <4>4. /\ facts'[cur].valid_from = facts[cur].valid_from
            /\ facts'[cur].created_at = facts[cur].created_at
            /\ facts'[cur].valid_to = t /\ facts'[cur].expired_at = t
        BY <2>2, <4>1, <4>3 DEF Fact
      <4>5. BelievedAt(facts'[cur], d) <=> BelievedAt(facts[cur], d)
        BY <1>1, <2>1, <4>1, <4>4 DEF BelievedAt, IsOpen
      <4>6. QED
        BY <2>2, <4>3, <4>4, <4>5
    <3>5. QED
      BY <1>1, <3>1, <3>2, <3>3, <3>4 DEF AssertFact
  <2>4. /\ by_key[k] \subseteq by_key'[k]
        /\ \A i \in by_key'[k] \ by_key[k] : facts'[i].created_at = t
    <3>1. CASE Reassert(s, p, o, t, t)
      BY <3>1 DEF Reassert
    <3>2. ASSUME NEW f \in Fact, Index(counter + 1, f), f.created_at = t,
                 facts'[counter + 1] = f
          PROVE  /\ by_key[k] \subseteq by_key'[k]
                 /\ \A i \in by_key'[k] \ by_key[k] : facts'[i].created_at = t
      BY <2>2, <3>2 DEF Index
    <3>3. ASSUME NEW vt \in Times \union {INF}, NEW link \in Nat
          PROVE  /\ Recorded(s, p, o, t, vt, t, link) \in Fact
                 /\ Recorded(s, p, o, t, vt, t, link).created_at = t
      BY DEF Recorded, Fact
    <3>4. CASE InsertHistorical(s, p, o, t, t)
      <4> DEFINE cur  == FirstOpen(<<s, p>>)
                 hist == Recorded(s, p, o, t, facts[cur].valid_from, t, cur)
      <4>1. cur \in DOMAIN facts /\ facts[cur] \in Fact /\ cur \in Nat
        BY <1>1, <2>1, <2>2, <3>4, FirstOpenFound, BoundsAssumption
        DEF InsertHistorical, Inv, SoundRows, IsRows
      <4>2. hist \in Fact /\ hist.created_at = t
        BY <3>3, <4>1 DEF Fact
      <4>3. Index(counter + 1, hist) /\ facts'[counter + 1] = hist
        BY <3>4 DEF InsertHistorical, With
      <4> HIDE DEF hist
      <4>4. QED
        BY <3>2, <4>2, <4>3
    <3>5. CASE InsertFirst(s, p, o, t, t) \/ Supersede(s, p, o, t, t)
      <4> DEFINE new == OpenFact(s, p, o, t, t)
      <4>1. new \in Fact /\ new.created_at = t
        BY <3>3 DEF OpenFact, NoFact
      <4>2. Index(counter + 1, new) /\ facts'[counter + 1] = new
        BY <3>5 DEF InsertFirst, Supersede, With
      <4> HIDE DEF new
      <4>3. QED
        BY <3>2, <4>1, <4>2
    <3>6. QED
      BY <1>1, <3>1, <3>4, <3>5 DEF AssertFact
  <2>5. cands' = cands
    BY <1>1, <2>1, <2>3, <2>4 DEF BelievedAt
  <2>6. Latest(cands)' = Latest(cands)
    <3>1. \A i \in cands : /\ facts'[i].valid_from = facts[i].valid_from
                          /\ facts'[i].created_at = facts[i].created_at
      BY <2>3
    <3>2. Maxima(cands)' = Maxima(cands)
      BY <2>5, <3>1 DEF Maxima
    <3> HIDE DEF cands
    <3>3. Latest(cands) =
            IF cands = {} THEN NoFact ELSE CHOOSE i \in Maxima(cands) : TRUE
      BY DEF Latest
    <3>4. Latest(cands)' =
            IF cands' = {} THEN NoFact ELSE CHOOSE i \in Maxima(cands)' : TRUE
      BY DEF Latest
    <3>5. QED
      BY <2>5, <3>2, <3>3, <3>4
  <2>7. QED
    BY <2>6 DEF AsOf
<1>2. Inv /\ [Next]_vars =>
        [\A s \in Subjects, p \in Predicates, o \in Objects, t \in Times :
           /\ AssertFact(s, p, o, t, t)
           /\ \A i \in by_key[<<s, p>>] :
                facts[i].valid_from <= t /\ facts[i].created_at <= t
           => \A k \in Keys, d \in Times : d < t => AsOf(k, d)' = AsOf(k, d)]_vars
  BY <1>1
<1>3. QED
  BY <1>2, Invariance, PTL DEF Spec, PastBeliefsKept
=============================================================================
