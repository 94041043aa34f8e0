--------------------------- MODULE StructuredTier ---------------------------
(***************************************************************************)
(* The bi-temporal fact store of curated_brain/structured.py.              *)
(*                                                                         *)
(* `facts' is the heap of Fact objects: a function from the id of a fact   *)
(* to its fields.  Ids are handed out by a counter and the Python list     *)
(* only ever appends, so the list order is the order of the ids.  The two  *)
(* indexes hold the SAME objects as the list, so they are sets of ids: a   *)
(* field changed in place is seen through every one of them.               *)
(*                                                                         *)
(* A name stands for a class of strings that normalize() identifies.  The  *)
(* confidence and the provenance of a fact are not modelled.               *)
(***************************************************************************)
EXTENDS Naturals

CONSTANTS
    Subjects,     \* subjects of facts
    Predicates,   \* predicates of facts
    Objects,      \* objects of facts; a name may be a subject as well
    Times,        \* the finite timestamps callers supply, in any order
    INF,          \* the open end of an interval
    MaxId,        \* bound: ids handed out in one behaviour
    SaveBound     \* bound: a snapshot is taken of at most this many ids

ASSUME TimesAssumption == Times \subseteq Nat
ASSUME InfAssumption == INF \in Nat /\ \A t \in Times : t < INF
ASSUME BoundsAssumption == MaxId \in Nat /\ SaveBound \in Nat

VARIABLES
    facts,        \* id -> fields of the fact
    by_key,       \* <<subject, predicate>> -> ids of the facts of that key
    by_obj,       \* <<predicate, object>> -> ids of the facts of that value
    counter,      \* last id handed out (owned by the backend)
    saved         \* the last snapshot taken: rows and counter

vars == <<facts, by_key, by_obj, counter, saved>>

NoFact == 0       \* None, where an id is expected

Keys   == Subjects \X Predicates
Values == Predicates \X Objects

Fact == [subject       : Subjects,
         predicate     : Predicates,
         object        : Objects,
         valid_from    : Times,
         valid_to      : Times \union {INF},
         created_at    : Times,
         expired_at    : Times \union {INF},
         superseded_by : Nat]

KeyOf(f)   == <<f.subject, f.predicate>>
ValueOf(f) == <<f.predicate, f.object>>

\* Mutant: only transaction time decides.
IsOpenInTransactionTime(f) == f.expired_at = INF

IsOpen(f) == f.expired_at = INF /\ f.valid_to = INF

-----------------------------------------------------------------------------
(* Reads *)

OpenIds(key) == {i \in by_key[key] : IsOpen(facts[i])}

\* The loop of assert_fact stops at the first open fact of the key.
FirstOpen(key) ==
    CHOOSE i \in OpenIds(key) : \A j \in OpenIds(key) : i <= j

\* What max(..., key=(valid_from, created_at)) returns: of several maximal
\* rows, the first.
Maxima(ids) ==
    {i \in ids : \A j \in ids :
        \/ facts[i].valid_from > facts[j].valid_from
        \/ /\ facts[i].valid_from = facts[j].valid_from
           /\ \/ facts[i].created_at > facts[j].created_at
              \/ facts[i].created_at = facts[j].created_at /\ i <= j}

Latest(ids) == IF ids = {} THEN NoFact ELSE CHOOSE i \in Maxima(ids) : TRUE

Current(key) == Latest(OpenIds(key))

BelievedAt(f, t) ==
    /\ f.valid_from <= t /\ t < f.valid_to
    /\ f.created_at <= t /\ t < f.expired_at

AsOf(key, t) == Latest({i \in by_key[key] : BelievedAt(facts[i], t)})

\* The inverse query for the present ("who lives in Berlin?").
SubjectsWhere(value) ==
    {facts[i].subject : i \in {j \in by_obj[value] : IsOpen(facts[j])}}

-----------------------------------------------------------------------------
(* Writes *)

Init ==
    /\ facts = [i \in {} |-> NoFact]
    /\ by_key = [k \in Keys |-> {}]
    /\ by_obj = [v \in Values |-> {}]
    /\ counter = 0
    /\ saved = [rows |-> [i \in {} |-> NoFact], counter |-> 0]

\* Every call consumes an id, also one that inserts nothing.
NextId ==
    /\ counter < MaxId
    /\ counter' = counter + 1

\* Mutant: the inverse index is left behind.
IndexByKey(id, f) ==
    /\ by_key' = [by_key EXCEPT ![KeyOf(f)] = @ \union {id}]
    /\ UNCHANGED by_obj

Index(id, f) ==
    /\ by_key' = [by_key EXCEPT ![KeyOf(f)] = @ \union {id}]
    /\ by_obj' = [by_obj EXCEPT ![ValueOf(f)] = @ \union {id}]

With(fs, id, f) == [i \in DOMAIN fs \union {id} |-> IF i = id THEN f ELSE fs[i]]

\* A row as it is inserted: recorded at t and not retracted since.
Recorded(s, p, o, vf, vt, t, link) ==
    [subject |-> s, predicate |-> p, object |-> o,
     valid_from |-> vf, valid_to |-> vt,
     created_at |-> t, expired_at |-> INF, superseded_by |-> link]

OpenFact(s, p, o, vf, t) == Recorded(s, p, o, vf, INF, t, NoFact)

\* The value of the open fact is asserted again: no new row.
Reassert(s, p, o, vf, t) ==
    /\ OpenIds(<<s, p>>) # {}
    /\ facts[FirstOpen(<<s, p>>)].object = o
    /\ NextId
    /\ UNCHANGED <<facts, by_key, by_obj, saved>>

\* A fact that stopped being true when the open one began, learned late.
InsertHistorical(s, p, o, vf, t) ==
    /\ OpenIds(<<s, p>>) # {}
    /\ LET cur  == FirstOpen(<<s, p>>)
           hist == Recorded(s, p, o, vf, facts[cur].valid_from, t, cur)
       IN  /\ facts[cur].object # o
           /\ vf < facts[cur].valid_from
           /\ facts' = With(facts, counter + 1, hist)
           /\ Index(counter + 1, hist)
    /\ NextId
    /\ UNCHANGED saved

\* What the mutants of Supersede share: `closed' is what becomes of the old row.
Superseding(s, p, o, vf, t, closed) ==
    /\ OpenIds(<<s, p>>) # {}
    /\ facts[FirstOpen(<<s, p>>)].object # o
    /\ facts' = With(closed, counter + 1, OpenFact(s, p, o, vf, t))
    /\ Index(counter + 1, OpenFact(s, p, o, vf, t))
    /\ NextId
    /\ UNCHANGED saved

\* Mutant: no out-of-order guard.
SupersedeAnyOrder(s, p, o, vf, t) ==
    LET cur == FirstOpen(<<s, p>>)
    IN  Superseding(s, p, o, vf, t,
                    [facts EXCEPT ![cur].valid_to = vf, ![cur].expired_at = t,
                                  ![cur].superseded_by = counter + 1])

\* Mutant: the transaction interval is cleared, not closed.
SupersedeClearing(s, p, o, vf, t) ==
    LET cur == FirstOpen(<<s, p>>)
    IN  /\ OpenIds(<<s, p>>) # {}
        /\ facts[cur].valid_from <= vf
        /\ Superseding(s, p, o, vf, t,
                       [facts EXCEPT ![cur].valid_to = vf, ![cur].expired_at = NoFact,
                                     ![cur].superseded_by = counter + 1])

\* Mutant: the old row is not linked to its replacement.
SupersedeUnlinked(s, p, o, vf, t) ==
    LET cur == FirstOpen(<<s, p>>)
    IN  /\ OpenIds(<<s, p>>) # {}
        /\ facts[cur].valid_from <= vf
        /\ Superseding(s, p, o, vf, t,
                       [facts EXCEPT ![cur].valid_to = vf, ![cur].expired_at = t])

\* Mutant: the old interval is closed where it began.
SupersedeFromStart(s, p, o, vf, t) ==
    LET cur == FirstOpen(<<s, p>>)
    IN  /\ OpenIds(<<s, p>>) # {}
        /\ facts[cur].valid_from <= vf
        /\ Superseding(s, p, o, vf, t,
                       [facts EXCEPT ![cur].valid_to = facts[cur].valid_from,
                                     ![cur].expired_at = t,
                                     ![cur].superseded_by = counter + 1])

\* Mutant: the replacement overwrites the old row's object.
SupersedeInPlace(s, p, o, vf, t) ==
    LET cur == FirstOpen(<<s, p>>)
    IN  /\ OpenIds(<<s, p>>) # {} /\ facts[cur].object # o
        /\ facts[cur].valid_from <= vf
        /\ facts' = [facts EXCEPT ![cur].object = o, ![cur].valid_from = vf]
        /\ NextId
        /\ UNCHANGED <<by_key, by_obj, saved>>

\* A conflicting value: close the open fact in both times, link it, append.
Supersede(s, p, o, vf, t) ==
    /\ OpenIds(<<s, p>>) # {}
    /\ LET cur    == FirstOpen(<<s, p>>)
           closed == [facts EXCEPT ![cur].valid_to = vf,
                                   ![cur].expired_at = t,
                                   ![cur].superseded_by = counter + 1]
           new    == OpenFact(s, p, o, vf, t)
       IN  /\ facts[cur].object # o
           /\ facts[cur].valid_from <= vf
           /\ facts' = With(closed, counter + 1, new)
           /\ Index(counter + 1, new)
    /\ NextId
    /\ UNCHANGED saved

\* Mutant: an open row is inserted although the key has one.
InsertAlways(s, p, o, vf, t) ==
    /\ facts' = With(facts, counter + 1, OpenFact(s, p, o, vf, t))
    /\ Index(counter + 1, OpenFact(s, p, o, vf, t))
    /\ NextId
    /\ UNCHANGED saved

InsertFirst(s, p, o, vf, t) ==
    /\ OpenIds(<<s, p>>) = {}
    /\ facts' = With(facts, counter + 1, OpenFact(s, p, o, vf, t))
    /\ Index(counter + 1, OpenFact(s, p, o, vf, t))
    /\ NextId
    /\ UNCHANGED saved

AssertFact(s, p, o, vf, t) ==
    \/ Reassert(s, p, o, vf, t)
    \/ InsertHistorical(s, p, o, vf, t)
    \/ Supersede(s, p, o, vf, t)
    \/ InsertFirst(s, p, o, vf, t)

\* Mutant: the inverse index still holds the removed facts.
RetractFromKeys(doomed) ==
    LET kept == DOMAIN facts \ doomed
    IN  /\ facts' = [i \in kept |-> facts[i]]
        /\ by_key' = [k \in Keys |-> {i \in kept : KeyOf(facts[i]) = k}]
        /\ UNCHANGED <<by_obj, counter, saved>>

\* Hard retraction.  The lists and indexes are rebuilt only when it removed
\* something; `doomed' is the set of ids the call removes.
Retract(doomed) ==
    LET kept == DOMAIN facts \ doomed
    IN  /\ IF doomed = {}
           THEN UNCHANGED <<facts, by_key, by_obj>>
           ELSE /\ facts' = [i \in kept |-> facts[i]]
                /\ by_key' = [k \in Keys |-> {i \in kept : KeyOf(facts[i]) = k}]
                /\ by_obj' = [v \in Values |-> {i \in kept : ValueOf(facts[i]) = v}]
        /\ UNCHANGED <<counter, saved>>

\* forget(subject, as_object=True): also the facts that name it as object.
Forget(s) ==
    Retract({i \in DOMAIN facts : facts[i].subject = s \/ facts[i].object = s})

\* forget(subject, predicate)
ForgetKey(s, p) == Retract({i \in DOMAIN facts : KeyOf(facts[i]) = <<s, p>>})

\* to_dict(), as the backend's snapshot records it with the counter.
Save ==
    /\ counter <= SaveBound
    /\ saved' = [rows |-> facts, counter |-> counter]
    /\ UNCHANGED <<facts, by_key, by_obj, counter>>

\* load(rows), as the backend's restore calls it.
Load ==
    /\ facts' = saved.rows
    /\ counter' = saved.counter
    /\ by_key' = [k \in Keys |-> {i \in DOMAIN saved.rows : KeyOf(saved.rows[i]) = k}]
    /\ by_obj' = [v \in Values |->
                    {i \in DOMAIN saved.rows : ValueOf(saved.rows[i]) = v}]
    /\ UNCHANGED saved

Next ==
    \/ \E s \in Subjects, p \in Predicates, o \in Objects, vf \in Times, t \in Times :
         AssertFact(s, p, o, vf, t)
    \/ \E s \in Subjects : Forget(s)
    \/ \E s \in Subjects, p \in Predicates : ForgetKey(s, p)
    \/ Save
    \/ Load

Spec == Init /\ [][Next]_vars

-----------------------------------------------------------------------------
(* Properties *)

IsRows(rows) ==
    /\ DOMAIN rows \subseteq 1 .. MaxId
    /\ rows \in [DOMAIN rows -> Fact]

\* Every variable has its type.
TypeOK ==
    /\ IsRows(facts)
    /\ by_key \in [Keys -> SUBSET (1 .. MaxId)]
    /\ by_obj \in [Values -> SUBSET (1 .. MaxId)]
    /\ counter \in 0 .. MaxId
    /\ saved = [rows |-> saved.rows, counter |-> saved.counter]
    /\ IsRows(saved.rows)
    /\ saved.counter \in 0 .. MaxId

\* "The write path keeps a single open fact per key" (current()): in a set of
\* rows no two open facts share their subject and predicate.
SingleOpenIn(rows) ==
    \A i, j \in DOMAIN rows :
        IsOpen(rows[i]) /\ IsOpen(rows[j]) /\ KeyOf(rows[i]) = KeyOf(rows[j]) => i = j

SingleOpen == SingleOpenIn(facts)

\* The out-of-order guard of assert_fact: no valid interval is inverted,
\* whatever order the timestamps of the calls come in.
NoInvertedIn(rows) == \A i \in DOMAIN rows : rows[i].valid_from <= rows[i].valid_to

NoInverted == NoInvertedIn(facts)

\* A fact is closed exactly when it is linked to a replacement, its valid time
\* is closed whenever it is, and as long as the replacement is stored it is of
\* the same key and begins at the very moment the closed fact ends.
LinkedIn(rows) ==
    \A i \in DOMAIN rows :
        /\ IsOpen(rows[i]) <=> rows[i].superseded_by = NoFact
        /\ rows[i].valid_to = INF => IsOpen(rows[i])
        /\ rows[i].superseded_by \in DOMAIN rows =>
              LET r == rows[rows[i].superseded_by]
              IN  KeyOf(r) = KeyOf(rows[i]) /\ r.valid_from = rows[i].valid_to

Linked == LinkedIn(facts)

\* Both indexes hold exactly the stored facts, on every path that inserts,
\* removes or reloads them ("shared-object discipline").
IndexesExact ==
    /\ \A k \in Keys : by_key[k] = {i \in DOMAIN facts : KeyOf(facts[i]) = k}
    /\ \A v \in Values : by_obj[v] = {i \in DOMAIN facts : ValueOf(facts[i]) = v}

\* The inverse query agrees with the forward one: s is among the subjects of
\* <<p, o>> exactly when the current value of <<s, p>> is o.
InverseAgrees ==
    \A s \in Subjects, p \in Predicates, o \in Objects :
        s \in SubjectsWhere(<<p, o>>) <=>
            /\ Current(<<s, p>>) # NoFact
            /\ facts[Current(<<s, p>>)].object = o

\* "so this stays consistent with as_of" (current()): the belief at a time no
\* stored timestamp exceeds is the current fact.
CurrentIsAsOfNow ==
    \A k \in Keys, now \in Times :
        (\A i \in by_key[k] :
            /\ facts[i].valid_from <= now /\ facts[i].created_at <= now
            /\ facts[i].valid_to \in 0 .. now \union {INF})
        => AsOf(k, now) = Current(k)

-----------------------------------------------------------------------------
(* Action properties *)

\* Superseding is non-lossy: an assertion removes no row, rewrites no closed
\* row, and changes an open row only by closing and linking it.
KeepsHistory ==
    /\ DOMAIN facts \subseteq DOMAIN facts'
    /\ \A i \in DOMAIN facts :
         facts'[i] # facts[i] =>
            /\ IsOpen(facts[i])
            /\ facts'[i] = [facts[i] EXCEPT !.valid_to = facts'[i].valid_to,
                                            !.expired_at = facts'[i].expired_at,
                                            !.superseded_by = counter']
            /\ ~IsOpen(facts'[i])

Asserting ==
    \E s \in Subjects, p \in Predicates, o \in Objects, vf \in Times, t \in Times :
        AssertFact(s, p, o, vf, t)

NonLossy == [][Asserting => KeepsHistory]_vars

\* An assertion in time order (valid from the moment it is recorded, which no
\* stored timestamp of its key exceeds) changes no belief about the past.
PastBeliefsKept ==
    [][\A s \in Subjects, p \in Predicates, o \in Objects, t \in Times :
         /\ AssertFact(s, p, o, t, t)
         /\ \A i \in by_key[<<s, p>>] : facts[i].valid_from <= t /\ facts[i].created_at <= t
         => \A k \in Keys, d \in Times : d < t => AsOf(k, d)' = AsOf(k, d)]_vars
=============================================================================
