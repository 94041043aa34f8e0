------------------------------ MODULE Retrieval ------------------------------
(***************************************************************************)
(* What query() reads from a brain (backend.py) and how: the planner that  *)
(* matches a question against what is stored (retrieval.py), the facts it  *)
(* resolves, the backstop when there are none, and the records that pass   *)
(* the supersede filter.  A question is the sequence of its tokens.  It is *)
(* planned with the cached derived state, if there is one.                 *)
(*                                                                         *)
(* Names and predicates are single tokens, and a question asks about the   *)
(* present; StructuredTier answers for the past.  How records are ranked   *)
(* is not modelled: whichever passes the filter may be served.             *)
(***************************************************************************)
EXTENDS CuratedBrain

CONSTANTS
    Words,              \* text -> the names among its tokens
    Questions,          \* sequences of tokens
    Alphabet,           \* tokens of questions and predicates, as sorted() orders them
    Keywords,           \* PRED_KEYWORDS: predicate -> tokens that suggest it
    KeywordOrder,       \* its keys in the order they are written
    HardRelations,      \* _RELATION_PREDS
    MaxContext,         \* max_context_items
    NoName              \* None, where an entity is expected

ASSUME QuestionAssumption ==
    /\ Alphabet \in Seq(FactsIn(Alphabet)) /\ NoName \notin FactsIn(Alphabet)
    /\ \A q \in Questions : FactsIn(q) \subseteq FactsIn(Alphabet)
    /\ {f.predicate : f \in AllFacts} \subseteq FactsIn(Alphabet)
    /\ DOMAIN Keywords = FactsIn(KeywordOrder) /\ MaxContext \in Nat \ {0}

TokensOf(q) == {q[i] : i \in DOMAIN q}

Position(x, order) ==
    CHOOSE i \in DOMAIN order : order[i] = x /\ \A j \in 1 .. i - 1 : order[j] # x

Least(S, order) == CHOOSE x \in S : \A y \in S : Position(x, order) <= Position(y, order)

Cached == IF derived = NoCache THEN Derive(brain) ELSE derived

-----------------------------------------------------------------------------
(* Planner.plan *)

Mentioned(q) == brain.known \intersect TokensOf(q)

Entity(q) == IF Mentioned(q) = {} THEN NoName ELSE Least(Mentioned(q), Alphabet)

\* Stored predicates come before those a keyword suggests.
Stored(q) == Cached.predicates \intersect TokensOf(q)

Suggested(q) ==
    {p \in DOMAIN Keywords : Keywords[p] \intersect TokensOf(q) # {}} \ Stored(q)

FirstOf(S, stored) ==
    IF S \intersect stored # {} THEN Least(S \intersect stored, Alphabet)
    ELSE Least(S, KeywordOrder)

\* A predicate is a relation if it was stored with an entity for its value.
Relations(q) ==
    (Stored(q) \union Suggested(q)) \intersect (HardRelations \union Cached.relations)

Attributes(q) == (Stored(q) \union Suggested(q)) \ Relations(q)

\* The predicate a token denotes, if it is one of those in asked.
Denoted(asked, token) ==
    IF token \in asked THEN {token}
    ELSE {p \in asked \intersect DOMAIN Keywords : token \in Keywords[p]}

\* _possessive_chain: the run of predicates after the entity, which ends with
\* the first attribute.
Chain(q) ==
    IF Entity(q) = NoName THEN <<>>
    ELSE LET rest == SubSeq(q, Position(Entity(q), q) + 1, Len(q))
             stored == Stored(q)
             asked == stored \union Suggested(q)
             relations == Relations(q)
             link(i) == FirstOf(Denoted(asked, rest[i]), stored)
             run(n) == \A i \in 1 .. n : Denoted(asked, rest[i]) # {}
                                       /\ (i < n => link(i) \in relations)
         IN  [i \in 1 .. Max({n \in 0 .. Len(rest) : run(n)}) |-> link(i)]

\* The predicates to traverse from the entity: a chain of relations and its
\* attribute, one relation and an attribute, or a single predicate.
Hops(q) ==
    LET chain == Chain(q)
        relations  == Relations(q)
        attributes == Attributes(q)
        first(S)   == FirstOf(S, Stored(q))
        ends  == chain # <<>> /\ Last(chain) \notin relations
        links == IF ends THEN Front(chain) ELSE chain
    IN  IF Len(links) >= 2 /\ ends THEN chain
        ELSE IF Len(links) >= 2 /\ attributes # {} THEN Append(links, first(attributes))
        ELSE IF relations # {} /\ attributes # {} THEN <<first(relations), first(attributes)>>
        ELSE IF relations # {} THEN <<first(relations)>>
        ELSE IF attributes # {} THEN <<first(attributes)>>
        ELSE <<>>

-----------------------------------------------------------------------------
(* _query *)

OpenOf(name) == {r \in brain.rows : r.open /\ r.subject = name}

\* The open rows for predicate p of what the rows in at name.
Hop(at, p) ==
    {r \in brain.rows : r.open /\ r.predicate = p /\ \E x \in at : x.object = r.subject}

\* resolve_path_chain: the row at the end of the path, if no hop fails.
Resolved(name, hops) ==
    IF hops = <<>> THEN {}
    ELSE FoldLeft(Hop, {r \in OpenOf(name) : r.predicate = Head(hops)}, Tail(hops))

Hit(q) == IF Entity(q) = NoName THEN {} ELSE Resolved(Entity(q), Hops(q))

FactBudget == IF MaxContext < 2 THEN 1 ELSE (MaxContext + 1) \div 2

Candidates(q) == UNION {OpenOf(name) : name \in Mentioned(q)}

\* How many facts of the same entity the backstop takes before this one.
Depth(r) ==
    Cardinality({p \in {x.predicate : x \in OpenOf(r.subject)} :
                    Position(p, Alphabet) < Position(r.predicate, Alphabet)})

\* Mutant: all facts of an entity come before those of the next.
EntityByEntity(r, x) ==
    LET place(y) == Position(y.subject, Alphabet)
    IN  place(r) < place(x) \/ (place(r) = place(x) /\ Depth(r) < Depth(x))

\* Round-robin: each entity's i-th fact before any (i+1)-th.
Sooner(r, x) ==
    LET place(y) == Position(y.subject, Alphabet)
        mine     == Depth(r)
        other    == Depth(x)
    IN  mine < other \/ (mine = other /\ place(r) < place(x))

Backstop(q) ==
    LET facts == Candidates(q)
    IN  {r \in facts : Cardinality({x \in facts : Sooner(x, r)}) < FactBudget}

\* The facts the context begins with.
FactLines(q) ==
    LET hit == Hit(q)
    IN  IF hit # {} THEN hit ELSE Backstop(q)

\* Mutant: only the record's own fact is looked at.
StaleByLink(v) == v.rid \in Cached.stale

\* fuse: the record's fact is superseded, or its text has the subject and the
\* value of a superseded fact.
Stale(v) ==
    \/ v.rid \in Cached.stale
    \/ \E pair \in Cached.pairs : {pair[1], pair[2]} \subseteq Words[v.text]

\* The records that may be served, tagged with the entity if there is one.
Servable(q) ==
    {v \in brain.vectors : ~Stale(v) /\ (Entity(q) # NoName => Entity(q) \in v.tags)}

-----------------------------------------------------------------------------
(* Properties *)

\* Of "stale contradictions never reach the agent" (query): no record that may be
\* served is that of an episode linked to a superseded fact, nor has it the
\* subject and the value of one in its words, be it the fact it was stored for or
\* another, and whether or not the planner's cache was filled before the last
\* change.  A superseded fact that the text words otherwise (of "she" or "my
\* boss") and that is not the episode's link is served.
NothingStaleServed ==
    \A q \in Questions : \A v \in Servable(q), f \in StaleFacts(brain) :
       /\ \A e \in brain.episodes : e.id = v.rid => e.link # f
       /\ ~(Names(f) \subseteq Words[v.text])

\* No word of the question is a name and a stored predicate.
Unambiguous(q) == Subjects \intersect {r.predicate : r \in brain.rows} \intersect TokensOf(q) = {}

\* A predicate that leads to no entity.
IsAttribute(p) ==
    p \notin HardRelations /\ \A r \in brain.rows : r.predicate = p => r.object \notin brain.known

\* A question that names an entity, a relation of it and an attribute of the
\* entity related is answered by the fact at the end of that path; and when no
\* fact answers directly, every entity the question names that has a current
\* fact has one in the context, as long as the budget has a place for each.
KnownIsAnswered ==
    \A q \in Questions :
       /\ \A r, x \in brain.rows :
            /\ q = <<r.subject, r.predicate, x.predicate>> /\ r.object = x.subject
            /\ r.open /\ x.open /\ IsAttribute(x.predicate) /\ Unambiguous(q)
            => FactLines(q) = {x}
       /\ LET named == {s \in Subjects \intersect TokensOf(q) : OpenOf(s) # {}}
          IN  \/ named \subseteq {r.subject : r \in FactLines(q)}
              \/ Hit(q) # {} \/ Cardinality(named) > FactBudget
=============================================================================
