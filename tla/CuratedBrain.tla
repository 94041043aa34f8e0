---------------------------- MODULE CuratedBrain ----------------------------
(***************************************************************************)
(* The tiers behind CuratedBrain (backend.py) and the operations that keep *)
(* them together: write, query, forget, consolidate, reset, snapshot and   *)
(* restore.  Every public method holds the brain's lock from start to end, *)
(* so each is one action; a write or a consolidation that raises half-way  *)
(* leaves what it had changed by then, and is an action of its own.        *)
(*                                                                         *)
(* A text is a model value and Says tells which facts an extractor finds   *)
(* in it.  StructuredTier models validity in time; here a fact is open or  *)
(* closed, and `late' says that a write states its facts for a time before *)
(* the open ones began.  Similarity is not computed: an identical text is  *)
(* always nearest, and any other text may be near, far or in between (the  *)
(* gate with its default bounds and no predictive surprise).               *)
(***************************************************************************)
EXTENDS Naturals, Sequences, FiniteSets, SequencesExt

CONSTANTS
    Texts,        \* observations
    Says,         \* text -> sequence of the facts it states, the primary first
    Subjects,     \* names that facts are about
    CanFail,      \* TRUE: the embedder and the summarizer may raise
    MaxOps,       \* bound: operations other than queries in one behaviour
    NoLink,       \* None, where the fact link of an episode is expected
    NoCache,      \* None, where the derived state is expected
    NoBlob        \* no snapshot was taken

FactsIn(seq) == {seq[i] : i \in DOMAIN seq}
AllFacts == UNION {FactsIn(Says[x]) : x \in Texts}

ASSUME SaysAssumption ==
    /\ Says \in [Texts -> Seq(AllFacts)]
    /\ \A f \in AllFacts : f = [subject |-> f.subject, predicate |-> f.predicate,
                                object |-> f.object]
    /\ {f.subject : f \in AllFacts} \subseteq Subjects
ASSUME BoundsAssumption == MaxOps \in Nat /\ CanFail \in BOOLEAN

VARIABLES
    brain,        \* the tiers, all that a snapshot holds (see Empty)
    derived,      \* _derived: the query path's cache
    saved,        \* the last snapshot taken, with the history it goes with
    owed,         \* history: facts stated in writes that returned, not forgotten
                  \*   since
    unrouted,     \* history: facts that a forget removed, or that were extracted
                  \*   in a write that raised, and not asserted since
    gone,         \* history: names forgotten and not mentioned since
    halfway,      \* history: a consolidation raised half-way
    ops           \* history: operations so far

vars == <<brain, derived, saved, owed, unrouted, gone, halfway, ops>>

Empty == [rows     |-> {},   \* structured tier: facts with their id, open or closed
          episodes |-> {},   \* _episodes and _ep_by_id
          vectors  |-> {},   \* vector tier: record id, text, entity tags
          asserted |-> {},   \* _asserted_texts: the echo guard
          known    |-> {},   \* the resolver's vocabulary
          counter  |-> 0]

FactOf(r) == [subject |-> r.subject, predicate |-> r.predicate, object |-> r.object]
SameKey(f, g) == f.subject = g.subject /\ f.predicate = g.predicate
Names(f) == {f.subject, f.object}

-----------------------------------------------------------------------------
(* The structured tier, as StructuredTier describes it *)

OpenRows(rows, f) == {r \in rows : r.open /\ SameKey(r, f)}

Row(id, f, open) == [id |-> id, subject |-> f.subject, predicate |-> f.predicate,
                     object |-> f.object, open |-> open]

Close(r) == [r EXCEPT !.open = FALSE]

\* Mutant: a fact that arrives late is ignored.
AssertRowIgnoringLate(rows, id, f, late) ==
    LET cur == OpenRows(rows, f)
    IN  IF cur # {} /\ (late \/ \E r \in cur : r.object = f.object) THEN rows
        ELSE (rows \ cur) \union {Close(r) : r \in cur} \union {Row(id, f, TRUE)}

\* assert_fact: nothing for the current value, a closed row for a late one, a
\* new open row otherwise.
AssertRow(rows, id, f, late) ==
    LET cur == OpenRows(rows, f)
    IN  IF \E r \in cur : r.object = f.object THEN rows
        ELSE IF late /\ cur # {} THEN rows \union {Row(id, f, FALSE)}
        ELSE (rows \ cur) \union {Close(r) : r \in cur} \union {Row(id, f, TRUE)}

\* _route_fact for each fact of the write, one id per call.
Route(rows, counter, facts, late) ==
    FoldLeft(LAMBDA acc, f : [rows    |-> AssertRow(acc.rows, acc.counter + 1, f, late),
                              counter |-> acc.counter + 1],
             [rows |-> rows, counter |-> counter], facts)

Contradicts(facts) ==
    facts # <<>> /\ \E r \in OpenRows(brain.rows, facts[1]) : r.object # facts[1].object

-----------------------------------------------------------------------------
(* write() *)

\* The facts of a write: supplied by the caller, or extracted unless the text
\* is an echo of one whose facts were asserted.
Intake(text, supplied) ==
    IF supplied THEN SubSeq(Says[text], 1, 1)
    ELSE IF text \in brain.asserted THEN <<>> ELSE Says[text]

Guarded(text, supplied) ==
    IF ~supplied /\ Intake(text, supplied) # <<>>
    THEN brain.asserted \union {text} ELSE brain.asserted

Registered(facts) == brain.known \union {f.subject : f \in FactsIn(facts)}

SameText(text) == {v \in brain.vectors : v.text = text}

\* Everything a write does besides storing or reinforcing an episode.
Settle(text, supplied, late, episodes, vectors, counter) ==
    LET facts  == Intake(text, supplied)
        stated == IF supplied THEN FactsIn(facts) ELSE FactsIn(Says[text])
        routed == Route(brain.rows, counter, facts, late)
    IN  /\ brain' = [rows |-> routed.rows, episodes |-> episodes, vectors |-> vectors,
                     asserted |-> Guarded(text, supplied), known |-> Registered(facts),
                     counter |-> routed.counter]
        /\ derived' = NoCache
        /\ owed' = owed \union stated
        /\ unrouted' = unrouted \ FactsIn(facts)
        /\ gone' = gone \ UNION {Names(f) : f \in stated}
        /\ ops' = ops + 1
        /\ UNCHANGED <<saved, halfway>>

Writing(text, supplied) == ops < MaxOps /\ (supplied => Says[text] # <<>>)

\* STORE: a contradiction, or a text that is no repetition.
WriteStored(text, supplied, late) ==
    LET facts == Intake(text, supplied)
        id    == brain.counter + 1
        link  == IF facts = <<>> THEN NoLink ELSE facts[1]
        tags  == IF facts = <<>> THEN {} ELSE {facts[1].subject}
    IN  /\ Writing(text, supplied)
        /\ Contradicts(facts) \/ SameText(text) = {}
        /\ Settle(text, supplied, late,
                  brain.episodes \union {[id |-> id, text |-> text, link |-> link,
                                          support |-> 1]},
                  brain.vectors \union {[rid |-> id, text |-> text, tags |-> tags]},
                  id)

\* REINFORCE the nearest record's episode, if it has one.
WriteReinforced(text, supplied, late) ==
    \E near \in IF SameText(text) # {} THEN SameText(text) ELSE brain.vectors :
        LET target == {e \in brain.episodes : e.id = near.rid}
        IN  /\ Writing(text, supplied)
            /\ ~Contradicts(Intake(text, supplied))
            /\ Settle(text, supplied, late,
                      (brain.episodes \ target)
                        \union {[e EXCEPT !.support = @ + 1] : e \in target},
                      brain.vectors, brain.counter)

\* DISCARD: neither novel nor close enough to anything stored.
WriteDiscarded(text, supplied, late) ==
    /\ Writing(text, supplied)
    /\ ~Contradicts(Intake(text, supplied))
    /\ SameText(text) = {} /\ brain.vectors # {}
    /\ Settle(text, supplied, late, brain.episodes, brain.vectors, brain.counter)

\* The embedder raises: the text is already guarded and its subjects are
\* registered, nothing else has happened.
WriteFails(text, supplied) ==
    /\ CanFail /\ Writing(text, supplied)
    /\ brain' = [brain EXCEPT !.asserted = Guarded(text, supplied),
                              !.known = Registered(Intake(text, supplied))]
    /\ derived' = NoCache
    /\ gone' = gone \ UNION {Names(f) : f \in FactsIn(Says[text])}
    /\ unrouted' = unrouted \union
                     ((IF supplied THEN {} ELSE FactsIn(Intake(text, supplied)))
                        \ {FactOf(r) : r \in brain.rows})
    /\ ops' = ops + 1
    /\ UNCHANGED <<saved, owed, halfway>>

-----------------------------------------------------------------------------
(* query() *)

\* Closed facts whose value is not the current one of their key.
StaleFacts(b) ==
    {FactOf(r) : r \in {q \in b.rows : ~q.open}}
      \ {FactOf(r) : r \in {q \in b.rows : q.open}}

Derive(b) ==
    LET stale == StaleFacts(b)
    IN  [predicates |-> {r.predicate : r \in b.rows},
         relations  |-> {r.predicate : r \in {q \in b.rows : q.object \in b.known}},
         stale      |-> {e.id : e \in {x \in b.episodes : x.link \in stale}},
         pairs      |-> {<<f.subject, f.object>> : f \in stale}]

\* A query changes nothing but the cache it reads through.
Query ==
    /\ derived' = IF derived = NoCache THEN Derive(brain) ELSE derived
    /\ UNCHANGED <<brain, saved, owed, unrouted, gone, halfway, ops>>

-----------------------------------------------------------------------------
(* forget() *)

\* Mutant: the derived state is not invalidated.
EraseKeepingCache(rows, doomed, known) ==
    LET removed == {e \in brain.episodes : e.id \in doomed}
    IN  /\ brain' = [brain EXCEPT
                       !.rows     = brain.rows \ rows,
                       !.episodes = brain.episodes \ removed,
                       !.vectors  = {v \in brain.vectors : v.rid \notin doomed},
                       !.asserted = brain.asserted \ {e.text : e \in removed},
                       !.known    = known]
        /\ owed' = owed \ {FactOf(r) : r \in rows}
        /\ unrouted' = unrouted \union {FactOf(r) : r \in rows}
        /\ ops' = ops + 1
        /\ UNCHANGED <<derived, saved, halfway>>

\* Remove rows, the episodes in doomed and the vectors of the ids in doomed;
\* the echo guard drops the texts of removed episodes.
Erase(rows, doomed, known) ==
    LET removed == {e \in brain.episodes : e.id \in doomed}
    IN  /\ brain' = [brain EXCEPT
                       !.rows     = brain.rows \ rows,
                       !.episodes = brain.episodes \ removed,
                       !.vectors  = {v \in brain.vectors : v.rid \notin doomed},
                       !.asserted = brain.asserted \ {e.text : e \in removed},
                       !.known    = known]
        /\ derived' = NoCache
        /\ owed' = owed \ {FactOf(r) : r \in rows}
        /\ unrouted' = unrouted \union {FactOf(r) : r \in rows}
        /\ ops' = ops + 1
        /\ UNCHANGED <<saved, halfway>>

LinkedTo(b, P(_)) == {e.id : e \in {x \in b.episodes : x.link # NoLink /\ P(x.link)}}

Tagged(s) == {v.rid : v \in {w \in brain.vectors : s \in w.tags}}

\* Mutant: facts that name the subject as object stay (as_object is not set).
ForgetSubjectOnly(s) ==
    /\ ops < MaxOps
    /\ Erase({r \in brain.rows : s = r.subject},
             LinkedTo(brain, LAMBDA f : s \in Names(f)) \union Tagged(s),
             brain.known \ {s})
    /\ gone' = gone \union {s}

\* forget(subject): also what names it as object or is tagged with it.
Forget(s) ==
    /\ ops < MaxOps
    /\ Erase({r \in brain.rows : s \in Names(r)},
             LinkedTo(brain, LAMBDA f : s \in Names(f)) \union Tagged(s),
             brain.known \ {s})
    /\ gone' = gone \union {s}

\* forget(subject, predicate=...)
ForgetKey(s, p) ==
    /\ ops < MaxOps
    /\ Erase({r \in brain.rows : r.subject = s /\ r.predicate = p},
             LinkedTo(brain, LAMBDA f : f.subject = s /\ f.predicate = p),
             brain.known)
    /\ UNCHANGED gone

-----------------------------------------------------------------------------
(* consolidate() *)

Linked == {e \in brain.episodes : e.link # NoLink}
Groups == {[subject |-> e.link.subject, predicate |-> e.link.predicate] : e \in Linked}
Members(g) == {e \in Linked : SameKey(e.link, g)}
IsCurrent(f) == \E r \in OpenRows(brain.rows, f) : r.object = f.object
Living(g) == {e \in Members(g) : IsCurrent(e.link)}
Outdated(g) == Members(g) \ Living(g)

\* Groups whose current episodes are merged into one claim.
Merging(groups) == {g \in groups : Cardinality(Living(g)) > 1}

\* Near-duplicate free texts: one cluster of any of them is merged, or none.
FreeClusters == {c \in SUBSET (brain.episodes \ Linked) : Cardinality(c) # 1}

Representative(members) ==
    CHOOSE e \in members : \A x \in members :
        e.support > x.support \/ (e.support = x.support /\ e.id <= x.id)

\* Mutant: the support of the merged episodes is not summed up.
ClaimOfOne(id, members) == [Representative(members) EXCEPT !.id = id]

\* _merge_to_claim; the text is the representative's (no summarizer, or one
\* that returned nothing), and so is the fact link.
Claim(id, members) ==
    [Representative(members) EXCEPT
       !.id = id, !.support = FoldSet(LAMBDA e, n : e.support + n, 0, members)]

ClaimVector(claim) ==
    [rid |-> claim.id, text |-> claim.text,
     tags |-> IF claim.link = NoLink THEN {} ELSE {claim.link.subject}]

\* The clusters that are merged get the next ids, in any order.
Claims(clusters) ==
    LET order == CHOOSE q \in [1 .. Cardinality(clusters) -> clusters] :
                   \A c \in clusters : \E i \in DOMAIN q : q[i] = c
    IN  {Claim(brain.counter + i, order[i]) : i \in 1 .. Cardinality(clusters)}

\* Mutant: outdated episodes keep their vectors.
RevectoredMergesOnly(outdated, clusters) ==
    {v \in brain.vectors : v.rid \notin {e.id : e \in UNION clusters}}
      \union {ClaimVector(c) : c \in Claims(clusters)}

\* The vector tier after outdated and merged episodes made way for claims.
Revectored(outdated, clusters) ==
    {v \in brain.vectors : v.rid \notin {e.id : e \in outdated \union UNION clusters}}
      \union {ClaimVector(c) : c \in Claims(clusters)}

Consolidate ==
    /\ ops < MaxOps
    /\ \E free \in FreeClusters :
         LET outdated == UNION {Outdated(g) : g \in Groups}
             clusters == {Living(g) : g \in Merging(Groups)} \union ({free} \ {{}})
         IN  brain' = [brain EXCEPT
                         !.episodes = (brain.episodes \ (outdated \union UNION clusters))
                                        \union Claims(clusters),
                         !.vectors  = Revectored(outdated, clusters),
                         !.counter  = @ + Cardinality(clusters)]
    /\ derived' = NoCache
    /\ ops' = ops + 1
    /\ UNCHANGED <<saved, owed, unrouted, gone, halfway>>

\* The groups in done are merged, outdated episodes and those in dropped are out
\* of the vector tier, the claim for dropped has its id; _episodes is not assigned.
HalfMerged(done, outdated, dropped) ==
    LET clusters == {Living(g) : g \in Merging(done)}
    IN  brain' = [brain EXCEPT
                    !.vectors = Revectored(outdated \union dropped, clusters),
                    !.counter = @ + Cardinality(clusters) + IF dropped = {} THEN 0 ELSE 1]

\* The merge of a group, or of free texts after all groups, raises: in the
\* summarizer, or for free texts as they are embedded, before its members left
\* the vector tier; or in the embedder, before the claim entered it.
ConsolidateFails ==
    /\ CanFail /\ ops < MaxOps
    /\ \/ \E g \in Merging(Groups) : \E done \in SUBSET (Groups \ {g}), dropped \in {{}, Living(g)} :
            HalfMerged(done, UNION {Outdated(h) : h \in done \union {g}}, dropped)
       \/ /\ brain.episodes # Linked
          /\ \E free \in FreeClusters :
               HalfMerged(Groups, UNION {Outdated(h) : h \in Groups}, free)
    /\ derived' = NoCache
    /\ halfway' = TRUE /\ ops' = ops + 1
    /\ UNCHANGED <<saved, owed, unrouted, gone>>

-----------------------------------------------------------------------------
(* reset(), snapshot() and restore() *)

Reset ==
    /\ ops < MaxOps
    /\ brain' = Empty /\ derived' = NoCache
    /\ owed' = {} /\ unrouted' = {} /\ gone' = {} /\ halfway' = FALSE
    /\ ops' = ops + 1
    /\ UNCHANGED saved

Snapshot ==
    /\ ops < MaxOps
    /\ saved' = [brain |-> brain, owed |-> owed, unrouted |-> unrouted, gone |-> gone,
                 halfway |-> halfway]
    /\ ops' = ops + 1
    /\ UNCHANGED <<brain, derived, owed, unrouted, gone, halfway>>

\* Mutant: the id counter is not restored.
RestoreTiersOnly ==
    /\ ops < MaxOps /\ saved # NoBlob
    /\ brain' = [saved.brain EXCEPT !.counter = 0] /\ derived' = NoCache
    /\ owed' = saved.owed /\ unrouted' = saved.unrouted /\ gone' = saved.gone
    /\ halfway' = saved.halfway
    /\ ops' = ops + 1
    /\ UNCHANGED saved

Restore ==
    /\ ops < MaxOps /\ saved # NoBlob
    /\ brain' = saved.brain /\ derived' = NoCache
    /\ owed' = saved.owed /\ unrouted' = saved.unrouted /\ gone' = saved.gone
    /\ halfway' = saved.halfway
    /\ ops' = ops + 1
    /\ UNCHANGED saved

-----------------------------------------------------------------------------
Init ==
    /\ brain = Empty /\ derived = NoCache /\ saved = NoBlob
    /\ owed = {} /\ unrouted = {} /\ gone = {} /\ halfway = FALSE /\ ops = 0

Next ==
    \/ \E text \in Texts, supplied \in BOOLEAN, late \in BOOLEAN :
         \/ WriteStored(text, supplied, late)
         \/ WriteReinforced(text, supplied, late)
         \/ WriteDiscarded(text, supplied, late)
    \/ \E text \in Texts, supplied \in BOOLEAN : WriteFails(text, supplied)
    \/ Query
    \/ \E s \in Subjects : Forget(s)
    \/ \E f \in AllFacts : ForgetKey(f.subject, f.predicate)
    \/ Consolidate \/ ConsolidateFails
    \/ Reset \/ Snapshot \/ Restore

Spec == Init /\ [][Next]_vars

-----------------------------------------------------------------------------
(* Properties *)

\* Every part of the state has its type, and ids are unique per tier.
TypeOK ==
    /\ \A r \in brain.rows : r.id \in 1 .. brain.counter /\ FactOf(r) \in AllFacts
    /\ \A e \in brain.episodes : /\ e.id \in 1 .. brain.counter /\ e.text \in Texts
                                 /\ e.link \in AllFacts \union {NoLink}
                                 /\ e.support \in Nat \ {0}
    /\ \A v \in brain.vectors : v.rid \in 1 .. brain.counter /\ v.tags \subseteq Subjects
    /\ brain.asserted \subseteq Texts /\ brain.known \subseteq Subjects
    /\ \A x, y \in brain.rows : x.id = y.id => x = y
    /\ \A x, y \in brain.episodes : x.id = y.id => x = y

\* As long as no consolidation raised half-way, the vector tier holds exactly one
\* record per episode, with its text, through every store, merge, prune and
\* erasure: recall neither misses an episode nor returns a ghost.
VectorsMirrorEpisodes ==
    ~halfway =>
       /\ {<<v.rid, v.text>> : v \in brain.vectors}
            = {<<e.id, e.text>> : e \in brain.episodes}
       /\ Cardinality(brain.vectors) = Cardinality(brain.episodes)

\* The cached derived state ("invalidated by any mutation") is what a query
\* would compute afresh; a stale one would let superseded records through.
CacheIsFresh == derived # NoCache => derived = Derive(brain)

\* Every fact stated in a write that returned, and not forgotten since, has a
\* row in the structured tier, whatever the gate did with the text and whatever
\* was consolidated, restored or left half-done since.  Except: a fact that a
\* forget removed, or that was extracted in a write that raised, may have its
\* text in the echo guard; restated in that text it extracts nothing and has no
\* row, until a write with other words or a supplied fact asserts it.
FactsCaptured == owed \subseteq {FactOf(r) : r \in brain.rows} \union unrouted

\* A name that was forgotten and not mentioned since is in no fact, no link,
\* no entity tag and not in the vocabulary, also after a half-done merge.
ForgottenIsGone ==
    \A s \in gone :
       /\ \A r \in brain.rows : s \notin Names(r)
       /\ \A e \in Linked : s \notin Names(e.link)
       /\ \A v \in brain.vectors : s \notin v.tags
       /\ s \notin brain.known

\* "forget() erases an entity with zero residue in the snapshot bytes"
\* (README.md): nor is there a text in the echo guard that states its facts.
ZeroResidue ==
    \A s \in gone, x \in brain.asserted : \A f \in FactsIn(Says[x]) : s \notin Names(f)

TotalSupport(episodes) == FoldSet(LAMBDA e, n : e.support + n, 0, episodes)

CurrentLinks == {e.link : e \in {x \in Linked : IsCurrent(x.link)}}

\* Consolidation is a compression: every current fact that had an episode
\* keeps exactly one, which carries the support of all it replaces, and
\* nothing outdated is left.
ConsolidationKeepsCurrent ==
    [][Consolidate =>
        /\ CurrentLinks' = CurrentLinks
        /\ \A f \in CurrentLinks :
             \E e \in brain'.episodes :
                /\ {x \in brain'.episodes : x.link = f} = {e}
                /\ e.support = TotalSupport({x \in brain.episodes : x.link = f})
        /\ \A e \in brain'.episodes : e.link # NoLink => IsCurrent(e.link)
        /\ TotalSupport({x \in brain'.episodes : x.link = NoLink})
             = TotalSupport({x \in brain.episodes : x.link = NoLink})]_vars
=============================================================================
