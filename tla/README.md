# TLA+ models of the Curated Brain

Curated Brain is a memory layer for language-model agents: a Python library that decides what to
keep of the observations it is given, extracts facts from them into a bi-temporal store, keeps
their texts in a vector tier, answers questions, forgets on request, and persists all of it. The
modules here model the parts of it that hold state and whose correctness depends on the order in
which things happen. They are model-checked with TLC, and every safety property that holds is also
proved with TLAPS, for all values of the constants.

Line numbers below and in `PROJECT.json` are those of the repository (`src/curated_brain/...`).
`PROJECT.json` lists the components, the runs, a mutation of the code that each checked property
detects, the lines every definition models, the hazards and the theorems.

## 1. The system

| Part | State | Operations | Hard because |
|---|---|---|---|
| Bi-temporal structured tier (`structured.py`, `models.py`) | list of facts, two indexes | `assert_fact`, `forget`, `load`, queries `current`, `as_of`, `subjects_where` | timestamps in any order; rows are closed, linked and never deleted; indexes are derived state |
| Durable store (`store.py`, `attach_store` and after in `backend.py`) | snapshot row, journal rows, row counter | append, compact, attach with replay, detach | a crash between two statements; a statement or a replayed write that raises |
| The brain (`backend.py`, `consolidation.py`) | facts, episodes, vectors, echo guard, vocabulary, query cache | `write`, `query`, `forget`, `consolidate`, `reset`, `snapshot`, `restore` | five structures that must agree; calls to an embedder that may raise half-way |
| Vector tier (`vector.py`) | records, index, sidecar file | add, remove, `reembed`, `load`, `save_sidecar` | an approximate index is not part of the snapshot |
| Namespaces (`namespace.py`) | registry of brains | `space`, `put`, `drop`, `snapshot`, `restore` | the lock covers the registry, not the brains |
| MCP service (`mcp_server.py`) | namespaces, one file or one store, count of unsaved writes | the tools, `load`, `close` | two persistence modes, two blob formats, batching |
| Surprise gate (`surprise.py`) | threshold, counts | `decide` | the threshold moves with every decision, within bounds |
| Entity resolver (`resolve.py`) | full names, single names, two token indexes | `resolve_and_register`, `register_canonical`, `canonical`, `forget`, `entities` | what a token stands for depends on the order of registrations, on what was forgotten and on what a snapshot kept |
| Extraction (`extraction.py`) | last subject | `extract` | its memory is not part of a snapshot; a model's reply may state what the text does not |
| Planner, context assembly (`retrieval.py`, `_query` in `backend.py`, `dates.py`) | the brain's query cache | `plan`, `fuse`, the backstop | records outlive the facts they state; a budget is shared by several entities |
| Providers, cassette (`providers.py`, `cassette.py`) | recorded answers | `complete`, `embed` with retries | a request fails half-way through a write; answers differ from call to call |
| Adapters, harness, configuration | none of their own | | |

How they interact: the service holds one `NamespacedMemory`, which holds one `CuratedBrain` per
tenant. A brain owns its tiers and calls them under its own reentrant lock, so each public method
is atomic towards other threads, but not towards a crash and not towards an exception of the
embedder, the summarizer or the store. The store is called back at the end of every method that
changes the brain: a row for a write, a whole snapshot for everything else. A write asks the
extractor for facts, the resolver for their subjects, the embedder for a vector, the vector tier
for its nearest neighbour, the structured tier for a contradiction and the gate for a decision, in
that order, and only then changes the tiers; a query plans with the resolver's names and the cache.

What makes each part correct, and where it is checked:

- *Structured tier*: one open fact per key; ordered intervals; links that lead to a successor
  that begins where the fact ends; exact indexes; queries that agree; nothing lost by superseding;
  past beliefs untouched by updates in time order.
- *Durable store*: what was acknowledged is on disk; compaction is atomic; replay yields what was
  recorded, once; the journal is bounded; a crash loses at most the operation under way.
- *Brain*: the cache is never stale; facts are captured whatever the gate does, unless the echo guard
  keeps their text from being read; the vector tier mirrors the episodes; forgetting leaves nothing in
  the tiers and the vocabulary (the echo guard keeps texts); consolidation drops no current fact and
  no support.
- *Query*: no record is served that is linked to a superseded fact or spells one out; a question that names an entity, a
  relation and an attribute gets the fact at the end of the path, and one that names several
  entities gets a fact of each.
- *Resolver*: a stored fact stays reachable by the name it is stored under; a token is read as
  short for a name only if nobody else with a fact bears it.
- *Gate*: contradictions and texts more novel than the ceiling are remembered, texts below the
  floor are not, however the threshold moved.
- *Requests*: every write returns or raises; one that raises has changed no fact, no memory
  and not the gate (the resolver and the echo guard it may have changed); a run over a cassette is repeatable.
- *Vector tier*: whatever is loaded, a search never meets a key without a record, and every
  record is found by its own vector, unless vectors or a graph that were saved for something else were
  loaded or the embedder raised in a rebuild, and then until the next rebuild.
- *Namespaces, service*: isolation; no write lost to a race; a dropped tenant stays dropped; a
  complete snapshot; a bounded loss.

## 2. The modules

**`StructuredTier`** (`structured.py`). `facts` maps the number of a fact to its row, in order of
insertion; `by_key` and `by_obj` are `_by_key` and `_by_obj` with rows named by number; `counter`
is the id counter of the brain, `saved` the last snapshot. `AssertFact` is `assert_fact` with its
four outcomes as disjuncts: `Reassert`, `InsertHistorical`, `Supersede`, `InsertFirst`. Valid and
recorded times are independent, as in `_route_fact`. `Forget`/`ForgetKey` rebuild both indexes;
`Save`/`Load` are `to_dict`/`load`. `StructuredTierProofs` holds the theorems.

**`DurableMemory`** is the promise of `store.py` as a specification of its own: a live state and
a durable one, which differ by at most the operation under way. **`DurableBrain`** is how it is
kept: `pc` runs through the statements of `append` and `compact` and through the steps of
`attach_store`; `disk` is what SQLite has committed, `txn` the transaction under way. The state of
a brain is abstracted to the sequence of the operations that made it, each with the subject the
extractor read. `Crash` is enabled everywhere; `AppendFails`, `CompactFails` and `ReplayFails` are
the exceptions, which happen only in behaviours that are `faulty` from the start. `KeepsPromise`
is the refinement (`INSTANCE DurableMemory WITH ...`) of the behaviours that are not: a replay that
raises leaves a brain that promises nothing. `DurableBrainProofs` proves it.

**`CuratedBrain`** (`backend.py`). One action per public method, and one each for a write and a
consolidation that raise half-way, which leave what had been changed by then (`HalfMerged`: some
groups, or all groups when the merge of free texts raises). `brain` holds all
tiers, `derived` the query cache, `saved` a snapshot. A text is a value and `Says` lists the facts
in it. The gate's three outcomes are `WriteStored`, `WriteReinforced`, `WriteDiscarded`, enabled by
what it can decide (a contradiction is always stored, an identical text never unless it
contradicts). `owed` and `unrouted` are history: what was stated and not forgotten since, and what has
no row because a forget removed it or the write that extracted it raised. Validity in time is reduced to open and closed rows, since `StructuredTier` has it.
`CuratedBrainProofs` holds the theorems.

**`Retrieval`** extends `CuratedBrain` by what `query` reads: `Entity`, `Stored`, `Suggested`,
`Chain` and `Hops` are the steps of `Planner.plan`; `Hit`, `Backstop` and `FactLines` are how
`_query` finds the facts the context begins with; `Stale` is the supersede filter of `fuse` and
`Servable` the records that pass it. It has no state of its own: it is a function of the brain and
of the cache that `Query` fills, so its properties are invariants of `CuratedBrain`. A question is
a sequence of tokens, a name or predicate one token; `Words` gives the names among the tokens of a text, which
need not be those of the facts it states, since the extractor reads pronouns, roles and aliases; order
is given by `Alphabet`. How records are
ranked is left out, so anything that may be served counts as served. `RetrievalProofs`, which builds
on `CuratedBrainProofs`, holds the theorems.

**`EntityResolver`** (`resolve.py`) and **`SurpriseGate`** (`surprise.py`) are values with operators,
one per method. A name is a sequence of tokens; `given` and `surname` map a token to a full name or
to `Ambiguous`. `RegisterAll` registers a set of subjects at once; `MCWritePath` assumes, and TLC
evaluates, that registering them one by one in any order gives the same. The gate's thresholds and novelties are integers from 0 to `One`.

**`WritePath`** is one write through its requests (`_write`, with `extraction.py`, `providers.py`,
`cassette.py`). `call` is the write under way with its stage (`extract`, `embed`, `decide`) and
what was answered so far. `Extract` and `Embed` take the model's answer from the cassette or record
it (`Answered`); a model may answer differently each time: find the fact or not, give one of two
vectors. `Retry` is an attempt that fails with another one left; `Raise` gives the write up: after
the last attempt, in replay mode when an answer is missing, and at any attempt when the reply is
malformed, which is read outside the retry loop (`providers.py:241`). `Settle` is the gate's decision and what follows from it.
`Forget`, `Snapshot`, `Restore` (with the resolver's state or, for a legacy snapshot, without) and
`NewBrain` (over the same cassette, with or without models) happen between writes, for the lock is
held throughout one. `trace` and `previous` record what was written, to compare two runs.
`TitleAssumption` excludes names with two titles, see section 3. `WritePathProofs` holds the
theorems.

**`VectorTier`** (`vector.py`, with `save`, `load` and `reembed` of `backend.py`). `index` is the
exact index or a graph, `file` the last snapshot, `sidecar` the graph file; a vector is a text and
the embedder that made it. `save` is three steps with a crash or an exception between them. An embedder that raises has actions
of its own: `AddFails` uses up a key, `ReembedFails` leaves the new embedder over the old index
(`vector.py:381-382`), `LoadFails` the records over an empty one (`vector.py:432-450`). The history
variable `foreign` says that the index was made for something else since one of these two, or since
vectors or a graph saved for other records or another embedder were loaded. What a
removed key or a known key does to an HNSW graph follows how `vector.py` uses that library.
`VectorTierProofs` holds the theorems.

**`NamespacedMemory`** (`namespace.py`). A write is two actions, the look-up under the registry's
lock and the write without it; a snapshot holds the lock over a step per brain; `RestoreFails`
installs a part of the tenants. `Put` registers a fresh brain only; the code takes any brain, and a
caller who puts one brain under two names has no isolation to expect. The scoped operations other than `write` have the same two steps.
`NamespacedMemoryProofs` holds the theorems.

**`MemoryService`** (`mcp_server.py`). `mode` is the constructor's choice of `path` or
`store_path`. The service lock makes calls atomic; those that persist are cut before `os.replace`,
where `Stop` and `ReplaceFails` can strike. `Blob` and `Decode` are the two file formats.
`MemoryServiceProofs` holds the theorems.

The modules are separate because the code's interfaces are: each takes from the one below it only
that a brain's method is atomic and that a snapshot restores the state. `MemoryService` uses of the
store what `DurableMemory` promises. `WritePath` is the inside of the writes that `CuratedBrain`
takes as one step each: what it adds is what a failed request leaves behind, which there is
`WriteFails`; its tiers are reduced to a current value per name and a set of memories.

## 3. The runs

| Run | Checks | Bounds |
|---|---|---|
| `fact_store` | nine properties of `StructuredTier`, two of them action properties | two keys, two objects, two timestamps, three fact ids |
| `durable` | bounded journal, acknowledged is durable, atomic compaction; refinement of `DurableMemory`; with and without exceptions | two texts, `compact_every` = 2, four operations, three in behaviours with exceptions |
| `brain` | cache, capture, erasure, mirror, consolidation, and what queries are answered with; with exceptions | five texts, five questions, a context of four, four operations besides queries; writes and merges may raise |
| `write_path` | names that share tokens, the gate's bounds, failed and repeated requests, cassette; liveness | four texts, one retry, two answers per request, four operations |
| `vectors` | the index after any save, crash and reload, and after an embedder that raised | two texts, two embedders, two keys |
| `namespaces` | isolation, races, dropped tenants, snapshots | two tenants, two threads, four brains, three writes |
| `service` | isolation, bounded loss, drop in path mode | three tenants, `persist_every` = 2, five operations |

Why the bounds are enough. For every property of these runs but the liveness property of
`write_path`, a theorem of section 4 lifts them; what the runs add is that the interesting cases are
reached. `fact_store`: three assertions to one key show an update, a historical
insertion before it and a reload, with valid and recorded times that are older, equal or newer than
those stored; two keys that share an object exercise the second index. `durable`: `compact_every` = 2 has both an append that
compacts and one that does not, and four operations cross a compaction with rows on both sides of
it; with exceptions, three operations reach a failed statement before and after a compaction.
`brain`: two texts of one fact, one that contradicts them and says of "him" a second fact, one with
two facts and a name as an object, whose second fact and that of "him" supersede each other in either
order, and one without facts give every kind of group that consolidation forms; four operations
are enough for two writes, a consolidation, and an erasure or a further write on top of it, with
snapshots and queries anywhere between; the questions are a path over two facts, a single fact, two
entities that compete for a budget of two, a keyword and one that names nobody. `write_path`: a
token that is one person's given name and another's surname, one that two people share as surname,
and a title with it; four operations are two registrations, a forget or a restart and a write after
it. Two runs over one cassette are compared by their first write only, since `NewBrain` is an operation
too; `ReplayIsDeterministicHolds` is about any number. The gate's numbers are chosen so that the threshold reaches
floor and ceiling within three writes, with a text between the floor and the first threshold.
`vectors`: with two keys a graph can hold the removed one,
the other, or both, and the count that accepts it is right for the wrong records. `namespaces`:
two threads and two tenants suffice for every race on one name and for a snapshot that is at one
tenant while the other is written. `service`: three tenants make the file format change both ways;
five operations overfill a batch of two twice.

The symmetry sets permute model values that no definition distinguishes: threads, texts that say
the same, texts and embedders of the vector tier; the run with a liveness property has none.
Deadlock is checked in every run except those of `WritePath`, where callers stop after `MaxOps`
operations; `CallEnds` is what deadlock would be about.

Every passing run has for each of its properties a mutant in `PROJECT.json`: a plausible mistake in
the code (a lock not taken, a counter not reset, an index not rebuilt) under which TLC finds that
property violated. The mutated definitions stand beside the ones they would replace.

Five runs look for a disagreement between a statement in the repository and its code, and find it:

- `replay_context` (`ReplayIsFaithful` with a text that names no subject): the extractor remembers
  the last subject across writes, no snapshot contains it, so a row journalled after a snapshot can
  replay to another fact. `store.py:10-11` says replay is byte-identical. The run attaches once
  per process, so that only a crash leads to the replay.
- `forget_residue`: texts that were reinforced or discarded stay in the echo guard and in the
  snapshot after `forget`. `README.md:22-23` says zero residue.
- `drop_resurrects`: in store mode `drop` closes the SQLite file without erasing it.
  `mcp_server.py:235-236` says the erasure is permanent.
- `stale_sidecar`: a graph file is accepted when it has as many keys as there are records.
  `vector.py:442` says never silently wrong. The run has one embedder, so that a change of models
  is not what makes the index wrong.
- `homonyms` (`RefusedStaysRefused`): a token that is one person's given name and another's surname
  is refused because the two indexes disagree; forgetting one of the two removes that, and the
  token then stands for the other. `resolve.py:110-111` says the survivor must not claim it. Of a
  token that was poisoned within one index it is true.

Two properties are narrower than what the source says, and the difference is real. `FactsCaptured`:
"Facts are ALWAYS captured by the structured tier" (`backend.py:389`), but an echo, a text whose facts
were asserted, is not extracted again (`backend.py:311-312`). The guard learns a text before the
embedder, which may raise, is called (`backend.py:328`), and `forget` takes only the texts of removed
episodes out of it (`backend.py:506-508`). So a fact that a write extracted before it raised, or that a
forget removed although its text was only reinforced or discarded, has no row when it is restated in
that text. The property says that these facts (`unrouted`) are the only ones without a row, and that
they have one as soon as a write asserts them in other words or as a supplied fact.
`NothingStaleServed`: "stale contradictions never reach the agent" (docstring of `query`), but `fuse`
looks for the link of the record and for two words in its text. A record whose text states, besides
its linked fact, one that is superseded since and that it words as "she" or "my boss" is served. The
property says that nothing else is: no record linked to a superseded fact, none that spells one out.

`Findable` holds for names
with at most one title: of "Prof. Dr. Schmidt" one is stripped when it is stored and the other when
it is asked for. `KnownIsAnswered` asks for an attribute at the end of the path (`IsAttribute`) and
for words that are not both names and predicates (`Unambiguous`): of two relations without an
attribute, "the manager of X's manager", the planner follows the first only (`retrieval.py:114-125`),
and a name that is also a predicate is read as either. The filter of `NothingStaleServed` also withholds a record
that is linked to a current fact and contains the words of another superseded one.

**Fairness.** The library runs no loop, thread or timer of its own and every operation is a call
that its caller may never make, so nothing is fair about callers. What the code does guarantee is
that a call that has begun goes on: every request has a timeout (`providers.py:162`, 30 and 60
seconds by default), so it is answered or raises. An injected
client without a timeout, and a local model, are outside this assumption. `WritePath` states `WF_vars(CallStep)`, over the
steps of the write under way and its failed attempts together, and not over any success: requests
may fail for ever. `CallEnds` then says that the write returns or raises, which rests on the bound
of the retry loop, and so that the lock it holds is released. The other modules have no fairness and
no liveness property: their blocking sections are single steps.

## 4. What is proved

`StructuredTierProofs` proves, for all sets of subjects, predicates and objects, all timestamps and
all bounds on ids, that every behaviour of `StructuredTier` satisfies its type invariant, the seven
state invariants and the two action properties that `fact_store` checks on an instance. The
assumptions are those of the module: times are numbers below `INF`, and the bound is a number.

The invariant is `Inv`. It says of the rows in memory *and* of the saved rows that they are typed,
have one open row per key, ordered intervals and right links (`SoundRows`), and that the indexes
are exact. Two strengthenings make it inductive. The saved rows are included because `Load` makes
them live again. And no row and no link has a number above the counter (`IdsUpTo`): after
`Forget` a link may lead to a row that is gone, and if its number could be given out again, a new
row would be taken for the successor. The lemmas `AddRow`, `CloseRow`, `KeepSome` and their like
say what adding, closing and dropping rows does to `SoundRows`; the step theorem has one case per
action. The properties that speak of queries rest on lemmas about `Latest` and `Maxima` for sets
with at most one open row; `NonLossy` and `PastBeliefsKept` follow from the invariant before the
step.

`WritePathProofs` proves, for all texts, names and values, any number of retries and operations and
all settings of the gate: `Findable`, `NoFalseMerge`, `FailedWriteKeepsData` and, if the first
threshold lies between floor and ceiling as it does by default, `GateKeepsItsBounds`. The
assumptions are those of the modules: names are sequences of strings, none has two titles, the
mark of an ambiguous token is not a name, novelties and thresholds lie between 0 and `One`.

None of the four is inductive. `Inv` adds three things. The resolver is sound (`SoundResolver`):
each of its two indexes has, for every registered full name, an entry that is that name or
`Ambiguous`, and no entry for a name that is not registered, so that a token that stands for a name
is claimed by that name only. Every fact is about a registered name, in the brain *and* in the
snapshot, which `Restore` makes live again. And a write under way (`SoundCall`) has the facts,
memories and gate it began with, and a subject that is registered already: `Settle` is a later step
than the one that registered it, and only the lock keeps a `Forget` from coming between them. The
resolver's lemmas say what each method does to `SoundResolver`, by way of what adding and dropping a
claim does to one index (`RegisteredIndex`, `UnclaimedIndex`); `ThetaBounded` says that no rate and
no budget moves the threshold out of its bounds; `LeastNovelty` that the nearest memory exists.

The type invariant needs a bound of its own: `TypeInv` says that a write under way is counted by
`ops` but not yet by the gate, so that what the gate has seen stays below `MaxOps`, and that the two
token indexes have tokens of known names. `ReplayIsDeterministic` relates two behaviours that share
a cassette; `ReplayInv` says that each of the two histories is a run over the cassette (`IsRun`):
each brain is the `Outcome` of the one before, of the text and of what is recorded. That survives
every step because nothing recorded is recorded anew (`Extends`), and two runs over one cassette with
the same texts agree, by the least index at which they would not (`RunsAgree`). `CallsAreBounded`
is the part of `CallEnds` that is not about fairness: while a write is under way every step lowers
`StepsLeft`, which is at most `2 * Retries + 3`. `AnyOrderHolds` says that registering names one
by one, in any order, gives `RegisterAll`, for any names.

`DurableBrainProofs`, for all texts, any number of operations and every `compact_every`: with failing
statements and failing replays, `TypeOK`, `AckedIsDurable` and `CompactionIsAtomic`; and
`JournalBounded`. `Inv` has three parts: `Typed`; `Control`, what each value of `pc` says of the
transaction under way (between the delete and the commit it is a copy whose snapshot is the state in
memory) and of `attached`; and `Acknowledged`, where the acknowledged writes are: on disk always, in
memory while attached, and during a replay in memory or in the rows still to replay. The bound needs
`BoundInv`: the row counter is the length of the journal while nothing has failed.
`ReplayIsFaithfulHolds` and `KeepsPromiseHolds`, the refinement of `DurableMemory`, have the
hypothesis `Anaphoric = {}`: every text names its own subject. It is exactly what the code needs and
does not have, as `replay_context` shows without it; that run states `ReplayIsFaithful` of the code,
the theorem says what would make it true. `ReplayInv` then says that memory and the rows still to
replay make up what was recorded. The refinement is proved step by step: a statement maps to a
stutter, the commit and the completed append to the steps of the promise, a crash to its crash.

`CuratedBrainProofs`, for all texts, whatever they say: `TypeOK`, `CacheIsFresh`, `FactsCaptured`,
`ForgottenIsGone`, `VectorsMirrorEpisodes` and `ConsolidationKeepsCurrent`, with every failure the
model has. `Inv` says of the brain *and* of the snapshot, each with its history, that it is `Sound`,
and that the cache is fresh. `Sound` has four parts: `Typed`, with unique ids per tier and one open
row per key; `Captured`, which adds to the property that the facts of every text in the echo guard
are present or in `unrouted`, for an echo is not extracted again; `Absent`, forgotten names; and
`Mirrors`. The folds of the model (the facts of a write, the supports of a cluster) are
reasoned about by minimal counterexamples: the finite sets and the numbers are well-founded, and a
least set or number at which a statement about the fold fails is contradictory (`MinimalSubset`,
`LeastNumber`, `RouteIsFolded`, `TotalIsSummed`). `AssertRowIs` and `RouteIs` say what a write does
to the rows, `ConsolidatedIs` and `ClaimOfCluster` what a merge does to episodes and support.

`RetrievalProofs`: `NothingStaleServed` and `KnownIsAnswered`, for all questions, vocabularies and
budgets. The first follows from the fresh cache, whatever `Words` says of the texts. The second needs one more invariant, `Vocabulary`:
the subject of every row is known to the planner, in the brain and in the snapshot. Then the plan for
a name, a relation and an attribute is computed step by step (`Planned`, `ChainOf`, `HopsOf`), and
one open row per key makes the answer unique. For the backstop, every entity named has one first fact
(`FirstFact`, `OneFirstFact`), and what the round-robin takes before it is at most one fact of each
of the others (`FewBefore`, an injection into their names). `Alphabet` is assumed to have all words.

`MemoryServiceProofs`, for all tenants, every `persist_every` and any number of calls: `TypeOK`,
`Isolation`, `BoundedLoss` and `DropIsFinalOnFile`. `Inv` adds to the types that entries are under
their own tenant in memory and in what either file format decodes to (`Separate`); that nothing has
the number of an operation to come (`Past`), so that an entry that was erased is not written anew;
that a drop under way has left memory and a finished one the file (`Erasure`); and that between calls
the file lacks no more than the counter counts (`Unsaved`). `DropIsPermanentInPathMode` has the
hypothesis `Modes = {"path"}`; `drop_resurrects` shows it false in store mode.

`NamespacedMemoryProofs`, for any number of threads, tenants and brains: `TypeOK`, `Isolation`,
`WritesLand`, `DroppedStaysDropped` and `SnapshotComplete`. Each needs what writes and snapshots
under way will do: a write that is not excused holds the registered brain of its tenant (`Landing`),
one that is excused holds another (`Dropped`), no two tenants share a brain and a held brain has its
tenant's entries (`Separate`), and what a snapshot owes is still registered or was read (`Complete`).

`VectorTierProofs`, for all texts, embedders and keys: `TypeOK` and `SearchIsRight`. `Inv` says that
the keys answers are filtered by are among those of the records, and that an index that is not
`foreign` is right (`Indexed`), and the
same of the snapshot and of the graph on disk, each for the records it was saved with (`OnDisk`): a
crash between the two leaves a pair that was never saved together. `FailInv` is the step of an embedder
that raises: it may leave the index wrong, but with no key that has no record.

Besides bounds and types, the assumptions are that the values that stand for `None` are none of the
values they stand beside (`NoneAssumption` in two modules, `NoFileAssumption`,
`AmbiguousAssumption`, `NoName`), as in the code no snapshot, brain or name is `None`.

Only model-checked: `WritePath!CallEnds`, a liveness property, which is out of the prover's reach;
and the properties of the five runs that find them violated.

## 5. What is not modelled

- Of `retrieval.py`: preferences, as-of questions, the fuzzy match, ranking and phrasing. Of
  `providers.py` and `cassette.py`: batches, log-probabilities, local models, the cassette's file.
- Extraction rules, embeddings, similarity, wording, dates: data. Which facts a text states is
  `Says`; which texts are near is a choice.
- The loss of committed pages at a power failure (`synchronous=NORMAL`): the crash of the models
  is that of the process.
- `load` of a service in store mode; `reembed` of an attached brain, which is neither journalled nor
  compacted, so that what `KeepsPromise` says is said of the other operations; predictive surprise,
  which takes the larger of two novelties; metrics.
- Several facts in one text together with failing requests: `CuratedBrain` has the one, `WritePath`
  the other.
- A restore in which the rebuild of the vector index raises leaves the gate, the resolver and the echo
  guard of the brain before it (`backend.py:969-982`); `VectorTier` has what becomes of the vectors,
  `CuratedBrain` restores in one step.
- Properties of the further facts in a text of which one fact is linked: consolidation and forgetting go
  by the link, the further facts are rows only. And of the snapshot before a save that was cut short:
  the torn file is modelled, but nothing promises otherwise.
- Adapters, configuration, the evaluation harness, the benchmark, the API description: no state
  of their own, or programs that measure the system from outside.

## 6. Plan

Done, in this order: `StructuredTier` and its proofs, `DurableMemory` and `DurableBrain`,
`CuratedBrain`, `MemoryService`, `NamespacedMemory`, `VectorTier`, `EntityResolver`, `SurpriseGate`
and `WritePath`, `Retrieval`; then the proofs of `WritePath`, `DurableBrain`, `MemoryService`,
`NamespacedMemory`, `VectorTier`, `CuratedBrain` and `Retrieval`, in modules of their own.

Next, proofs: that the tiers of `CuratedBrain` are a refinement of what the other modules take of
them, beginning with `AssertRow` as `StructuredTier!AssertFact` without times; what each of the five
violated properties would need to hold, as the two theorems with hypotheses already say for
`ReplayIsFaithful` and `DropIsPermanent`.

Left to model: `reembed` of an attached brain and `load` in store mode.
