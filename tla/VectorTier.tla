----------------------------- MODULE VectorTier -----------------------------
(***************************************************************************)
(* The vector tier (vector.py) with its two kinds of index, and what of it *)
(* survives a process: the exact index is part of the snapshot; of an      *)
(* approximate one (HNSW) the snapshot holds the records only, and the     *)
(* graph is rebuilt from them, or read from a sidecar file that save()     *)
(* writes after the snapshot file.                                         *)
(*                                                                         *)
(* A vector is the text it was made from and the embedder that made it;    *)
(* all embedders have one dimension.  What a search may return is modelled *)
(* as a set: how the records in it are ranked, and which of them an        *)
(* approximate search misses, is left out.                                 *)
(***************************************************************************)
EXTENDS Naturals, FiniteSets

CONSTANTS
    Texts,        \* texts of records
    Models,       \* embedders, by model_id
    MaxKeys,      \* bound: keys given out since the last reset
    CanFail,      \* TRUE: the embedder may raise
    Missing,      \* no such file
    Torn          \* a file that was truncated and not written

ASSUME MaxKeysAssumption == MaxKeys \in Nat
ASSUME CanFailAssumption == CanFail \in BOOLEAN

VARIABLES
    pc,           \* "down", "up", or in save(): "write", "sidecar"
    config,       \* how the process was started: which index, which embedder
    meta,         \* meta: key -> text of the record
    next,         \* _next
    index,        \* index
    file,         \* the last snapshot: the file of save(), or the bytes that
                  \*   snapshot() gave to a store or a caller
    sidecar,      \* the graph file
    foreign       \* history: the index was made for other records or by another
                  \*   embedder, since vectors or a graph that do not fit were
                  \*   loaded or since the embedder raised in a rebuild

vars == <<pc, config, meta, next, index, file, sidecar, foreign>>
disk == <<file, sidecar>>

Keys == 0 .. MaxKeys - 1
Vector(text) == [text |-> text, model |-> config.model]
None == [k \in {} |-> {}]
With(f, k, v) == [x \in DOMAIN f \union {k} |-> IF x = k THEN v ELSE f[x]]
Without(f, k) == [x \in DOMAIN f \ {k} |-> f[x]]

-----------------------------------------------------------------------------
(* Indexes.  of: key -> vector; an approximate index keeps what was removed *)
(* from it as deleted, and filters its answers by live.                     *)

\* _index_factory, and every record added to what it returns.
Built(records, ann, model) ==
    [ann  |-> ann,
     of   |-> [k \in DOMAIN records |-> [text |-> records[k], model |-> model]],
     deleted |-> {}, live |-> DOMAIN records]

\* add(): the graph takes a key it knows, deleted or not, as an update.
Added(i, k, vector) ==
    [i EXCEPT !.of = With(@, k, vector), !.deleted = @ \ {k}, !.live = @ \union {k}]

\* remove(): mark_deleted if the key is live, or the vector itself.
Removed(i, k) ==
    IF i.ann THEN [i EXCEPT !.deleted = @ \union ({k} \intersect i.live), !.live = @ \ {k}]
    ELSE [i EXCEPT !.of = Without(@, k), !.live = @ \ {k}]

\* The keys that topk() or rank() can return.
Ranked == (DOMAIN index.of \ index.deleted) \intersect index.live

-----------------------------------------------------------------------------
(* Operations on the tier *)

Add(text) ==
    /\ pc = "up" /\ next < MaxKeys
    /\ index' = Added(index, next, Vector(text))
    /\ meta' = With(meta, next, text)
    /\ next' = next + 1
    /\ UNCHANGED <<pc, config, file, sidecar, foreign>>

\* The embedder raises: the key is used up.
AddFails ==
    /\ CanFail /\ pc = "up" /\ next < MaxKeys
    /\ next' = next + 1
    /\ UNCHANGED <<pc, config, meta, index, file, sidecar, foreign>>

\* A graph that does not hold a live key raises, and nothing changes.
Remove(k) ==
    /\ pc = "up" /\ k \in DOMAIN meta
    /\ index.ann /\ k \in index.live => k \in Ranked
    /\ index' = Removed(index, k)
    /\ meta' = Without(meta, k)
    /\ UNCHANGED <<pc, config, next, file, sidecar, foreign>>

\* reembed(): the index is rebuilt from the records.
Reembed(model) ==
    /\ pc = "up"
    /\ config' = [config EXCEPT !.model = model]
    /\ index' = Built(meta, config.ann, model)
    /\ foreign' = FALSE
    /\ UNCHANGED <<pc, meta, next, file, sidecar>>

\* The new embedder raises: it is the tier's already, over the old index.
ReembedFails(model) ==
    /\ CanFail /\ pc = "up" /\ meta # None /\ model # config.model
    /\ config' = [config EXCEPT !.model = model]
    /\ foreign' = TRUE
    /\ UNCHANGED <<pc, meta, next, index, file, sidecar>>

\* A new tier: reset(), and the first thing restore() makes.
Fresh(ann, model) ==
    /\ meta' = None /\ next' = 0
    /\ index' = Built(None, ann, model)
    /\ foreign' = FALSE

Reset ==
    /\ pc = "up"
    /\ Fresh(config.ann, config.model)
    /\ UNCHANGED <<pc, config, file, sidecar>>

-----------------------------------------------------------------------------
(* Snapshots *)

\* to_dict(): vectors of the exact index, records only for a graph.
Dict == [meta |-> meta, next |-> next,
         vectors |-> IF index.ann THEN Missing ELSE index.of]

\* save_index writes the graph with its deleted keys.  for is a history field:
\* the records and the embedder the graph was right for, or nothing.
Purpose(records, model) == [meta |-> records, model |-> model]
Graph == [of |-> index.of, deleted |-> index.deleted,
          for |-> IF foreign THEN {} ELSE {Purpose(meta, config.model)}]

\* _load_sidecar accepts a graph by the number of its keys.
Accepted(d) ==
    /\ config.ann /\ sidecar # Missing
    /\ Cardinality(DOMAIN sidecar.of) = Cardinality(DOMAIN d.meta)

\* Mutant: the live keys are those of the graph.
FromSidecarAsSaved(d) ==
    [ann |-> TRUE, of |-> sidecar.of, deleted |-> sidecar.deleted,
     live |-> DOMAIN sidecar.of]

FromSidecar(d) ==
    [ann |-> TRUE, of |-> sidecar.of, deleted |-> sidecar.deleted,
     live |-> DOMAIN d.meta]

FromVectors(d) ==
    [ann |-> FALSE, of |-> d.vectors, deleted |-> {}, live |-> DOMAIN d.vectors]

\* Mutant: the counter of the tier is not part of what is loaded.
LoadedKeepingNext(d) ==
    /\ meta' = d.meta /\ UNCHANGED next
    /\ index' = Built(d.meta, config.ann, config.model)
    /\ foreign' = FALSE

\* load(): vectors if the snapshot has them, else the sidecar, else a rebuild.
Loaded(d) ==
    /\ meta' = d.meta /\ next' = d.next
    /\ \/ /\ d.vectors # Missing
          /\ index' = FromVectors(d)
          /\ foreign' = (d.vectors # Built(d.meta, FALSE, config.model).of)
       \/ /\ d.vectors = Missing /\ Accepted(d)
          /\ index' = FromSidecar(d)
          /\ foreign' = (Purpose(d.meta, config.model) \notin sidecar.for)
       \/ /\ d.vectors = Missing /\ ~Accepted(d)
          /\ index' = Built(d.meta, config.ann, config.model)
          /\ foreign' = FALSE

\* snapshot(), as a store's compaction takes it: no graph is written.
Snapshot ==
    /\ pc = "up"
    /\ file' = Dict
    /\ UNCHANGED <<pc, config, meta, next, index, sidecar, foreign>>

\* load() and restore(); a torn file is refused before anything changes.
Load ==
    /\ pc = "up" /\ file \notin {Missing, Torn}
    /\ Loaded(file)
    /\ UNCHANGED <<pc, config, file, sidecar>>

\* The embedder raises in the rebuild: the records are assigned, and the index
\* is that of the new tier.
LoadFails ==
    /\ CanFail /\ pc = "up" /\ file \notin {Missing, Torn}
    /\ file.vectors = Missing /\ ~Accepted(file) /\ file.meta # None
    /\ meta' = file.meta /\ next' = file.next
    /\ index' = Built(None, config.ann, config.model)
    /\ foreign' = TRUE
    /\ UNCHANGED <<pc, config, file, sidecar>>

\* save(): the file is truncated when it is opened, then written, and the
\* graph follows it.
BeginSave ==
    /\ pc = "up"
    /\ pc' = "write" /\ file' = Torn
    /\ UNCHANGED <<config, meta, next, index, sidecar, foreign>>

WriteFile ==
    /\ pc = "write"
    /\ pc' = "sidecar" /\ file' = Dict
    /\ UNCHANGED <<config, meta, next, index, sidecar, foreign>>

SaveSidecar ==
    /\ pc = "sidecar"
    /\ pc' = "up"
    /\ sidecar' = IF index.ann THEN Graph ELSE sidecar
    /\ UNCHANGED <<config, meta, next, index, file, foreign>>

\* Writing the snapshot or the graph raises.
SaveFails ==
    /\ pc \in {"write", "sidecar"}
    /\ pc' = "up"
    /\ UNCHANGED <<config, meta, next, index, file, sidecar, foreign>>

-----------------------------------------------------------------------------
(* Processes *)

Init ==
    /\ pc = "down" /\ config \in [ann : BOOLEAN, model : Models]
    /\ meta = None /\ next = 0 /\ index = Built(None, config.ann, config.model)
    /\ file = Missing /\ sidecar = Missing /\ foreign = FALSE

\* With any index and any embedder.
Start(ann, model) ==
    /\ pc = "down"
    /\ pc' = "up" /\ config' = [ann |-> ann, model |-> model]
    /\ Fresh(ann, model)
    /\ UNCHANGED disk

\* At any point of a save.
Stop ==
    /\ pc # "down"
    /\ pc' = "down" /\ Fresh(config.ann, config.model)
    /\ UNCHANGED <<config, file, sidecar>>

Next ==
    \/ \E ann \in BOOLEAN, model \in Models : Start(ann, model)
    \/ \E text \in Texts : Add(text)
    \/ \E k \in Keys : Remove(k)
    \/ AddFails
    \/ \E model \in Models : Reembed(model) \/ ReembedFails(model)
    \/ Reset \/ Snapshot \/ Load \/ LoadFails
    \/ BeginSave \/ WriteFile \/ SaveSidecar \/ SaveFails
    \/ Stop

Spec == Init /\ [][Next]_vars

-----------------------------------------------------------------------------
(* Properties *)

IsFunction(f, S, T) == DOMAIN f \subseteq S /\ \A k \in DOMAIN f : f[k] \in T
Vectors == [text : Texts, model : Models]

IsDict(d) ==
    /\ d.next \in 0 .. MaxKeys /\ IsFunction(d.meta, 0 .. d.next - 1, Texts)
    /\ d.vectors # Missing => IsFunction(d.vectors, DOMAIN d.meta, Vectors)

\* Types; and no record, live or saved, has a key that is still to be given
\* out, so a key names one record between two resets whatever was restored.
TypeOK ==
    /\ pc \in {"down", "up", "write", "sidecar"}
    /\ config \in [ann : BOOLEAN, model : Models]
    /\ next \in 0 .. MaxKeys /\ IsFunction(meta, 0 .. next - 1, Texts)
    /\ index.ann \in BOOLEAN /\ IsFunction(index.of, Keys, Vectors)
    /\ index.deleted \subseteq Keys /\ index.live \subseteq Keys
    /\ file \in {Missing, Torn} \/ IsDict(file)
    /\ sidecar # Missing => IsFunction(sidecar.of, Keys, Vectors)
    /\ foreign \in BOOLEAN

\* Every record can be found, by the vector of its own text under the
\* embedder that embeds the queries.
RightlyIndexed ==
    \A k \in DOMAIN meta : k \in Ranked /\ index.of[k] = Vector(meta[k])

\* A search reads meta[key] for every key the index returns, so whatever graph
\* was accepted and wherever an embedder raised, it finds no key without a
\* record.  And every record is indexed rightly, unless the vectors or the graph
\* last loaded were saved for other records or by another embedder, or an
\* embedder raised in the rebuild that was to replace the index: nothing else,
\* no crash and no sequence of calls, makes the index wrong, and each rebuild
\* that returns makes it right again.
SearchIsRight ==
    /\ Ranked \subseteq DOMAIN meta
    /\ ~foreign => RightlyIndexed /\ (~index.ann => DOMAIN index.of = DOMAIN meta)

\* On a mismatch of sidecar and records "WARN and fall back to an O(n log n)
\* rebuild (loud, never silently wrong)" (load): under one embedder, which
\* never raises, the index of the records is right.
NeverSilentlyWrong == RightlyIndexed
=============================================================================
