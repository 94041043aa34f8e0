-------------------------- MODULE VectorTierProofs --------------------------
(***************************************************************************)
(* What the vector tier guarantees for all texts, embedders and keys,      *)
(* through saves that break off, restarts with another index or embedder,  *)
(* sidecars of other records and embedders that raise: a search finds      *)
(* records only, and finds all of them unless foreign vectors were loaded  *)
(* or a rebuild raised.                                                    *)
(***************************************************************************)
EXTENDS VectorTier, TLAPS

\* The records and the index of the tier have their types.
Typed ==
    /\ pc \in {"down", "up", "write", "sidecar"}
    /\ config \in [ann : BOOLEAN, model : Models]
    /\ next \in 0 .. MaxKeys /\ IsFunction(meta, 0 .. next - 1, Texts)
    /\ index = [ann |-> index.ann, of |-> index.of, deleted |-> index.deleted, live |-> index.live]
    /\ index.ann \in BOOLEAN /\ IsFunction(index.of, Keys, Vectors)
    /\ index.deleted \subseteq Keys
    /\ foreign \in BOOLEAN

\* The keys answers are filtered by are those of records, and the exact index
\* has vectors of records only: all of them unless the index is foreign.
Indexed ==
    /\ index.live \subseteq DOMAIN meta
    /\ ~index.ann => DOMAIN index.of \subseteq DOMAIN meta /\ index.deleted = {}
    /\ ~foreign => RightlyIndexed /\ (~index.ann => DOMAIN index.of = DOMAIN meta)

\* A graph is right for what it is said to be right for.
WellMade(g) ==
    /\ IsFunction(g.of, Keys, Vectors) /\ g.deleted \subseteq Keys
    /\ \A p \in g.for : \A k \in DOMAIN p.meta :
            /\ k \in DOMAIN g.of \ g.deleted
            /\ g.of[k] = [text |-> p.meta[k], model |-> p.model]

OnDisk ==
    /\ file \in {Missing, Torn} \/ IsDict(file)
    /\ sidecar # Missing => WellMade(sidecar)

Inv == Typed /\ Indexed /\ OnDisk

-----------------------------------------------------------------------------
(* Lemmas on keys, records and indexes *)

\* Keys that were given out are keys.
LEMMA KeysIs ==
    ASSUME NEW n \in 0 .. MaxKeys
    PROVE  /\ 0 .. n - 1 \subseteq Keys /\ n \notin 0 .. n - 1
           /\ n < MaxKeys => /\ n \in Keys /\ n + 1 \in 0 .. MaxKeys
                             /\ 0 .. n - 1 \subseteq 0 .. (n + 1) - 1 /\ n \in 0 .. (n + 1) - 1
BY MaxKeysAssumption DEF Keys

\* A tier without records.
LEMMA NoneIs == DOMAIN None = {} /\ \A S, T : IsFunction(None, S, T)
BY DEF None, IsFunction

\* An index that was built from records is right for them.
LEMMA BuiltIs ==
    ASSUME NEW records, NEW n \in 0 .. MaxKeys, IsFunction(records, 0 .. n - 1, Texts),
           NEW ann \in BOOLEAN, NEW model \in Models
    PROVE  LET i == Built(records, ann, model)
           IN  /\ i = [ann |-> i.ann, of |-> i.of, deleted |-> i.deleted, live |-> i.live]
               /\ i.ann = ann /\ DOMAIN i.of = DOMAIN records
               /\ IsFunction(i.of, Keys, Vectors)
               /\ i.deleted = {} /\ i.live = DOMAIN records
               /\ \A k \in DOMAIN records : i.of[k] = [text |-> records[k], model |-> model]
<1> DEFINE of == [k \in DOMAIN records |-> [text |-> records[k], model |-> model]]
<1>1. Built(records, ann, model)
        = [ann |-> ann, of |-> of, deleted |-> {}, live |-> DOMAIN records]
  BY DEF Built
<1>2. DOMAIN of = DOMAIN records /\ \A k \in DOMAIN records : of[k] = [text |-> records[k], model |-> model]
  OBVIOUS
<1>3. IsFunction(of, Keys, Vectors)
  BY <1>2, KeysIs DEF IsFunction, Vectors
<1> HIDE DEF of
<1> QED
  BY <1>1, <1>2, <1>3

\* What a fresh tier holds.
LEMMA FreshInv ==
    ASSUME NEW ann \in BOOLEAN, NEW model \in Models, Fresh(ann, model), OnDisk, disk' = disk,
           pc' \in {"down", "up"}, config' \in [ann : BOOLEAN, model : Models]
    PROVE  Inv'
<1>1. meta' = None /\ next' = 0 /\ index' = Built(None, ann, model) /\ foreign' = FALSE
  BY DEF Fresh
<1>2. 0 \in 0 .. MaxKeys /\ DOMAIN None = {}
      /\ IsFunction(None, 0 .. 0 - 1, Texts)
  BY NoneIs, MaxKeysAssumption
<1>3. /\ index' = [ann |-> index'.ann, of |-> index'.of, deleted |-> index'.deleted, live |-> index'.live]
      /\ index'.ann = ann /\ DOMAIN index'.of = {} /\ IsFunction(index'.of, Keys, Vectors)
      /\ index'.deleted = {} /\ index'.live = {}
  BY <1>1, <1>2, BuiltIs
<1>4. foreign' \in BOOLEAN
  BY <1>1, Zenon
<1>5. Typed'
  BY <1>1, <1>2, <1>3, <1>4 DEF Typed
<1>6. Indexed'
  BY <1>1, <1>2, <1>3 DEF Indexed, RightlyIndexed
<1>7. OnDisk'
  BY DEF OnDisk, disk
<1> QED
  BY <1>5, <1>6, <1>7 DEF Inv

-----------------------------------------------------------------------------
(* Each step preserves the invariant *)

\* Before the first start there are no records and no files.
LEMMA InitInv == Init => Inv
<1> SUFFICES ASSUME Init PROVE Inv
  OBVIOUS
<1>1. /\ config \in [ann : BOOLEAN, model : Models] /\ meta = None /\ next = 0
      /\ index = Built(None, config.ann, config.model) /\ foreign = FALSE
      /\ pc = "down" /\ file = Missing /\ sidecar = Missing
  BY DEF Init
<1>2. 0 \in 0 .. MaxKeys /\ DOMAIN None = {} /\ IsFunction(None, 0 .. 0 - 1, Texts)
  BY NoneIs, MaxKeysAssumption
<1>3. config.ann \in BOOLEAN /\ config.model \in Models
  BY <1>1
<1>4. /\ index = [ann |-> index.ann, of |-> index.of, deleted |-> index.deleted, live |-> index.live]
      /\ index.ann = config.ann /\ DOMAIN index.of = {} /\ IsFunction(index.of, Keys, Vectors)
      /\ index.deleted = {} /\ index.live = {}
  BY <1>1, <1>2, <1>3, BuiltIs
<1>5. foreign \in BOOLEAN
  BY <1>1, Zenon
<1>6. Typed
  BY <1>1, <1>2, <1>3, <1>4, <1>5 DEF Typed
<1>7. Indexed
  BY <1>1, <1>2, <1>4 DEF Indexed, RightlyIndexed
<1>8. OnDisk
  BY <1>1 DEF OnDisk
<1> QED
  BY <1>6, <1>7, <1>8 DEF Inv

\* A process starts, resets or dies: the tier is a fresh one.
LEMMA ProcessInv ==
    ASSUME Inv, \/ \E ann \in BOOLEAN, model \in Models : Start(ann, model)
                \/ Reset \/ Stop
    PROVE  Inv'
<1>1. ASSUME NEW ann \in BOOLEAN, NEW model \in Models, Start(ann, model) PROVE Inv'
  <2>1. Fresh(ann, model) /\ disk' = disk /\ pc' = "up" /\ config' = [ann |-> ann, model |-> model]
    BY <1>1 DEF Start, disk
  <2> QED
    BY <2>1, FreshInv DEF Inv
<1>2. CASE Reset \/ Stop
  <2>1. /\ Fresh(config.ann, config.model) /\ disk' = disk /\ config' = config
        /\ pc' \in {"down", "up"}
    BY <1>2 DEF Reset, Stop, disk
  <2>2. config \in [ann : BOOLEAN, model : Models]
    BY DEF Inv, Typed
  <2>3. config.ann \in BOOLEAN /\ config.model \in Models
    BY <2>2
  <2> QED
    BY <2>1, <2>2, <2>3, FreshInv DEF Inv
<1> QED
  BY <1>1, <1>2

\* Nothing but the files changes, and they stay as a file may be.
LEMMA FilesInv ==
    ASSUME Inv, UNCHANGED <<config, meta, next, index, foreign>>,
           pc' \in {"down", "up", "write", "sidecar"}, OnDisk'
    PROVE  Inv'
<1>1. Typed'
  BY DEF Inv, Typed
<1>2. Indexed'
  BY DEF Inv, Indexed, RightlyIndexed, Ranked, Vector
<1> QED
  BY <1>1, <1>2 DEF Inv

\* to_dict() saves the records with the vectors of records.
LEMMA DictIs ==
    ASSUME Inv
    PROVE  IsDict(Dict)
<1>1. Dict.meta = meta /\ Dict.next = next /\ Dict.vectors = IF index.ann THEN Missing ELSE index.of
  BY DEF Dict
<1>2. next \in 0 .. MaxKeys /\ IsFunction(meta, 0 .. next - 1, Texts)
  BY DEF Inv, Typed
<1>3. Dict.vectors # Missing => Dict.vectors = index.of /\ IsFunction(index.of, DOMAIN meta, Vectors)
  BY <1>1 DEF Inv, Typed, Indexed, IsFunction
<1> HIDE DEF Dict
<1> QED
  BY <1>1, <1>2, <1>3 DEF IsDict

\* save_index saves a graph that is right for the records if the index is.
LEMMA GraphIs ==
    ASSUME Inv
    PROVE  WellMade(Graph)
<1>1. /\ Graph.of = index.of /\ Graph.deleted = index.deleted
      /\ Graph.for = IF foreign THEN {} ELSE {Purpose(meta, config.model)}
  BY DEF Graph
<1>2. IsFunction(index.of, Keys, Vectors) /\ index.deleted \subseteq Keys
  BY DEF Inv, Typed
<1>3. ~foreign => \A k \in DOMAIN meta : /\ k \in DOMAIN index.of \ index.deleted
                                         /\ index.of[k] = [text |-> meta[k], model |-> config.model]
  BY DEF Inv, Indexed, RightlyIndexed, Ranked, Vector
<1>4. Purpose(meta, config.model).meta = meta /\ Purpose(meta, config.model).model = config.model
  BY DEF Purpose
<1>5. ASSUME NEW p \in Graph.for PROVE ~foreign /\ p.meta = meta /\ p.model = config.model
  BY <1>1, <1>4, <1>5
<1> HIDE DEF Graph
<1> QED
  BY <1>1, <1>2, <1>3, <1>5 DEF WellMade

\* snapshot() and each step of save() leave a file that may be loaded, or none.
LEMMA SaveInv ==
    ASSUME Inv, Snapshot \/ BeginSave \/ WriteFile \/ SaveSidecar \/ SaveFails
    PROVE  Inv'
<1>1. CASE Snapshot \/ WriteFile
  <2>1. /\ file' = Dict /\ UNCHANGED <<config, meta, next, index, foreign, sidecar>>
        /\ pc' \in {"down", "up", "write", "sidecar"}
    BY <1>1 DEF Snapshot, WriteFile, Inv, Typed
  <2>2. IsDict(file')
    BY <2>1, DictIs
  <2>3. OnDisk'
    BY <2>1, <2>2 DEF OnDisk, Inv
  <2> QED
    BY <2>1, <2>3, FilesInv
<1>2. CASE BeginSave
  <2>1. /\ file' = Torn /\ UNCHANGED <<config, meta, next, index, foreign, sidecar>> /\ pc' = "write"
    BY <1>2 DEF BeginSave
  <2>2. OnDisk'
    BY <2>1 DEF OnDisk, Inv
  <2> QED
    BY <2>1, <2>2, FilesInv
<1>3. CASE SaveSidecar
  <2>1. /\ UNCHANGED <<config, meta, next, index, foreign, file>> /\ pc' = "up"
        /\ sidecar' = Graph \/ sidecar' = sidecar
    BY <1>3 DEF SaveSidecar
  <2>2. OnDisk'
    BY <2>1, GraphIs DEF OnDisk, Inv
  <2> QED
    BY <2>1, <2>2, FilesInv
<1>4. CASE SaveFails
  <2>1. /\ UNCHANGED <<config, meta, next, index, foreign, file, sidecar>> /\ pc' = "up"
    BY <1>4 DEF SaveFails
  <2>2. OnDisk'
    BY <2>1 DEF OnDisk, Inv
  <2> QED
    BY <2>1, <2>2, FilesInv
<1> QED
  BY <1>1, <1>2, <1>3, <1>4

\* A record is added under the next key, which the graph may know from before.
LEMMA AddInv ==
    ASSUME Inv, NEW text \in Texts, Add(text)
    PROVE  Inv'
<1> DEFINE v == Vector(text)
           of == With(index.of, next, v)
           i  == [ann |-> index.ann, of |-> of,
                  deleted |-> index.deleted \ {next}, live |-> index.live \union {next}]
<1>1. /\ next < MaxKeys /\ next' = next + 1 /\ meta' = With(meta, next, text)
      /\ index' = Added(index, next, v) /\ UNCHANGED <<pc, config, file, sidecar, foreign>>
  BY DEF Add
<1>2. /\ index = [ann |-> index.ann, of |-> index.of, deleted |-> index.deleted, live |-> index.live]
      /\ index.ann \in BOOLEAN /\ IsFunction(index.of, Keys, Vectors) /\ index.deleted \subseteq Keys
      /\ next \in 0 .. MaxKeys /\ IsFunction(meta, 0 .. next - 1, Texts)
      /\ config \in [ann : BOOLEAN, model : Models]
  BY DEF Inv, Typed
<1>3. index' = i
  <2>1. Added(index, next, v) = [index EXCEPT !.of = of, !.deleted = index.deleted \ {next},
                                              !.live = index.live \union {next}]
    BY DEF Added
  <2> HIDE DEF of, v
  <2> QED
    BY <1>1, <1>2, <2>1
<1>4. /\ next \in Keys /\ next + 1 \in 0 .. MaxKeys /\ next \notin 0 .. next - 1
      /\ 0 .. next - 1 \subseteq 0 .. (next + 1) - 1 /\ next \in 0 .. (next + 1) - 1
  BY <1>1, <1>2, KeysIs
<1>5. /\ v \in Vectors /\ v.text = text /\ v = [text |-> text, model |-> config.model]
  BY <1>2 DEF Vector, Vectors
<1>6. /\ DOMAIN meta' = DOMAIN meta \union {next} /\ meta'[next] = text
      /\ \A k \in DOMAIN meta : k # next /\ meta'[k] = meta[k]
  BY <1>1, <1>2, <1>4 DEF With, IsFunction
<1>7. /\ DOMAIN of = DOMAIN index.of \union {next} /\ of[next] = v
      /\ \A k \in DOMAIN index.of : k # next => of[k] = index.of[k]
  BY DEF With
<1>8. IsFunction(of, Keys, Vectors)
  BY <1>2, <1>4, <1>5, <1>7 DEF IsFunction
<1>9. IsFunction(meta', 0 .. (next + 1) - 1, Texts)
  BY <1>2, <1>4, <1>6 DEF IsFunction
<1> HIDE DEF of, v
<1>10. /\ index'.ann = index.ann /\ index'.of = of /\ index'.deleted = index.deleted \ {next}
       /\ index'.live = index.live \union {next}
       /\ index' = [ann |-> index'.ann, of |-> index'.of, deleted |-> index'.deleted, live |-> index'.live]
  BY <1>3
<1>11. Typed'
  BY <1>1, <1>2, <1>4, <1>8, <1>9, <1>10 DEF Inv, Typed
<1>12. Indexed'
  <2>1. index'.live \subseteq DOMAIN meta'
    BY <1>6, <1>10 DEF Inv, Indexed
  <2>2. /\ ~index'.ann => DOMAIN index'.of \subseteq DOMAIN meta' /\ index'.deleted = {}
        /\ ~foreign /\ ~index'.ann => DOMAIN index'.of = DOMAIN meta'
    BY <1>6, <1>7, <1>10 DEF Inv, Indexed
  <2>3. ASSUME ~foreign PROVE RightlyIndexed'
    <3>1. ASSUME NEW k \in DOMAIN meta'
          PROVE  /\ k \in (DOMAIN index'.of \ index'.deleted) \intersect index'.live
                 /\ index'.of[k] = [text |-> meta'[k], model |-> config.model]
      <4>1. CASE k = next
        BY <1>5, <1>6, <1>7, <1>10, <4>1
      <4>2. CASE k # next
        <5>1. k \in DOMAIN meta /\ meta'[k] = meta[k]
          BY <1>6, <3>1, <4>2
        <5>2. k \in (DOMAIN index.of \ index.deleted) \intersect index.live
              /\ index.of[k] = [text |-> meta[k], model |-> config.model]
          BY <2>3, <5>1 DEF Inv, Indexed, RightlyIndexed, Ranked, Vector
        <5> QED
          BY <1>7, <1>10, <4>2, <5>1, <5>2
      <4> QED
        BY <4>1, <4>2
    <3> QED
      BY <1>1, <3>1 DEF RightlyIndexed, Ranked, Vector
  <2> QED
    BY <1>1, <2>1, <2>2, <2>3 DEF Indexed
<1>13. OnDisk'
  BY <1>1 DEF Inv, OnDisk
<1> QED
  BY <1>11, <1>12, <1>13 DEF Inv

\* A record is removed: an approximate index keeps its vector as deleted.
LEMMA RemoveInv ==
    ASSUME Inv, NEW k \in Keys, Remove(k)
    PROVE  Inv'
<1>1. /\ k \in DOMAIN meta /\ meta' = Without(meta, k) /\ index' = Removed(index, k)
      /\ UNCHANGED <<pc, config, next, file, sidecar, foreign>>
  BY DEF Remove
<1>2. /\ index = [ann |-> index.ann, of |-> index.of, deleted |-> index.deleted, live |-> index.live]
      /\ index.ann \in BOOLEAN /\ IsFunction(index.of, Keys, Vectors) /\ index.deleted \subseteq Keys
      /\ next \in 0 .. MaxKeys /\ IsFunction(meta, 0 .. next - 1, Texts)
  BY DEF Inv, Typed
<1>3. /\ DOMAIN meta' = DOMAIN meta \ {k} /\ \A m \in DOMAIN meta' : meta'[m] = meta[m]
  BY <1>1 DEF Without
<1> DEFINE of == IF index.ann THEN index.of ELSE Without(index.of, k)
           gone == IF index.ann THEN index.deleted \union ({k} \intersect index.live) ELSE index.deleted
<1>4. /\ index.ann => DOMAIN of = DOMAIN index.of
      /\ ~index.ann => DOMAIN of = DOMAIN index.of \ {k}
      /\ \A m \in DOMAIN of : of[m] = index.of[m]
  BY DEF Without
<1>5. index' = [ann |-> index.ann, of |-> of, deleted |-> gone, live |-> index.live \ {k}]
  <2>1. CASE index.ann
    <3>1. Removed(index, k) = [index EXCEPT !.deleted = index.deleted \union ({k} \intersect index.live),
                                            !.live = index.live \ {k}]
      BY <2>1 DEF Removed
    <3>2. of = index.of /\ gone = index.deleted \union ({k} \intersect index.live)
      BY <2>1
    <3> HIDE DEF of, gone
    <3> QED
      BY <1>1, <1>2, <3>1, <3>2
  <2>2. CASE ~index.ann
    <3>1. Removed(index, k) = [index EXCEPT !.of = of, !.live = index.live \ {k}]
      BY <2>2 DEF Removed
    <3>2. gone = index.deleted
      BY <2>2
    <3> HIDE DEF of, gone
    <3> QED
      BY <1>1, <1>2, <3>1, <3>2
  <2> QED
    BY <2>1, <2>2
<1>6. gone \subseteq index.deleted \union {k} /\ (~index.ann => gone = index.deleted)
  OBVIOUS
<1> HIDE DEF of, gone
<1>7. /\ index'.ann = index.ann /\ index'.of = of /\ index'.deleted = gone
      /\ index'.live = index.live \ {k}
      /\ index' = [ann |-> index'.ann, of |-> index'.of, deleted |-> index'.deleted, live |-> index'.live]
  BY <1>5
<1>8. Typed'
  <2>1. IsFunction(of, Keys, Vectors)
    BY <1>2, <1>4 DEF IsFunction
  <2>2. IsFunction(meta', 0 .. next - 1, Texts)
    BY <1>2, <1>3 DEF IsFunction
  <2>3. gone \subseteq Keys
    BY <1>2, <1>6
  <2> QED
    BY <1>1, <1>2, <1>7, <2>1, <2>2, <2>3 DEF Inv, Typed
<1>9. Indexed'
  <2>1. index'.live \subseteq DOMAIN meta'
    BY <1>3, <1>7 DEF Inv, Indexed
  <2>2. /\ ~index'.ann => DOMAIN index'.of \subseteq DOMAIN meta' /\ index'.deleted = {}
        /\ ~foreign /\ ~index'.ann => DOMAIN index'.of = DOMAIN meta'
    BY <1>3, <1>4, <1>6, <1>7 DEF Inv, Indexed
  <2>3. ASSUME ~foreign PROVE RightlyIndexed'
    <3>1. ASSUME NEW m \in DOMAIN meta'
          PROVE  /\ m \in (DOMAIN index'.of \ index'.deleted) \intersect index'.live
                 /\ index'.of[m] = [text |-> meta'[m], model |-> config.model]
      <4>1. m \in DOMAIN meta /\ m # k /\ meta'[m] = meta[m]
        BY <1>3
      <4>2. m \in (DOMAIN index.of \ index.deleted) \intersect index.live
            /\ index.of[m] = [text |-> meta[m], model |-> config.model]
        BY <2>3, <4>1 DEF Inv, Indexed, RightlyIndexed, Ranked, Vector
      <4> QED
        BY <1>4, <1>6, <1>7, <4>1, <4>2
    <3> QED
      BY <1>1, <3>1 DEF RightlyIndexed, Ranked, Vector
  <2> QED
    BY <1>1, <2>1, <2>2, <2>3 DEF Indexed
<1>10. OnDisk'
  BY <1>1 DEF Inv, OnDisk
<1> QED
  BY <1>8, <1>9, <1>10 DEF Inv

\* An index that is rebuilt from the records is right for them.
LEMMA RebuiltInv ==
    ASSUME Inv, NEW ann \in BOOLEAN, NEW model \in Models, index' = Built(meta', ann, model),
           foreign' = FALSE, config'.model = model, config' \in [ann : BOOLEAN, model : Models],
           next' \in 0 .. MaxKeys, IsFunction(meta', 0 .. next' - 1, Texts),
           UNCHANGED <<pc, file, sidecar>>
    PROVE  Inv'
<1>1. /\ index' = [ann |-> index'.ann, of |-> index'.of, deleted |-> index'.deleted, live |-> index'.live]
      /\ index'.ann = ann /\ DOMAIN index'.of = DOMAIN meta'
      /\ IsFunction(index'.of, Keys, Vectors)
      /\ index'.deleted = {} /\ index'.live = DOMAIN meta'
      /\ \A k \in DOMAIN meta' : index'.of[k] = [text |-> meta'[k], model |-> model]
  BY BuiltIs
<1>2. foreign' \in BOOLEAN
  BY Zenon
<1>3. Typed'
  BY <1>1, <1>2 DEF Inv, Typed
<1>4. Indexed'
  <2>1. RightlyIndexed'
    BY <1>1 DEF RightlyIndexed, Ranked, Vector
  <2> QED
    BY <1>1, <2>1 DEF Indexed
<1>5. OnDisk'
  BY DEF Inv, OnDisk
<1> QED
  BY <1>3, <1>4, <1>5 DEF Inv

\* reembed() rebuilds the index from the records.
LEMMA ReembedInv ==
    ASSUME Inv, NEW model \in Models, Reembed(model)
    PROVE  Inv'
<1>1. /\ config' = [config EXCEPT !.model = model] /\ index' = Built(meta, config.ann, model)
      /\ foreign' = FALSE /\ UNCHANGED <<pc, meta, next, file, sidecar>>
  BY DEF Reembed
<1>2. config \in [ann : BOOLEAN, model : Models] /\ next \in 0 .. MaxKeys
      /\ IsFunction(meta, 0 .. next - 1, Texts)
  BY DEF Inv, Typed
<1>3. config' \in [ann : BOOLEAN, model : Models] /\ config'.model = model /\ config.ann \in BOOLEAN
  BY <1>1, <1>2
<1> QED
  BY <1>1, <1>2, <1>3, RebuiltInv

\* load() and restore(): whatever the index is taken from, it is right unless
\* it is foreign.
LEMMA LoadInv ==
    ASSUME Inv, Load
    PROVE  Inv'
<1> DEFINE d == file
<1>1. /\ IsDict(d) /\ Loaded(d) /\ UNCHANGED <<pc, config, file, sidecar>>
  BY DEF Load, Inv, OnDisk
<1>2. meta' = d.meta /\ next' = d.next
  BY <1>1 DEF Loaded
<1>3. /\ next' \in 0 .. MaxKeys /\ IsFunction(meta', 0 .. next' - 1, Texts)
      /\ config \in [ann : BOOLEAN, model : Models]
  BY <1>1, <1>2 DEF IsDict, Inv, Typed
<1>4. config.ann \in BOOLEAN /\ config.model \in Models /\ DOMAIN meta' \subseteq Keys
  BY <1>3, KeysIs DEF IsFunction
<1>5. OnDisk'
  BY <1>1 DEF Inv, OnDisk
<1>6. CASE d.vectors = Missing /\ ~Accepted(d)
  <2>1. index' = Built(meta', config.ann, config.model) /\ foreign' = FALSE
    BY <1>1, <1>2, <1>6 DEF Loaded
  <2> QED
    BY <1>1, <1>3, <1>4, <2>1, RebuiltInv
<1>7. CASE d.vectors # Missing
  <2> DEFINE built == Built(d.meta, FALSE, config.model).of
  <2>1. index' = FromVectors(d) /\ foreign' = (d.vectors # built)
    BY <1>1, <1>7 DEF Loaded
  <2>2. /\ index'.ann = FALSE /\ index'.of = d.vectors /\ index'.deleted = {}
        /\ index'.live = DOMAIN d.vectors
        /\ index' = [ann |-> index'.ann, of |-> index'.of, deleted |-> index'.deleted, live |-> index'.live]
    BY <2>1 DEF FromVectors
  <2>3. IsFunction(d.vectors, DOMAIN meta', Vectors)
    BY <1>1, <1>2, <1>7 DEF IsDict
  <2>4. foreign' \in BOOLEAN
    BY <2>1, Zenon
  <2>5. index'.ann \in BOOLEAN
    BY <2>2, Zenon
  <2>6. Typed'
    BY <1>1, <1>3, <1>4, <2>2, <2>3, <2>4, <2>5 DEF Inv, Typed, IsFunction
  <2>7. /\ DOMAIN built = DOMAIN meta'
        /\ \A k \in DOMAIN meta' : built[k] = [text |-> meta'[k], model |-> config.model]
    <3>1. built = [k \in DOMAIN d.meta |-> [text |-> d.meta[k], model |-> config.model]]
      BY DEF Built
    <3> QED
      BY <1>2, <3>1
  <2> HIDE DEF built
  <2>8. ASSUME ~foreign' PROVE RightlyIndexed' /\ DOMAIN index'.of = DOMAIN meta'
    <3>1. index'.of = built
      BY <2>1, <2>2, <2>8
    <3> QED
      BY <1>1, <2>1, <2>2, <2>7, <2>8, <3>1 DEF RightlyIndexed, Ranked, Vector
  <2>9. Indexed'
    BY <2>2, <2>3, <2>8 DEF Indexed, IsFunction
  <2> QED
    BY <1>5, <2>6, <2>9 DEF Inv
<1>8. CASE d.vectors = Missing /\ Accepted(d)
  <2>1. /\ index' = FromSidecar(d)
        /\ foreign' = (Purpose(d.meta, config.model) \notin sidecar.for)
    BY <1>1, <1>8 DEF Loaded
  <2>2. /\ index'.ann = TRUE /\ index'.of = sidecar.of /\ index'.deleted = sidecar.deleted
        /\ index'.live = DOMAIN meta'
        /\ index' = [ann |-> index'.ann, of |-> index'.of, deleted |-> index'.deleted, live |-> index'.live]
    BY <1>2, <2>1 DEF FromSidecar
  <2>3. WellMade(sidecar)
    BY <1>8 DEF Accepted, Inv, OnDisk
  <2>4. foreign' \in BOOLEAN
    BY <2>1, Zenon
  <2>5. index'.ann \in BOOLEAN
    BY <2>2, Zenon
  <2>6. Typed'
    BY <1>1, <1>3, <2>2, <2>3, <2>4, <2>5 DEF Inv, Typed, WellMade
  <2>7. ASSUME ~foreign' PROVE RightlyIndexed'
    <3>1. Purpose(meta', config.model) \in sidecar.for
      BY <1>2, <2>1, <2>7
    <3>2. Purpose(meta', config.model).meta = meta' /\ Purpose(meta', config.model).model = config.model
      BY DEF Purpose
    <3>3. \A k \in DOMAIN meta' : /\ k \in DOMAIN sidecar.of \ sidecar.deleted
                                  /\ sidecar.of[k] = [text |-> meta'[k], model |-> config.model]
      BY <2>3, <3>1, <3>2 DEF WellMade
    <3> QED
      BY <1>1, <2>2, <3>3 DEF RightlyIndexed, Ranked, Vector
  <2>8. Indexed'
    BY <2>2, <2>7 DEF Indexed
  <2> QED
    BY <1>5, <2>6, <2>8 DEF Inv
<1> QED
  BY <1>6, <1>7, <1>8

\* The embedder raises: in add() a key is used up, in reembed() the index of the
\* old embedder is kept, in load() that of the new tier, and both are foreign.
LEMMA FailInv ==
    ASSUME Inv, AddFails \/ (\E model \in Models : ReembedFails(model)) \/ LoadFails
    PROVE  Inv'
<1>1. /\ next \in 0 .. MaxKeys /\ IsFunction(meta, 0 .. next - 1, Texts)
      /\ config \in [ann : BOOLEAN, model : Models]
  BY DEF Inv, Typed
<1>2. CASE AddFails
  <2>1. /\ next < MaxKeys /\ next' = next + 1
        /\ UNCHANGED <<pc, config, meta, index, file, sidecar, foreign>>
    BY <1>2 DEF AddFails
  <2>2. next' \in 0 .. MaxKeys /\ IsFunction(meta', 0 .. next' - 1, Texts)
    BY <1>1, <2>1, KeysIs DEF IsFunction
  <2>3. Typed'
    BY <2>1, <2>2 DEF Inv, Typed
  <2>4. Indexed' /\ OnDisk'
    BY <2>1 DEF Inv, Indexed, RightlyIndexed, Ranked, Vector, OnDisk
  <2> QED
    BY <2>3, <2>4 DEF Inv
<1>3. ASSUME NEW model \in Models, ReembedFails(model) PROVE Inv'
  <2>1. /\ config' = [config EXCEPT !.model = model] /\ foreign' = TRUE
        /\ UNCHANGED <<pc, meta, next, index, file, sidecar>>
    BY <1>3 DEF ReembedFails
  <2>2. config' \in [ann : BOOLEAN, model : Models]
    BY <1>1, <2>1
  <2>3. foreign' \in BOOLEAN
    BY <2>1, Zenon
  <2>4. Typed'
    BY <2>1, <2>2, <2>3 DEF Inv, Typed
  <2>5. Indexed' /\ OnDisk'
    BY <2>1 DEF Inv, Indexed, OnDisk
  <2> QED
    BY <2>4, <2>5 DEF Inv
<1>4. CASE LoadFails
  <2>1. /\ IsDict(file) /\ meta' = file.meta /\ next' = file.next
        /\ index' = Built(None, config.ann, config.model) /\ foreign' = TRUE
        /\ UNCHANGED <<pc, config, file, sidecar>>
    BY <1>4 DEF LoadFails, Inv, OnDisk
  <2>2. /\ next' \in 0 .. MaxKeys /\ IsFunction(meta', 0 .. next' - 1, Texts)
    BY <2>1 DEF IsDict
  <2>3. 0 \in 0 .. MaxKeys /\ DOMAIN None = {} /\ IsFunction(None, 0 .. 0 - 1, Texts)
    BY NoneIs, MaxKeysAssumption
  <2>4. config.ann \in BOOLEAN /\ config.model \in Models
    BY <1>1
  <2>5. /\ index' = [ann |-> index'.ann, of |-> index'.of, deleted |-> index'.deleted, live |-> index'.live]
        /\ index'.ann = config.ann /\ DOMAIN index'.of = {} /\ IsFunction(index'.of, Keys, Vectors)
        /\ index'.deleted = {} /\ index'.live = {}
    BY <2>1, <2>3, <2>4, BuiltIs
  <2>6. foreign' \in BOOLEAN
    BY <2>1, Zenon
  <2>7. Typed'
    BY <2>1, <2>2, <2>4, <2>5, <2>6 DEF Inv, Typed
  <2>8. Indexed' /\ OnDisk'
    BY <2>1, <2>5 DEF Inv, Indexed, OnDisk
  <2> QED
    BY <2>7, <2>8 DEF Inv
<1> QED
  BY <1>2, <1>3, <1>4

\* The invariant is inductive.
LEMMA StepInv == Inv /\ [Next]_vars => Inv'
<1> SUFFICES ASSUME Inv, [Next]_vars PROVE Inv'
  OBVIOUS
<1>1. CASE UNCHANGED vars
  <2>1. UNCHANGED <<pc, config, meta, next, index, file, sidecar, foreign>>
    BY <1>1 DEF vars
  <2>2. OnDisk' /\ pc' \in {"down", "up", "write", "sidecar"}
    BY <2>1 DEF Inv, Typed, OnDisk
  <2> QED
    BY <2>1, <2>2, FilesInv
<1>2. CASE (\E ann \in BOOLEAN, model \in Models : Start(ann, model)) \/ Reset \/ Stop
  BY <1>2, ProcessInv
<1>3. CASE (\E text \in Texts : Add(text)) \/ (\E k \in Keys : Remove(k))
  BY <1>3, AddInv, RemoveInv
<1>4. CASE (\E model \in Models : Reembed(model)) \/ Load
  BY <1>4, ReembedInv, LoadInv
<1>5. CASE Snapshot \/ BeginSave \/ WriteFile \/ SaveSidecar \/ SaveFails
  BY <1>5, SaveInv
<1>6. CASE AddFails \/ (\E model \in Models : ReembedFails(model)) \/ LoadFails
  BY <1>6, FailInv
<1> QED
  BY <1>1, <1>2, <1>3, <1>4, <1>5, <1>6 DEF Next

-----------------------------------------------------------------------------
(* The theorems *)

\* The strengthened invariant holds of every behaviour of the tier.
THEOREM InvIsInvariant == Spec => []Inv
<1> QED
  BY InitInv, StepInv, PTL DEF Spec

\* Types; no record, live or saved, has a key that is still to be given out.
THEOREM TypeCorrect == Spec => []TypeOK
<1>1. Inv => TypeOK
  <2> SUFFICES ASSUME Inv PROVE TypeOK
    OBVIOUS
  <2>1. index.live \subseteq Keys
    BY KeysIs DEF Inv, Typed, Indexed, IsFunction
  <2>2. file \in {Missing, Torn} \/ IsDict(file)
    BY DEF Inv, OnDisk
  <2>3. sidecar # Missing => IsFunction(sidecar.of, Keys, Vectors)
    BY DEF Inv, OnDisk, WellMade
  <2> QED
    BY <2>1, <2>2, <2>3 DEF Inv, Typed, TypeOK
<1> QED
  BY <1>1, InvIsInvariant, PTL

\* A search finds no key without a record; and every record is indexed rightly
\* unless vectors of other records or of another embedder were loaded, or the
\* embedder raised in reembed() or load(), since the last rebuild that returned.
THEOREM SearchIsRightHolds == Spec => []SearchIsRight
<1>1. Inv => SearchIsRight
  <2> SUFFICES ASSUME Inv PROVE SearchIsRight
    OBVIOUS
  <2>1. Ranked \subseteq DOMAIN meta
    BY DEF Inv, Indexed, Ranked
  <2> QED
    BY <2>1 DEF Inv, Indexed, SearchIsRight
<1> QED
  BY <1>1, InvIsInvariant, PTL
=============================================================================
