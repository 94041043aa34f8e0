------------------------ MODULE MemoryServiceProofs ------------------------
(***************************************************************************)
(* What the memory service guarantees for all namespaces, every            *)
(* persist_every and any number of calls, crashes and failed replacements: *)
(* tenants stay apart in memory and on file, a crash loses only what the   *)
(* counter of unsaved writes counts, and a drop is final on file.          *)
(***************************************************************************)
EXTENDS MemoryService, FiniteSetTheorems, TLAPS

\* Every entry is under the namespace it was addressed to.
Tagged(f) == \A n \in DOMAIN f : \A e \in f[n] : e.namespace = n

Separate ==
    Tagged(spaces) /\ Tagged(Decode(file)) /\ \A e \in store : e.namespace = Default

\* Nothing has the number of an operation to come.
Past == \A e \in Live \union OnFile \union store \union dropping \union erased :
           e.number \in 1 .. ops

\* A drop under way has removed its entries from memory; one that returned
\* has removed them from the file as well.
Erasure ==
    /\ pc # "persist" => dropping = {}
    /\ dropping \intersect Live = {}
    /\ mode = "path" => erased \intersect (Live \union OnFile) = {}

\* Between calls the file is behind memory by what the counter counts.
Behind ==
    /\ OnFile \subseteq Live
    /\ IsFiniteSet(Live \ OnFile) /\ Cardinality(Live \ OnFile) <= dirty
    /\ dirty < PersistEvery

Unsaved ==
    /\ pc = "down" => dirty = 0
    /\ (mode = "path" /\ pc = "idle" /\ ~failed) => Behind

Inv == TypeOK /\ Separate /\ Past /\ Erasure /\ Unsaved

-----------------------------------------------------------------------------
(* Lemmas on families of contents and on the two blob formats *)

All(f) == UNION {f[n] : n \in DOMAIN f}

\* A family is a function from some namespaces to sets of entries.
LEMMA FamilyIs ==
    ASSUME NEW f
    PROVE  /\ IsFamily(f) => /\ DOMAIN f \subseteq Namespaces
                             /\ f = [n \in DOMAIN f |-> f[n]]
                             /\ \A n \in DOMAIN f : f[n] \subseteq Entry
           /\ (/\ DOMAIN f \subseteq Namespaces
               /\ f = [n \in DOMAIN f |-> f[n]]
               /\ \A n \in DOMAIN f : f[n] \subseteq Entry) => IsFamily(f)
<1>1. ASSUME IsFamily(f)
      PROVE  /\ DOMAIN f \subseteq Namespaces
             /\ f = [n \in DOMAIN f |-> f[n]]
             /\ \A n \in DOMAIN f : f[n] \subseteq Entry
  <2>1. PICK some \in SUBSET Namespaces : f \in [some -> SUBSET Entry]
    BY <1>1 DEF IsFamily
  <2> QED
    BY <2>1
<1>2. ASSUME /\ DOMAIN f \subseteq Namespaces
             /\ f = [n \in DOMAIN f |-> f[n]]
             /\ \A n \in DOMAIN f : f[n] \subseteq Entry
      PROVE  IsFamily(f)
  <2>1. f \in [DOMAIN f -> SUBSET Entry]
    BY <1>2
  <2> QED
    BY <1>2, <2>1 DEF IsFamily
<1> QED
  BY <1>1, <1>2

\* The family without members.
LEMMA EmptyFamily ==
    ASSUME NEW f, f = [n \in {} |-> {}]
    PROVE  IsFamily(f) /\ DOMAIN f = {} /\ All(f) = {} /\ Tagged(f)
<1>1. DOMAIN f = {}
  OBVIOUS
<1>2. IsFamily(f)
  BY <1>1, FamilyIs
<1> QED
  BY <1>1, <1>2 DEF All, Tagged

\* What a namespace holds.
LEMMA ContentIs ==
    ASSUME NEW f, IsFamily(f), Tagged(f), NEW n \in Namespaces
    PROVE  /\ Content(f, n) \subseteq Entry
           /\ Content(f, n) \subseteq All(f)
           /\ \A e \in Content(f, n) : e.namespace = n
<1>1. \A m \in DOMAIN f : f[m] \subseteq Entry
  BY FamilyIs
<1> QED
  BY <1>1 DEF Content, All, Tagged

\* A namespace is given a content that extends the one it has.
LEMMA WithIs ==
    ASSUME NEW f, IsFamily(f), Tagged(f), NEW n \in Namespaces,
           NEW c \in SUBSET Entry, Content(f, n) \subseteq c, \A e \in c : e.namespace = n
    PROVE  IsFamily(With(f, n, c)) /\ Tagged(With(f, n, c)) /\ All(With(f, n, c)) = All(f) \union c
<1> DEFINE g == With(f, n, c)
<1>1. DOMAIN f \subseteq Namespaces /\ \A m \in DOMAIN f : f[m] \subseteq Entry
  BY FamilyIs
<1>2. /\ DOMAIN g = DOMAIN f \union {n}
      /\ g = [m \in DOMAIN g |-> g[m]]
      /\ g[n] = c
      /\ \A m \in DOMAIN g : m # n => g[m] = f[m]
  BY DEF With
<1>3. n \in DOMAIN f => f[n] \subseteq c
  BY DEF Content
<1> HIDE DEF g
<1>4. IsFamily(g)
  <2>1. \A m \in DOMAIN g : g[m] \subseteq Entry
    BY <1>1, <1>2
  <2>2. DOMAIN g \subseteq Namespaces
    BY <1>1, <1>2
  <2> QED
    BY <1>2, <2>1, <2>2, FamilyIs
<1>5. Tagged(g)
  BY <1>2 DEF Tagged
<1>6. All(g) \subseteq All(f) \union c
  BY <1>2 DEF All
<1>7. All(f) \union c \subseteq All(g)
  BY <1>2, <1>3 DEF All
<1> QED
  BY <1>4, <1>5, <1>6, <1>7 DEF g

\* A namespace is removed, and what it held with it.
LEMMA WithoutIs ==
    ASSUME NEW f, IsFamily(f), Tagged(f), NEW n \in Namespaces
    PROVE  /\ IsFamily(Without(f, n)) /\ Tagged(Without(f, n))
           /\ All(Without(f, n)) \subseteq All(f)
           /\ Content(f, n) \intersect All(Without(f, n)) = {}
<1> DEFINE g == Without(f, n)
<1>1. DOMAIN f \subseteq Namespaces /\ \A m \in DOMAIN f : f[m] \subseteq Entry
  BY FamilyIs
<1>2. /\ DOMAIN g = DOMAIN f \ {n}
      /\ g = [m \in DOMAIN g |-> g[m]]
      /\ \A m \in DOMAIN g : g[m] = f[m]
  BY DEF Without
<1> HIDE DEF g
<1>3. IsFamily(g)
  BY <1>1, <1>2, FamilyIs
<1>4. Tagged(g) /\ All(g) \subseteq All(f)
  BY <1>2 DEF Tagged, All
<1>5. \A e \in All(g) : e.namespace # n
  BY <1>2 DEF Tagged, All
<1>6. \A e \in Content(f, n) : e.namespace = n
  BY ContentIs
<1> QED
  BY <1>3, <1>4, <1>5, <1>6 DEF g

\* Whichever format a family is written in, it is read back.
LEMMA RoundTrip ==
    ASSUME NEW f, IsFamily(f)
    PROVE  Decode(Blob(f)) = f
<1>1. /\ DOMAIN f \subseteq Namespaces /\ f = [n \in DOMAIN f |-> f[n]]
      /\ \A n \in DOMAIN f : f[n] \subseteq Entry
  BY FamilyIs
<1>2. CASE DOMAIN f = {Default}
  <2> DEFINE b == [raw |-> TRUE, data |-> f[Default]]
  <2>1. Blob(f) = b
    BY <1>2 DEF Blob
  <2>2. b \in [raw : BOOLEAN, data : (SUBSET Entry) \union [{} -> SUBSET Entry]]
    BY <1>1, <1>2
  <2>3. b # NoFile
    BY <2>2, NoFileAssumption
  <2>4. b.raw /\ b.data = f[Default]
    OBVIOUS
  <2>5. Decode(b) = [n \in {Default} |-> f[Default]]
    BY <2>3, <2>4 DEF Decode
  <2>6. f = [n \in {Default} |-> f[Default]]
    BY <1>1, <1>2
  <2> QED
    BY <2>1, <2>5, <2>6
<1>3. CASE DOMAIN f # {Default}
  <2> DEFINE b == [raw |-> FALSE, data |-> f]
  <2>1. Blob(f) = b
    BY <1>3 DEF Blob
  <2>2. PICK some \in SUBSET Namespaces : f \in [some -> SUBSET Entry]
    BY DEF IsFamily
  <2>3. b \in [raw : BOOLEAN, data : (SUBSET Entry) \union [some -> SUBSET Entry]]
    BY <2>2
  <2>4. b # NoFile
    BY <2>3, NoFileAssumption
  <2>5. ~b.raw /\ b.data = f
    OBVIOUS
  <2>6. Decode(b) = f
    BY <2>4, <2>5 DEF Decode
  <2> QED
    BY <2>1, <2>6
<1> QED
  BY <1>2, <1>3

-----------------------------------------------------------------------------
(* Each step preserves the invariant *)

\* What is in memory and on file, as families, and when they do not change.
LEMMA Both ==
    /\ Live = All(spaces) /\ OnFile = All(Decode(file))
    /\ Live' = All(spaces') /\ OnFile' = All(Decode(file'))
    /\ spaces' = spaces => Live' = Live
    /\ file' = file => OnFile' = OnFile
BY DEF Live, OnFile, All

\* Before the first start there is nothing, in memory or on file.
LEMMA InitInv == Init => Inv
<1> SUFFICES ASSUME Init PROVE Inv
  OBVIOUS
<1>1. Decode(file) = [n \in {} |-> {}] /\ spaces = [n \in {} |-> {}]
  BY DEF Init, Decode
<1>2. /\ IsFamily(spaces) /\ Tagged(spaces) /\ Live = {}
      /\ IsFamily(Decode(file)) /\ Tagged(Decode(file)) /\ OnFile = {}
  BY <1>1, EmptyFamily, Both
<1>3. TypeOK
  <2>1. open \in BOOLEAN /\ failed \in BOOLEAN
    BY Zenon DEF Init
  <2>2. 0 \in Nat /\ 0 \in 0 .. MaxOps
    BY PersistAssumption
  <2> QED
    BY <1>2, <2>1, <2>2 DEF Init, TypeOK
<1>4. Separate
  BY <1>2 DEF Init, Separate
<1>5. Past /\ Erasure
  BY <1>2 DEF Init, Past, Erasure
<1>6. Unsaved
  BY DEF Init, Unsaved
<1> QED
  BY <1>3, <1>4, <1>5, <1>6 DEF Inv

\* The family a process starts from: that of the file, with a default brain.
LEMMA Reopened ==
    ASSUME Inv, NEW f, f = With(Decode(file), Default, Content(Decode(file), Default))
    PROVE  IsFamily(f) /\ Tagged(f) /\ All(f) = OnFile
<1>1. IsFamily(Decode(file)) /\ Tagged(Decode(file))
  BY DEF Inv, TypeOK, Separate
<1> DEFINE c == Content(Decode(file), Default)
<1>2. c \subseteq Entry /\ c \subseteq All(Decode(file)) /\ \A e \in c : e.namespace = Default
  BY <1>1, ContentIs, NamespacesAssumption
<1> HIDE DEF c
<1>3. LET g == With(Decode(file), Default, c)
      IN  IsFamily(g) /\ Tagged(g) /\ All(g) = All(Decode(file)) \union c
  BY <1>1, <1>2, WithIs, NamespacesAssumption DEF c
<1> QED
  BY <1>2, <1>3, Both DEF c

\* Nothing is behind a memory that was just read from the file.
LEMMA NothingBehind ==
    ASSUME NEW d \in Nat, NEW s, d < PersistEvery
    PROVE  /\ s \subseteq s /\ IsFiniteSet(s \ s) /\ Cardinality(s \ s) <= d
           /\ d < PersistEvery
<1>1. s \ s = {}
  OBVIOUS
<1>2. IsFiniteSet({}) /\ Cardinality({}) = 0
  BY FS_EmptySet
<1> QED
  BY <1>1, <1>2

\* The process starts: memory is what the file or the store holds.
LEMMA StartInv ==
    ASSUME Inv, Start
    PROVE  Inv'
<1>1. /\ pc = "down" /\ pc' = "idle" /\ dirty = 0 /\ dropping = {}
      /\ UNCHANGED <<mode, dirty, file, store, dropping, erased, ops>>
  BY DEF Start, Inv, Unsaved, Erasure
<1>2. OnFile' = OnFile
  BY <1>1, Both
<1>3. open' \in BOOLEAN /\ failed' \in BOOLEAN
  BY Zenon DEF Start
<1>4. CASE mode = "store"
  <2>1. spaces' = [n \in {Default} |-> store]
    BY <1>4 DEF Start
  <2>2. DOMAIN spaces' = {Default} /\ spaces'[Default] = store
    BY <2>1
  <2>3. store \subseteq Entry /\ \A e \in store : e.namespace = Default
    BY DEF Inv, TypeOK, Separate
  <2>4. IsFamily(spaces') /\ Tagged(spaces') /\ Live' = store
    <3>1. IsFamily(spaces')
      BY <2>1, <2>2, <2>3, FamilyIs, NamespacesAssumption
    <3> QED
      BY <2>2, <2>3, <3>1, Both DEF Tagged, All
  <2>5. TypeOK'
    BY <1>1, <1>3, <2>4 DEF Inv, TypeOK, IsFamily
  <2>6. Separate'
    BY <1>1, <2>4 DEF Inv, Separate, Tagged
  <2>7. Past' /\ Erasure'
    BY <1>1, <1>2, <1>4, <2>4 DEF Inv, Past, Erasure
  <2>8. Unsaved'
    BY <1>1, <1>4 DEF Unsaved
  <2> QED
    BY <2>5, <2>6, <2>7, <2>8 DEF Inv
<1>5. CASE mode # "store"
  <2>1. spaces' = With(Decode(file), Default, Content(Decode(file), Default))
    BY <1>5 DEF Start
  <2>2. IsFamily(spaces') /\ Tagged(spaces') /\ Live' = OnFile
    BY <2>1, Reopened, Both
  <2>3. TypeOK'
    BY <1>1, <1>3, <2>2 DEF Inv, TypeOK, IsFamily
  <2>4. Separate'
    BY <1>1, <2>2 DEF Inv, Separate, Tagged
  <2>5. Past' /\ Erasure'
    BY <1>1, <1>2, <2>2 DEF Inv, Past, Erasure
  <2>6. Unsaved'
    <3>1. 0 \in Nat /\ 0 < PersistEvery
      BY PersistAssumption
    <3>2. Behind'
      BY <1>1, <1>2, <2>2, <3>1, NothingBehind DEF Behind
    <3> QED
      BY <1>1, <3>2 DEF Unsaved
  <2> QED
    BY <2>3, <2>4, <2>5, <2>6 DEF Inv
<1> QED
  BY <1>4, <1>5

\* The process dies, also in the middle of a call.
LEMMA StopInv ==
    ASSUME Inv, Stop
    PROVE  Inv'
<1>1. /\ pc' = "down" /\ spaces' = [n \in {} |-> {}] /\ dirty' = 0 /\ open' = FALSE
      /\ dropping' = {}
      /\ UNCHANGED <<mode, file, store, erased, failed, ops>>
  BY DEF Stop
<1>2. IsFamily(spaces') /\ Tagged(spaces') /\ Live' = {} /\ OnFile' = OnFile
  BY <1>1, EmptyFamily, Both
<1>3. TypeOK'
  BY <1>1, <1>2 DEF Inv, TypeOK, IsFamily
<1>4. Separate'
  BY <1>1, <1>2 DEF Inv, Separate, Tagged
<1>5. Past' /\ Erasure'
  BY <1>1, <1>2 DEF Inv, Past, Erasure
<1>6. Unsaved'
  BY <1>1 DEF Unsaved
<1> QED
  BY <1>3, <1>4, <1>5, <1>6 DEF Inv

\* A write or a consolidation adds one entry, with a number of its own.
LEMMA ChangeIs ==
    ASSUME Inv, NEW n \in Namespaces, Change(n)
    PROVE  LET e == [namespace |-> n, number |-> ops + 1]
           IN  /\ IsFamily(spaces') /\ Tagged(spaces') /\ Live' = Live \union {e}
               /\ store' \subseteq Entry /\ \A x \in store' : x.namespace = Default
               /\ store' \subseteq store \union Live'
               /\ e.number = ops + 1 /\ ops' = ops + 1 /\ ops' \in 0 .. MaxOps
               /\ OnFile' = OnFile
<1> DEFINE e == [namespace |-> n, number |-> ops + 1]
           c == Content(spaces, n) \union {e}
<1>1. /\ ops < MaxOps /\ ops' = ops + 1 /\ ops \in 0 .. MaxOps
      /\ spaces' = With(spaces, n, c) /\ store' = Recorded(n, c) /\ UNCHANGED file
  BY DEF Change, Inv, TypeOK
<1>2. ops' \in 0 .. MaxOps /\ ops + 1 \in 1 .. MaxOps
  BY <1>1, PersistAssumption
<1>3. e \in Entry /\ e.namespace = n /\ e.number = ops + 1
  BY <1>2 DEF Entry
<1>4. IsFamily(spaces) /\ Tagged(spaces)
  BY DEF Inv, TypeOK, Separate
<1> HIDE DEF e
<1>5. /\ Content(spaces, n) \subseteq Entry /\ Content(spaces, n) \subseteq All(spaces)
      /\ \A x \in Content(spaces, n) : x.namespace = n
  BY <1>4, ContentIs
<1>6. c \subseteq Entry /\ Content(spaces, n) \subseteq c /\ \A x \in c : x.namespace = n
  BY <1>3, <1>5
<1>7. IsFamily(spaces') /\ Tagged(spaces') /\ All(spaces') = All(spaces) \union c
  <2> HIDE DEF c
  <2> QED
    BY <1>1, <1>4, <1>6, WithIs
<1>8. Live' = Live \union {e}
  <2>1. All(spaces) \union c = All(spaces) \union {e}
    BY <1>5
  <2> QED
    BY <1>7, <2>1, Both
<1>9. store' = store \/ (n = Default /\ store' = c)
  BY <1>1 DEF Recorded
<1>10. store \subseteq Entry /\ \A x \in store : x.namespace = Default
  BY DEF Inv, TypeOK, Separate
<1>11. store' \subseteq Entry /\ \A x \in store' : x.namespace = Default
  BY <1>6, <1>9, <1>10
<1>12. store' \subseteq store \union Live'
  BY <1>5, <1>8, <1>9, Both
<1>13. OnFile' = OnFile
  BY <1>1, Both
<1> QED
  BY <1>1, <1>2, <1>3, <1>7, <1>8, <1>11, <1>12, <1>13 DEF e

\* One write or one consolidation leaves everything but Unsaved as it should be.
LEMMA ChangeInv ==
    ASSUME Inv, NEW n \in Namespaces, Change(n), pc' \in {"idle", "persist"}, dirty' \in Nat
    PROVE  TypeOK' /\ Separate' /\ Past' /\ Erasure'
<1> DEFINE e == [namespace |-> n, number |-> ops + 1]
<1>1. /\ IsFamily(spaces') /\ Tagged(spaces') /\ Live' = Live \union {e}
      /\ store' \subseteq Entry /\ \A x \in store' : x.namespace = Default
      /\ store' \subseteq store \union Live'
      /\ e.number = ops + 1 /\ ops' = ops + 1 /\ ops' \in 0 .. MaxOps
      /\ OnFile' = OnFile
  BY ChangeIs
<1> HIDE DEF e
<1>2. /\ pc = "idle" /\ dropping = {}
      /\ UNCHANGED <<mode, open, file, dropping, erased, failed>>
  BY DEF Change, Inv, Erasure
<1>3. TypeOK'
  BY <1>1, <1>2 DEF Inv, TypeOK, IsFamily
<1>4. Separate'
  BY <1>1, <1>2 DEF Inv, Separate, Tagged
<1>5. ops \in Nat
  BY DEF Inv, TypeOK
<1>6. \A x \in Live \union OnFile \union store \union erased : x.number \in 1 .. ops
  BY DEF Inv, Past
<1>7. Past'
  <2>1. \A k \in 1 .. ops : k \in 1 .. ops'
    BY <1>1, <1>5
  <2>2. ops + 1 \in 1 .. ops'
    BY <1>1, <1>5
  <2>3. Live' \union OnFile' \union store' \union dropping' \union erased'
             \subseteq Live \union OnFile \union store \union erased \union {e}
    BY <1>1, <1>2
  <2>4. \A x \in Live \union OnFile \union store \union erased \union {e} :
            x.number \in 1 .. ops'
    BY <1>1, <1>6, <2>1, <2>2
  <2> QED
    BY <2>3, <2>4 DEF Past
<1>8. e \notin erased
  <2>1. ops + 1 \notin 1 .. ops
    BY <1>5
  <2> QED
    BY <1>1, <1>6, <2>1
<1>9. Erasure'
  BY <1>1, <1>2, <1>8 DEF Inv, Erasure
<1> QED
  BY <1>3, <1>4, <1>7, <1>9

\* A write returns with at most one entry more that is not on file, and counts it.
LEMMA WriteInv ==
    ASSUME Inv, NEW n \in Namespaces, Write(n)
    PROVE  Inv'
<1>1. /\ Change(n) /\ pc = "idle" /\ dirty \in Nat /\ dirty' = dirty + 1
      /\ mode' = mode /\ failed' = failed
      /\ IF dirty + 1 >= PersistEvery THEN Persist ELSE UNCHANGED pc
  BY DEF Write, Change, Inv, TypeOK
<1>2. pc' \in {"idle", "persist"} /\ dirty' \in Nat
  BY <1>1 DEF Persist
<1>3. Unsaved'
  <2> SUFFICES ASSUME mode = "path", pc' = "idle", ~failed PROVE Behind'
    BY <1>1, <1>2 DEF Unsaved
  <2>1. dirty + 1 < PersistEvery
    BY <1>1, PersistAssumption DEF Persist
  <2>2. Behind
    BY <1>1 DEF Inv, Unsaved
  <2> DEFINE e == [namespace |-> n, number |-> ops + 1]
             s == Live \ OnFile
  <2>3. Live' = Live \union {e} /\ OnFile' = OnFile
    BY <1>1, ChangeIs
  <2>4. e \notin OnFile
    <3>1. ops \in Nat /\ \A x \in OnFile : x.number \in 1 .. ops
      BY DEF Inv, TypeOK, Past
    <3>2. ops + 1 \notin 1 .. ops
      BY <3>1
    <3> QED
      BY <3>1, <3>2
  <2> HIDE DEF e
  <2>5. (Live \ OnFile)' = s \union {e}
    BY <2>3, <2>4
  <2>6. IsFiniteSet(s) /\ Cardinality(s) <= dirty
    BY <2>2 DEF Behind
  <2> HIDE DEF s
  <2>7. /\ IsFiniteSet(s \union {e})
        /\ Cardinality(s \union {e}) = Cardinality(s) \/ Cardinality(s \union {e}) = Cardinality(s) + 1
    BY <2>6, FS_AddElement
  <2>8. Cardinality(s) \in Nat
    BY <2>6, FS_CardinalityType
  <2>9. Cardinality(s \union {e}) <= dirty + 1
    BY <1>1, <2>6, <2>7, <2>8
  <2>10. OnFile' \subseteq Live'
    BY <2>2, <2>3 DEF Behind
  <2> QED
    BY <1>1, <2>1, <2>5, <2>7, <2>9, <2>10 DEF Behind
<1> QED
  BY <1>1, <1>2, <1>3, ChangeInv DEF Inv

\* A consolidation is written out at once in path mode.
LEMMA ConsolidateInv ==
    ASSUME Inv, NEW n \in Namespaces, Consolidate(n)
    PROVE  Inv'
<1>1. /\ Change(n) /\ Persist /\ dirty' = dirty /\ mode' = mode
  BY DEF Consolidate, Change
<1>2. pc' \in {"idle", "persist"} /\ dirty' \in Nat
  BY <1>1 DEF Persist, Inv, TypeOK
<1>3. Unsaved'
  BY <1>1 DEF Persist, Unsaved
<1> QED
  BY <1>1, <1>2, <1>3, ChangeInv DEF Inv

\* A memory with the same entries under the same names is as far ahead of the file.
LEMMA SameBehind ==
    ASSUME Live' = Live, OnFile' = OnFile, dirty' = dirty
    PROVE  Behind' <=> Behind
BY DEF Behind

\* query(), answer() and stats() leave an empty brain behind, at most.
LEMMA LookInv ==
    ASSUME Inv, NEW n \in Namespaces, Look(n)
    PROVE  Inv'
<1>1. /\ pc = "idle" /\ spaces' = With(spaces, n, Content(spaces, n))
      /\ UNCHANGED <<mode, pc, dirty, open, file, store, dropping, erased, failed, ops>>
  BY DEF Look
<1>2. IsFamily(spaces) /\ Tagged(spaces)
  BY DEF Inv, TypeOK, Separate
<1> DEFINE c == Content(spaces, n)
<1>3. c \subseteq Entry /\ c \subseteq All(spaces) /\ \A e \in c : e.namespace = n
  BY <1>2, ContentIs
<1>4. IsFamily(spaces') /\ Tagged(spaces') /\ All(spaces') = All(spaces) \union c
  BY <1>1, <1>2, <1>3, WithIs
<1> HIDE DEF c
<1>5. Live' = Live /\ OnFile' = OnFile
  BY <1>1, <1>3, <1>4, Both
<1>6. TypeOK'
  BY <1>1, <1>4 DEF Inv, TypeOK, IsFamily
<1>7. Separate'
  BY <1>1, <1>4 DEF Inv, Separate, Tagged
<1>8. Past' /\ Erasure'
  BY <1>1, <1>5 DEF Inv, Past, Erasure
<1>9. Unsaved'
  BY <1>1, <1>5, SameBehind DEF Inv, Unsaved
<1> QED
  BY <1>6, <1>7, <1>8, <1>9 DEF Inv

\* drop() takes the namespace out of memory; in path mode the file is next.
LEMMA DropInv ==
    ASSUME Inv, NEW n \in Namespaces, Drop(n)
    PROVE  Inv'
<1>1. /\ pc = "idle" /\ ops < MaxOps /\ ops' = ops + 1 /\ open' = FALSE
      /\ spaces' = Without(spaces, n)
      /\ Persist /\ dropping = {}
      /\ UNCHANGED <<mode, dirty, file, store, failed>>
  BY DEF Drop, Inv, Erasure
<1>2. IF mode = "path"
      THEN dropping' = Content(spaces, n) /\ UNCHANGED erased
      ELSE erased' = erased \union Content(spaces, n) /\ UNCHANGED dropping
  BY DEF Drop
<1>3. IsFamily(spaces) /\ Tagged(spaces)
  BY DEF Inv, TypeOK, Separate
<1> DEFINE c == Content(spaces, n)
<1>4. c \subseteq Entry /\ c \subseteq Live
  BY <1>3, ContentIs, Both
<1>5. IsFamily(spaces') /\ Tagged(spaces') /\ Live' \subseteq Live /\ c \intersect Live' = {}
  BY <1>1, <1>3, WithoutIs, Both
<1>6. OnFile' = OnFile
  BY <1>1, Both
<1>7. pc' \in {"idle", "persist"} /\ (mode = "path" <=> pc' = "persist")
  BY <1>1 DEF Persist
<1>8. /\ dropping' \subseteq c /\ erased' \subseteq erased \union c
      /\ mode = "path" => erased' = erased
      /\ mode # "path" => dropping' = {}
  BY <1>1, <1>2
<1> HIDE DEF c
<1>9. ops' \in 0 .. MaxOps /\ \A k \in 1 .. ops : k \in 1 .. ops'
  BY <1>1, PersistAssumption DEF Inv, TypeOK
<1>10. TypeOK'
  <2>1. dropping' \subseteq Entry /\ erased' \subseteq Entry
    BY <1>4, <1>8 DEF Inv, TypeOK
  <2>2. open' \in BOOLEAN
    BY <1>1, Zenon
  <2> QED
    BY <1>1, <1>5, <1>7, <1>9, <2>1, <2>2 DEF Inv, TypeOK, IsFamily
<1>11. Separate'
  BY <1>1, <1>5 DEF Inv, Separate, Tagged
<1>12. Past'
  <2>1. Live' \union OnFile' \union store' \union dropping' \union erased'
             \subseteq Live \union OnFile \union store \union dropping \union erased
    BY <1>1, <1>4, <1>5, <1>6, <1>8
  <2> QED
    BY <1>9, <2>1 DEF Inv, Past
<1>13. Erasure'
  <2>1. dropping' \intersect Live' = {}
    BY <1>5, <1>8
  <2> QED
    BY <1>1, <1>5, <1>6, <1>7, <1>8, <2>1 DEF Inv, Erasure
<1>14. Unsaved'
  BY <1>1, <1>7 DEF Unsaved
<1> QED
  BY <1>10, <1>11, <1>12, <1>13, <1>14 DEF Inv

\* close() changes nothing that is remembered.
LEMMA CloseInv ==
    ASSUME Inv, Close
    PROVE  Inv'
<1>1. /\ open' = FALSE
      /\ UNCHANGED <<mode, pc, spaces, dirty, file, store, dropping, erased, failed, ops>>
  BY DEF Close
<1>2. Live' = Live /\ OnFile' = OnFile
  BY <1>1, Both
<1>3. open' \in BOOLEAN
  BY <1>1, Zenon
<1>4. TypeOK'
  BY <1>1, <1>3 DEF Inv, TypeOK, IsFamily
<1>5. Separate'
  BY <1>1 DEF Inv, Separate, Tagged
<1>6. Past' /\ Erasure'
  BY <1>1, <1>2 DEF Inv, Past, Erasure
<1>7. Unsaved'
  BY <1>1, <1>2, SameBehind DEF Inv, Unsaved
<1> QED
  BY <1>4, <1>5, <1>6, <1>7 DEF Inv

\* load() of the service's own file gives up what was not on file.
LEMMA LoadInv ==
    ASSUME Inv, Load
    PROVE  Inv'
<1>1. /\ pc = "idle" /\ mode = "path" /\ dropping = {}
      /\ spaces' = With(Decode(file), Default, Content(Decode(file), Default))
      /\ UNCHANGED <<mode, pc, dirty, open, file, store, dropping, erased, failed, ops>>
  BY DEF Load, Inv, Erasure
<1>2. IsFamily(spaces') /\ Tagged(spaces') /\ Live' = OnFile /\ OnFile' = OnFile
  BY <1>1, Reopened, Both
<1>3. TypeOK'
  BY <1>1, <1>2 DEF Inv, TypeOK, IsFamily
<1>4. Separate'
  BY <1>1, <1>2 DEF Inv, Separate, Tagged
<1>5. Past' /\ Erasure'
  BY <1>1, <1>2 DEF Inv, Past, Erasure
<1>6. Unsaved'
  <2> SUFFICES ASSUME ~failed PROVE Behind'
    BY <1>1 DEF Unsaved
  <2>1. dirty \in Nat /\ dirty < PersistEvery
    BY <1>1 DEF Inv, TypeOK, Unsaved, Behind
  <2> QED
    BY <1>1, <1>2, <2>1, NothingBehind DEF Behind
<1> QED
  BY <1>3, <1>4, <1>5, <1>6 DEF Inv

\* The file is replaced: it holds what memory holds, and the drop is done.
LEMMA ReplaceInv ==
    ASSUME Inv, Replace
    PROVE  Inv'
<1>1. /\ pc = "persist" /\ pc' = "idle" /\ file' = Blob(spaces) /\ dirty' = 0
      /\ erased' = erased \union dropping /\ dropping' = {} /\ failed' = FALSE
      /\ UNCHANGED <<mode, spaces, open, store, ops>>
  BY DEF Replace
<1>2. Decode(file') = spaces
  BY <1>1, RoundTrip DEF Inv, TypeOK
<1>3. Live' = Live /\ OnFile' = Live
  BY <1>1, <1>2, Both
<1>4. failed' \in BOOLEAN
  BY <1>1, Zenon
<1>5. TypeOK'
  BY <1>1, <1>2, <1>4 DEF Inv, TypeOK, IsFamily
<1>6. Separate'
  BY <1>1, <1>2 DEF Inv, Separate, Tagged
<1>7. Past' /\ Erasure'
  BY <1>1, <1>3 DEF Inv, Past, Erasure
<1>8. Unsaved'
  <2>1. 0 \in Nat /\ 0 < PersistEvery
    BY PersistAssumption
  <2>2. Behind'
    BY <1>1, <1>3, <2>1, NothingBehind DEF Behind
  <2> QED
    BY <1>1, <2>2 DEF Unsaved
<1> QED
  BY <1>5, <1>6, <1>7, <1>8 DEF Inv

\* The file stays as it was: memory may be ahead of it by more than the counter says.
LEMMA ReplaceFailsInv ==
    ASSUME Inv, ReplaceFails
    PROVE  Inv'
<1>1. /\ pc' = "idle" /\ dropping' = {} /\ failed' = TRUE
      /\ UNCHANGED <<mode, spaces, dirty, open, file, store, erased, ops>>
  BY DEF ReplaceFails
<1>2. Live' = Live /\ OnFile' = OnFile
  BY <1>1, Both
<1>3. failed' \in BOOLEAN
  BY <1>1, Zenon
<1>4. TypeOK'
  BY <1>1, <1>3 DEF Inv, TypeOK, IsFamily
<1>5. Separate'
  BY <1>1 DEF Inv, Separate, Tagged
<1>6. Past' /\ Erasure'
  BY <1>1, <1>2 DEF Inv, Past, Erasure
<1>7. Unsaved'
  BY <1>1 DEF Unsaved
<1> QED
  BY <1>4, <1>5, <1>6, <1>7 DEF Inv

\* The invariant is inductive.
LEMMA StepInv == Inv /\ [Next]_vars => Inv'
<1> SUFFICES ASSUME Inv, [Next]_vars PROVE Inv'
  OBVIOUS
<1>1. CASE UNCHANGED vars
  <2>1. UNCHANGED <<mode, pc, spaces, dirty, open, file, store, dropping, erased, failed, ops>>
    BY <1>1 DEF vars
  <2>2. Live' = Live /\ OnFile' = OnFile
    BY <2>1, Both
  <2>3. TypeOK'
    BY <2>1 DEF Inv, TypeOK, IsFamily
  <2>4. Separate'
    BY <2>1 DEF Inv, Separate, Tagged
  <2>5. Past' /\ Erasure'
    BY <2>1, <2>2 DEF Inv, Past, Erasure
  <2>6. Unsaved'
    BY <2>1, <2>2, SameBehind DEF Inv, Unsaved
  <2> QED
    BY <2>3, <2>4, <2>5, <2>6 DEF Inv
<1>2. CASE Start \/ Stop
  BY <1>2, StartInv, StopInv
<1>3. CASE \E n \in Namespaces : Write(n) \/ Consolidate(n) \/ Look(n) \/ Drop(n)
  BY <1>3, WriteInv, ConsolidateInv, LookInv, DropInv
<1>4. CASE Close \/ Load \/ Replace \/ ReplaceFails
  BY <1>4, CloseInv, LoadInv, ReplaceInv, ReplaceFailsInv
<1> QED
  BY <1>1, <1>2, <1>3, <1>4 DEF Next

-----------------------------------------------------------------------------
(* The theorems *)

\* The strengthened invariant holds of every behaviour of the service.
THEOREM InvIsInvariant == Spec => []Inv
<1> QED
  BY InitInv, StepInv, PTL DEF Spec

\* Every variable of the service keeps its type.
THEOREM TypeCorrect == Spec => []TypeOK
<1>1. Inv => TypeOK
  BY DEF Inv
<1> QED
  BY <1>1, InvIsInvariant, PTL

\* No brain, live or reopened from either blob format, holds what another
\* tenant wrote.
THEOREM IsolationHolds == Spec => []Isolation
<1>1. Inv => Isolation
  <2> SUFFICES ASSUME Inv PROVE Isolation
    OBVIOUS
  <2>1. Separate
    BY DEF Inv
  <2> QED
    BY <2>1 DEF Isolation, Separate, Tagged, Content
<1> QED
  BY <1>1, InvIsInvariant, PTL

\* In path mode a crash between two calls loses at most the last
\* PersistEvery - 1 writes, over all namespaces, and brings nothing back.
THEOREM BoundedLossHolds == Spec => []BoundedLoss
<1>1. Inv => BoundedLoss
  BY DEF Inv, Unsaved, Behind, BoundedLoss
<1> QED
  BY <1>1, InvIsInvariant, PTL

\* In path mode what a drop that returned erased is neither in memory nor on
\* file ever after.
THEOREM DropIsFinal == Spec => []DropIsFinalOnFile
<1>1. Inv => DropIsFinalOnFile
  BY DEF Inv, Erasure, DropIsFinalOnFile
<1> QED
  BY <1>1, InvIsInvariant, PTL

\* Without store mode a drop is final for good: the store is all that brings an
\* erased tenant back.
THEOREM DropIsPermanentInPathMode ==
    ASSUME Modes = {"path"}
    PROVE  Spec => []DropIsPermanent
<1>1. Inv => DropIsPermanent
  BY DEF Inv, TypeOK, Erasure, DropIsPermanent
<1> QED
  BY <1>1, InvIsInvariant, PTL
=============================================================================
