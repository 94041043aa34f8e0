----------------------- MODULE NamespacedMemoryProofs -----------------------
(***************************************************************************)
(* What the registry of namespaces guarantees for any number of threads,   *)
(* namespaces, brains and writes: tenants stay apart, a write that         *)
(* returned is found unless its tenant was dropped or replaced, a dropped  *)
(* tenant comes back only out of a snapshot, and a snapshot misses no      *)
(* write that had returned when it began.                                  *)
(***************************************************************************)
EXTENDS NamespacedMemory, FiniteSetTheorems, TLAPS

Created == Cardinality(DOMAIN content)

IsBlob(b) ==
    /\ DOMAIN b \subseteq Namespaces /\ IsFiniteSet(DOMAIN b)
    /\ b \in [DOMAIN b -> SUBSET Entry]

Typed ==
    /\ Created \in 0 .. MaxBrains /\ content \in [1 .. Created -> SUBSET Entry]
    /\ spaces \in [Namespaces -> (1 .. Created) \union {NoBrain}] /\ IsFiniteSet(InUse)
    /\ holding \in [Threads -> {Idle} \union [brain : 1 .. Created, entry : Entry]]
    /\ snapper \in Threads \union {NoBrain} /\ (part = NoBlob <=> snapper = NoBrain)
    /\ part # NoBlob => IsBlob(part) /\ DOMAIN part \subseteq InUse
    /\ blob # NoBlob => IsBlob(blob)
    /\ returned \subseteq Entry /\ excused \subseteq Entry /\ due \subseteq returned
    /\ writes \in 0 .. MaxWrites

\* Nothing has the number of a write to come.
Past ==
    /\ \A e \in returned \union excused : e.number \in 1 .. writes
    /\ \A t \in Threads : holding[t] # Idle => holding[t].entry.number \in 1 .. writes

Tagged(b) == \A n \in DOMAIN b : \A e \in b[n] : e.namespace = n

\* A registered brain has one namespace: of what it took, of the writes about
\* to reach it, and of what was read from it.
Separate ==
    /\ \A m, n \in InUse : spaces[m] = spaces[n] => m = n
    /\ \A n \in InUse : \A e \in content[spaces[n]] : e.namespace = n
    /\ \A t \in Threads, n \in InUse :
         holding[t] # Idle /\ holding[t].brain = spaces[n] => holding[t].entry.namespace = n
    /\ part # NoBlob => Tagged(part)
    /\ blob # NoBlob => Tagged(blob)

\* A write under way that is not excused is about to reach the registered brain.
Landing ==
    /\ WritesLand
    /\ \A t \in Threads : holding[t] # Idle /\ holding[t].entry \notin excused
         => spaces[holding[t].entry.namespace] = holding[t].brain

\* One that is excused will not, and what a registered brain has of the
\* excused is in what was read from it.
Dropped ==
    /\ DroppedStaysDropped
    /\ \A t \in Threads, n \in InUse :
         holding[t] # Idle /\ holding[t].entry \in excused => holding[t].brain # spaces[n]
    /\ part # NoBlob => \A n \in DOMAIN part :
         content[spaces[n]] \intersect excused \subseteq part[n]

\* What a snapshot under way owes is still registered, or was read.
Complete ==
    /\ SnapshotComplete
    /\ snapper # NoBrain =>
         /\ due \intersect excused = {}
         /\ \A e \in due : e.namespace \in DOMAIN part => e \in part[e.namespace]

Inv == Typed /\ Past /\ Separate /\ Landing /\ Dropped /\ Complete

-----------------------------------------------------------------------------
(* Lemmas on brains and their numbers *)

\* How many brains there are, once their numbers are known.
LEMMA CreatedIs ==
    ASSUME NEW k \in Nat, NEW c, DOMAIN c = 1 .. k
    PROVE  Cardinality(DOMAIN c) = k
<1>1. Cardinality(1 .. k) = IF 1 > k THEN 0 ELSE k - 1 + 1
  BY FS_Interval
<1> QED
  BY <1>1

\* What one more empty brain does.
LEMMA AddingBrain ==
    ASSUME NEW k \in Nat, content \in [1 .. k -> SUBSET Entry],
           content' = Adding(content, k + 1, {})
    PROVE  /\ Created' = k + 1 /\ content' \in [1 .. k + 1 -> SUBSET Entry]
           /\ content'[k + 1] = {} /\ \A b \in 1 .. k : content'[b] = content[b]
           /\ k + 1 \notin 1 .. k /\ \A b \in 1 .. k : b \in 1 .. k + 1
<1>1. (1 .. k) \union {k + 1} = 1 .. k + 1 /\ k + 1 \notin 1 .. k /\ DOMAIN content = 1 .. k
  OBVIOUS
<1>2. content' = [b \in 1 .. k + 1 |-> IF b = k + 1 THEN {} ELSE content[b]]
  BY <1>1 DEF Adding
<1>3. DOMAIN content' = 1 .. k + 1
  BY <1>2
<1>4. Created' = k + 1
  BY <1>3, CreatedIs DEF Created
<1>5. \A b \in 1 .. k + 1 : b # k + 1 => b \in 1 .. k
  OBVIOUS
<1>6. content' \in [1 .. k + 1 -> SUBSET Entry]
  BY <1>2, <1>5
<1>7. \A b \in 1 .. k : b \in 1 .. k + 1 /\ b # k + 1
  BY <1>1
<1> QED
  BY <1>1, <1>2, <1>4, <1>6, <1>7

\* The names in use, when one name at most is added.
LEMMA InUseGrows ==
    ASSUME NEW n, IsFiniteSet(InUse), \A m \in Namespaces : m # n => spaces'[m] = spaces[m]
    PROVE  IsFiniteSet(InUse')
<1>1. InUse' \subseteq InUse \union {n}
  BY DEF InUse
<1>2. IsFiniteSet(InUse \union {n})
  BY FS_AddElement
<1> QED
  BY <1>1, <1>2, FS_Subset

\* Threads, entries and brains are not NoBrain, and no blob is NoBlob.
LEMMA NoneIs ==
    /\ \A k \in 1 .. MaxBrains : k # NoBrain
    /\ \A t \in Threads : t # NoBrain
    /\ \A e \in Entry : e # NoBrain
    /\ \A b : IsBlob(b) => b # NoBlob
<1>1. ASSUME NEW b, IsBlob(b) PROVE b # NoBlob
  BY <1>1, NoneAssumption DEF IsBlob
<1> QED
  BY <1>1, NoneAssumption

\* What a thread holds.
LEMMA HoldingIs ==
    ASSUME Typed, NEW t \in Threads, holding[t] # Idle
    PROVE  /\ holding[t].brain \in 1 .. Created /\ holding[t].entry \in Entry
           /\ holding[t].entry.namespace \in Namespaces
           /\ holding[t].brain # NoBrain
<1>1. holding[t] \in [brain : 1 .. Created, entry : Entry]
  BY DEF Typed
<1>2. \A k \in 1 .. Created : k \in 1 .. MaxBrains
  BY BoundsAssumption DEF Typed
<1> QED
  BY <1>1, <1>2, NoneIs DEF Entry

\* The names in use and their brains.
LEMMA InUseIs ==
    ASSUME Typed
    PROVE  /\ \A n \in InUse : n \in Namespaces /\ spaces[n] \in 1 .. Created
           /\ \A n \in Namespaces : n \in InUse <=> spaces[n] # NoBrain
           /\ \A k \in 1 .. Created : k # NoBrain
<1>1. \A k \in 1 .. Created : k \in 1 .. MaxBrains
  BY BoundsAssumption DEF Typed
<1> QED
  BY <1>1, NoneIs DEF Typed, InUse

-----------------------------------------------------------------------------
(* Each step preserves the invariant *)

\* At first no name is in use and no write was done.
LEMMA InitInv == Init => Inv
<1> SUFFICES ASSUME Init PROVE Inv
  OBVIOUS
<1>1. DOMAIN content = {} /\ 1 .. 0 = {}
  BY DEF Init
<1>2. Created = 0
  BY <1>1, FS_EmptySet DEF Created
<1>3. content \in [1 .. Created -> SUBSET Entry]
  BY <1>1, <1>2 DEF Init
<1>4. InUse = {}
  BY DEF Init, InUse
<1>5. IsFiniteSet(InUse)
  BY <1>4, FS_EmptySet
<1>6. 0 \in 0 .. MaxBrains /\ 0 \in 0 .. MaxWrites
  BY BoundsAssumption
<1>7. Typed
  BY <1>2, <1>3, <1>5, <1>6 DEF Init, Typed
<1>8. Past /\ Separate
  BY <1>4 DEF Init, Past, Separate
<1>9. Landing /\ Dropped /\ Complete
  BY <1>4 DEF Init, Landing, WritesLand, Dropped, DroppedStaysDropped, Complete, SnapshotComplete
<1> QED
  BY <1>7, <1>8, <1>9 DEF Inv

\* space() finds the brain of the namespace or creates one that is new to all.
LEMMA SpaceIs ==
    ASSUME Typed, NEW n \in Namespaces, NEW brain, Space(n, brain)
    PROVE  /\ Created' \in Created .. MaxBrains
           /\ content' \in [1 .. Created' -> SUBSET Entry]
           /\ \A b \in 1 .. Created : content'[b] = content[b]
           /\ brain \in 1 .. Created' /\ brain # NoBrain /\ spaces'[n] = brain
           /\ spaces[n] = NoBrain => brain \notin 1 .. Created /\ content'[brain] = {}
           /\ spaces[n] # NoBrain => spaces[n] = brain
           /\ \A m \in Namespaces : m # n => spaces'[m] = spaces[m]
           /\ spaces' \in [Namespaces -> (1 .. Created') \union {NoBrain}]
           /\ IsFiniteSet(InUse')
<1> DEFINE k == Created
<1>1. /\ k \in 0 .. MaxBrains /\ k \in Nat /\ content \in [1 .. k -> SUBSET Entry]
      /\ spaces \in [Namespaces -> (1 .. k) \union {NoBrain}] /\ IsFiniteSet(InUse)
  BY DEF Typed
<1>2. CASE spaces[n] # NoBrain
  <2>1. brain = spaces[n] /\ spaces' = spaces /\ content' = content
    BY <1>2 DEF Space
  <2>2. Created' = k /\ k \in k .. MaxBrains
    BY <1>1, <2>1 DEF Created
  <2>3. InUse' = InUse
    BY <2>1 DEF InUse
  <2> HIDE DEF k
  <2>4. brain \in 1 .. k
    BY <1>1, <1>2, <2>1
  <2> QED
    BY <1>1, <1>2, <2>1, <2>2, <2>3, <2>4 DEF k
<1>3. CASE spaces[n] = NoBrain
  <2>1. /\ NewBrain = k + 1 /\ k + 1 <= MaxBrains
        /\ brain = k + 1 /\ spaces' = [spaces EXCEPT ![n] = k + 1]
        /\ content' = Adding(content, k + 1, {})
    BY <1>3 DEF Space, CanCreate, NewBrain, Created
  <2>2. /\ Created' = k + 1 /\ content' \in [1 .. k + 1 -> SUBSET Entry]
        /\ content'[k + 1] = {} /\ \A b \in 1 .. k : content'[b] = content[b]
        /\ k + 1 \notin 1 .. k /\ \A b \in 1 .. k : b \in 1 .. k + 1
    BY <1>1, <2>1, AddingBrain
  <2>3. k + 1 \in k .. MaxBrains /\ k + 1 \in 1 .. MaxBrains /\ k + 1 \in 1 .. k + 1
    BY <1>1, <2>1, BoundsAssumption
  <2>4. spaces'[n] = k + 1 /\ \A m \in Namespaces : m # n => spaces'[m] = spaces[m]
    BY <1>1, <2>1
  <2>5. spaces' \in [Namespaces -> (1 .. k + 1) \union {NoBrain}]
    BY <1>1, <2>1, <2>2, <2>3
  <2>6. IsFiniteSet(InUse')
    BY <1>1, <2>4, InUseGrows
  <2>7. k + 1 # NoBrain
    BY <2>3, NoneIs
  <2> HIDE DEF k
  <2> QED
    BY <1>3, <2>1, <2>2, <2>3, <2>4, <2>5, <2>6, <2>7 DEF k
<1> QED
  BY <1>2, <1>3

\* The first half of a write: a thread comes to hold the registered brain.
LEMMA BeginWriteInv ==
    ASSUME Inv, NEW t \in Threads, NEW n \in Namespaces, BeginWrite(t, n)
    PROVE  Inv'
<1> DEFINE e == [namespace |-> n, number |-> writes + 1]
<1>1. PICK brain : /\ Space(n, brain)
                   /\ holding' = [holding EXCEPT ![t] = [brain |-> brain, entry |-> e]]
  BY DEF BeginWrite
<1>2. /\ holding[t] = Idle /\ writes < MaxWrites /\ writes' = writes + 1 /\ snapper = NoBrain
      /\ UNCHANGED <<snapper, part, blob, returned, due, excused>>
  BY <1>1 DEF BeginWrite, Space, Free
<1>3. writes \in Nat /\ writes + 1 \in 1 .. MaxWrites /\ writes' \in 0 .. MaxWrites
  BY <1>2, BoundsAssumption DEF Inv, Typed
<1>4. e \in Entry /\ e.namespace = n /\ e.number = writes + 1
  BY <1>3 DEF Entry
<1> HIDE DEF e
<1>5. /\ Created' \in Created .. MaxBrains
      /\ content' \in [1 .. Created' -> SUBSET Entry]
      /\ \A b \in 1 .. Created : content'[b] = content[b]
      /\ brain \in 1 .. Created' /\ brain # NoBrain /\ spaces'[n] = brain
      /\ spaces[n] = NoBrain => brain \notin 1 .. Created /\ content'[brain] = {}
      /\ spaces[n] # NoBrain => spaces[n] = brain
      /\ \A m \in Namespaces : m # n => spaces'[m] = spaces[m]
      /\ spaces' \in [Namespaces -> (1 .. Created') \union {NoBrain}]
      /\ IsFiniteSet(InUse')
  BY <1>1, SpaceIs DEF Inv
<1>6. Created \in Nat /\ \A b \in 1 .. Created : b \in 1 .. Created'
  BY <1>5 DEF Inv, Typed
<1>7. part = NoBlob
  BY <1>2 DEF Inv, Typed
<1>8. /\ holding'[t] = [brain |-> brain, entry |-> e]
      /\ holding'[t].brain = brain /\ holding'[t].entry = e
      /\ \A u \in Threads : u # t => holding'[u] = holding[u]
  BY <1>1 DEF Inv, Typed
<1>9. Typed'
  <2>1. Created' \in 0 .. MaxBrains
    BY <1>5, <1>6, BoundsAssumption
  <2>2. holding' \in [Threads -> {Idle} \union [brain : 1 .. Created', entry : Entry]]
    BY <1>1, <1>4, <1>5, <1>6 DEF Inv, Typed
  <2> QED
    BY <1>2, <1>3, <1>5, <1>7, <2>1, <2>2 DEF Inv, Typed, IsBlob
<1>10. \A k \in 1 .. writes : k \in 1 .. writes'
  BY <1>2, <1>3
<1>11. Past'
  <2>1. writes + 1 \in 1 .. writes'
    BY <1>2, <1>3
  <2> QED
    BY <1>2, <1>4, <1>8, <1>10, <2>1 DEF Inv, Past
<1>12. \A m \in InUse' : m # n => m \in InUse /\ spaces'[m] = spaces[m] /\ spaces[m] \in 1 .. Created
  BY <1>5, InUseIs DEF InUse, Inv
<1>13. e \notin excused
  <2>1. writes + 1 \notin 1 .. writes
    BY <1>3
  <2> QED
    BY <1>4, <2>1 DEF Inv, Past
<1>14. n \in Namespaces /\ n \in InUse'
  BY <1>5 DEF InUse
<1>15. spaces[n] # NoBrain => n \in InUse /\ brain \in 1 .. Created
  BY <1>5, InUseIs DEF Inv
<1>16. Separate'
  <2>1. \A m \in InUse' : m # n => spaces'[m] # brain
    BY <1>5, <1>12, <1>15 DEF Inv, Separate
  <2>2. \A k, m \in InUse' : spaces'[k] = spaces'[m] => k = m
    BY <1>5, <1>12, <2>1 DEF Inv, Separate
  <2>3. \A m \in InUse' : \A x \in content'[spaces'[m]] : x.namespace = m
    <3>1. ASSUME NEW m \in InUse', m # n, NEW x \in content'[spaces'[m]]
          PROVE  x.namespace = m
      BY <1>5, <1>12, <3>1 DEF Inv, Separate
    <3>2. ASSUME NEW x \in content'[spaces'[n]] PROVE x.namespace = n
      BY <1>5, <1>15, <3>2 DEF Inv, Separate
    <3> QED
      BY <3>1, <3>2
  <2>4. ASSUME NEW u \in Threads, NEW m \in InUse', holding'[u] # Idle, holding'[u].brain = spaces'[m]
        PROVE  holding'[u].entry.namespace = m
    <3>1. CASE u = t
      BY <1>4, <1>8, <2>1, <2>4, <3>1
    <3>2. CASE u # t
      <4>1. holding[u] # Idle /\ holding[u].brain = spaces'[m] /\ holding[u].brain \in 1 .. Created
        BY <1>8, <2>4, <3>2, HoldingIs DEF Inv
      <4>2. m \in InUse /\ holding[u].brain = spaces[m]
        BY <1>5, <1>12, <1>15, <4>1
      <4>3. holding[u].entry.namespace = m
        BY <4>1, <4>2 DEF Inv, Separate
      <4> QED
        BY <1>8, <3>2, <4>3
    <3> QED
      BY <3>1, <3>2
  <2> QED
    BY <1>2, <2>2, <2>3, <2>4 DEF Inv, Separate
<1>17. Landing'
  <2>1. ASSUME NEW x \in returned \ excused
        PROVE  spaces'[x.namespace] # NoBrain /\ x \in content'[spaces'[x.namespace]]
    <3>1. spaces[x.namespace] # NoBrain /\ x \in content[spaces[x.namespace]] /\ x.namespace \in Namespaces
      BY <2>1 DEF Inv, Landing, WritesLand, Typed, Entry
    <3>2. spaces'[x.namespace] = spaces[x.namespace] /\ spaces[x.namespace] \in 1 .. Created
      BY <1>5, <3>1, InUseIs DEF Inv
    <3> QED
      BY <1>5, <3>1, <3>2
  <2>2. ASSUME NEW u \in Threads, holding'[u] # Idle, holding'[u].entry \notin excused
        PROVE  spaces'[holding'[u].entry.namespace] = holding'[u].brain
    <3>1. CASE u = t
      BY <1>4, <1>5, <1>8, <3>1
    <3>2. CASE u # t
      <4>1. /\ holding[u] # Idle /\ holding[u].brain # NoBrain
            /\ holding[u].entry.namespace \in Namespaces
        BY <1>8, <2>2, <3>2, HoldingIs DEF Inv
      <4>2. spaces[holding[u].entry.namespace] = holding[u].brain
        BY <1>8, <2>2, <3>2, <4>1 DEF Inv, Landing
      <4>3. spaces'[holding[u].entry.namespace] = spaces[holding[u].entry.namespace]
        BY <1>5, <4>1, <4>2
      <4> QED
        BY <1>8, <3>2, <4>2, <4>3
    <3> QED
      BY <3>1, <3>2
  <2> QED
    BY <1>2, <2>1, <2>2 DEF Landing, WritesLand
<1>18. Dropped'
  <2>1. ASSUME NEW m \in InUse', NEW x \in content'[spaces'[m]] \intersect excused
        PROVE  blob # NoBlob /\ m \in DOMAIN blob /\ x \in blob[m]
    <3>1. m \in InUse /\ x \in content[spaces[m]]
      BY <1>5, <1>12, <1>15, <2>1
    <3> QED
      BY <2>1, <3>1 DEF Inv, Dropped, DroppedStaysDropped
  <2>2. ASSUME NEW u \in Threads, NEW m \in InUse', holding'[u] # Idle, holding'[u].entry \in excused
        PROVE  holding'[u].brain # spaces'[m]
    <3>1. u # t
      BY <1>8, <1>13, <2>2
    <3>2. holding'[u] = holding[u] /\ holding[u].brain \in 1 .. Created
      BY <1>8, <2>2, <3>1, HoldingIs DEF Inv
    <3>3. m \in InUse => holding[u].brain # spaces[m]
      BY <2>2, <3>2 DEF Inv, Dropped
    <3> QED
      BY <1>5, <1>12, <1>15, <3>2, <3>3
  <2> QED
    BY <1>2, <1>7, <2>1, <2>2 DEF Dropped, DroppedStaysDropped
<1>19. Complete'
  BY <1>2 DEF Inv, Complete, SnapshotComplete
<1> QED
  BY <1>9, <1>11, <1>16, <1>17, <1>18, <1>19 DEF Inv

\* The second half: the brain takes the write, registered or not by now.
LEMMA FinishWriteInv ==
    ASSUME Inv, NEW t \in Threads, FinishWrite(t)
    PROVE  Inv'
<1> DEFINE b == holding[t].brain
           e == holding[t].entry
           n == e.namespace
<1>1. /\ holding[t] # Idle /\ content' = [content EXCEPT ![b] = @ \union {e}]
      /\ returned' = returned \union {e} /\ holding' = [holding EXCEPT ![t] = Idle]
      /\ UNCHANGED <<spaces, snapper, part, blob, due, excused, writes>>
  BY DEF FinishWrite
<1>2. b \in 1 .. Created /\ e \in Entry /\ n \in Namespaces /\ b # NoBrain
  BY <1>1, HoldingIs DEF Inv
<1>3. content \in [1 .. Created -> SUBSET Entry] /\ Created \in Nat
  BY DEF Inv, Typed
<1>4. DOMAIN content' = DOMAIN content /\ Created' = Created
  BY <1>1 DEF Created
<1>5. /\ content'[b] = content[b] \union {e}
      /\ \A c \in 1 .. Created : c # b => content'[c] = content[c]
      /\ content' \in [1 .. Created -> SUBSET Entry]
  BY <1>1, <1>2, <1>3
<1>6. \A u \in Threads : holding'[u] # Idle => u # t /\ holding'[u] = holding[u]
  BY <1>1 DEF Inv, Typed
<1>7. InUse' = InUse
  BY <1>1 DEF InUse
<1>8. \A m \in InUse : m \in Namespaces /\ spaces[m] \in 1 .. Created
  BY InUseIs DEF Inv
<1>9. /\ \A m \in InUse : b = spaces[m] => n = m
      /\ \A m \in InUse : e \in excused => b # spaces[m]
      /\ e \notin excused => spaces[n] = b
      /\ e.number \in 1 .. writes
  BY <1>1 DEF Inv, Separate, Dropped, Landing, Past
<1> HIDE DEF b, e, n
<1>10. Typed'
  <2>1. holding' \in [Threads -> {Idle} \union [brain : 1 .. Created, entry : Entry]]
    BY <1>1 DEF Inv, Typed
  <2> QED
    BY <1>1, <1>2, <1>4, <1>5, <1>7, <2>1 DEF Inv, Typed, IsBlob
<1>11. Past'
  BY <1>1, <1>6, <1>9 DEF Inv, Past
<1>12. Separate'
  <2>1. ASSUME NEW m \in InUse, NEW x \in content'[spaces[m]] PROVE x.namespace = m
    <3>1. spaces[m] \in 1 .. Created
      BY <1>8
    <3>2. x \in content[spaces[m]] \/ (b = spaces[m] /\ x = e)
      BY <1>5, <2>1, <3>1
    <3>3. e.namespace = n
      BY DEF n
    <3> QED
      BY <1>9, <3>2, <3>3 DEF Inv, Separate
  <2> QED
    BY <1>1, <1>6, <1>7, <2>1 DEF Inv, Separate
<1>13. Landing'
  <2>1. ASSUME NEW x \in (returned \union {e}) \ excused
        PROVE  spaces[x.namespace] # NoBrain /\ x \in content'[spaces[x.namespace]]
    <3>1. CASE x = e
      <4>1. x.namespace = n /\ spaces[n] = b
        BY <1>9, <2>1, <3>1 DEF n
      <4> QED
        BY <1>2, <1>5, <3>1, <4>1
    <3>2. CASE x # e
      <4>1. spaces[x.namespace] # NoBrain /\ x \in content[spaces[x.namespace]] /\ x.namespace \in Namespaces
        BY <2>1, <3>2 DEF Inv, Landing, WritesLand, Typed, Entry
      <4>2. spaces[x.namespace] \in 1 .. Created
        BY <4>1, InUseIs DEF Inv
      <4> QED
        BY <1>5, <4>1, <4>2
    <3> QED
      BY <3>1, <3>2
  <2> QED
    BY <1>1, <1>6, <2>1 DEF Inv, Landing, WritesLand
<1>14. \A m \in InUse : content'[spaces[m]] \intersect excused = content[spaces[m]] \intersect excused
  BY <1>2, <1>5, <1>8, <1>9
<1>15. Dropped'
  <2>1. ASSUME NEW m \in InUse, NEW x \in content'[spaces[m]] \intersect excused
        PROVE  blob # NoBlob /\ m \in DOMAIN blob /\ x \in blob[m]
    BY <1>14, <2>1 DEF Inv, Dropped, DroppedStaysDropped
  <2>2. part # NoBlob => \A m \in DOMAIN part : content'[spaces[m]] \intersect excused \subseteq part[m]
    BY <1>14 DEF Inv, Dropped, Typed
  <2> QED
    BY <1>1, <1>6, <1>7, <2>1, <2>2 DEF Inv, Dropped, DroppedStaysDropped
<1>16. Complete'
  BY <1>1 DEF Inv, Complete, SnapshotComplete
<1> QED
  BY <1>10, <1>11, <1>12, <1>13, <1>15, <1>16 DEF Inv

\* A snapshot begins with nothing read, and owes what has returned.
LEMMA BeginSnapshotInv ==
    ASSUME Inv, NEW t \in Threads, BeginSnapshot(t)
    PROVE  Inv'
<1>1. /\ snapper' = t /\ part' = [n \in {} |-> {}] /\ due' = returned \ excused
      /\ UNCHANGED <<spaces, content, holding, blob, returned, excused, writes>>
  BY DEF BeginSnapshot
<1>2. DOMAIN part' = {} /\ part' \in [{} -> SUBSET Entry]
  BY <1>1
<1>3. IsBlob(part')
  BY <1>2, FS_EmptySet DEF IsBlob
<1>4. part' # NoBlob /\ snapper' # NoBrain
  BY <1>1, <1>3, NoneIs
<1>5. InUse' = InUse /\ Created' = Created
  BY <1>1 DEF InUse, Created
<1>6. Typed'
  <2>1. IsBlob(blob)' <=> IsBlob(blob)
    BY <1>1 DEF IsBlob
  <2>2. IsBlob(part)'
    BY <1>3 DEF IsBlob
  <2>3. due' \subseteq returned'
    BY <1>1
  <2>4. snapper' \in Threads \union {NoBrain}
    BY <1>1
  <2>5. DOMAIN part' \subseteq InUse'
    BY <1>2
  <2> QED
    BY <1>1, <1>4, <1>5, <2>1, <2>2, <2>3, <2>4, <2>5 DEF Inv, Typed
<1>7. Past'
  BY <1>1 DEF Inv, Past
<1>8. Separate'
  BY <1>1, <1>2, <1>5 DEF Inv, Separate, Tagged
<1>9. Landing'
  BY <1>1 DEF Inv, Landing, WritesLand
<1>10. Dropped'
  BY <1>1, <1>2, <1>5 DEF Inv, Dropped, DroppedStaysDropped
<1>11. Complete'
  BY <1>1, <1>2, <1>4 DEF Inv, Complete, SnapshotComplete
<1> QED
  BY <1>6, <1>7, <1>8, <1>9, <1>10, <1>11 DEF Inv

\* One more brain is read: what it holds now is in the part.
LEMMA ReadBrainInv ==
    ASSUME Inv, ReadBrain
    PROVE  Inv'
<1>1. PICK n \in Pending : part' = Adding(part, n, content[spaces[n]])
  BY DEF ReadBrain
<1>2. /\ snapper # NoBrain /\ n \in InUse /\ n \notin DOMAIN part
      /\ UNCHANGED <<spaces, content, holding, snapper, blob, returned, due, excused, writes>>
  BY <1>1 DEF ReadBrain, Pending
<1>3. /\ part # NoBlob /\ DOMAIN part \subseteq InUse /\ IsFiniteSet(DOMAIN part)
      /\ part \in [DOMAIN part -> SUBSET Entry]
  BY <1>2 DEF Inv, Typed, IsBlob
<1>4. n \in Namespaces /\ spaces[n] \in 1 .. Created /\ \A m \in InUse : m \in Namespaces
  BY <1>2, InUseIs DEF Inv
<1>5. content[spaces[n]] \subseteq Entry
  BY <1>4 DEF Inv, Typed
<1>6. /\ DOMAIN part' = DOMAIN part \union {n} /\ part'[n] = content[spaces[n]]
      /\ \A m \in DOMAIN part : part'[m] = part[m]
      /\ part' \in [DOMAIN part' -> SUBSET Entry]
  BY <1>1, <1>2, <1>3, <1>5 DEF Adding
<1>7. IsFiniteSet(DOMAIN part')
  BY <1>3, <1>6, FS_AddElement
<1>8. IsBlob(part') /\ part' # NoBlob /\ DOMAIN part' \subseteq InUse
  <2>1. IsBlob(part')
    BY <1>3, <1>4, <1>6, <1>7 DEF IsBlob
  <2> QED
    BY <1>2, <1>3, <1>6, <2>1, NoneIs
<1>9. InUse' = InUse /\ Created' = Created
  BY <1>2 DEF InUse, Created
<1>10. Typed'
  <2>1. IsBlob(blob)' <=> IsBlob(blob)
    BY <1>2 DEF IsBlob
  <2>2. IsBlob(part)'
    BY <1>8 DEF IsBlob
  <2> QED
    BY <1>2, <1>8, <1>9, <2>1, <2>2 DEF Inv, Typed
<1>11. Past'
  BY <1>2 DEF Inv, Past
<1>12. Separate'
  <2>1. \A x \in content[spaces[n]] : x.namespace = n
    BY <1>2 DEF Inv, Separate
  <2>2. Tagged(part) /\ (blob # NoBlob => Tagged(blob))
    BY <1>3 DEF Inv, Separate
  <2>3. Tagged(part)' /\ (blob' # NoBlob => Tagged(blob)')
    BY <1>2, <1>6, <2>1, <2>2 DEF Tagged
  <2> QED
    BY <1>2, <1>9, <2>3 DEF Inv, Separate
<1>13. Landing'
  BY <1>2 DEF Inv, Landing, WritesLand
<1>14. Dropped'
  <2>1. \A m \in DOMAIN part' : content[spaces[m]] \intersect excused \subseteq part'[m]
    BY <1>3, <1>6 DEF Inv, Dropped
  <2> QED
    BY <1>2, <1>9, <2>1 DEF Inv, Dropped, DroppedStaysDropped
<1>15. Complete'
  <2>1. ASSUME NEW x \in due, x.namespace \in DOMAIN part' PROVE x \in part'[x.namespace]
    <3>1. CASE x.namespace \in DOMAIN part
      BY <1>2, <1>6, <2>1, <3>1 DEF Inv, Complete
    <3>2. CASE x.namespace = n
      <4>1. x \in returned \ excused
        BY <1>2, <2>1 DEF Inv, Complete, Typed
      <4>2. x \in content[spaces[x.namespace]]
        BY <4>1 DEF Inv, Landing, WritesLand
      <4> QED
        BY <1>6, <3>2, <4>2
    <3> QED
      BY <1>6, <2>1, <3>1, <3>2
  <2> QED
    BY <1>2, <2>1 DEF Inv, Complete, SnapshotComplete
<1> QED
  BY <1>10, <1>11, <1>12, <1>13, <1>14, <1>15 DEF Inv

\* Every brain that is registered was read: the part is the snapshot.
LEMMA EndSnapshotInv ==
    ASSUME Inv, EndSnapshot
    PROVE  Inv'
<1>1. /\ snapper # NoBrain /\ Pending = {} /\ blob' = part /\ snapper' = NoBrain /\ part' = NoBlob
      /\ UNCHANGED <<spaces, content, holding, returned, due, excused, writes>>
  BY DEF EndSnapshot
<1>2. part # NoBlob /\ IsBlob(part)
  BY <1>1 DEF Inv, Typed
<1>3. InUse \subseteq DOMAIN part
  BY <1>1 DEF Pending
<1>4. InUse' = InUse /\ Created' = Created
  BY <1>1 DEF InUse, Created
<1>5. Typed'
  <2>1. IsBlob(blob)'
    BY <1>1, <1>2 DEF IsBlob
  <2> QED
    BY <1>1, <1>4, <2>1 DEF Inv, Typed
<1>6. Past'
  BY <1>1 DEF Inv, Past
<1>7. Separate'
  <2>1. Tagged(blob)'
    BY <1>1, <1>2 DEF Inv, Separate, Tagged
  <2> QED
    BY <1>1, <1>4, <2>1 DEF Inv, Separate
<1>8. Landing'
  BY <1>1 DEF Inv, Landing, WritesLand
<1>9. Dropped'
  <2>1. ASSUME NEW m \in InUse, NEW x \in content[spaces[m]] \intersect excused
        PROVE  part # NoBlob /\ m \in DOMAIN part /\ x \in part[m]
    BY <1>2, <1>3, <2>1 DEF Inv, Dropped
  <2> QED
    BY <1>1, <1>4, <2>1 DEF Inv, Dropped, DroppedStaysDropped
<1>10. Complete'
  <2>1. ASSUME NEW x \in due PROVE x.namespace \in DOMAIN part /\ x \in part[x.namespace]
    <3>1. x \in returned \ excused /\ x.namespace \in Namespaces
      BY <1>1, <2>1 DEF Inv, Complete, Typed, Entry
    <3>2. spaces[x.namespace] # NoBrain
      BY <3>1 DEF Inv, Landing, WritesLand
    <3>3. x.namespace \in DOMAIN part
      BY <1>3, <3>1, <3>2 DEF InUse
    <3> QED
      BY <1>1, <2>1, <3>3 DEF Inv, Complete
  <2> QED
    BY <1>1, <2>1 DEF Complete, SnapshotComplete
<1> QED
  BY <1>5, <1>6, <1>7, <1>8, <1>9, <1>10 DEF Inv

-----------------------------------------------------------------------------
(* put(), drop() and restore() have one thing in common: the names in some  *)
(* set lose their brains, and get new ones or none.                         *)

\* The brain of a name holds nothing, or what the snapshot has for it.
Fresh(m) ==
    /\ spaces'[m] \in 1 .. Created' /\ spaces'[m] \notin 1 .. Created
    /\ \/ content'[spaces'[m]] = {}
       \/ blob # NoBlob /\ m \in DOMAIN blob /\ content'[spaces'[m]] = blob[m]

Replaced(names) ==
    /\ Free /\ UNCHANGED <<holding, snapper, part, blob, returned, due, writes>>
    /\ excused' = excused \union Begun(names)
    /\ Created' \in Created .. MaxBrains /\ content' \in [1 .. Created' -> SUBSET Entry]
    /\ \A b \in 1 .. Created : content'[b] = content[b]
    /\ spaces' \in [Namespaces -> (1 .. Created') \union {NoBrain}] /\ IsFiniteSet(InUse')
    /\ \A m \in Namespaces \ names : spaces'[m] = spaces[m]
    /\ \A m \in names : spaces'[m] # NoBrain => Fresh(m)
    /\ \A m, n \in names : spaces'[m] = spaces'[n] /\ spaces'[m] # NoBrain => m = n

\* What is begun: the writes to these names that returned or are held.
LEMMA BegunIs ==
    ASSUME Typed, NEW names
    PROVE  /\ Begun(names) \subseteq Entry
           /\ \A e \in Begun(names) : e.namespace \in names
           /\ \A e \in returned : e.namespace \in names => e \in Begun(names)
           /\ \A t \in Threads : holding[t] # Idle /\ holding[t].entry.namespace \in names
                => holding[t].entry \in Begun(names)
           /\ \A e \in Begun(names) : e \in returned
                \/ \E t \in Threads : holding[t] # Idle /\ e = holding[t].entry
<1>1. \A t \in Threads : holding[t] # Idle => holding[t].entry \in Entry
  BY HoldingIs
<1>2. Idle.entry = NoBrain
  BY DEF Idle
<1>3. \A e \in returned : e \in Entry /\ e # NoBrain
  BY NoneIs DEF Typed
<1>4. \A t \in Threads : holding[t] # Idle => holding[t].entry # NoBrain
  BY <1>1, NoneIs
<1>5. \A e \in Begun(names) : /\ e.namespace \in names
                              /\ e \in returned \/ \E t \in Threads : holding[t] # Idle /\ e = holding[t].entry
  BY <1>2 DEF Begun
<1> QED
  BY <1>1, <1>3, <1>4, <1>5 DEF Begun

\* Names that are replaced: their old brains and the writes to them are out of the way.
LEMMA ReplacedInv ==
    ASSUME Inv, NEW names \in SUBSET Namespaces, Replaced(names)
    PROVE  Inv'
<1>1. /\ snapper = NoBrain /\ UNCHANGED <<holding, snapper, part, blob, returned, due, writes>>
      /\ excused' = excused \union Begun(names)
  BY DEF Replaced, Free
<1>2. /\ Created' \in Created .. MaxBrains /\ content' \in [1 .. Created' -> SUBSET Entry]
      /\ \A b \in 1 .. Created : content'[b] = content[b]
      /\ spaces' \in [Namespaces -> (1 .. Created') \union {NoBrain}] /\ IsFiniteSet(InUse')
  BY DEF Replaced
<1>3. /\ \A m \in Namespaces \ names : spaces'[m] = spaces[m]
      /\ \A m \in names : spaces'[m] # NoBrain => Fresh(m)
      /\ \A m, n \in names : spaces'[m] = spaces'[n] /\ spaces'[m] # NoBrain => m = n
  BY DEF Replaced
<1>4. /\ Begun(names) \subseteq Entry
      /\ \A e \in Begun(names) : e.namespace \in names
      /\ \A e \in returned : e.namespace \in names => e \in Begun(names)
      /\ \A t \in Threads : holding[t] # Idle /\ holding[t].entry.namespace \in names
           => holding[t].entry \in Begun(names)
      /\ \A e \in Begun(names) : e \in returned
           \/ \E t \in Threads : holding[t] # Idle /\ e = holding[t].entry
  BY BegunIs DEF Inv
<1>5. part = NoBlob
  BY <1>1 DEF Inv, Typed
<1>6. Created \in Nat /\ \A b \in 1 .. Created : b \in 1 .. Created'
  BY <1>2 DEF Inv, Typed
<1>7. \A m \in InUse' : m \in Namespaces /\ spaces'[m] # NoBrain
  BY DEF InUse
<1>8. \A m \in InUse' : m \notin names
          => m \in InUse /\ spaces'[m] = spaces[m] /\ spaces[m] \in 1 .. Created
                         /\ content'[spaces'[m]] = content[spaces[m]]
  BY <1>2, <1>3, <1>7, InUseIs DEF InUse, Inv
<1>9. \A t \in Threads : holding[t] # Idle
          => holding[t].brain \in 1 .. Created /\ holding[t].entry.namespace \in Namespaces
  BY HoldingIs DEF Inv
<1>10. Typed'
  <2>1. Created' \in 0 .. MaxBrains
    BY <1>2, <1>6, BoundsAssumption
  <2>2. holding' \in [Threads -> {Idle} \union [brain : 1 .. Created', entry : Entry]]
    BY <1>1, <1>6 DEF Inv, Typed
  <2>3. IsBlob(blob)' <=> IsBlob(blob)
    BY <1>1 DEF IsBlob
  <2> QED
    BY <1>1, <1>2, <1>4, <1>5, <2>1, <2>2, <2>3 DEF Inv, Typed
<1>11. Past'
  BY <1>1, <1>4 DEF Inv, Past
<1>12. Separate'
  <2>1. ASSUME NEW m \in InUse', NEW n \in InUse', spaces'[m] = spaces'[n] PROVE m = n
    <3>1. CASE m \in names /\ n \in names
      BY <1>3, <1>7, <2>1, <3>1
    <3>2. CASE m \notin names /\ n \notin names
      BY <1>8, <2>1, <3>2 DEF Inv, Separate
    <3>3. CASE m \in names /\ n \notin names
      BY <1>3, <1>7, <1>8, <2>1, <3>3 DEF Fresh
    <3>4. CASE m \notin names /\ n \in names
      BY <1>3, <1>7, <1>8, <2>1, <3>4 DEF Fresh
    <3> QED
      BY <3>1, <3>2, <3>3, <3>4
  <2>2. ASSUME NEW m \in InUse', NEW x \in content'[spaces'[m]] PROVE x.namespace = m
    <3>1. CASE m \in names
      BY <1>3, <1>7, <2>2, <3>1 DEF Fresh, Inv, Separate, Tagged
    <3>2. CASE m \notin names
      BY <1>8, <2>2, <3>2 DEF Inv, Separate
    <3> QED
      BY <3>1, <3>2
  <2>3. ASSUME NEW t \in Threads, NEW m \in InUse', holding[t] # Idle, holding[t].brain = spaces'[m]
        PROVE  holding[t].entry.namespace = m
    <3>1. m \notin names
      BY <1>3, <1>7, <1>9, <2>3 DEF Fresh
    <3> QED
      BY <1>8, <2>3, <3>1 DEF Inv, Separate
  <2>4. Tagged(blob)' <=> Tagged(blob)
    BY <1>1 DEF Tagged
  <2> QED
    BY <1>1, <1>5, <2>1, <2>2, <2>3, <2>4 DEF Inv, Separate
<1>13. Landing'
  <2>1. ASSUME NEW x \in returned \ excused'
        PROVE  spaces'[x.namespace] # NoBrain /\ x \in content'[spaces'[x.namespace]]
    <3>1. x \in returned \ excused /\ x.namespace \in Namespaces \ names
      BY <1>1, <1>4, <2>1 DEF Inv, Typed, Entry
    <3>2. spaces[x.namespace] # NoBrain /\ x \in content[spaces[x.namespace]]
      BY <3>1 DEF Inv, Landing, WritesLand
    <3>3. spaces'[x.namespace] = spaces[x.namespace] /\ spaces[x.namespace] \in 1 .. Created
      BY <1>3, <3>1, <3>2, InUseIs DEF Inv
    <3> QED
      BY <1>2, <3>2, <3>3
  <2>2. ASSUME NEW t \in Threads, holding[t] # Idle, holding[t].entry \notin excused'
        PROVE  spaces'[holding[t].entry.namespace] = holding[t].brain
    <3>1. holding[t].entry \notin excused /\ holding[t].entry.namespace \in Namespaces \ names
      BY <1>1, <1>4, <1>9, <2>2
    <3>2. spaces[holding[t].entry.namespace] = holding[t].brain
      BY <2>2, <3>1 DEF Inv, Landing
    <3> QED
      BY <1>3, <3>1, <3>2
  <2> QED
    BY <1>1, <2>1, <2>2 DEF Landing, WritesLand
<1>14. Dropped'
  <2>1. ASSUME NEW m \in InUse', NEW x \in content'[spaces'[m]] \intersect excused'
        PROVE  blob # NoBlob /\ m \in DOMAIN blob /\ x \in blob[m]
    <3>1. CASE m \in names
      BY <1>3, <1>7, <2>1, <3>1 DEF Fresh
    <3>2. CASE m \notin names
      <4>1. m \in InUse /\ x \in content[spaces[m]] /\ x.namespace = m
        BY <1>8, <2>1, <3>2 DEF Inv, Separate
      <4>2. x \in excused
        BY <1>1, <1>4, <2>1, <3>2, <4>1
      <4> QED
        BY <4>1, <4>2 DEF Inv, Dropped, DroppedStaysDropped
    <3> QED
      BY <3>1, <3>2
  <2>2. ASSUME NEW t \in Threads, NEW m \in InUse', holding[t] # Idle, holding[t].entry \in excused'
        PROVE  holding[t].brain # spaces'[m]
    <3>1. CASE m \in names
      BY <1>3, <1>7, <1>9, <2>2, <3>1 DEF Fresh
    <3>2. CASE m \notin names
      <4>1. m \in InUse /\ spaces'[m] = spaces[m]
        BY <1>8, <3>2
      <4>2. CASE holding[t].entry \in excused
        BY <2>2, <4>1, <4>2 DEF Inv, Dropped
      <4>3. CASE holding[t].entry \notin excused
        <5>1. holding[t].entry.namespace # m
          BY <1>1, <1>4, <2>2, <3>2, <4>3
        <5> QED
          BY <2>2, <4>1, <5>1 DEF Inv, Separate
      <4> QED
        BY <4>2, <4>3
    <3> QED
      BY <3>1, <3>2
  <2> QED
    BY <1>1, <1>5, <2>1, <2>2 DEF Dropped, DroppedStaysDropped
<1>15. Complete'
  BY <1>1 DEF Inv, Complete, SnapshotComplete
<1> QED
  BY <1>10, <1>11, <1>12, <1>13, <1>14, <1>15 DEF Inv

\* put() replaces one brain by a fresh one.
LEMMA PutInv ==
    ASSUME Inv, NEW n \in Namespaces, Put(n)
    PROVE  Inv'
<1> DEFINE k == Created
<1>1. /\ Free /\ k + 1 <= MaxBrains /\ spaces' = [spaces EXCEPT ![n] = k + 1]
      /\ content' = Adding(content, k + 1, {}) /\ excused' = excused \union Begun({n})
      /\ UNCHANGED <<holding, snapper, part, blob, returned, due, writes>>
  BY DEF Put, CanCreate, NewBrain, Created
<1>2. /\ k \in Nat /\ content \in [1 .. k -> SUBSET Entry]
      /\ spaces \in [Namespaces -> (1 .. k) \union {NoBrain}] /\ IsFiniteSet(InUse)
  BY DEF Inv, Typed
<1>3. /\ Created' = k + 1 /\ content' \in [1 .. k + 1 -> SUBSET Entry]
      /\ content'[k + 1] = {} /\ \A b \in 1 .. k : content'[b] = content[b]
      /\ k + 1 \notin 1 .. k /\ \A b \in 1 .. k : b \in 1 .. k + 1
  BY <1>1, <1>2, AddingBrain
<1>4. k + 1 \in k .. MaxBrains /\ k + 1 \in 1 .. k + 1
  BY <1>1, <1>2, BoundsAssumption
<1>5. spaces'[n] = k + 1 /\ \A m \in Namespaces : m # n => spaces'[m] = spaces[m]
  BY <1>1, <1>2
<1>6. spaces' \in [Namespaces -> (1 .. k + 1) \union {NoBrain}]
  BY <1>1, <1>2, <1>3, <1>4
<1>7. IsFiniteSet(InUse')
  BY <1>2, <1>5, InUseGrows
<1>8. Fresh(n)
  BY <1>3, <1>4, <1>5 DEF Fresh
<1> HIDE DEF k
<1>9. Created = k
  BY DEF k
<1>10. Replaced({n})
  BY <1>1, <1>3, <1>4, <1>5, <1>6, <1>7, <1>8, <1>9 DEF Replaced
<1> QED
  BY <1>10, ReplacedInv

\* drop() takes one brain away.
LEMMA DropInv ==
    ASSUME Inv, NEW n \in Namespaces, Drop(n)
    PROVE  Inv'
<1>1. /\ Free /\ spaces' = [spaces EXCEPT ![n] = NoBrain] /\ excused' = excused \union Begun({n})
      /\ UNCHANGED <<content, holding, snapper, part, blob, returned, due, writes>>
  BY DEF Drop, DropUnlocked
<1>2. /\ Created \in 0 .. MaxBrains /\ content \in [1 .. Created -> SUBSET Entry]
      /\ spaces \in [Namespaces -> (1 .. Created) \union {NoBrain}] /\ IsFiniteSet(InUse)
  BY DEF Inv, Typed
<1>3. Created' = Created
  BY <1>1 DEF Created
<1>4. spaces'[n] = NoBrain /\ \A m \in Namespaces : m # n => spaces'[m] = spaces[m]
  BY <1>1, <1>2
<1>5. spaces' \in [Namespaces -> (1 .. Created) \union {NoBrain}]
  BY <1>1, <1>2
<1>6. IsFiniteSet(InUse')
  BY <1>2, <1>4, InUseGrows
<1>7. Created \in Created .. MaxBrains
  BY <1>2, BoundsAssumption
<1>8. Replaced({n})
  BY <1>1, <1>2, <1>3, <1>4, <1>5, <1>6, <1>7 DEF Replaced
<1> QED
  BY <1>8, ReplacedInv

\* The names of a finite set have the ranks one to its size, each its own.
LEMMA RankIs ==
    ASSUME NEW ns \in SUBSET Nat, IsFiniteSet(ns)
    PROVE  LET c == Cardinality(ns)
           IN  /\ c \in Nat
               /\ \A n \in ns : Rank(n, ns) \in 1 .. c
               /\ \A m, n \in ns : Rank(m, ns) = Rank(n, ns) => m = n
               /\ \A r \in 1 .. c : \E n \in ns : Rank(n, ns) = r
<1> DEFINE c == Cardinality(ns)
           Upto(n) == {m \in ns : m <= n}
           rank == [n \in ns |-> Cardinality(Upto(n))]
<1>1. c \in Nat
  BY FS_CardinalityType
<1>2. \A n \in ns : IsFiniteSet(Upto(n)) /\ Cardinality(Upto(n)) <= c
  BY FS_Subset
<1>3. \A n \in ns : Cardinality(Upto(n)) \in Nat /\ Cardinality(Upto(n)) # 0
  <2> TAKE n \in ns
  <2>1. n \in Upto(n)
    OBVIOUS
  <2>2. Upto(n) # {} /\ IsFiniteSet(Upto(n))
    BY <1>2, <2>1
  <2> HIDE DEF Upto
  <2> QED
    BY <2>2, FS_EmptySet, FS_CardinalityType
<1>4. \A m, n \in ns : m < n => Cardinality(Upto(m)) # Cardinality(Upto(n))
  <2> SUFFICES ASSUME NEW m \in ns, NEW n \in ns, m < n
               PROVE  Cardinality(Upto(m)) # Cardinality(Upto(n))
    OBVIOUS
  <2>1. Upto(m) \subseteq Upto(n) /\ n \in Upto(n) /\ n \notin Upto(m)
    <3>1. m \in Nat /\ n \in Nat /\ n <= n /\ ~(n <= m)
      OBVIOUS
    <3>2. \A k \in ns : k <= m => k <= n
      <4>1. \A k \in Nat : k <= m => k <= n
        BY <3>1
      <4> QED
        BY <4>1
    <3> QED
      BY <3>1, <3>2
  <2>2. IsFiniteSet(Upto(n))
    BY <1>2
  <2> HIDE DEF Upto
  <2> QED
    BY <2>1, <2>2, FS_Subset
<1>5. \A m, n \in ns : Cardinality(Upto(m)) = Cardinality(Upto(n)) => m = n
  <2>1. \A m, n \in ns : m = n \/ m < n \/ n < m
    OBVIOUS
  <2> HIDE DEF Upto
  <2> QED
    BY <1>4, <2>1
<1>6. \A n \in ns : Rank(n, ns) = Cardinality(Upto(n))
  BY DEF Rank
<1> HIDE DEF Upto, c
<1>7. \A n \in ns : rank[n] = Rank(n, ns) /\ rank[n] \in 1 .. c
  BY <1>1, <1>2, <1>3, <1>6 DEF c
<1>8. \A m, n \in ns : rank[m] = rank[n] => m = n
  BY <1>5
<1>9. rank \in Injection(ns, 1 .. c)
  <2>1. rank \in [ns -> 1 .. c]
    <3> HIDE DEF Rank
    <3>1. \A n \in ns : Rank(n, ns) \in 1 .. c
      BY <1>7
    <3>2. rank = [n \in ns |-> Rank(n, ns)]
      BY <1>6
    <3> QED
      BY <3>1, <3>2
  <2>2. DOMAIN rank = ns
    OBVIOUS
  <2> HIDE DEF rank
  <2> QED
    BY <1>8, <2>1, <2>2 DEF Injection, IsInjective
<1>10. rank \in Surjection(ns, 1 .. c)
  <2>1. IsFiniteSet(1 .. c) /\ Cardinality(1 .. c) = c
    BY <1>1, FS_Interval
  <2> HIDE DEF rank
  <2> QED
    BY <1>9, <2>1, FS_Injection DEF c
<1>11. \A r \in 1 .. c : \E n \in ns : rank[n] = r
  BY <1>10 DEF Surjection
<1> QED
  BY <1>1, <1>7, <1>8, <1>11 DEF c

\* A restore gives every name of the snapshot, or those before the one that
\* fails, a new brain of its own with its sub-blob, and takes the others away.
LEMMA InstalledInv ==
    ASSUME Inv, blob # NoBlob, NEW ns \in SUBSET (DOMAIN blob), Installed(ns)
    PROVE  Inv'
<1> DEFINE k == Created
           c == Cardinality(ns)
           brainOf == [n \in ns |-> k + Rank(n, ns)]
<1>1. /\ Free /\ k + c <= MaxBrains
      /\ spaces' = [n \in Namespaces |-> IF n \in ns THEN brainOf[n] ELSE NoBrain]
      /\ content' = [b \in DOMAIN content \union {brainOf[n] : n \in ns} |->
                       IF b \in DOMAIN content THEN content[b]
                       ELSE blob[CHOOSE n \in ns : brainOf[n] = b]]
      /\ excused' = excused \union Begun(Namespaces)
      /\ UNCHANGED <<holding, snapper, part, blob, returned, due, writes>>
  BY DEF Installed, Installing, Created
<1>2. /\ k \in 0 .. MaxBrains /\ k \in Nat /\ content \in [1 .. k -> SUBSET Entry]
      /\ IsBlob(blob)
  BY DEF Inv, Typed
<1>3. /\ ns \subseteq Namespaces /\ IsFiniteSet(ns)
      /\ \A n \in ns : n \in DOMAIN blob /\ blob[n] \subseteq Entry
  BY <1>2, FS_Subset DEF IsBlob
<1>4. /\ c \in Nat
      /\ \A n \in ns : Rank(n, ns) \in 1 .. c
      /\ \A m, n \in ns : Rank(m, ns) = Rank(n, ns) => m = n
      /\ \A r \in 1 .. c : \E n \in ns : Rank(n, ns) = r
  BY <1>3, RankIs, NamespacesAssumption
<1> HIDE DEF c
<1>5. \A n \in ns : brainOf[n] = k + Rank(n, ns)
  OBVIOUS
<1>6. DOMAIN content = 1 .. k
  BY <1>2
<1> HIDE DEF k, brainOf
<1>7. /\ \A n \in ns : brainOf[n] \in 1 .. k + c /\ brainOf[n] \notin 1 .. k
      /\ \A b \in 1 .. k + c : b \notin 1 .. k => \E n \in ns : brainOf[n] = b
      /\ \A m, n \in ns : brainOf[m] = brainOf[n] => m = n
  <2>1. ASSUME NEW n \in ns PROVE brainOf[n] \in 1 .. k + c /\ brainOf[n] \notin 1 .. k
    BY <1>2, <1>4, <1>5
  <2>2. ASSUME NEW b \in 1 .. k + c, b \notin 1 .. k PROVE \E n \in ns : brainOf[n] = b
    <3>1. b - k \in 1 .. c /\ k + (b - k) = b
      BY <1>2, <1>4, <2>2
    <3>2. PICK n \in ns : Rank(n, ns) = b - k
      BY <1>4, <3>1
    <3> QED
      BY <1>5, <3>1, <3>2
  <2>3. ASSUME NEW m \in ns, NEW n \in ns, brainOf[m] = brainOf[n] PROVE m = n
    <3>1. Rank(m, ns) \in Int /\ Rank(n, ns) \in Int /\ k + Rank(m, ns) = k + Rank(n, ns)
      BY <1>4, <1>5, <2>3
    <3>2. Rank(m, ns) = Rank(n, ns)
      BY <1>2, <3>1
    <3> QED
      BY <1>4, <3>2
  <2> QED
    BY <2>1, <2>2, <2>3
<1>8. \A b \in 1 .. k : b \in 1 .. k + c
  BY <1>2, <1>4
<1>9. DOMAIN content' = 1 .. k + c
  <2>1. DOMAIN content \union {brainOf[n] : n \in ns} = 1 .. k + c
    BY <1>6, <1>7, <1>8
  <2> QED
    BY <1>1, <2>1
<1>10. Created' = k + c
  BY <1>2, <1>4, <1>9, CreatedIs DEF Created
<1>11. \A b \in 1 .. k : content'[b] = content[b]
  BY <1>1, <1>6, <1>8, <1>9
<1>12. \A n \in ns : content'[brainOf[n]] = blob[n]
  <2> TAKE n \in ns
  <2>1. (CHOOSE m \in ns : brainOf[m] = brainOf[n]) = n
    BY <1>7
  <2> QED
    BY <1>1, <1>6, <1>7, <1>9, <2>1
<1>13. content' \in [1 .. k + c -> SUBSET Entry]
  <2>1. \A b \in 1 .. k + c : content'[b] \in SUBSET Entry
    <3> TAKE b \in 1 .. k + c
    <3>1. CASE b \in 1 .. k
      BY <1>2, <1>11, <3>1
    <3>2. CASE b \notin 1 .. k
      BY <1>3, <1>7, <1>12, <3>2
    <3> QED
      BY <3>1, <3>2
  <2>2. content' = [b \in DOMAIN content' |-> content'[b]]
    BY <1>1
  <2> QED
    BY <1>9, <2>1, <2>2
<1>14. spaces' \in [Namespaces -> (1 .. k + c) \union {NoBrain}]
  BY <1>1, <1>7
<1>15. \A n \in Namespaces : spaces'[n] = IF n \in ns THEN brainOf[n] ELSE NoBrain
  BY <1>1
<1>16. IsFiniteSet(InUse')
  <2>1. InUse' \subseteq ns
    BY <1>15 DEF InUse
  <2> QED
    BY <1>3, <2>1, FS_Subset
<1>17. \A n \in Namespaces : spaces'[n] # NoBrain => n \in ns /\ spaces'[n] = brainOf[n]
  BY <1>15
<1>18. k + c \in k .. MaxBrains /\ Created = k
  BY <1>1, <1>2, <1>4, BoundsAssumption DEF k
<1>19. \A n \in Namespaces : spaces'[n] # NoBrain => Fresh(n)
  BY <1>3, <1>7, <1>10, <1>12, <1>17, <1>18 DEF Fresh
<1>20. \A m, n \in Namespaces : spaces'[m] = spaces'[n] /\ spaces'[m] # NoBrain => m = n
  BY <1>7, <1>17
<1>21. Replaced(Namespaces)
  BY <1>1, <1>10, <1>11, <1>13, <1>14, <1>16, <1>18, <1>19, <1>20 DEF Replaced
<1> QED
  BY <1>21, ReplacedInv

\* restore(), to its end or to the sub-blob that is refused.
LEMMA RestoreInv ==
    ASSUME Inv, Restore \/ RestoreFails
    PROVE  Inv'
<1>1. CASE Restore
  <2>1. blob # NoBlob /\ Installed(DOMAIN blob) /\ DOMAIN blob \in SUBSET DOMAIN blob
    BY <1>1 DEF Restore
  <2> QED
    BY <2>1, InstalledInv
<1>2. CASE RestoreFails
  <2>1. PICK bad \in DOMAIN blob : blob # NoBlob /\ Installed({n \in DOMAIN blob : n < bad})
    BY <1>2 DEF RestoreFails
  <2>2. {n \in DOMAIN blob : n < bad} \in SUBSET DOMAIN blob
    OBVIOUS
  <2> QED
    BY <2>1, <2>2, InstalledInv
<1> QED
  BY <1>1, <1>2

\* The invariant is inductive.
LEMMA StepInv == Inv /\ [Next]_vars => Inv'
<1> SUFFICES ASSUME Inv, [Next]_vars PROVE Inv'
  OBVIOUS
<1>1. CASE UNCHANGED vars
  <2>1. /\ UNCHANGED <<spaces, content, holding, snapper, part, blob, returned, due, excused, writes>>
        /\ InUse' = InUse /\ Created' = Created
    BY <1>1 DEF vars, InUse, Created
  <2>2. Typed'
    BY <2>1 DEF Inv, Typed, IsBlob
  <2>3. Past' /\ Separate'
    BY <2>1 DEF Inv, Past, Separate, Tagged
  <2>4. Landing' /\ Dropped' /\ Complete'
    BY <2>1 DEF Inv, Landing, WritesLand, Dropped, DroppedStaysDropped, Complete, SnapshotComplete
  <2> QED
    BY <2>2, <2>3, <2>4 DEF Inv
<1>2. CASE \E t \in Threads, n \in Namespaces : BeginWrite(t, n)
  BY <1>2, BeginWriteInv
<1>3. CASE \E t \in Threads : FinishWrite(t) \/ BeginSnapshot(t)
  BY <1>3, FinishWriteInv, BeginSnapshotInv
<1>4. CASE \E n \in Namespaces : Put(n) \/ Drop(n)
  BY <1>4, PutInv, DropInv
<1>5. CASE ReadBrain \/ EndSnapshot
  BY <1>5, ReadBrainInv, EndSnapshotInv
<1>6. CASE Restore \/ RestoreFails
  BY <1>6, RestoreInv
<1> QED
  BY <1>1, <1>2, <1>3, <1>4, <1>5, <1>6 DEF Next

-----------------------------------------------------------------------------
(* The theorems *)

\* The strengthened invariant holds of every behaviour of the registry.
THEOREM InvIsInvariant == Spec => []Inv
<1> QED
  BY InitInv, StepInv, PTL DEF Spec

\* Types; every brain that is registered or held was created.
THEOREM TypeCorrect == Spec => []TypeOK
<1>1. Inv => TypeOK
  <2> SUFFICES ASSUME Inv PROVE TypeOK
    OBVIOUS
  <2>1. DOMAIN content = 1 .. Created /\ Created = Cardinality(DOMAIN content)
    BY DEF Inv, Typed, Created
  <2>2. \A b \in DOMAIN content : content[b] \subseteq Entry
    BY DEF Inv, Typed
  <2>3. (part = NoBlob) = (snapper = NoBrain)
    <3>1. part = NoBlob <=> snapper = NoBrain
      BY DEF Inv, Typed
    <3> QED
      BY <3>1
  <2> QED
    BY <2>1, <2>2, <2>3 DEF Inv, Typed, TypeOK
<1> QED
  BY <1>1, InvIsInvariant, PTL

\* No two namespaces share a brain, and nothing written to one is found in
\* another, in memory or in a snapshot.
THEOREM IsolationHolds == Spec => []Isolation
<1>1. Inv => Isolation
  BY DEF Inv, Separate, Tagged, Isolation
<1> QED
  BY <1>1, InvIsInvariant, PTL

\* A write that returned is in the brain registered for its namespace, unless
\* that namespace was dropped or replaced after it began.
THEOREM WritesLandHolds == Spec => []WritesLand
<1>1. Inv => WritesLand
  BY DEF Inv, Landing
<1> QED
  BY <1>1, InvIsInvariant, PTL

\* What was dropped comes back only out of a snapshot.
THEOREM DroppedStaysDroppedHolds == Spec => []DroppedStaysDropped
<1>1. Inv => DroppedStaysDropped
  BY DEF Inv, Dropped
<1> QED
  BY <1>1, InvIsInvariant, PTL

\* A finished snapshot holds every write that had returned when it began and
\* was not dropped by then.
THEOREM SnapshotCompleteHolds == Spec => []SnapshotComplete
<1>1. Inv => SnapshotComplete
  BY DEF Inv, Complete
<1> QED
  BY <1>1, InvIsInvariant, PTL
=============================================================================
