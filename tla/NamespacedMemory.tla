-------------------------- MODULE NamespacedMemory --------------------------
(***************************************************************************)
(* The registry of namespaces (namespace.py) used by several threads.      *)
(* Its lock guards the registry only: a write looks its brain up under the *)
(* lock, creating it on first use, and then works on the brain without it, *)
(* so the brain may have been dropped or replaced in between.  A snapshot  *)
(* holds the lock while it reads one brain after the other, each under the *)
(* lock of that brain; writes that hold a brain go on meanwhile.           *)
(*                                                                         *)
(* Brains are objects, named by the number they were created under; their  *)
(* content is the set of the writes they took, each with the namespace it  *)
(* was addressed to.                                                       *)
(***************************************************************************)
EXTENDS Naturals, FiniteSets

CONSTANTS
    Namespaces,     \* tenants, as a set of numbers in the order of their names
    Threads,        \* callers
    MaxBrains,      \* bound: brains created in one behaviour
    MaxWrites,      \* bound: writes in one behaviour
    NoBrain,        \* no such key
    NoBlob          \* no snapshot was taken

ASSUME NamespacesAssumption == Namespaces \subseteq Nat /\ Namespaces # {}
ASSUME BoundsAssumption == MaxBrains \in Nat /\ MaxWrites \in Nat

VARIABLES
    spaces,       \* _spaces: namespace -> brain, NoBrain for a name not in use
    content,      \* brain -> writes it took
    holding,      \* thread -> the write it is about to do, and the brain for it
    snapper,      \* the thread that holds the lock for a snapshot, or NoBrain
    part,         \* the sub-blobs that snapshot has read
    blob,         \* the last snapshot that was completed
    returned,     \* history: writes that returned
    due,          \* history: returned writes when the snapshot began
    excused,      \* history: writes under way or done when their name was
                  \*   dropped or replaced
    writes        \* history: writes so far

vars == <<spaces, content, holding, snapper, part, blob, returned, due, excused, writes>>

Entry == [namespace : Namespaces, number : 1 .. MaxWrites]
Idle  == [brain |-> NoBrain, entry |-> NoBrain]

ASSUME NoneAssumption ==
    /\ NoBrain \notin (1 .. MaxBrains) \union Threads \union Entry
    /\ \A some \in SUBSET Namespaces : NoBlob \notin [some -> SUBSET Entry]

InUse     == {n \in Namespaces : spaces[n] # NoBrain}
Free      == snapper = NoBrain        \* the registry lock can be taken
NewBrain  == Cardinality(DOMAIN content) + 1
CanCreate == NewBrain <= MaxBrains

Adding(c, brain, entries) ==
    [b \in DOMAIN c \union {brain} |-> IF b = brain THEN entries ELSE c[b]]

\* The writes to namespaces ns that are done or under way.
Begun(ns) ==
    {e \in (returned \union {holding[t].entry : t \in Threads}) \ {NoBrain} :
        e.namespace \in ns}

-----------------------------------------------------------------------------
Init ==
    /\ spaces = [n \in Namespaces |-> NoBrain]
    /\ content = [b \in {} |-> {}]
    /\ holding = [t \in Threads |-> Idle]
    /\ snapper = NoBrain /\ part = NoBlob /\ blob = NoBlob
    /\ returned = {} /\ due = {} /\ excused = {} /\ writes = 0

\* Mutant: a brain is created whether or not there is one.
SpaceAnew(n, brain) ==
    /\ Free /\ CanCreate
    /\ brain = NewBrain
    /\ spaces' = [spaces EXCEPT ![n] = brain]
    /\ content' = Adding(content, brain, {})

\* space(): the brain of the namespace, created on first use.
Space(n, brain) ==
    /\ Free
    /\ IF spaces[n] # NoBrain
       THEN brain = spaces[n] /\ UNCHANGED <<spaces, content>>
       ELSE /\ CanCreate /\ brain = NewBrain
            /\ spaces' = [spaces EXCEPT ![n] = brain]
            /\ content' = Adding(content, brain, {})

\* write(), first half: look the brain up.  The other operations scoped to
\* a namespace look it up in the same way.
BeginWrite(t, n) ==
    /\ holding[t] = Idle /\ writes < MaxWrites
    /\ \E brain \in 1 .. MaxBrains :
         /\ Space(n, brain)
         /\ holding' = [holding EXCEPT
              ![t] = [brain |-> brain,
                      entry |-> [namespace |-> n, number |-> writes + 1]]]
    /\ writes' = writes + 1
    /\ UNCHANGED <<snapper, part, blob, returned, due, excused>>

\* Mutant: the brain that was written is put into the registry again.
FinishRegistering(t) ==
    /\ holding[t] # Idle
    /\ spaces' = [spaces EXCEPT ![holding[t].entry.namespace] = holding[t].brain]
    /\ content' = [content EXCEPT ![holding[t].brain] = @ \union {holding[t].entry}]
    /\ returned' = returned \union {holding[t].entry}
    /\ holding' = [holding EXCEPT ![t] = Idle]
    /\ UNCHANGED <<snapper, part, blob, due, excused, writes>>

\* write(), second half: the brain's own write, and the call returns.
FinishWrite(t) ==
    /\ holding[t] # Idle
    /\ content' = [content EXCEPT ![holding[t].brain] = @ \union {holding[t].entry}]
    /\ returned' = returned \union {holding[t].entry}
    /\ holding' = [holding EXCEPT ![t] = Idle]
    /\ UNCHANGED <<spaces, snapper, part, blob, due, excused, writes>>

-----------------------------------------------------------------------------
\* put(): install a brain of the caller's, here a fresh one.
Put(n) ==
    /\ Free /\ CanCreate
    /\ spaces' = [spaces EXCEPT ![n] = NewBrain]
    /\ content' = Adding(content, NewBrain, {})
    /\ excused' = excused \union Begun({n})
    /\ UNCHANGED <<holding, snapper, part, blob, returned, due, writes>>

\* Mutant: the lock is not taken.
DropUnlocked(n) ==
    /\ spaces' = [spaces EXCEPT ![n] = NoBrain]
    /\ excused' = excused \union Begun({n})
    /\ UNCHANGED <<content, holding, snapper, part, blob, returned, due, writes>>

\* drop()
Drop(n) ==
    /\ Free
    /\ DropUnlocked(n)

-----------------------------------------------------------------------------
(* snapshot() and restore() *)

Pending == {n \in InUse : n \notin DOMAIN part}

BeginSnapshot(t) ==
    /\ Free /\ holding[t] = Idle
    /\ snapper' = t
    /\ part' = [n \in {} |-> {}]
    /\ due' = returned \ excused
    /\ UNCHANGED <<spaces, content, holding, blob, returned, excused, writes>>

\* The namespaces are read in the order of their names.
ReadBrain ==
    /\ snapper # NoBrain /\ Pending # {}
    /\ \E n \in Pending :
         /\ \A m \in Pending : n <= m
         /\ part' = Adding(part, n, content[spaces[n]])
    /\ UNCHANGED <<spaces, content, holding, snapper, blob, returned, due, excused, writes>>

\* Mutant: the lock is not released.
EndSnapshotLocked ==
    /\ snapper # NoBrain /\ Pending = {}
    /\ blob' = part /\ part' = NoBlob
    /\ UNCHANGED <<spaces, content, holding, snapper, returned, due, excused, writes>>

EndSnapshot ==
    /\ snapper # NoBrain /\ Pending = {}
    /\ blob' = part
    /\ snapper' = NoBrain /\ part' = NoBlob
    /\ UNCHANGED <<spaces, content, holding, returned, due, excused, writes>>

\* One new brain per restored namespace, numbered in the order of the names.
Rank(n, ns) == Cardinality({m \in ns : m <= n})

\* Namespaces ns are given brains, and take their sub-blobs.
Installing(ns, brainOf) ==
    /\ Free
    /\ Cardinality(DOMAIN content) + Cardinality(ns) <= MaxBrains
    /\ spaces' = [n \in Namespaces |-> IF n \in ns THEN brainOf[n] ELSE NoBrain]
    /\ content' = [b \in DOMAIN content \union {brainOf[n] : n \in ns} |->
                     IF b \in DOMAIN content THEN content[b]
                     ELSE blob[CHOOSE n \in ns : brainOf[n] = b]]
    /\ excused' = excused \union Begun(Namespaces)
    /\ UNCHANGED <<holding, snapper, part, blob, returned, due, writes>>

\* Mutant: one new brain is restored over and over.
InstalledInOne(ns) == Installing(ns, [n \in ns |-> NewBrain])

Installed(ns) ==
    Installing(ns, [n \in ns |-> Cardinality(DOMAIN content) + Rank(n, ns)])

Restore == blob # NoBlob /\ Installed(DOMAIN blob)

\* A sub-blob is refused: the namespaces before it are installed, the old
\* ones are gone.
RestoreFails ==
    /\ blob # NoBlob
    /\ \E bad \in DOMAIN blob : Installed({n \in DOMAIN blob : n < bad})

Next ==
    \/ \E t \in Threads, n \in Namespaces : BeginWrite(t, n)
    \/ \E t \in Threads : FinishWrite(t) \/ BeginSnapshot(t)
    \/ \E n \in Namespaces : Put(n) \/ Drop(n)
    \/ ReadBrain \/ EndSnapshot \/ Restore \/ RestoreFails

Spec == Init /\ [][Next]_vars

-----------------------------------------------------------------------------
(* Properties *)

\* Types.  A snapshot under way has a thread and the sub-blobs read so far,
\* and every brain that is registered or held was created.
TypeOK ==
    /\ DOMAIN content = 1 .. Cardinality(DOMAIN content)
    /\ \A b \in DOMAIN content : content[b] \subseteq Entry
    /\ spaces \in [Namespaces -> DOMAIN content \union {NoBrain}]
    /\ \A t \in Threads :
         holding[t] \in {Idle} \union [brain : DOMAIN content, entry : Entry]
    /\ snapper \in Threads \union {NoBrain}
    /\ (part = NoBlob) = (snapper = NoBrain)
    /\ returned \subseteq Entry /\ excused \subseteq Entry /\ due \subseteq returned
    /\ writes \in 0 .. MaxWrites

\* Namespaces never share a brain, and nothing written to one is found in
\* another, in memory or in a snapshot, whatever was restored meanwhile:
\* the full isolation the class promises (namespace.py:28).
Isolation ==
    /\ \A m, n \in InUse : spaces[m] = spaces[n] => m = n
    /\ \A n \in InUse : \A e \in content[spaces[n]] : e.namespace = n
    /\ blob # NoBlob => \A n \in DOMAIN blob : \A e \in blob[n] : e.namespace = n

\* A write that returned is in the brain registered for its namespace, unless
\* that namespace was dropped or replaced after the write began: two threads
\* that use a new namespace at once do not write to two brains (the lock
\* around the look-up and the creation, namespace.py:48-51).
WritesLand ==
    \A e \in returned \ excused :
        /\ spaces[e.namespace] # NoBrain
        /\ e \in content[spaces[e.namespace]]

\* What was dropped comes back only out of a snapshot: a write that was under
\* way when its namespace was dropped does not bring the tenant back when it
\* ends (drop() as "full GDPR erasure", namespace.py:66-70).
DroppedStaysDropped ==
    \A n \in InUse : \A e \in content[spaces[n]] \intersect excused :
        blob # NoBlob /\ n \in DOMAIN blob /\ e \in blob[n]

\* A finished snapshot holds every write that had returned when it began and
\* was not dropped by then, although threads went on writing while the brains
\* were read: the registry cannot change under it (namespace.py:92-94).
SnapshotComplete ==
    (blob # NoBlob /\ snapper = NoBrain) =>
        \A e \in due : e.namespace \in DOMAIN blob /\ e \in blob[e.namespace]

=============================================================================
