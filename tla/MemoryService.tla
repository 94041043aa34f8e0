--------------------------- MODULE MemoryService ---------------------------
(***************************************************************************)
(* The service behind the MCP tools (mcp_server.py): a NamespacedMemory    *)
(* with one brain per namespace, under one lock, in one of two persistence *)
(* modes.  In "path" mode a blob of all namespaces replaces the file every *)
(* PersistEvery writes, on consolidate and on drop; in "store" mode the    *)
(* default brain is attached to a SqliteStore, which records every change  *)
(* before the call returns (DurableBrain shows how).                       *)
(*                                                                         *)
(* The content of a brain is the set of the operations it took, each with  *)
(* the namespace it was addressed to.  A call that persists is cut in two, *)
(* before os.replace; the process can die or the file system can fail      *)
(* there.                                                                  *)
(***************************************************************************)
EXTENDS Naturals, FiniteSets

CONSTANTS
    Namespaces,     \* tenants
    Default,        \* the namespace of callers that name none
    Modes,          \* subset of {"path", "store"}: how the service is started
    PersistEvery,   \* persist_every
    MaxOps,         \* bound: writes, consolidations and drops in one behaviour
    NoFile          \* the file was never written

ASSUME NamespacesAssumption == Default \in Namespaces
ASSUME ModesAssumption == Modes \subseteq {"path", "store"}
ASSUME PersistAssumption == PersistEvery \in Nat \ {0} /\ MaxOps \in Nat

VARIABLES
    mode,         \* the constructor's arguments: path= or store_path=
    pc,           \* "down", "idle" or "persist"
    spaces,       \* _spaces: namespace -> content of its brain
    dirty,        \* _dirty: writes since the file was replaced
    open,         \* _store is not None
    file,         \* the file of path mode
    store,        \* what the SQLite file of store mode holds
    dropping,     \* history: entries the drop under way removed
    erased,       \* history: entries removed by drops that returned
    failed,       \* history: replacing the file failed and was not made up for
    ops           \* history: operations so far

vars == <<mode, pc, spaces, dirty, open, file, store, dropping, erased, failed, ops>>

Entry == [namespace : Namespaces, number : 1 .. MaxOps]

ASSUME NoFileAssumption ==
    \A some \in SUBSET Namespaces :
        NoFile \notin [raw : BOOLEAN, data : (SUBSET Entry) \union [some -> SUBSET Entry]]

With(f, k, v) == [x \in DOMAIN f \union {k} |-> IF x = k THEN v ELSE f[x]]
Without(f, k) == [x \in DOMAIN f \ {k} |-> f[x]]
Content(f, k) == IF k \in DOMAIN f THEN f[k] ELSE {}

-----------------------------------------------------------------------------
(* The two formats of the file *)

\* Mutant: any single namespace is written as a raw snapshot.
BlobOfAnySingle(f) ==
    IF Cardinality(DOMAIN f) = 1
    THEN [raw |-> TRUE, data |-> f[CHOOSE n \in DOMAIN f : TRUE]]
    ELSE [raw |-> FALSE, data |-> f]

\* _persist: the raw snapshot of the default brain when there is no other.
Blob(f) ==
    IF DOMAIN f = {Default} THEN [raw |-> TRUE, data |-> f[Default]]
    ELSE [raw |-> FALSE, data |-> f]

\* Mutant: a raw snapshot gets a namespace of its own.
DecodeApart(blob) ==
    IF blob = NoFile THEN [n \in {} |-> {}]
    ELSE IF blob.raw THEN [n \in {"legacy"} |-> blob.data]
    ELSE blob.data

\* NamespacedMemory.restore: a raw snapshot becomes the default namespace.
Decode(blob) ==
    IF blob = NoFile THEN [n \in {} |-> {}]
    ELSE IF blob.raw THEN [n \in {Default} |-> blob.data]
    ELSE blob.data

-----------------------------------------------------------------------------
(* The process *)

Init ==
    /\ mode \in Modes
    /\ pc = "down" /\ spaces = [n \in {} |-> {}] /\ dirty = 0 /\ open = FALSE
    /\ file = NoFile /\ store = {}
    /\ dropping = {} /\ erased = {} /\ failed = FALSE /\ ops = 0

\* The constructor and, in path mode, the load of main(); the alias cb of the
\* default brain makes sure that there is one.
Start ==
    /\ pc = "down"
    /\ pc' = "idle"
    /\ spaces' = IF mode = "store" THEN [n \in {Default} |-> store]
                 ELSE With(Decode(file), Default, Content(Decode(file), Default))
    /\ open' = (mode = "store")
    /\ failed' = FALSE
    /\ UNCHANGED <<mode, dirty, file, store, dropping, erased, ops>>

Stop ==
    /\ pc # "down"
    /\ pc' = "down" /\ spaces' = [n \in {} |-> {}] /\ dirty' = 0 /\ open' = FALSE
    /\ dropping' = {}
    /\ UNCHANGED <<mode, file, store, erased, failed, ops>>

\* The guard of _space(): a store serves the default namespace only.
Admits(n) == open => n = Default

\* What the attached store records of a change to the namespace.
Recorded(n, content) == IF open /\ n = Default THEN content ELSE store

\* _persist() does nothing without a path.
Persist == pc' = IF mode = "path" THEN "persist" ELSE "idle"

-----------------------------------------------------------------------------
(* The tools *)

Change(n) ==
    /\ pc = "idle" /\ ops < MaxOps /\ Admits(n)
    /\ LET content == Content(spaces, n)
                        \union {[namespace |-> n, number |-> ops + 1]}
       IN  /\ spaces' = With(spaces, n, content)
           /\ store' = Recorded(n, content)
    /\ ops' = ops + 1
    /\ UNCHANGED <<mode, open, file, dropping, erased, failed>>

\* Mutant: one write too many is held back.
WriteLate(n) ==
    /\ Change(n)
    /\ dirty' = dirty + 1
    /\ IF dirty + 1 > PersistEvery THEN Persist ELSE UNCHANGED pc

Write(n) ==
    /\ Change(n)
    /\ dirty' = dirty + 1
    /\ IF dirty + 1 >= PersistEvery THEN Persist ELSE UNCHANGED pc

Consolidate(n) == Change(n) /\ Persist /\ UNCHANGED dirty

\* query(), answer() and stats() create the namespace they are asked about.
Look(n) ==
    /\ pc = "idle" /\ Admits(n)
    /\ spaces' = With(spaces, n, Content(spaces, n))
    /\ UNCHANGED <<mode, pc, dirty, open, file, store, dropping, erased, failed, ops>>

\* Mutant: the erasure waits for the next write that persists.
DropInMemory(n) ==
    /\ pc = "idle" /\ ops < MaxOps /\ Admits(n)
    /\ spaces' = Without(spaces, n)
    /\ open' = FALSE
    /\ ops' = ops + 1
    /\ erased' = erased \union Content(spaces, n)
    /\ UNCHANGED <<mode, pc, dirty, file, store, dropping, failed>>

\* drop(): in store mode the store is detached and closed first.
Drop(n) ==
    /\ pc = "idle" /\ ops < MaxOps /\ Admits(n)
    /\ spaces' = Without(spaces, n)
    /\ open' = FALSE
    /\ ops' = ops + 1
    /\ Persist
    /\ IF mode = "path"
       THEN dropping' = Content(spaces, n) /\ UNCHANGED erased
       ELSE erased' = erased \union Content(spaces, n) /\ UNCHANGED dropping
    /\ UNCHANGED <<mode, dirty, file, store, failed>>

\* close() releases the store; it writes no file.
Close ==
    /\ pc = "idle"
    /\ open' = FALSE
    /\ UNCHANGED <<mode, pc, spaces, dirty, file, store, dropping, erased, failed, ops>>

\* load() of the service's own file, on demand.
Load ==
    /\ pc = "idle" /\ mode = "path" /\ file # NoFile
    /\ spaces' = With(Decode(file), Default, Content(Decode(file), Default))
    /\ UNCHANGED <<mode, pc, dirty, open, file, store, dropping, erased, failed, ops>>

\* os.replace(tmp, path), and the call returns.
Replace ==
    /\ pc = "persist"
    /\ pc' = "idle"
    /\ file' = Blob(spaces)
    /\ dirty' = 0
    /\ erased' = erased \union dropping /\ dropping' = {}
    /\ failed' = FALSE
    /\ UNCHANGED <<mode, spaces, open, store, ops>>

\* Writing the temporary file or replacing the file raises.
ReplaceFails ==
    /\ pc = "persist"
    /\ pc' = "idle"
    /\ dropping' = {}
    /\ failed' = TRUE
    /\ UNCHANGED <<mode, spaces, dirty, open, file, store, erased, ops>>

Next ==
    \/ Start \/ Stop
    \/ \E n \in Namespaces : Write(n) \/ Consolidate(n) \/ Look(n) \/ Drop(n)
    \/ Close \/ Load
    \/ Replace \/ ReplaceFails

Spec == Init /\ [][Next]_vars

-----------------------------------------------------------------------------
(* Properties *)

IsFamily(f) == \E some \in SUBSET Namespaces : f \in [some -> SUBSET Entry]

\* Every variable has its type.
TypeOK ==
    /\ mode \in Modes /\ pc \in {"down", "idle", "persist"}
    /\ IsFamily(spaces) /\ IsFamily(Decode(file)) /\ store \subseteq Entry
    /\ dirty \in Nat /\ open \in BOOLEAN /\ failed \in BOOLEAN /\ ops \in 0 .. MaxOps
    /\ dropping \subseteq Entry /\ erased \subseteq Entry

\* "cross-tenant bleed is structurally impossible" (namespace.py): no brain,
\* live or reopened from either blob format, holds what another tenant wrote.
Isolation ==
    \A n \in Namespaces :
       /\ \A e \in Content(spaces, n) : e.namespace = n
       /\ \A e \in Content(Decode(file), n) : e.namespace = n
       /\ \A e \in store : e.namespace = Default

Live == UNION {spaces[n] : n \in DOMAIN spaces}
OnFile == UNION {Decode(file)[n] : n \in DOMAIN Decode(file)}

\* In path mode a crash between two calls loses at most the last
\* PersistEvery - 1 writes, over all namespaces, and brings nothing back.
BoundedLoss ==
    mode = "path" /\ pc = "idle" /\ ~failed =>
       /\ OnFile \subseteq Live
       /\ Cardinality(Live \ OnFile) <= dirty /\ dirty < PersistEvery

\* In path mode what a drop that returned erased is neither in memory nor on
\* file ever after, through restarts and reloads.
DropIsFinalOnFile == mode = "path" => erased \intersect (Live \union OnFile) = {}

\* "permanently erase an entire namespace (all of that tenant's memory)"
\* (the drop tool): what a drop that returned erased does not come back.
DropIsPermanent == erased \intersect Live = {}
=============================================================================
