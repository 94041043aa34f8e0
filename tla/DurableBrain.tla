---------------------------- MODULE DurableBrain ----------------------------
(***************************************************************************)
(* A CuratedBrain (backend.py) attached to a SqliteStore (store.py): one   *)
(* journal row per write, a full snapshot every CompactEvery rows and      *)
(* after every operation that is not a write, and the rebuild on reopen.   *)
(*                                                                         *)
(* The reentrant lock of the brain serializes its public methods, so one   *)
(* call is under way at a time; it is cut into the steps between which the *)
(* process can die or a statement can fail.                                *)
(*                                                                         *)
(* The state of the brain is a term: the sequence of the operations that   *)
(* produced it, each with the subject its text was read as being about.    *)
(* That subject is all that an operation may take from outside the state:  *)
(* an anaphoric observation ("Her city is Riga") is read with the last     *)
(* subject the extractor remembers (HeuristicExtractor._last_subject).     *)
(***************************************************************************)
EXTENDS Naturals, Sequences

CONSTANTS
    Observations,   \* texts that callers write
    Anaphoric,      \* those that name no subject themselves
    CompactEvery,   \* compact_every: journal rows between two snapshots
    CanFail,        \* TRUE: statements of the store and replays may raise
    MaxOps,         \* bound: operations in a behaviour without failures
    MaxFaultyOps,   \* bound: operations in a behaviour with failures
    NoSubject,      \* None, where a subject is expected
    NoSnapshot,     \* None, where the blob of a snapshot is expected
    NoTxn           \* no transaction is open

ASSUME TextsAssumption == Anaphoric \subseteq Observations
ASSUME CompactAssumption == CompactEvery \in Nat \ {0}
ASSUME FailureAssumption == CanFail \in BOOLEAN
ASSUME BoundAssumption == MaxOps \in Nat /\ MaxFaultyOps \in 0 .. MaxOps

VARIABLES
    faulty,     \* statements and replays may raise in this behaviour
    pc,         \* where the process is
    mem,        \* the state of the brain in memory
    context,    \* the extractor's last subject
    attached,   \* a store is bound (_store is not None)
    since,      \* _journal_since
    replay,     \* journal rows still to be re-executed by attach_store
    disk,       \* the committed tables of the store
    txn,        \* the tables as the open transaction sees them
    pending,    \* history: number of the write under way, 0 if none
    acked,      \* history: numbers of the journaled writes that returned
    ops         \* history: operations so far, the number of the last one

vars == <<faulty, pc, mem, context, attached, since, replay, disk, txn, pending,
          acked, ops>>

Rewrite == "rewrite"     \* the text recorded for consolidate() and forget()

\* A brain that was written to before it is attached replays on top of that.
Bound == IF faulty THEN MaxFaultyOps ELSE MaxOps

Entry == [number  : 1 .. MaxOps,
          text    : Observations \union {Rewrite},
          subject : Observations \union {NoSubject}]

ASSUME NoneAssumption == NoSubject \notin Observations /\ NoSnapshot \notin Seq(Entry)

Numbers(state) == {state[i].number : i \in DOMAIN state}

\* What reopening should yield.  A row keeps the entry the write produced
\* when it was first executed, but replay uses its text only.
Durable ==
    IF disk.snapshot = NoSnapshot THEN disk.journal ELSE disk.snapshot \o disk.journal

-----------------------------------------------------------------------------
(* Executing one write *)

\* The echo guard: the text of an earlier write that yielded facts.
Echo(text) ==
    \E i \in DOMAIN mem : mem[i].text = text /\ mem[i].subject # NoSubject

\* The subject the extractor finds: none for an echo, which is not extracted.
Reading(text) ==
    IF Echo(text) THEN NoSubject
    ELSE IF text \in Anaphoric THEN context ELSE text

\* _write: the state grows by the operation as it was read; the extractor
\* remembers the subject it found, if it found one.
Execute(number, text) ==
    /\ Len(mem) <= Bound
    /\ mem' = Append(mem, [number |-> number, text |-> text, subject |-> Reading(text)])
    /\ context' = IF Reading(text) = NoSubject THEN context ELSE Reading(text)

-----------------------------------------------------------------------------
(* The life of a process *)

Init ==
    /\ faulty \in {FALSE, CanFail}
    /\ pc = "down" /\ mem = <<>> /\ context = NoSubject
    /\ attached = FALSE /\ since = 0 /\ replay = <<>>
    /\ disk = [snapshot |-> NoSnapshot, journal |-> <<>>] /\ txn = NoTxn
    /\ pending = 0 /\ acked = {} /\ ops = 0

Start ==
    /\ pc = "down"
    /\ pc' = "idle"
    /\ UNCHANGED <<faulty, mem, context, attached, since, replay, disk, txn, pending,
                   acked, ops>>

\* Whatever is in memory is gone, and so is an uncommitted transaction.
Crash ==
    /\ pc # "down"
    /\ pc' = "down" /\ mem' = <<>> /\ context' = NoSubject
    /\ attached' = FALSE /\ since' = 0 /\ replay' = <<>> /\ txn' = NoTxn /\ pending' = 0
    /\ UNCHANGED <<faulty, disk, acked, ops>>

\* The call returns to its caller, or raises.
Return ==
    /\ pc' = "idle"
    /\ acked' = acked \union ({pending} \ {0})
    /\ pending' = 0

Raise ==
    /\ pc' = "idle"
    /\ pending' = 0
    /\ UNCHANGED acked

-----------------------------------------------------------------------------
(* write() *)

Write(text) ==
    /\ pc = "idle" /\ ops < Bound
    /\ Execute(ops + 1, text)
    /\ ops' = ops + 1
    /\ IF attached
       THEN pc' = "append" /\ pending' = ops + 1
       ELSE UNCHANGED <<pc, pending>>
    /\ UNCHANGED <<faulty, attached, since, replay, disk, txn, acked>>

\* One INSERT, committed on its own.
AppendRow ==
    /\ pc = "append"
    /\ disk' = [disk EXCEPT !.journal = Append(@, mem[Len(mem)])]
    /\ since' = since + 1
    /\ IF since + 1 >= CompactEvery
       THEN pc' = "compact" /\ UNCHANGED <<pending, acked>>
       ELSE Return
    /\ UNCHANGED <<faulty, mem, context, attached, replay, txn, ops>>

\* Mutant: the caller is told nothing.
AppendFailsSilently ==
    /\ faulty /\ pc = "append"
    /\ Return
    /\ UNCHANGED <<faulty, mem, context, attached, since, replay, disk, txn, ops>>

\* The payload is no JSON or the INSERT fails, after _write changed memory.
AppendFails ==
    /\ faulty /\ pc = "append"
    /\ Raise
    /\ UNCHANGED <<faulty, mem, context, attached, since, replay, disk, txn, ops>>

-----------------------------------------------------------------------------
(* The operations a replay could not reproduce *)

\* Mutant: no snapshot is taken.
CompactNever == UNCHANGED pc

CompactIfAttached == IF attached THEN pc' = "compact" ELSE UNCHANGED pc

\* Mutant: the record of the rewrite is malformed.
RewriteWithSubject ==
    /\ pc = "idle" /\ ops < Bound /\ Len(mem) <= Bound
    /\ mem' = Append(mem, [number |-> ops + 1, text |-> Rewrite, subject |-> Rewrite])
    /\ ops' = ops + 1
    /\ CompactIfAttached
    /\ UNCHANGED <<faulty, context, attached, since, replay, disk, txn, pending, acked>>

\* consolidate() and forget() rewrite the state in place.
RewriteInPlace ==
    /\ pc = "idle" /\ ops < Bound /\ Len(mem) <= Bound
    /\ mem' = Append(mem, [number |-> ops + 1, text |-> Rewrite, subject |-> NoSubject])
    /\ ops' = ops + 1
    /\ CompactIfAttached
    /\ UNCHANGED <<faulty, context, attached, since, replay, disk, txn, pending, acked>>

\* reset() also clears what the extractor remembers.
Reset ==
    /\ pc = "idle"
    /\ mem' = <<>> /\ context' = NoSubject
    /\ acked' = {}
    /\ CompactIfAttached
    /\ UNCHANGED <<faulty, attached, since, replay, disk, txn, pending, ops>>

\* restore(blob) with a snapshot of an earlier state; the extractor's memory
\* is neither part of the blob nor cleared.
Restore(n) ==
    /\ pc = "idle"
    /\ mem' = SubSeq(mem, 1, n)
    /\ acked' = acked \intersect Numbers(mem')
    /\ CompactIfAttached
    /\ UNCHANGED <<faulty, context, attached, since, replay, disk, txn, pending, ops>>

-----------------------------------------------------------------------------
(* SqliteStore.compact(snapshot()): one explicit transaction *)

BeginTxn ==
    /\ pc = "compact"
    /\ txn' = disk
    /\ pc' = "delete"
    /\ UNCHANGED <<faulty, mem, context, attached, since, replay, disk, pending,
                   acked, ops>>

\* Mutant: no transaction was begun, the DELETE commits on its own.
DeleteAutocommitted ==
    /\ pc = "delete"
    /\ txn' = [txn EXCEPT !.snapshot = NoSnapshot]
    /\ disk' = [disk EXCEPT !.snapshot = NoSnapshot]
    /\ pc' = "insert"
    /\ UNCHANGED <<faulty, mem, context, attached, since, replay, pending, acked, ops>>

DeleteSnapshot ==
    /\ pc = "delete"
    /\ txn' = [txn EXCEPT !.snapshot = NoSnapshot]
    /\ pc' = "insert"
    /\ UNCHANGED <<faulty, mem, context, attached, since, replay, disk, pending,
                   acked, ops>>

InsertSnapshot ==
    /\ pc = "insert"
    /\ txn' = [txn EXCEPT !.snapshot = mem]
    /\ pc' = "clear"
    /\ UNCHANGED <<faulty, mem, context, attached, since, replay, disk, pending,
                   acked, ops>>

ClearJournal ==
    /\ pc = "clear"
    /\ txn' = [txn EXCEPT !.journal = <<>>]
    /\ pc' = "commit"
    /\ UNCHANGED <<faulty, mem, context, attached, since, replay, disk, pending,
                   acked, ops>>

\* Mutant: the row counter is not reset.
CommitKeepingCount ==
    /\ pc = "commit"
    /\ disk' = txn /\ txn' = NoTxn
    /\ Return
    /\ UNCHANGED <<faulty, mem, context, attached, since, replay, ops>>

CommitTxn ==
    /\ pc = "commit"
    /\ disk' = txn /\ txn' = NoTxn
    /\ since' = 0
    /\ Return
    /\ UNCHANGED <<faulty, mem, context, attached, replay, ops>>

\* A statement fails: the transaction is rolled back and the call raises.
CompactFails ==
    /\ faulty /\ pc \in {"compact", "delete", "insert", "clear"}
    /\ txn' = NoTxn
    /\ Raise
    /\ UNCHANGED <<faulty, mem, context, attached, since, replay, disk, ops>>

-----------------------------------------------------------------------------
(* attach_store() and detach_store() *)

\* Load the store and restore its snapshot, if it has one.  Callers attach a
\* brain that is not attached.
Attach ==
    /\ pc = "idle" /\ ~attached
    /\ pc' = "replay"
    /\ mem' = IF disk.snapshot = NoSnapshot THEN mem ELSE disk.snapshot
    /\ replay' = disk.journal
    /\ UNCHANGED <<faulty, context, attached, since, disk, txn, pending, acked, ops>>

ReplayRow ==
    /\ pc = "replay" /\ replay # <<>>
    /\ Execute(Head(replay).number, Head(replay).text)
    /\ replay' = Tail(replay)
    /\ UNCHANGED <<faulty, pc, attached, since, disk, txn, pending, acked, ops>>

\* A replayed write raises: the rebuild stays half done, no store is bound.
ReplayFails ==
    /\ faulty /\ pc = "replay" /\ replay # <<>>
    /\ replay' = <<>>
    /\ Raise
    /\ UNCHANGED <<faulty, mem, context, attached, since, disk, txn, ops>>

\* Bind the store, then snapshot the rebuilt state as the new baseline.
Bind ==
    /\ pc = "replay" /\ replay = <<>>
    /\ attached' = TRUE /\ since' = 0
    /\ pc' = "compact"
    /\ UNCHANGED <<faulty, mem, context, replay, disk, txn, pending, acked, ops>>

Detach ==
    /\ pc = "idle" /\ attached
    /\ attached' = FALSE /\ since' = 0
    /\ UNCHANGED <<faulty, pc, mem, context, replay, disk, txn, pending, acked, ops>>

-----------------------------------------------------------------------------
Compacting ==
    BeginTxn \/ DeleteSnapshot \/ InsertSnapshot \/ ClearJournal \/ CommitTxn

Next ==
    \/ Start \/ Crash
    \/ \E text \in Observations : Write(text)
    \/ AppendRow \/ AppendFails
    \/ RewriteInPlace \/ Reset \/ \E n \in 0 .. Len(mem) : Restore(n)
    \/ Compacting \/ CompactFails
    \/ Attach \/ ReplayRow \/ ReplayFails \/ Bind \/ Detach

Spec == Init /\ [][Next]_vars

-----------------------------------------------------------------------------
(* Properties *)

Tables(t) == /\ t.snapshot = NoSnapshot \/ t.snapshot \in Seq(Entry)
             /\ t.journal \in Seq(Entry)

\* Every variable has its type.
TypeOK ==
    /\ pc \in {"down", "idle", "append", "compact", "delete", "insert", "clear",
               "commit", "replay"}
    /\ mem \in Seq(Entry) /\ context \in Observations \union {NoSubject}
    /\ attached \in BOOLEAN /\ since \in Nat /\ replay \in Seq(Entry)
    /\ Tables(disk) /\ (txn # NoTxn => Tables(txn))
    /\ ops \in 0 .. MaxOps /\ pending \in 0 .. MaxOps /\ acked \subseteq 1 .. MaxOps

\* A write that returned to its caller is on disk from then on, whatever
\* fails or crashes afterwards, until a reset or restore gives it up.
AckedIsDurable == acked \subseteq Numbers(Durable)

\* compact() is atomic: seen from disk, its steps change nothing but the one
\* that commits, and that one stores exactly the state in memory.
CompactionIsAtomic ==
    [][Compacting => Durable' = Durable \/ (CommitTxn /\ Durable' = mem)]_vars

\* "a replay reconstructs byte-identical state" (store.py): once the journal
\* is replayed, the brain is what the store recorded.
ReplayIsFaithful ==
    ~faulty /\ pc = "replay" /\ replay = <<>> /\ disk.snapshot # NoSnapshot =>
        mem = Durable

\* While the store is attached and no statement fails, the journal is as long
\* as the counter says, and never longer than compact_every.
JournalBounded ==
    ~faulty =>
       /\ Len(disk.journal) <= CompactEvery
       /\ attached /\ pc \notin {"commit", "compact", "delete", "insert", "clear"} =>
             Len(disk.journal) = since /\ since < CompactEvery

\* Refinement: as long as no statement fails, the brain and its store keep the
\* promise of DurableMemory.  A behaviour with failures maps to no memory at all.
Up == ~faulty /\ attached /\ pc # "replay"

Promise == INSTANCE DurableMemory WITH
    States  <- Seq(Entry),
    Nothing <- NoSnapshot,
    up      <- Up,
    live    <- IF Up THEN mem ELSE NoSnapshot,
    durable <- IF faulty \/ disk.snapshot = NoSnapshot THEN NoSnapshot ELSE Durable

KeepsPromise == Promise!Spec
=============================================================================
