------------------------- MODULE DurableBrainProofs -------------------------
(***************************************************************************)
(* What the durable brain guarantees for all texts, all numbers of         *)
(* operations and every compact_every.  With failures: what was            *)
(* acknowledged is on disk and compaction is atomic.  Without: the journal *)
(* is bounded, and if every text names its subject, replay is faithful and *)
(* the brain implements DurableMemory.                                     *)
(***************************************************************************)
EXTENDS DurableBrain, SequenceTheorems, TLAPS

InCompact == {"compact", "delete", "insert", "clear", "commit"}

IsTables(t) == t = [snapshot |-> t.snapshot, journal |-> t.journal] /\ Tables(t)

\* Types, with what the control state says of the other variables.
Typed ==
    /\ faulty \in BOOLEAN
    /\ pc \in {"down", "idle", "append", "compact", "delete", "insert", "clear",
               "commit", "replay"}
    /\ mem \in Seq(Entry) /\ context \in Observations \union {NoSubject}
    /\ attached \in BOOLEAN /\ since \in Nat
    /\ replay \in Seq(Entry) /\ \A i \in DOMAIN replay : replay[i].text \in Observations
    /\ IsTables(disk) /\ \A i \in DOMAIN disk.journal : disk.journal[i].text \in Observations
    /\ ops \in 0 .. MaxOps /\ pending \in 0 .. MaxOps /\ acked \subseteq 1 .. MaxOps

\* The transaction under way, and when a store is bound.
Control ==
    /\ txn # NoTxn => pc \in {"delete", "insert", "clear", "commit"}
    /\ pc \in {"delete", "insert", "clear", "commit"} => IsTables(txn)
    /\ pc \in {"clear", "commit"} => txn.snapshot = mem
    /\ pc = "commit" => txn.journal = <<>>
    /\ pc \in InCompact \union {"append"} => attached
    /\ pc \in {"down", "replay"} => ~attached
    /\ pc \in {"down", "idle", "replay"} => pending = 0
    /\ pc = "append" => /\ mem # <<>> /\ mem[Len(mem)].number = pending
                        /\ mem[Len(mem)].text \in Observations

\* Where the acknowledged writes are.
Acknowledged ==
    /\ acked \subseteq Numbers(Durable)
    /\ attached => acked \subseteq Numbers(mem)
    /\ pc = "replay" => acked \subseteq Numbers(mem) \union Numbers(replay)
    /\ pending # 0 => pending \in Numbers(mem)

Inv == Typed /\ Control /\ Acknowledged

-----------------------------------------------------------------------------
(* Lemmas on sequences and their numbers *)

\* The numbers of a longer state.
LEMMA NumbersAppend ==
    ASSUME NEW s \in Seq(Entry), NEW e \in Entry
    PROVE  Numbers(Append(s, e)) = Numbers(s) \union {e.number}
<1>1. /\ Append(s, e) \in Seq(Entry) /\ DOMAIN Append(s, e) = 1 .. Len(s) + 1
      /\ DOMAIN s = 1 .. Len(s)
      /\ \A i \in 1 .. Len(s) : Append(s, e)[i] = s[i]
      /\ Append(s, e)[Len(s) + 1] = e /\ Len(s) \in Nat
  BY AppendProperties
<1>2. 1 .. Len(s) + 1 = (1 .. Len(s)) \union {Len(s) + 1}
  BY <1>1
<1> QED
  BY <1>1, <1>2 DEF Numbers

\* The numbers of two states, one after the other.
LEMMA NumbersConcat ==
    ASSUME NEW s \in Seq(Entry), NEW t \in Seq(Entry)
    PROVE  Numbers(s \o t) = Numbers(s) \union Numbers(t)
<1>1. /\ DOMAIN (s \o t) = 1 .. Len(s) + Len(t) /\ DOMAIN s = 1 .. Len(s)
      /\ DOMAIN t = 1 .. Len(t) /\ Len(s) \in Nat /\ Len(t) \in Nat
      /\ \A i \in 1 .. Len(s) : (s \o t)[i] = s[i]
      /\ \A i \in 1 .. Len(t) : (s \o t)[Len(s) + i] = t[i]
  BY ConcatProperties
<1>2. \A i \in 1 .. Len(s) + Len(t) : i \notin 1 .. Len(s) =>
         i - Len(s) \in 1 .. Len(t) /\ i = Len(s) + (i - Len(s))
  BY <1>1
<1>3. \A i \in 1 .. Len(t) : Len(s) + i \in 1 .. Len(s) + Len(t)
  BY <1>1
<1>4. \A i \in 1 .. Len(s) : i \in 1 .. Len(s) + Len(t)
  BY <1>1
<1>5. Numbers(s \o t) \subseteq Numbers(s) \union Numbers(t)
  <2> SUFFICES ASSUME NEW i \in 1 .. Len(s) + Len(t)
               PROVE  (s \o t)[i].number \in Numbers(s) \union Numbers(t)
    BY <1>1 DEF Numbers
  <2>1. CASE i \in 1 .. Len(s)
    BY <2>1, <1>1 DEF Numbers
  <2>2. CASE i \notin 1 .. Len(s)
    <3>1. (s \o t)[i] = t[i - Len(s)]
      BY <2>2, <1>1, <1>2
    <3> QED
      BY <2>2, <3>1, <1>1, <1>2 DEF Numbers
  <2> QED
    BY <2>1, <2>2
<1>6. Numbers(s) \subseteq Numbers(s \o t)
  BY <1>1, <1>4 DEF Numbers
<1>7. Numbers(t) \subseteq Numbers(s \o t)
  <2> SUFFICES ASSUME NEW i \in 1 .. Len(t)
               PROVE  t[i].number \in Numbers(s \o t)
    BY <1>1 DEF Numbers
  <2>1. t[i] = (s \o t)[Len(s) + i] /\ Len(s) + i \in DOMAIN (s \o t)
    BY <1>1, <1>3
  <2> QED
    BY <2>1 DEF Numbers
<1> QED
  BY <1>5, <1>6, <1>7

\* The numbers of what is left to replay.
LEMMA NumbersTail ==
    ASSUME NEW s \in Seq(Entry), s # <<>>
    PROVE  Numbers(s) = {Head(s).number} \union Numbers(Tail(s))
<1>1. /\ Len(s) \in Nat \ {0} /\ DOMAIN s = 1 .. Len(s) /\ Head(s) = s[1]
      /\ Len(Tail(s)) = Len(s) - 1 /\ DOMAIN Tail(s) = 1 .. Len(s) - 1
      /\ \A i \in 1 .. Len(s) - 1 : Tail(s)[i] = s[i + 1]
  <2>1. Len(s) \in Nat /\ Len(s) # 0 /\ DOMAIN s = 1 .. Len(s)
    BY EmptySeq, LenProperties
  <2>2. /\ Tail(s) \in Seq(Entry) /\ Len(Tail(s)) = Len(s) - 1
        /\ \A i \in 1 .. Len(Tail(s)) : Tail(s)[i] = s[i + 1]
    BY HeadTailProperties
  <2>3. DOMAIN Tail(s) = 1 .. Len(s) - 1
    BY <2>2, LenProperties
  <2>4. Head(s) = s[1]
    BY <2>1
  <2> QED
    BY <2>1, <2>2, <2>3, <2>4
<1>2. \A i \in 1 .. Len(s) : i # 1 => i - 1 \in 1 .. Len(s) - 1 /\ i = (i - 1) + 1
  BY <1>1
<1>3. \A i \in 1 .. Len(s) - 1 : i + 1 \in 1 .. Len(s)
  BY <1>1
<1>4. 1 \in 1 .. Len(s)
  BY <1>1
<1>5. Numbers(s) \subseteq {Head(s).number} \union Numbers(Tail(s))
  <2> SUFFICES ASSUME NEW i \in 1 .. Len(s), i # 1
               PROVE  s[i].number \in Numbers(Tail(s))
    BY <1>1 DEF Numbers
  <2>1. s[i] = Tail(s)[i - 1] /\ i - 1 \in DOMAIN Tail(s)
    BY <1>1, <1>2
  <2> QED
    BY <2>1 DEF Numbers
<1>6. Numbers(Tail(s)) \subseteq Numbers(s)
  BY <1>1, <1>3 DEF Numbers
<1> QED
  BY <1>1, <1>4, <1>5, <1>6 DEF Numbers

\* What is durable is a state.
LEMMA DurableType ==
    ASSUME Typed
    PROVE  Durable \in Seq(Entry)
<1>1. disk.journal \in Seq(Entry)
  BY DEF Typed, IsTables, Tables
<1>2. disk.snapshot # NoSnapshot => disk.snapshot \in Seq(Entry)
  BY DEF Typed, IsTables, Tables
<1>3. disk.snapshot # NoSnapshot => disk.snapshot \o disk.journal \in Seq(Entry)
  BY <1>1, <1>2, ConcatProperties
<1> QED
  BY <1>1, <1>3 DEF Durable

\* What a new operation is recorded as.
LEMMA ReadingType ==
    ASSUME Typed, NEW text \in Observations
    PROVE  Reading(text) \in Observations \union {NoSubject}
BY DEF Reading, Typed

\* The last entry of a longer state.
LEMMA LastAppended ==
    ASSUME NEW s \in Seq(Entry), NEW e \in Entry
    PROVE  /\ Append(s, e) \in Seq(Entry) /\ Append(s, e) # <<>>
           /\ Append(s, e)[Len(Append(s, e))] = e
BY AppendProperties

\* One entry is a state.
LEMMA OneEntry ==
    ASSUME NEW e \in Entry
    PROVE  <<e>> \in Seq(Entry)
OBVIOUS

\* A row more in the journal is a row more in what is durable.
LEMMA ConcatAppend ==
    ASSUME NEW s \in Seq(Entry), NEW t \in Seq(Entry), NEW e \in Entry
    PROVE  s \o Append(t, e) = Append(s \o t, e)
<1>1. <<e>> \in Seq(Entry) /\ s \o t \in Seq(Entry)
  BY OneEntry, ConcatProperties
<1>2. Append(t, e) = t \o <<e>>
  BY AppendIsConcat
<1>3. Append(s \o t, e) = (s \o t) \o <<e>>
  BY <1>1, AppendIsConcat
<1>4. (s \o t) \o <<e>> = s \o (t \o <<e>>)
  BY <1>1, ConcatAssociative
<1> QED
  BY <1>2, <1>3, <1>4

\* Before the first start nothing is durable and nothing acknowledged.
LEMMA InitInv == Init => Inv
<1> SUFFICES ASSUME Init PROVE Inv
  OBVIOUS
<1>1. <<>> \in Seq(Entry) /\ DOMAIN <<>> = {}
  BY EmptySeq
<1>2. disk.snapshot = NoSnapshot /\ disk.journal = <<>>
  BY DEF Init
<1>3. Typed
  <2>1. IsTables(disk)
    BY <1>1, <1>2 DEF Init, IsTables, Tables
  <2>2. DOMAIN replay = {} /\ DOMAIN disk.journal = {} /\ replay \in Seq(Entry) /\ mem \in Seq(Entry)
    BY <1>1, <1>2 DEF Init
  <2>3. 0 \in Nat /\ 0 \in 0 .. MaxOps
    BY BoundAssumption
  <2>4. faulty \in BOOLEAN
    BY FailureAssumption, Zenon DEF Init
  <2> QED
    BY <2>1, <2>2, <2>3, <2>4 DEF Init, Typed
<1>4. Control
  BY DEF Init, Control, InCompact
<1>5. Acknowledged
  BY DEF Init, Acknowledged
<1> QED
  BY <1>3, <1>4, <1>5 DEF Inv

-----------------------------------------------------------------------------
(* Each step preserves the invariant *)

\* The same tables stay durable.
LEMMA SameDurable == disk' = disk => Durable' = Durable
BY DEF Durable

\* A process starts with the fresh brain of its constructor.
LEMMA StartInv ==
    ASSUME Inv, Start
    PROVE  Inv'
<1>1. Typed'
  BY DEF Start, Inv, Typed
<1>2. Control'
  BY DEF Start, Inv, Control, InCompact
<1>3. Acknowledged'
  BY SameDurable DEF Start, Inv, Acknowledged
<1> QED
  BY <1>1, <1>2, <1>3 DEF Inv

\* The process dies: what is durable stays, the call under way is not answered.
LEMMA CrashInv ==
    ASSUME Inv, Crash
    PROVE  Inv'
<1>1. <<>> \in Seq(Entry) /\ DOMAIN <<>> = {}
  BY EmptySeq
<1>2. Typed'
  <2>1. DOMAIN replay' = {} /\ replay' \in Seq(Entry) /\ mem' \in Seq(Entry)
    BY <1>1 DEF Crash
  <2>2. 0 \in Nat /\ 0 \in 0 .. MaxOps /\ FALSE \in BOOLEAN
    BY BoundAssumption
  <2> QED
    BY <2>1, <2>2 DEF Crash, Inv, Typed
<1>3. Control'
  BY DEF Crash, Inv, Control, InCompact
<1>4. Acknowledged'
  BY SameDurable DEF Crash, Inv, Acknowledged
<1> QED
  BY <1>2, <1>3, <1>4 DEF Inv

\* A write, or a rewrite in place, makes the state longer by one entry.
LEMMA Lengthened ==
    ASSUME Inv, pc = "idle", ops < Bound, NEW text, NEW subject,
           text \in Observations \union {Rewrite}, subject \in Observations \union {NoSubject},
           mem' = Append(mem, [number |-> ops + 1, text |-> text, subject |-> subject])
    PROVE  /\ ops + 1 \in 1 .. MaxOps
           /\ mem' \in Seq(Entry) /\ mem' # <<>>
           /\ mem'[Len(mem')] = [number |-> ops + 1, text |-> text, subject |-> subject]
           /\ Numbers(mem') = Numbers(mem) \union {ops + 1}
<1> DEFINE e == [number |-> ops + 1, text |-> text, subject |-> subject]
<1>1. ops + 1 \in 1 .. MaxOps
  BY BoundAssumption DEF Inv, Typed, Bound
<1>2. e \in Entry /\ e.number = ops + 1
  BY <1>1 DEF Entry
<1>3. mem \in Seq(Entry)
  BY DEF Inv, Typed
<1> HIDE DEF e
<1>4. mem' = Append(mem, e)
  BY DEF e
<1>5. /\ mem' \in Seq(Entry) /\ mem' # <<>> /\ mem'[Len(mem')] = e
      /\ Numbers(mem') = Numbers(mem) \union {ops + 1}
  <2>1. /\ Append(mem, e) \in Seq(Entry) /\ Append(mem, e) # <<>>
        /\ Append(mem, e)[Len(Append(mem, e))] = e
    BY <1>2, <1>3, LastAppended
  <2>2. Numbers(Append(mem, e)) = Numbers(mem) \union {e.number}
    BY <1>2, <1>3, NumbersAppend
  <2> QED
    BY <1>2, <1>4, <2>1, <2>2 DEF Numbers
<1> QED
  BY <1>1, <1>5 DEF e

\* ingest() takes an observation: the row in memory has the number it will acknowledge.
LEMMA WriteInv ==
    ASSUME Inv, NEW text \in Observations, Write(text)
    PROVE  Inv'
<1>1. /\ pc = "idle" /\ ops < Bound /\ ops' = ops + 1
      /\ mem' = Append(mem, [number |-> ops + 1, text |-> text, subject |-> Reading(text)])
      /\ context' = IF Reading(text) = NoSubject THEN context ELSE Reading(text)
      /\ UNCHANGED <<faulty, attached, since, replay, disk, txn, acked>>
  BY DEF Write, Execute
<1>2. \/ attached /\ pc' = "append" /\ pending' = ops + 1
      \/ ~attached /\ pc' = pc /\ pending' = pending
  BY DEF Write, Inv, Typed
<1>3. Reading(text) \in Observations \union {NoSubject}
  BY ReadingType DEF Inv
<1>4. /\ ops + 1 \in 1 .. MaxOps /\ mem' \in Seq(Entry) /\ mem' # <<>>
      /\ mem'[Len(mem')] = [number |-> ops + 1, text |-> text, subject |-> Reading(text)]
      /\ Numbers(mem') = Numbers(mem) \union {ops + 1}
  BY <1>1, <1>3, Lengthened
<1>5. mem'[Len(mem')].number = ops + 1 /\ mem'[Len(mem')].text = text
  BY <1>4
<1>6. Typed'
  BY <1>1, <1>2, <1>3, <1>4, BoundAssumption DEF Inv, Typed
<1>7. Control'
  BY <1>1, <1>2, <1>4, <1>5 DEF Inv, Control, InCompact
<1>8. Numbers(mem)' = Numbers(mem) \union {ops + 1}
  BY <1>4 DEF Numbers
<1>9. Acknowledged'
  BY <1>1, <1>2, <1>8, SameDurable DEF Inv, Acknowledged, Control
<1> QED
  BY <1>6, <1>7, <1>9 DEF Inv

\* append_event() commits the row: the call is now durable, and may return.
LEMMA AppendRowInv ==
    ASSUME Inv, AppendRow
    PROVE  Inv'
<1> DEFINE e == mem[Len(mem)]
<1>1. /\ pc = "append" /\ attached /\ mem \in Seq(Entry) /\ mem # <<>>
      /\ e.text \in Observations /\ e.number = pending
  BY DEF AppendRow, Inv, Typed, Control, InCompact
<1>2. e \in Entry
  <2>1. Len(mem) \in 1 .. Len(mem)
    BY <1>1, EmptySeq
  <2> QED
    BY <1>1, <2>1, ElementOfSeq
<1> HIDE DEF e
<1>3. /\ disk' = [disk EXCEPT !.journal = Append(disk.journal, e)]
      /\ since' = since + 1
      /\ UNCHANGED <<faulty, mem, context, attached, replay, txn, ops>>
  BY DEF AppendRow, e
<1>4. \/ pc' = "compact" /\ pending' = pending /\ acked' = acked
      \/ pc' = "idle" /\ pending' = 0 /\ acked' = acked \union ({pending} \ {0})
  BY DEF AppendRow, Return
<1>5. /\ disk = [snapshot |-> disk.snapshot, journal |-> disk.journal]
      /\ disk.journal \in Seq(Entry)
      /\ disk.snapshot = NoSnapshot \/ disk.snapshot \in Seq(Entry)
      /\ \A i \in DOMAIN disk.journal : disk.journal[i].text \in Observations
  BY DEF Inv, Typed, IsTables, Tables
<1>6. disk' = [snapshot |-> disk.snapshot, journal |-> Append(disk.journal, e)]
  BY <1>3, <1>5
<1>7. /\ disk'.snapshot = disk.snapshot /\ disk'.journal = Append(disk.journal, e)
      /\ disk' = [snapshot |-> disk'.snapshot, journal |-> disk'.journal]
  BY <1>6
<1>8. Append(disk.journal, e) \in Seq(Entry)
  BY <1>2, <1>5, AppendProperties
<1>9. IsTables(disk')
  BY <1>5, <1>7, <1>8 DEF IsTables, Tables
<1>10. \A i \in DOMAIN disk'.journal : disk'.journal[i].text \in Observations
  <2> DEFINE j == disk.journal
  <2>1. /\ DOMAIN Append(j, e) = 1 .. Len(j) + 1 /\ DOMAIN j = 1 .. Len(j) /\ Len(j) \in Nat
        /\ \A i \in 1 .. Len(j) : Append(j, e)[i] = j[i]
        /\ Append(j, e)[Len(j) + 1] = e
    <3>1. Len(Append(j, e)) = Len(j) + 1
      BY <1>2, <1>5, AppendProperties
    <3>2. DOMAIN Append(j, e) = 1 .. Len(Append(j, e))
      BY <1>8, LenProperties
    <3> QED
      BY <1>2, <1>5, <3>1, <3>2, AppendProperties, LenProperties
  <2>2. \A i \in 1 .. Len(j) + 1 : i \in 1 .. Len(j) \/ i = Len(j) + 1
    BY <2>1
  <2> QED
    BY <1>1, <1>5, <1>7, <2>1, <2>2
<1>11. pending \in 0 .. MaxOps /\ acked \subseteq 1 .. MaxOps
  BY DEF Inv, Typed
<1>12. acked' \subseteq 1 .. MaxOps /\ pending' \in 0 .. MaxOps
  <2>1. 0 \in 0 .. MaxOps /\ \A i \in 0 .. MaxOps : i # 0 => i \in 1 .. MaxOps
    BY BoundAssumption
  <2>2. {pending} \ {0} \subseteq 1 .. MaxOps
    BY <1>11, <2>1
  <2> QED
    BY <1>4, <1>11, <2>1, <2>2
<1>13. Typed'
  <2>1. since' \in Nat
    BY <1>3 DEF Inv, Typed
  <2> QED
    BY <1>3, <1>4, <1>9, <1>10, <1>12, <2>1 DEF Inv, Typed
<1>14. Control'
  BY <1>1, <1>3, <1>4 DEF Inv, Control, InCompact
<1>15. Numbers(Durable)' = Numbers(Durable) \union {pending}
  <2>1. Durable' = Append(Durable, e)
    BY <1>2, <1>5, <1>7, AppendIsConcat, ConcatAssociative, OneEntry DEF Durable
  <2>2. Durable \in Seq(Entry)
    BY DurableType DEF Inv
  <2>3. Numbers(Append(Durable, e)) = Numbers(Durable) \union {e.number}
    BY <1>2, <2>2, NumbersAppend
  <2>4. Numbers(Durable)' = Numbers(Append(Durable, e))
    BY <2>1 DEF Numbers
  <2> QED
    BY <1>1, <2>3, <2>4
<1>16. Numbers(mem)' = Numbers(mem)
  BY <1>3 DEF Numbers
<1>17. Acknowledged'
  BY <1>1, <1>3, <1>4, <1>15, <1>16 DEF Inv, Acknowledged
<1> QED
  BY <1>13, <1>14, <1>17 DEF Inv

\* The insert raises: the call ends unacknowledged.
LEMMA AppendFailsInv ==
    ASSUME Inv, AppendFails
    PROVE  Inv'
<1>1. 0 \in 0 .. MaxOps
  BY BoundAssumption
<1>2. Typed'
  BY <1>1 DEF AppendFails, Raise, Inv, Typed
<1>3. Control'
  BY DEF AppendFails, Raise, Inv, Control, InCompact
<1>4. Acknowledged'
  BY SameDurable DEF AppendFails, Raise, Inv, Acknowledged
<1> QED
  BY <1>2, <1>3, <1>4 DEF Inv

\* consolidate() and forget() rewrite the state in memory; an attached brain compacts next.
LEMMA RewriteInv ==
    ASSUME Inv, RewriteInPlace
    PROVE  Inv'
<1>1. /\ pc = "idle" /\ ops < Bound /\ ops' = ops + 1
      /\ mem' = Append(mem, [number |-> ops + 1, text |-> Rewrite, subject |-> NoSubject])
      /\ UNCHANGED <<faulty, context, attached, since, replay, disk, txn, pending, acked>>
  BY DEF RewriteInPlace
<1>2. \/ attached /\ pc' = "compact"
      \/ ~attached /\ pc' = pc
  BY DEF RewriteInPlace, CompactIfAttached, Inv, Typed
<1>3. /\ ops + 1 \in 1 .. MaxOps /\ mem' \in Seq(Entry)
      /\ Numbers(mem') = Numbers(mem) \union {ops + 1}
  BY <1>1, Lengthened
<1>4. Typed'
  BY <1>1, <1>2, <1>3 DEF Inv, Typed
<1>5. Control'
  BY <1>1, <1>2 DEF Inv, Control, InCompact
<1>6. Numbers(mem)' = Numbers(mem) \union {ops + 1}
  BY <1>3 DEF Numbers
<1>7. Acknowledged'
  BY <1>1, <1>2, <1>6, SameDurable DEF Inv, Acknowledged
<1> QED
  BY <1>4, <1>5, <1>7 DEF Inv

\* reset() empties the memory: what it erased no longer counts as acknowledged.
LEMMA ResetInv ==
    ASSUME Inv, Reset
    PROVE  Inv'
<1>1. /\ pc = "idle" /\ mem' = <<>> /\ context' = NoSubject /\ acked' = {}
      /\ UNCHANGED <<faulty, attached, since, replay, disk, txn, pending, ops>>
  BY DEF Reset
<1>2. \/ attached /\ pc' = "compact"
      \/ ~attached /\ pc' = pc
  BY DEF Reset, CompactIfAttached, Inv, Typed
<1>3. <<>> \in Seq(Entry)
  BY EmptySeq
<1>4. Typed'
  BY <1>1, <1>2, <1>3 DEF Inv, Typed
<1>5. Control'
  BY <1>1, <1>2 DEF Inv, Control, InCompact
<1>6. Acknowledged'
  BY <1>1, <1>2 DEF Inv, Acknowledged, Control
<1> QED
  BY <1>4, <1>5, <1>6 DEF Inv

\* restore() puts an earlier state in place of the memory; an attached brain compacts next.
LEMMA RestoreInv ==
    ASSUME Inv, NEW n \in 0 .. Len(mem), Restore(n)
    PROVE  Inv'
<1>1. /\ pc = "idle" /\ mem' = SubSeq(mem, 1, n) /\ acked' = acked \intersect Numbers(mem')
      /\ UNCHANGED <<faulty, context, attached, since, replay, disk, txn, pending, ops>>
  BY DEF Restore
<1>2. \/ attached /\ pc' = "compact"
      \/ ~attached /\ pc' = pc
  BY DEF Restore, CompactIfAttached, Inv, Typed
<1>3. mem' \in Seq(Entry)
  <2>1. mem \in Seq(Entry) /\ Len(mem) \in Nat
    BY LenProperties DEF Inv, Typed
  <2>2. \A i \in 1 .. n : mem[i] \in Entry
    BY <2>1, ElementOfSeq
  <2> QED
    BY <1>1, <2>1, <2>2, SubSeqProperties
<1>4. Typed'
  BY <1>1, <1>2, <1>3 DEF Inv, Typed
<1>5. Control'
  BY <1>1, <1>2 DEF Inv, Control, InCompact
<1>6. acked' \subseteq acked /\ acked' \subseteq Numbers(mem)'
  BY <1>1 DEF Numbers
<1>7. Acknowledged'
  BY <1>1, <1>2, <1>6, SameDurable DEF Inv, Acknowledged, Control
<1> QED
  BY <1>4, <1>5, <1>7 DEF Inv

\* BeginTxn, DeleteSnapshot, InsertSnapshot and ClearJournal change only the
\* transaction.
LEMMA StatementInv ==
    ASSUME Inv, BeginTxn \/ DeleteSnapshot \/ InsertSnapshot \/ ClearJournal
    PROVE  Inv'
<1>1. /\ UNCHANGED <<faulty, mem, context, attached, since, replay, disk, pending, acked, ops>>
      /\ pc \in InCompact /\ pc' \in {"delete", "insert", "clear", "commit"}
  BY DEF BeginTxn, DeleteSnapshot, InsertSnapshot, ClearJournal, InCompact
<1>2. Typed'
  BY <1>1 DEF Inv, Typed, InCompact
<1>3. Control'
  <2>1. IsTables(disk) /\ mem \in Seq(Entry)
    BY DEF Inv, Typed
  <2>2. <<>> \in Seq(Entry)
    BY EmptySeq
  <2>3. pc # "compact" => IsTables(txn)
    BY <1>1 DEF Inv, Control, InCompact, BeginTxn, DeleteSnapshot, InsertSnapshot, ClearJournal
  <2>4. IsTables(txn')
    <3>1. CASE BeginTxn
      BY <2>1, <3>1 DEF BeginTxn
    <3>2. CASE DeleteSnapshot
      BY <2>3, <3>2 DEF DeleteSnapshot, IsTables, Tables
    <3>3. CASE InsertSnapshot
      BY <2>1, <2>3, <3>3 DEF InsertSnapshot, IsTables, Tables
    <3>4. CASE ClearJournal
      BY <2>2, <2>3, <3>4 DEF ClearJournal, IsTables, Tables
    <3> QED
      BY <3>1, <3>2, <3>3, <3>4
  <2>5. pc' = "clear" => txn'.snapshot = mem
    BY <2>3 DEF BeginTxn, DeleteSnapshot, InsertSnapshot, ClearJournal, IsTables
  <2>6. pc' = "commit" => txn'.snapshot = mem /\ txn'.journal = <<>>
    BY <2>3 DEF BeginTxn, DeleteSnapshot, InsertSnapshot, ClearJournal, IsTables, Inv, Control
  <2> QED
    BY <1>1, <2>4, <2>5, <2>6 DEF Inv, Control, InCompact
<1>4. Acknowledged'
  BY <1>1, SameDurable DEF Inv, Acknowledged, InCompact
<1> QED
  BY <1>2, <1>3, <1>4 DEF Inv

\* What CommitTxn makes durable.
LEMMA Committed ==
    ASSUME Inv, CommitTxn
    PROVE  /\ disk' = [snapshot |-> mem, journal |-> <<>>] /\ Durable' = mem
           /\ IsTables(disk') /\ mem \in Seq(Entry)
<1>1. /\ txn = [snapshot |-> txn.snapshot, journal |-> txn.journal]
      /\ txn.snapshot = mem /\ txn.journal = <<>> /\ disk' = txn /\ mem \in Seq(Entry)
      /\ IsTables(txn)
  BY DEF CommitTxn, Inv, Control, Typed, IsTables
<1>2. disk' = [snapshot |-> mem, journal |-> <<>>]
  BY <1>1
<1>3. disk'.snapshot = mem /\ disk'.journal = <<>>
  BY <1>2
<1>4. mem # NoSnapshot
  BY <1>1, NoneAssumption
<1>5. mem \o <<>> = mem
  BY <1>1, ConcatEmptySeq
<1>6. Durable' = mem
  BY <1>3, <1>4, <1>5 DEF Durable
<1> QED
  BY <1>1, <1>2, <1>6

\* COMMIT: the tables the transaction prepared become the durable ones, whole.
LEMMA CommitInv ==
    ASSUME Inv, CommitTxn
    PROVE  Inv'
<1>1. /\ pc = "commit" /\ attached /\ pc' = "idle" /\ txn' = NoTxn /\ since' = 0 /\ pending' = 0
      /\ acked' = acked \union ({pending} \ {0})
      /\ UNCHANGED <<faulty, mem, context, attached, replay, ops>>
  BY DEF CommitTxn, Return, Inv, Control, InCompact
<1>2. IsTables(disk') /\ Durable' = mem /\ disk'.journal = <<>>
  BY Committed
<1>3. DOMAIN disk'.journal = {}
  BY <1>2
<1>4. pending \in 0 .. MaxOps /\ acked \subseteq 1 .. MaxOps
  BY DEF Inv, Typed
<1>5. acked' \subseteq 1 .. MaxOps /\ pending' \in 0 .. MaxOps /\ since' \in Nat
  BY <1>1, <1>4, BoundAssumption
<1>6. Typed'
  BY <1>1, <1>2, <1>3, <1>5 DEF Inv, Typed
<1>7. Control'
  BY <1>1 DEF Inv, Control, InCompact
<1>8. Numbers(mem)' = Numbers(mem) /\ Numbers(Durable)' = Numbers(mem)
  BY <1>1, <1>2 DEF Numbers
<1>9. Acknowledged'
  BY <1>1, <1>8 DEF Inv, Acknowledged
<1> QED
  BY <1>6, <1>7, <1>9 DEF Inv

\* A failed compaction rolls back to the tables it started from.
LEMMA CompactFailsInv ==
    ASSUME Inv, CompactFails
    PROVE  Inv'
<1>1. /\ txn' = NoTxn /\ pc' = "idle" /\ pending' = 0 /\ pc \in InCompact
      /\ UNCHANGED <<faulty, mem, context, attached, since, replay, disk, ops, acked>>
  BY DEF CompactFails, Raise, InCompact
<1>2. 0 \in 0 .. MaxOps
  BY BoundAssumption
<1>3. Typed'
  BY <1>1, <1>2 DEF Inv, Typed
<1>4. Control'
  BY <1>1 DEF Inv, Control, InCompact
<1>5. Acknowledged'
  BY <1>1, SameDurable DEF Inv, Acknowledged
<1> QED
  BY <1>3, <1>4, <1>5 DEF Inv

\* attach() reads the tables and starts from the snapshot or from nothing.
LEMMA AttachInv ==
    ASSUME Inv, Attach
    PROVE  Inv'
<1>1. /\ pc = "idle" /\ ~attached /\ pc' = "replay" /\ pending = 0
      /\ mem' = IF disk.snapshot = NoSnapshot THEN mem ELSE disk.snapshot
      /\ replay' = disk.journal
      /\ UNCHANGED <<faulty, context, attached, since, disk, txn, pending, acked, ops>>
  BY DEF Attach, Inv, Control
<1>2. /\ disk.journal \in Seq(Entry)
      /\ disk.snapshot = NoSnapshot \/ disk.snapshot \in Seq(Entry)
  BY DEF Inv, Typed, IsTables, Tables
<1>3. Typed'
  BY <1>1, <1>2 DEF Inv, Typed
<1>4. Control'
  BY <1>1 DEF Inv, Control, InCompact
<1>5. Numbers(Durable) \subseteq Numbers(mem)' \union Numbers(replay)'
  <2>1. CASE disk.snapshot = NoSnapshot
    BY <1>1, <2>1 DEF Durable, Numbers
  <2>2. CASE disk.snapshot # NoSnapshot
    <3>1. Numbers(Durable) = Numbers(disk.snapshot) \union Numbers(disk.journal)
      BY <1>2, <2>2, NumbersConcat DEF Durable
    <3> QED
      BY <1>1, <2>2, <3>1 DEF Numbers
  <2> QED
    BY <2>1, <2>2
<1>6. Acknowledged'
  BY <1>1, <1>5, SameDurable DEF Inv, Acknowledged
<1> QED
  BY <1>3, <1>4, <1>6 DEF Inv

\* One journaled observation is ingested again.
LEMMA ReplayRowInv ==
    ASSUME Inv, ReplayRow
    PROVE  Inv'
<1> DEFINE h == Head(replay)
           e == [number |-> h.number, text |-> h.text, subject |-> Reading(h.text)]
<1>1. /\ pc = "replay" /\ replay # <<>> /\ replay' = Tail(replay) /\ pending = 0 /\ ~attached
      /\ mem' = Append(mem, e)
      /\ context' = IF Reading(h.text) = NoSubject THEN context ELSE Reading(h.text)
      /\ UNCHANGED <<faulty, pc, attached, since, disk, txn, pending, acked, ops>>
  BY DEF ReplayRow, Execute, Inv, Control
<1>2. /\ replay \in Seq(Entry) /\ mem \in Seq(Entry)
      /\ \A i \in DOMAIN replay : replay[i].text \in Observations
  BY DEF Inv, Typed
<1>3. /\ h \in Entry /\ Tail(replay) \in Seq(Entry) /\ h.text \in Observations
      /\ \A i \in DOMAIN Tail(replay) : Tail(replay)[i].text \in Observations
  <2>1. /\ Len(replay) \in Nat \ {0} /\ DOMAIN replay = 1 .. Len(replay) /\ h = replay[1]
    BY <1>1, <1>2, EmptySeq, LenProperties
  <2>2. /\ h \in Entry /\ Tail(replay) \in Seq(Entry) /\ Len(Tail(replay)) = Len(replay) - 1
        /\ \A i \in 1 .. Len(Tail(replay)) : Tail(replay)[i] = replay[i + 1]
    BY <1>1, <1>2, HeadTailProperties
  <2>3. DOMAIN Tail(replay) = 1 .. Len(replay) - 1
    BY <2>2, LenProperties
  <2>4. \A i \in 1 .. Len(replay) - 1 : i + 1 \in DOMAIN replay
    BY <2>1
  <2>5. 1 \in DOMAIN replay
    BY <2>1
  <2> HIDE DEF h
  <2> QED
    BY <1>2, <2>1, <2>2, <2>3, <2>4, <2>5
<1>4. Reading(h.text) \in Observations \union {NoSubject}
  BY <1>3, ReadingType DEF Inv
<1>5. e \in Entry /\ e.number = h.number
  BY <1>3, <1>4 DEF Entry
<1> HIDE DEF h, e
<1>6. mem' \in Seq(Entry)
  BY <1>1, <1>2, <1>5, AppendProperties
<1>7. Typed'
  BY <1>1, <1>3, <1>4, <1>6 DEF Inv, Typed
<1>8. Control'
  BY <1>1 DEF Inv, Control, InCompact
<1>9. Numbers(mem)' \union Numbers(replay)' = Numbers(mem) \union Numbers(replay)
  <2>1. Numbers(Append(mem, e)) = Numbers(mem) \union {h.number}
    BY <1>2, <1>5, NumbersAppend
  <2>2. Numbers(replay) = {h.number} \union Numbers(Tail(replay))
    BY <1>1, <1>2, NumbersTail DEF h
  <2>3. Numbers(mem)' = Numbers(Append(mem, e)) /\ Numbers(replay)' = Numbers(Tail(replay))
    BY <1>1 DEF Numbers
  <2> QED
    BY <2>1, <2>2, <2>3
<1>10. Acknowledged'
  BY <1>1, <1>9, SameDurable DEF Inv, Acknowledged
<1> QED
  BY <1>7, <1>8, <1>10 DEF Inv

\* Replay stops half way: the brain is left with what was replayed so far.
LEMMA ReplayFailsInv ==
    ASSUME Inv, ReplayFails
    PROVE  Inv'
<1>1. /\ pc = "replay" /\ ~attached /\ pc' = "idle" /\ replay' = <<>> /\ pending' = 0
      /\ UNCHANGED <<faulty, mem, context, attached, since, disk, txn, ops, acked>>
  BY DEF ReplayFails, Raise, Inv, Control
<1>2. <<>> \in Seq(Entry) /\ DOMAIN <<>> = {} /\ 0 \in 0 .. MaxOps
  BY EmptySeq, BoundAssumption
<1>3. Typed'
  BY <1>1, <1>2 DEF Inv, Typed
<1>4. Control'
  BY <1>1 DEF Inv, Control, InCompact
<1>5. Acknowledged'
  BY <1>1, SameDurable DEF Inv, Acknowledged
<1> QED
  BY <1>3, <1>4, <1>5 DEF Inv

\* The store is bound: from here on every change is recorded.
LEMMA BindInv ==
    ASSUME Inv, Bind
    PROVE  Inv'
<1>1. /\ pc = "replay" /\ replay = <<>> /\ pending = 0 /\ attached' = TRUE /\ since' = 0
      /\ pc' = "compact"
      /\ UNCHANGED <<faulty, mem, context, replay, disk, txn, pending, acked, ops>>
  BY DEF Bind, Inv, Control
<1>2. 0 \in Nat
  OBVIOUS
<1>3. Typed'
  BY <1>1, <1>2 DEF Inv, Typed
<1>4. Control'
  BY <1>1 DEF Inv, Control, InCompact
<1>5. Numbers(replay) = {} /\ Numbers(mem)' = Numbers(mem)
  BY <1>1 DEF Numbers
<1>6. Acknowledged'
  BY <1>1, <1>5, SameDurable DEF Inv, Acknowledged
<1> QED
  BY <1>3, <1>4, <1>6 DEF Inv

\* detach_store(): the tables stay as they are.
LEMMA DetachInv ==
    ASSUME Inv, Detach
    PROVE  Inv'
<1>1. /\ pc = "idle" /\ attached' = FALSE /\ since' = 0
      /\ UNCHANGED <<faulty, pc, mem, context, replay, disk, txn, pending, acked, ops>>
  BY DEF Detach
<1>2. 0 \in Nat
  OBVIOUS
<1>3. Typed'
  BY <1>1, <1>2 DEF Inv, Typed
<1>4. Control'
  BY <1>1 DEF Inv, Control, InCompact
<1>5. Acknowledged'
  BY <1>1, SameDurable DEF Inv, Acknowledged
<1> QED
  BY <1>3, <1>4, <1>5 DEF Inv

\* Every step preserves the invariant.
LEMMA StepInv == Inv /\ [Next]_vars => Inv'
<1> SUFFICES ASSUME Inv, [Next]_vars PROVE Inv'
  OBVIOUS
<1>1. CASE Start
  BY <1>1, StartInv
<1>2. CASE Crash
  BY <1>2, CrashInv
<1>3. ASSUME NEW text \in Observations, Write(text) PROVE Inv'
  BY <1>3, WriteInv
<1>4. CASE AppendRow
  BY <1>4, AppendRowInv
<1>5. CASE AppendFails
  BY <1>5, AppendFailsInv
<1>6. CASE RewriteInPlace
  BY <1>6, RewriteInv
<1>7. CASE Reset
  BY <1>7, ResetInv
<1>8. ASSUME NEW n \in 0 .. Len(mem), Restore(n) PROVE Inv'
  BY <1>8, RestoreInv
<1>9. CASE BeginTxn \/ DeleteSnapshot \/ InsertSnapshot \/ ClearJournal
  BY <1>9, StatementInv
<1>10. CASE CommitTxn
  BY <1>10, CommitInv
<1>11. CASE CompactFails
  BY <1>11, CompactFailsInv
<1>12. CASE Attach
  BY <1>12, AttachInv
<1>13. CASE ReplayRow
  BY <1>13, ReplayRowInv
<1>14. CASE ReplayFails
  BY <1>14, ReplayFailsInv
<1>15. CASE Bind
  BY <1>15, BindInv
<1>16. CASE Detach
  BY <1>16, DetachInv
<1>17. CASE UNCHANGED vars
  <2> USE <1>17 DEF vars
  <2>1. Typed'
    BY DEF Inv, Typed
  <2>2. Control'
    BY DEF Inv, Control, InCompact
  <2>3. Acknowledged'
    BY SameDurable DEF Inv, Acknowledged
  <2> QED
    BY <2>1, <2>2, <2>3 DEF Inv
<1> QED
  BY <1>1, <1>2, <1>3, <1>4, <1>5, <1>6, <1>7, <1>8, <1>9, <1>10, <1>11, <1>12, <1>13,
     <1>14, <1>15, <1>16, <1>17 DEF Next, Compacting

\* Types, the transaction under way, and where the acknowledged writes are.
THEOREM InvIsInvariant == Spec => []Inv
BY InitInv, StepInv, PTL DEF Spec

\* Every reachable state has its type.
THEOREM TypeCorrect == Spec => []TypeOK
<1>1. Inv => TypeOK
  BY DEF Inv, Typed, Control, InCompact, IsTables, TypeOK
<1> QED
  BY <1>1, InvIsInvariant, PTL

\* A write that returned is on disk, whatever fails or crashes afterwards.
THEOREM AckedIsDurableHolds == Spec => []AckedIsDurable
<1>1. Inv => AckedIsDurable
  BY DEF Inv, Acknowledged, AckedIsDurable
<1> QED
  BY <1>1, InvIsInvariant, PTL

\* Only the commit of a compaction is seen from disk, and it stores the state in
\* memory.
THEOREM CompactionIsAtomicHolds == Spec => CompactionIsAtomic
<1>1. Inv /\ [Next]_vars =>
        [Compacting => Durable' = Durable \/ (CommitTxn /\ Durable' = mem)]_vars
  <2> SUFFICES ASSUME Inv, Compacting
               PROVE  Durable' = Durable \/ (CommitTxn /\ Durable' = mem)
    OBVIOUS
  <2>1. CASE BeginTxn \/ DeleteSnapshot \/ InsertSnapshot \/ ClearJournal
    BY <2>1, SameDurable DEF BeginTxn, DeleteSnapshot, InsertSnapshot, ClearJournal
  <2>2. CASE CommitTxn
    BY <2>2, Committed
  <2> QED
    BY <2>1, <2>2 DEF Compacting
<1> QED
  BY <1>1, InvIsInvariant, PTL DEF Spec, CompactionIsAtomic

-----------------------------------------------------------------------------
(* The journal is bounded *)

\* Whether anything may fail is settled at first.
LEMMA FaultyFixed == [Next]_vars => faulty' = faulty
<1> SUFFICES ASSUME [Next]_vars PROVE faulty' = faulty
  OBVIOUS
<1>1. CASE Start \/ Crash \/ AppendRow \/ AppendFails \/ RewriteInPlace \/ Reset
  BY <1>1 DEF Start, Crash, AppendRow, AppendFails, RewriteInPlace, Reset
<1>2. CASE (\E text \in Observations : Write(text)) \/ (\E n \in 0 .. Len(mem) : Restore(n))
  BY <1>2 DEF Write, Restore
<1>3. CASE Compacting \/ CompactFails
  BY <1>3 DEF Compacting, BeginTxn, DeleteSnapshot, InsertSnapshot, ClearJournal, CommitTxn,
     CompactFails
<1>4. CASE Attach \/ ReplayRow \/ ReplayFails \/ Bind \/ Detach
  BY <1>4 DEF Attach, ReplayRow, ReplayFails, Bind, Detach
<1>5. CASE UNCHANGED vars
  BY <1>5 DEF vars
<1> QED
  BY <1>1, <1>2, <1>3, <1>4, <1>5 DEF Next

Bounded ==
    /\ Len(disk.journal) <= CompactEvery
    /\ attached /\ pc \notin InCompact => Len(disk.journal) = since /\ since < CompactEvery

BoundInv == faulty \/ Bounded

\* Without failures the journal is as long as the counter says, between
\* compactions, and never longer than compact_every.
THEOREM JournalBoundedHolds == Spec => []JournalBounded
<1>1. Init => BoundInv
  BY EmptySeq, CompactAssumption DEF Init, BoundInv, Bounded
<1>2. Inv /\ BoundInv /\ [Next]_vars => BoundInv'
  <2> SUFFICES ASSUME Inv, BoundInv, [Next]_vars, ~faulty PROVE Bounded'
    BY FaultyFixed DEF BoundInv
  <2>1. Bounded /\ since \in Nat /\ CompactEvery \in Nat \ {0} /\ disk.journal \in Seq(Entry)
    BY CompactAssumption DEF BoundInv, Inv, Typed, IsTables, Tables
  <2>2. ASSUME disk' = disk, attached' = attached, since' = since,
               pc' \in InCompact \/ pc \notin InCompact
        PROVE  Bounded'
    BY <2>1, <2>2 DEF Bounded
  <2>3. ASSUME disk' = disk, attached' = FALSE PROVE Bounded'
    BY <2>1, <2>3 DEF Bounded
  <2>4. CASE AppendRow
    <3>1. attached /\ pc \notin InCompact
      BY <2>4 DEF AppendRow, Inv, Control, InCompact
    <3>2. Len(disk.journal) = since /\ since < CompactEvery
      BY <2>1, <3>1 DEF Bounded
    <3>3. Len(disk'.journal) = since + 1 /\ since' = since + 1
      <4>1. disk'.journal = Append(disk.journal, mem[Len(mem)])
        BY <2>4 DEF AppendRow, Inv, Typed, IsTables
      <4>2. mem[Len(mem)] \in Entry
        <5>1. mem \in Seq(Entry) /\ Len(mem) \in 1 .. Len(mem)
          BY <2>4, EmptySeq DEF AppendRow, Inv, Typed, Control
        <5> QED
          BY <5>1, ElementOfSeq
      <4>3. Len(Append(disk.journal, mem[Len(mem)])) = Len(disk.journal) + 1
        BY <2>1, <4>2, AppendProperties
      <4> QED
        BY <2>4, <3>2, <4>1, <4>3 DEF AppendRow
    <3>4. pc' = "compact" \/ (pc' = "idle" /\ since + 1 < CompactEvery)
      BY <2>1, <2>4 DEF AppendRow, Return
    <3> QED
      BY <2>1, <3>2, <3>3, <3>4 DEF Bounded, InCompact
  <2>5. CASE CommitTxn
    <3>1. disk'.journal = <<>> /\ since' = 0
      BY <2>5, Committed DEF CommitTxn
    <3> QED
      BY <2>1, <3>1, EmptySeq DEF Bounded
  <2>6. CASE Start \/ (\E text \in Observations : Write(text))
    BY <2>2, <2>6 DEF Start, Write, InCompact
  <2>7. CASE RewriteInPlace \/ Reset \/ (\E n \in 0 .. Len(mem) : Restore(n))
    BY <2>2, <2>7 DEF RewriteInPlace, Reset, Restore, CompactIfAttached, InCompact
  <2>8. CASE BeginTxn \/ DeleteSnapshot \/ InsertSnapshot \/ ClearJournal
    BY <2>2, <2>8 DEF BeginTxn, DeleteSnapshot, InsertSnapshot, ClearJournal, InCompact
  <2>9. CASE Attach \/ ReplayRow
    BY <2>2, <2>9 DEF Attach, ReplayRow, InCompact
  <2>10. CASE Bind
    BY <2>1, <2>10 DEF Bind, Bounded, InCompact
  <2>11. CASE Crash \/ Detach
    BY <2>3, <2>11 DEF Crash, Detach
  <2>12. CASE AppendFails \/ CompactFails \/ ReplayFails
    BY <2>12 DEF AppendFails, CompactFails, ReplayFails
  <2>13. CASE UNCHANGED vars
    BY <2>2, <2>13 DEF vars
  <2> QED
    BY <2>4, <2>5, <2>6, <2>7, <2>8, <2>9, <2>10, <2>11, <2>12, <2>13 DEF Next, Compacting
<1>3. BoundInv => JournalBounded
  BY DEF BoundInv, Bounded, JournalBounded, InCompact
<1> QED
  BY <1>1, <1>2, <1>3, InvIsInvariant, PTL DEF Spec

-----------------------------------------------------------------------------
(* Replay, if every text names its subject *)

\* From base on, the subject of each entry is what the texts before it lead to.
Faithful(state, base) ==
    \A i \in base + 1 .. Len(state) :
       state[i].subject =
          IF \E j \in 1 .. i - 1 : state[j].text = state[i].text /\ state[j].subject # NoSubject
          THEN NoSubject ELSE state[i].text

Recorded ==
    /\ disk.snapshot = NoSnapshot => disk.journal = <<>>
    /\ disk.snapshot # NoSnapshot => Faithful(Durable, Len(disk.snapshot))
    /\ attached /\ pc \in {"idle", "append"} => disk.snapshot # NoSnapshot
    /\ attached /\ pc = "idle" => mem = Durable
    /\ pc = "append" => /\ mem = Append(Durable, mem[Len(mem)])
                        /\ Faithful(mem, Len(disk.snapshot))
    /\ pc = "replay" => IF disk.snapshot = NoSnapshot THEN replay = <<>>
                        ELSE mem \o replay = Durable /\ Len(replay) <= Len(disk.journal)

ReplayInv == faulty \/ Recorded

\* Without anaphora the state alone determines how a text is read.
LEMMA ReadingIs ==
    ASSUME Typed, Anaphoric = {}, NEW text
    PROVE  Reading(text) =
              IF \E j \in 1 .. Len(mem) : mem[j].text = text /\ mem[j].subject # NoSubject
              THEN NoSubject ELSE text
<1>1. DOMAIN mem = 1 .. Len(mem)
  BY LenProperties DEF Typed
<1> QED
  BY <1>1 DEF Reading, Echo

\* A faithful state stays so when an entry is added that is read as it should.
LEMMA FaithfulAppend ==
    ASSUME NEW s \in Seq(Entry), NEW base \in Nat, Faithful(s, base), NEW e \in Entry,
           e.subject = IF \E j \in 1 .. Len(s) : s[j].text = e.text /\ s[j].subject # NoSubject
                       THEN NoSubject ELSE e.text
    PROVE  Faithful(Append(s, e), base)
<1>1. /\ Len(s) \in Nat /\ Len(Append(s, e)) = Len(s) + 1
      /\ \A i \in 1 .. Len(s) : Append(s, e)[i] = s[i]
      /\ Append(s, e)[Len(s) + 1] = e
  BY AppendProperties, LenProperties
<1> DEFINE t == Append(s, e)
<1> HIDE DEF t
<1> SUFFICES ASSUME NEW i \in base + 1 .. Len(s) + 1
             PROVE  t[i].subject =
                      IF \E j \in 1 .. i - 1 : t[j].text = t[i].text /\ t[j].subject # NoSubject
                      THEN NoSubject ELSE t[i].text
  BY <1>1 DEF Faithful, t
<1>2. \A j \in 1 .. i - 1 : t[j] = s[j]
  BY <1>1 DEF t
<1>3. CASE i = Len(s) + 1
  <2>1. t[i] = e /\ i - 1 = Len(s)
    BY <1>1, <1>3 DEF t
  <2> QED
    BY <1>2, <2>1
<1>4. CASE i # Len(s) + 1
  <2>1. i \in base + 1 .. Len(s) /\ i \in 1 .. Len(s)
    BY <1>1, <1>4
  <2>2. t[i] = s[i]
    BY <1>1, <2>1 DEF t
  <2>3. s[i].subject =
          IF \E j \in 1 .. i - 1 : s[j].text = s[i].text /\ s[j].subject # NoSubject
          THEN NoSubject ELSE s[i].text
    BY <2>1 DEF Faithful
  <2> QED
    BY <1>2, <2>2, <2>3
<1> QED
  BY <1>3, <1>4

\* An entry is its three fields.
LEMMA EntryEqual ==
    ASSUME NEW e \in Entry
    PROVE  e = [number |-> e.number, text |-> e.text, subject |-> e.subject]
BY DEF Entry

\* A sequence is its head and its tail.
LEMMA HeadAndTail ==
    ASSUME NEW s \in Seq(Entry), NEW t \in Seq(Entry), t # <<>>
    PROVE  Append(s, Head(t)) \o Tail(t) = s \o t
<1>1. Head(t) \in Entry /\ Tail(t) \in Seq(Entry) /\ <<Head(t)>> \in Seq(Entry)
  BY HeadTailProperties, OneEntry
<1>2. Append(s, Head(t)) = s \o <<Head(t)>>
  BY <1>1, AppendIsConcat
<1>3. <<Head(t)>> \o Tail(t) = t
  <2> DEFINE u == <<Head(t)>> \o Tail(t)
  <2>1. /\ Len(t) \in Nat \ {0} /\ Len(<<Head(t)>>) = 1 /\ <<Head(t)>>[1] = t[1]
        /\ Len(Tail(t)) = Len(t) - 1 /\ \A i \in 1 .. Len(t) - 1 : Tail(t)[i] = t[i + 1]
    BY EmptySeq, HeadTailProperties
  <2>2. /\ u \in Seq(Entry) /\ Len(u) = 1 + (Len(t) - 1)
        /\ \A i \in 1 .. 1 + (Len(t) - 1) :
             u[i] = IF i <= 1 THEN <<Head(t)>>[i] ELSE Tail(t)[i - 1]
    BY <1>1, <2>1, ConcatProperties
  <2>3. \A i \in 1 .. Len(t) : u[i] = t[i]
    <3> SUFFICES ASSUME NEW i \in 1 .. Len(t) PROVE u[i] = t[i]
      OBVIOUS
    <3>1. CASE i = 1
      BY <2>1, <2>2, <3>1
    <3>2. CASE i # 1
      <4>1. i - 1 \in 1 .. Len(t) - 1 /\ ~(i <= 1) /\ (i - 1) + 1 = i
        BY <2>1, <3>2
      <4> QED
        BY <2>1, <2>2, <4>1
    <3> QED
      BY <3>1, <3>2
  <2>4. Len(u) = Len(t)
    BY <2>1, <2>2
  <2> HIDE DEF u
  <2> QED
    BY <2>2, <2>3, <2>4, SeqEqual DEF u
<1> QED
  BY <1>1, <1>2, <1>3, ConcatAssociative

\* Replaying a row yields the entry that was recorded.
LEMMA ReplayedRow ==
    ASSUME Inv, Recorded, Anaphoric = {}, ReplayRow
    PROVE  /\ disk.snapshot # NoSnapshot /\ mem' \o replay' = Durable
           /\ Len(replay') <= Len(disk.journal)
<1> DEFINE h == Head(replay)
<1>1. /\ mem \in Seq(Entry) /\ replay \in Seq(Entry) /\ Durable \in Seq(Entry) /\ Typed
      /\ pc = "replay" /\ replay # <<>> /\ replay' = Tail(replay)
      /\ mem' = Append(mem, [number |-> h.number, text |-> h.text, subject |-> Reading(h.text)])
  BY DurableType DEF Inv, Typed, ReplayRow, Execute
<1>2. /\ disk.snapshot # NoSnapshot /\ mem \o replay = Durable
      /\ Len(replay) <= Len(disk.journal) /\ Faithful(Durable, Len(disk.snapshot))
  BY <1>1 DEF Recorded
<1>3. /\ disk.snapshot \in Seq(Entry) /\ disk.journal \in Seq(Entry)
      /\ Durable = disk.snapshot \o disk.journal
  BY <1>2 DEF Inv, Typed, IsTables, Tables, Durable
<1>4. /\ Len(mem) \in Nat /\ Len(replay) \in Nat \ {0} /\ h \in Entry /\ h = replay[1]
      /\ Len(Tail(replay)) = Len(replay) - 1 /\ Tail(replay) \in Seq(Entry)
      /\ Len(disk.snapshot) \in Nat /\ Len(disk.journal) \in Nat
  BY <1>1, <1>3, EmptySeq, LenProperties, HeadTailProperties
<1>5. /\ Len(Durable) = Len(mem) + Len(replay)
      /\ Len(Durable) = Len(disk.snapshot) + Len(disk.journal)
      /\ \A i \in 1 .. Len(mem) + Len(replay) :
            Durable[i] = IF i <= Len(mem) THEN mem[i] ELSE replay[i - Len(mem)]
  <2>1. /\ Len(mem \o replay) = Len(mem) + Len(replay)
        /\ \A i \in 1 .. Len(mem) + Len(replay) :
              (mem \o replay)[i] = IF i <= Len(mem) THEN mem[i] ELSE replay[i - Len(mem)]
    BY <1>1, ConcatProperties
  <2>2. Len(disk.snapshot \o disk.journal) = Len(disk.snapshot) + Len(disk.journal)
    BY <1>3, ConcatProperties
  <2> QED
    BY <1>2, <1>3, <2>1, <2>2
<1> DEFINE k == Len(mem) + 1
<1> HIDE DEF h
<1>6. /\ k \in Len(disk.snapshot) + 1 .. Len(Durable) /\ k \in 1 .. Len(mem) + Len(replay)
      /\ ~(k <= Len(mem)) /\ k - Len(mem) = 1 /\ k - 1 = Len(mem)
  <2>1. Len(Durable) \in Nat /\ Len(disk.snapshot) <= Len(mem)
    <3>1. ASSUME NEW m \in Nat, NEW r \in Nat, NEW s \in Nat, NEW j \in Nat,
                 m + r = s + j, r <= j
          PROVE  s <= m /\ m + r \in Nat
      BY <3>1
    <3>2. Len(mem) + Len(replay) = Len(disk.snapshot) + Len(disk.journal)
      BY <1>5
    <3>3. Len(replay) <= Len(disk.journal) /\ Len(replay) \in Nat
      BY <1>2, <1>4
    <3> QED
      BY <1>4, <1>5, <3>1, <3>2, <3>3
  <2> QED
    BY <1>4, <1>5, <2>1
<1>7. Durable[k] = h
  BY <1>4, <1>5, <1>6
<1>8. \A j \in 1 .. Len(mem) : Durable[j] = mem[j]
  BY <1>4, <1>5
<1>9. Durable[k].subject =
        IF \E j \in 1 .. k - 1 : Durable[j].text = Durable[k].text /\ Durable[j].subject # NoSubject
        THEN NoSubject ELSE Durable[k].text
  BY <1>2, <1>6 DEF Faithful
<1> HIDE DEF k
<1>10. h.subject = Reading(h.text)
  <2>1. h.subject =
          IF \E j \in 1 .. Len(mem) : Durable[j].text = h.text /\ Durable[j].subject # NoSubject
          THEN NoSubject ELSE h.text
    BY <1>6, <1>7, <1>9
  <2>2. (\E j \in 1 .. Len(mem) : Durable[j].text = h.text /\ Durable[j].subject # NoSubject)
          <=> (\E j \in 1 .. Len(mem) : mem[j].text = h.text /\ mem[j].subject # NoSubject)
    BY <1>8
  <2>3. Reading(h.text) =
          IF \E j \in 1 .. Len(mem) : mem[j].text = h.text /\ mem[j].subject # NoSubject
          THEN NoSubject ELSE h.text
    BY <1>1, ReadingIs
  <2> QED
    BY <2>1, <2>2, <2>3
<1>11. mem' = Append(mem, h)
  BY <1>1, <1>4, <1>10, EntryEqual
<1>12. mem' \o Tail(replay) = Durable
  BY <1>1, <1>2, <1>11, HeadAndTail DEF h
<1> QED
  BY <1>1, <1>2, <1>4, <1>12

\* A write to an attached brain is what its journal row will say.
LEMMA WrittenRow ==
    ASSUME Inv, Recorded, Anaphoric = {}, attached, NEW text \in Observations, Write(text)
    PROVE  /\ disk.snapshot # NoSnapshot /\ mem' = Append(Durable, mem'[Len(mem')])
           /\ Faithful(mem', Len(disk.snapshot))
<1> DEFINE e == [number |-> ops + 1, text |-> text, subject |-> Reading(text)]
<1>1. /\ mem \in Seq(Entry) /\ Typed /\ pc = "idle" /\ ops < Bound /\ mem' = Append(mem, e)
      /\ Reading(text) \in Observations \union {NoSubject}
  BY ReadingType DEF Inv, Typed, Write, Execute
<1>2. disk.snapshot # NoSnapshot /\ mem = Durable /\ Faithful(Durable, Len(disk.snapshot))
  BY <1>1 DEF Recorded
<1>3. ops + 1 \in 1 .. MaxOps
  BY <1>1, Lengthened
<1>4. e \in Entry
  BY <1>1, <1>3 DEF Entry
<1>5. e.text = text /\ e.subject = Reading(text)
  OBVIOUS
<1>6. Len(disk.snapshot) \in Nat
  BY <1>2, LenProperties DEF Inv, Typed, IsTables, Tables
<1> HIDE DEF e
<1>7. mem'[Len(mem')] = e
  BY <1>1, <1>4, LastAppended
<1>8. e.subject = IF \E j \in 1 .. Len(mem) : mem[j].text = e.text /\ mem[j].subject # NoSubject
                  THEN NoSubject ELSE e.text
  BY <1>1, <1>5, ReadingIs
<1>9. Faithful(Append(mem, e), Len(disk.snapshot))
  BY <1>1, <1>2, <1>4, <1>6, <1>8, FaithfulAppend
<1> QED
  BY <1>1, <1>2, <1>7, <1>9

\* A row that is appended makes the state in memory the durable one.
LEMMA AppendedRow ==
    ASSUME Inv, Recorded, AppendRow
    PROVE  /\ disk'.snapshot = disk.snapshot /\ disk.snapshot # NoSnapshot
           /\ Durable' = mem /\ Faithful(mem, Len(disk.snapshot))
<1> DEFINE e == mem[Len(mem)]
<1>1. /\ pc = "append" /\ attached /\ mem # <<>> /\ mem \in Seq(Entry)
  BY DEF AppendRow, Inv, Typed, Control, InCompact
<1>2. e \in Entry
  <2>1. Len(mem) \in 1 .. Len(mem)
    BY <1>1, EmptySeq
  <2> QED
    BY <1>1, <2>1, ElementOfSeq
<1>3. /\ disk.snapshot # NoSnapshot /\ mem = Append(Durable, e)
      /\ Faithful(mem, Len(disk.snapshot))
  BY <1>1 DEF Recorded
<1>4. disk.snapshot \in Seq(Entry) /\ disk.journal \in Seq(Entry) /\ <<e>> \in Seq(Entry)
  BY <1>2, <1>3, OneEntry DEF Inv, Typed, IsTables, Tables
<1>5. disk'.snapshot = disk.snapshot /\ disk'.journal = Append(disk.journal, e)
  BY DEF AppendRow, Inv, Typed, IsTables
<1> HIDE DEF e
<1>6. disk.snapshot \o Append(disk.journal, e) = Append(Durable, e)
  BY <1>2, <1>3, <1>4, ConcatAppend DEF Durable
<1>7. Durable' = disk.snapshot \o Append(disk.journal, e)
  BY <1>3, <1>5 DEF Durable
<1> QED
  BY <1>3, <1>5, <1>6, <1>7

\* Without failures and anaphora, the journal can be replayed at any time.
LEMMA RecordedStep ==
    ASSUME Inv, Recorded, ~faulty, Anaphoric = {}, [Next]_vars
    PROVE  Recorded'
<1>1. CASE Start \/ Crash \/ Detach
  BY <1>1, SameDurable DEF Start, Crash, Detach, Recorded, Inv, Control
<1>2. ASSUME NEW text \in Observations, Write(text) PROVE Recorded'
  <2>1. /\ pc = "idle" /\ UNCHANGED <<attached, disk>>
        /\ IF attached THEN pc' = "append" ELSE pc' = pc
    BY <1>2 DEF Write
  <2>2. Durable' = Durable
    BY <2>1, SameDurable
  <2>3. CASE attached
    BY <1>2, <2>1, <2>2, <2>3, WrittenRow DEF Recorded
  <2>4. CASE ~attached
    BY <2>1, <2>2, <2>4 DEF Recorded
  <2> QED
    BY <2>3, <2>4
<1>3. CASE AppendRow
  <2>1. mem' = mem /\ attached' = attached /\ (pc' = "compact" \/ pc' = "idle")
    BY <1>3 DEF AppendRow, Return
  <2> QED
    BY <1>3, <2>1, AppendedRow DEF Recorded
<1>4. CASE RewriteInPlace \/ Reset \/ (\E n \in 0 .. Len(mem) : Restore(n))
  <2>1. /\ pc = "idle" /\ UNCHANGED <<attached, disk>>
        /\ IF attached THEN pc' = "compact" ELSE pc' = pc
    BY <1>4 DEF RewriteInPlace, Reset, Restore, CompactIfAttached
  <2> QED
    BY <2>1, SameDurable DEF Recorded
<1>5. CASE BeginTxn \/ DeleteSnapshot \/ InsertSnapshot \/ ClearJournal
  <2>1. disk' = disk /\ pc' \in {"delete", "insert", "clear", "commit"}
    BY <1>5 DEF BeginTxn, DeleteSnapshot, InsertSnapshot, ClearJournal
  <2> QED
    BY <2>1, SameDurable DEF Recorded
<1>6. CASE CommitTxn
  <2>1. /\ disk'.snapshot = mem /\ disk'.journal = <<>> /\ Durable' = mem
        /\ mem' = mem /\ pc' = "idle" /\ mem \in Seq(Entry) /\ mem # NoSnapshot
    BY <1>6, Committed, NoneAssumption DEF CommitTxn, Return
  <2>2. Faithful(mem, Len(mem))
    <3>1. Len(mem) \in Nat
      BY <2>1, LenProperties
    <3> QED
      BY <3>1 DEF Faithful
  <2> QED
    BY <2>1, <2>2 DEF Recorded
<1>7. CASE Attach
  <2>1. /\ disk' = disk /\ attached' = attached /\ pc' = "replay" /\ replay' = disk.journal
        /\ mem' = IF disk.snapshot = NoSnapshot THEN mem ELSE disk.snapshot
    BY <1>7 DEF Attach
  <2>2. disk.snapshot # NoSnapshot => mem' \o replay' = Durable
    BY <2>1 DEF Durable
  <2>3. Len(disk.journal) \in Nat
    BY LenProperties DEF Inv, Typed, IsTables, Tables
  <2>4. Len(replay') <= Len(disk'.journal)
    BY <2>1, <2>3
  <2>5. Durable' = Durable
    BY <2>1, SameDurable
  <2> QED
    BY <2>1, <2>2, <2>4, <2>5 DEF Recorded
<1>8. CASE ReplayRow
  <2>1. /\ disk.snapshot # NoSnapshot /\ mem' \o replay' = Durable
        /\ Len(replay') <= Len(disk.journal)
    BY <1>8, ReplayedRow
  <2>2. disk' = disk /\ attached' = attached /\ pc' = pc /\ pc = "replay" /\ Durable' = Durable
    BY <1>8, SameDurable DEF ReplayRow
  <2> QED
    BY <2>1, <2>2 DEF Recorded
<1>9. CASE Bind
  <2>1. disk' = disk /\ pc' = "compact" /\ Durable' = Durable
    BY <1>9, SameDurable DEF Bind
  <2> QED
    BY <2>1 DEF Recorded
<1>10. CASE AppendFails \/ CompactFails \/ ReplayFails
  BY <1>10 DEF AppendFails, CompactFails, ReplayFails
<1>11. CASE UNCHANGED vars
  BY <1>11, SameDurable DEF vars, Recorded
<1> QED
  BY <1>1, <1>2, <1>3, <1>4, <1>5, <1>6, <1>7, <1>8, <1>9, <1>10, <1>11 DEF Next, Compacting

\* The invariant of behaviours without failures, if every text names its subject.
THEOREM ReplayInvariant ==
    ASSUME Anaphoric = {}
    PROVE  Spec => []ReplayInv
<1>1. Init => ReplayInv
  BY DEF Init, ReplayInv, Recorded
<1>2. Inv /\ ReplayInv /\ [Next]_vars => ReplayInv'
  BY RecordedStep, FaultyFixed DEF ReplayInv
<1> QED
  BY <1>1, <1>2, InvIsInvariant, PTL DEF Spec

\* What is replayed before the store is bound.
LEMMA ReplayedAll ==
    ASSUME Inv, ReplayInv, ~faulty, pc = "replay", replay = <<>>, disk.snapshot # NoSnapshot
    PROVE  mem = Durable
<1>1. mem \in Seq(Entry) /\ mem \o replay = Durable
  BY DEF Inv, Typed, ReplayInv, Recorded
<1> QED
  BY <1>1, ConcatEmptySeq

\* "A replay reconstructs byte-identical state", if every text names its subject.
THEOREM ReplayIsFaithfulHolds ==
    ASSUME Anaphoric = {}
    PROVE  Spec => []ReplayIsFaithful
<1>1. Inv /\ ReplayInv => ReplayIsFaithful
  BY ReplayedAll DEF ReplayIsFaithful
<1> QED
  BY <1>1, InvIsInvariant, ReplayInvariant, PTL

-----------------------------------------------------------------------------
(* The brain implements DurableMemory *)

LiveBar    == IF Up THEN mem ELSE NoSnapshot
DurableBar == IF faulty \/ disk.snapshot = NoSnapshot THEN NoSnapshot ELSE Durable

\* A step that changes neither the tables nor what the process works on stutters.
LEMMA Stutter ==
    ASSUME Inv, faulty' = faulty, disk' = disk, Up' = Up, Up => mem' = mem
    PROVE  UNCHANGED <<Up, LiveBar, DurableBar>>
BY SameDurable DEF LiveBar, DurableBar

\* A step of the brain is a step of the memory, or a stutter.
LEMMA StepImplements ==
    ASSUME Inv, Inv', ReplayInv, [Next]_vars
    PROVE  [Promise!Next]_(Promise!vars)
<1> DEFINE Goal == \/ Promise!Open \/ Promise!Operate \/ Promise!Commit \/ Promise!Close
                   \/ UNCHANGED <<Up, LiveBar, DurableBar>>
<1> SUFFICES Goal
  BY DEF Promise!Next, Promise!vars, LiveBar, DurableBar
<1>1. faulty' = faulty /\ mem \in Seq(Entry) /\ mem' \in Seq(Entry)
  BY FaultyFixed DEF Inv, Typed
<1>2. CASE faulty
  BY <1>1, <1>2 DEF Up, LiveBar, DurableBar
<1> SUFFICES ASSUME ~faulty PROVE Goal
  BY <1>2
<1>3. Recorded /\ Control /\ attached \in BOOLEAN
  BY DEF Inv, Typed, ReplayInv
<1>4. ASSUME disk' = disk, attached' = attached, mem' = mem, pc' # "replay", pc # "replay"
      PROVE  Goal
  BY <1>1, <1>4, Stutter DEF Up
<1>5. ASSUME disk' = disk, ~attached, ~attached' PROVE Goal
  BY <1>1, <1>5, Stutter DEF Up
<1>6. ASSUME disk' = disk, ~attached' PROVE Goal
  <2>1. CASE Up
    <3>1. ~Up' /\ Durable' = Durable
      BY <1>1, <1>6, SameDurable DEF Up
    <3>2. Promise!Close
      BY <1>1, <1>6, <2>1, <3>1 DEF Promise!Close, Up
    <3> QED
      BY <3>2
  <2>2. CASE ~Up
    BY <1>1, <1>6, <2>2, Stutter DEF Up
  <2> QED
    BY <2>1, <2>2
<1>7. ASSUME disk' = disk, attached, attached', pc = "idle", pc' # "replay" PROVE Goal
  <2>1. Up /\ Up' /\ mem = Durable /\ disk.snapshot # NoSnapshot /\ Durable' = Durable
    BY <1>1, <1>3, <1>7, SameDurable DEF Up, Recorded
  <2>2. Promise!Operate
    BY <1>1, <1>7, <2>1 DEF Promise!Operate
  <2> QED
    BY <2>2
<1>8. ASSUME Up, Up', mem' = mem, Durable' = mem, disk'.snapshot # NoSnapshot PROVE Goal
  <2>1. Promise!Commit
    BY <1>1, <1>8 DEF Promise!Commit
  <2> QED
    BY <2>1
<1>9. CASE Start \/ Attach \/ ReplayRow
  BY <1>3, <1>5, <1>9 DEF Start, Attach, ReplayRow, Control
<1>10. CASE Crash \/ Detach
  BY <1>6, <1>10 DEF Crash, Detach
<1>11. ASSUME NEW text \in Observations, Write(text) PROVE Goal
  BY <1>3, <1>5, <1>7, <1>11 DEF Write
<1>12. CASE RewriteInPlace \/ Reset \/ (\E n \in 0 .. Len(mem) : Restore(n))
  BY <1>3, <1>5, <1>7, <1>12 DEF RewriteInPlace, Reset, Restore, CompactIfAttached
<1>13. CASE AppendRow
  <2>1. /\ attached /\ attached' = attached /\ pc = "append" /\ mem' = mem
        /\ pc' = "compact" \/ pc' = "idle"
    BY <1>3, <1>13 DEF AppendRow, Return, Control
  <2>2. Up /\ Up'
    BY <1>1, <2>1 DEF Up
  <2> QED
    BY <1>3, <1>8, <1>13, <2>1, <2>2, AppendedRow
<1>14. CASE BeginTxn \/ DeleteSnapshot \/ InsertSnapshot \/ ClearJournal
  BY <1>4, <1>14 DEF BeginTxn, DeleteSnapshot, InsertSnapshot, ClearJournal
<1>15. CASE CommitTxn
  <2>1. /\ attached /\ attached' = attached /\ pc = "commit" /\ mem' = mem /\ pc' = "idle"
    BY <1>3, <1>15 DEF CommitTxn, Return, Control, InCompact
  <2>2. Up /\ Up'
    BY <1>1, <2>1 DEF Up
  <2>3. Durable' = mem /\ disk'.snapshot = mem /\ mem # NoSnapshot
    BY <1>1, <1>15, Committed, NoneAssumption
  <2> QED
    BY <1>8, <2>1, <2>2, <2>3
<1>16. CASE Bind
  <2>1. /\ pc = "replay" /\ replay = <<>> /\ ~Up /\ Up' /\ mem' = mem /\ disk' = disk
        /\ Durable' = Durable
    BY <1>1, <1>16, SameDurable DEF Bind, Up
  <2>2. disk.snapshot # NoSnapshot => mem = Durable
    BY <2>1, ReplayedAll
  <2>3. Promise!Open
    BY <1>1, <2>1, <2>2 DEF Promise!Open
  <2> QED
    BY <2>3
<1>17. CASE AppendFails \/ CompactFails \/ ReplayFails
  BY <1>17 DEF AppendFails, CompactFails, ReplayFails
<1>18. CASE UNCHANGED vars
  BY <1>1, <1>18, Stutter DEF vars, Up
<1> QED
  BY <1>9, <1>10, <1>11, <1>12, <1>13, <1>14, <1>15, <1>16, <1>17, <1>18 DEF Next, Compacting

\* Whenever the process dies, reopening the store yields the state before or after
\* the one operation under way, if nothing fails and every text names its subject.
THEOREM KeepsPromiseHolds ==
    ASSUME Anaphoric = {}
    PROVE  Spec => KeepsPromise
<1>1. Init => Promise!Init
  BY DEF Init, Promise!Init, Up
<1>2. Inv /\ Inv' /\ ReplayInv /\ [Next]_vars => [Promise!Next]_(Promise!vars)
  BY StepImplements
<1> QED
  BY <1>1, <1>2, InvIsInvariant, ReplayInvariant, PTL DEF Spec, KeepsPromise, Promise!Spec
=============================================================================
