--------------------------- MODULE DurableMemory ----------------------------
(***************************************************************************)
(* What a brain attached to a durable store promises (store.py, "Torn-     *)
(* write safety"): whenever the process dies, reopening the store yields   *)
(* the state before or the state after the one operation that was under    *)
(* way, never a mixture and never anything older.  How it is done (journal *)
(* rows, snapshots, transactions, replay) is not said here.                *)
(***************************************************************************)
CONSTANTS
    States,       \* the states of a brain
    Nothing       \* no state: what a store holds at first, not one of States

VARIABLES
    up,           \* a process has the store open
    live,         \* the state that process works on, Nothing when there is none
    durable       \* the state on disk

vars == <<up, live, durable>>

Init == up = FALSE /\ live = Nothing /\ durable = Nothing

\* A process opens the store; an empty store takes over the state it brings.
Open ==
    /\ ~up
    /\ up' = TRUE
    /\ live' \in States
    /\ durable # Nothing => live' = durable
    /\ UNCHANGED durable

\* One operation changes the live state; the next waits for Commit.
Operate ==
    /\ up /\ live = durable
    /\ live' \in States
    /\ UNCHANGED <<up, durable>>

Commit ==
    /\ up
    /\ durable' = live
    /\ UNCHANGED <<up, live>>

\* The process dies or lets go of the store.
Close ==
    /\ up
    /\ up' = FALSE /\ live' = Nothing
    /\ UNCHANGED durable

Next == Open \/ Operate \/ Commit \/ Close

Spec == Init /\ [][Next]_vars
=============================================================================
