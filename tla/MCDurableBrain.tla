--------------------------- MODULE MCDurableBrain ---------------------------
(***************************************************************************)
(* DurableBrain for TLC: two texts that name their subject, or one that    *)
(* does and one that does not.                                             *)
(***************************************************************************)
EXTENDS DurableBrain

CONSTANTS ann, bob, her     \* texts: two of named subjects, one anaphoric

MCNamedTexts == {ann, bob}
MCTexts      == {ann, her}
MCNone       == {}
MCAnaphoric  == {her}

\* A process attaches its store once and keeps it until it dies.
OneAttachSpec == Init /\ [][Next /\ ~Detach]_vars
=============================================================================
