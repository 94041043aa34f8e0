-------------------------- MODULE MCNamespacedMemory --------------------------
(***************************************************************************)
(* NamespacedMemory for TLC: two tenants and two threads, which nothing    *)
(* tells apart.                                                            *)
(***************************************************************************)
EXTENDS NamespacedMemory, TLC

CONSTANTS t1, t2

MCNamespaces == {1, 2}
MCThreads    == {t1, t2}
MCSymmetry   == Permutations(MCThreads)
=============================================================================
