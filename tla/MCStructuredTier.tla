-------------------------- MODULE MCStructuredTier --------------------------
(***************************************************************************)
(* StructuredTier for TLC.  Two subjects, one predicate, three timestamps  *)
(* and three objects: "bob" is a subject and an object, so that forgetting *)
(* him reaches the facts of the other subject.                             *)
(***************************************************************************)
EXTENDS StructuredTier

MCSubjects   == {"ann", "bob"}
MCPredicates == {"manager"}
MCObjects    == {"bob", "eve"}
MCTwoTimes   == 1 .. 2
MCTimes      == 1 .. 3
MCINF        == 4
=============================================================================
