----------------------------- MODULE MCWritePath -----------------------------
(***************************************************************************)
(* WritePath for TLC: a person who shares the surname with another and the *)
(* given name with the surname of a third, and a title with that surname.  *)
(* The gate moves fast enough for its threshold to reach both bounds       *)
(* within a few writes.                                                    *)
(***************************************************************************)
EXTENDS WritePath, SequencesExt, TLC

CONSTANTS swift, liz, austin, miss     \* texts

MCTexts == {swift, liz, austin, miss}
MCHonorifics == {"ms"}

MCSurfaceOf ==
    (swift :> <<"taylor", "swift">>) @@ (liz :> <<"elizabeth", "taylor">>)
      @@ (austin :> <<"austin", "swift">>) @@ (miss :> <<"ms", "swift">>)

MCValueOf == (swift :> "oslo") @@ (liz :> "riga") @@ (austin :> "riga") @@ (miss :> "riga")

\* With One = 60: near, between the floor and the first threshold, or far.
MCApart ==
    [x \in MCTexts |-> [y \in MCTexts |->
       CASE x = y -> 0
         [] {x, y} = {swift, miss} -> 10
         [] {x, y} = {swift, austin} -> 25
         [] {x, y} = {austin, miss} -> 20
         [] OTHER -> 58]]

\* In whatever order the names are registered one by one, the resolver is the one
\* that RegisterAll gives: restoring does not depend on the order of the facts.
ASSUME AnyOrder ==
    \A names \in SUBSET (Subjects \union {<<"taylor">>}) : \A order \in SetToSeqs(names) :
       FoldLeft(RegisterCanonical, NewResolver, order) = RegisterAll(names)
=============================================================================
