---------------------------- MODULE MCVectorTier ----------------------------
(***************************************************************************)
(* VectorTier for TLC: two texts and one or two embedders.                 *)
(***************************************************************************)
EXTENDS VectorTier, TLC

CONSTANTS tea, rum, small, large    \* two texts, two embedders

MCTexts     == {tea, rum}
MCModels    == {small, large}
MCOneModel  == {small}
MCSymmetry  == Permutations(MCTexts) \union Permutations(MCModels)
=============================================================================
