------------------------------ MODULE MCLearner ------------------------------
(***************************************************************************)
(* What a learner's answers leave behind: memory cards, mastery and        *)
(* streak, under two tabs (which are interchangeable), with two questions  *)
(* of one category, so that different answers share a row of mastery.      *)
(***************************************************************************)
EXTENDS StudyDay, TLC

OneCategory == <<"c", "c">>

StudySymmetry == Permutations(Tabs)
=============================================================================
