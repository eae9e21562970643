--------------------------- MODULE MCRankingList ---------------------------
(* Instances of RankingList for TLC. *)
EXTENDS RankingList, TLC

Symmetry == Permutations(Objects) \cup Permutations(Handlers)
=============================================================================
