-------------------------- MODULE MCContributions --------------------------
(* An instance of Contributions for TLC: a source of cells in two versions, *)
(* the second without the first cell, and two versions of a workflow.      *)
EXTENDS Contributions

CONSTANTS a, b, w, card, workflow, v1, v2

MCLimit == [kind \in Kinds |-> 1]
MCCells == [rig : {"rig"}, bits : {4, 8}]
MCFixtures ==
  { [kind |-> "cell",      source |-> card,     hash |-> v1, items |-> <<a, b>>],
    [kind |-> "cell",      source |-> card,     hash |-> v2, items |-> <<b>>],
    [kind |-> "candidate", source |-> workflow, hash |-> v1, items |-> <<w>>],
    [kind |-> "candidate", source |-> workflow, hash |-> v2, items |-> <<w>>] }

ContributionSymmetry ==
  Permutations(Threads) \cup Permutations(Targets)
  \cup Permutations(Importers) \cup Permutations(Promoters)
=============================================================================
