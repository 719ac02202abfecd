---------------------------- MODULE MCDeployment ----------------------------
(* Deployment with two images: the second adds a migration between the two *)
(* of the first and one at the end, and a newer version of a catalog row.  *)
EXTENDS Deployment, TLC

MCNeeds == [f \in Files |-> CASE f = 1 -> {} [] f = 2 -> {1} [] f = 3 -> {1}]

Row(table, id, version) == [table |-> table, id |-> id, version |-> version]
MCReleases ==
  <<[files |-> {1, 3}, rows |-> {Row(1, 1, 1)}, insert |-> {1}],
    [files |-> {1, 2, 3}, rows |-> {Row(1, 1, 2), Row(1, 2, 1)}, insert |-> {1, 2}]>>
MCTables == <<1>>

DeploymentSymmetry ==
  Permutations(Operators) \cup Permutations(Backups) \cup Permutations(Runs)
=============================================================================
