SPECIFICATION Spec
CONSTANTS
  Files = {1, 2, 3}
  Needs <- MCNeeds
  Rerunnable = {3}
  Releases <- MCReleases
  Tables <- MCTables
  RunFile = 1
  Runs = {r1}
  Operators = {p1, p2}
  Backups = {b1, b2}
  None = None
  MaxFaults = 1
  MaxBackups = 2
SYMMETRY DeploymentSymmetry
INVARIANTS MigrationsInOrder  
