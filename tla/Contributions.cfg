SPECIFICATION Spec
CONSTANTS
  a = a  b = b  w = w  card = card  workflow = workflow  v1 = v1  v2 = v2
  Threads = {t1, t2}
  None = None
  Emails = {e1}
  Keys = {k1, k2}
  Quota = 1
  Kinds = {"vote", "report"}
  Targets = {x1, x2, x3}
  Limit <- MCLimit
  Cells <- MCCells
  Importers = {m1, m2}
  Fixtures <- MCFixtures
  Video = {b}
  Promoters = {p1, p2}
  MaxLines = 2
  MaxEvents = 5
SYMMETRY ContributionSymmetry
CHECK_DEADLOCK FALSE
INVARIANTS QuotasHold NothingTwice 
PROPERTIES ImportIsWhole 
