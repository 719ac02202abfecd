SPECIFICATION Spec
CONSTANTS
  u1 = u1
  u2 = u2
  Users = {u1, u2}
  Claims = {c1, c2}
  Runs = {r1, r2}
  Reports = {}
  Threads = {t1}
  NoUser = NoUser
  NoClaim = NoClaim
  NoRun = NoRun
  NoTarget = NoTarget
  StartPoints <- MCStartPoints
  MaxDeliveries = 1
  MaxWorkerCrashes = 1
CHECK_DEADLOCK FALSE
SYMMETRY SettlementSymmetry
INVARIANTS TypeOK PointsExplained
PROPERTIES SettledByValidatedRun 
