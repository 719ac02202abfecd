SPECIFICATION FairSpec
CONSTANTS
  u1 = u1
  u2 = u2
  Users = {u1}
  Claims = {c1}
  Runs = {r1}
  Reports = {q1, q2}
  Threads = {t1, t2}
  NoUser = NoUser
  NoClaim = NoClaim
  NoRun = NoRun
  NoTarget = NoTarget
  StartPoints <- MCStartPoints
  MaxDeliveries = 2
  MaxWorkerCrashes = 1
CHECK_DEADLOCK FALSE
INVARIANTS CreditedOnce OneLiveReport
PROPERTY ValidatedClaimSettles
