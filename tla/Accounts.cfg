SPECIFICATION Spec
CONSTANTS
  h1 = h1  h2 = h2  i1 = i1  i2 = i2  i3 = i3
  Handles = {h1, h2}
  Passkeys = {p1}
  Identities = {i1, i2, i3}
  Provider <- MCProvider
  Candidates <- MCCandidates
  Challenges = {c1, c2}
  AgentTokens = {a1}
  SigningKeys = {k1}
  Threads = {t1, t2}
  UuidRows = FALSE
  None = None
  MaxEvents = 6
SYMMETRY AccountSymmetry
CHECK_DEADLOCK FALSE
INVARIANTS SessionsAreBacked EnrolmentsAreGranted OnceUnlessRaced
PROPERTIES BoundByItsUser MovesLeaveNoOwner
