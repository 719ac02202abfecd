SPECIFICATION FairSpec
CONSTANTS
  r1 = r1  r2 = r2  l1 = l1  m1 = m1  m2 = m2  g1 = g1  g2 = g2
  PoolRuns = {r1, r2}
  LocalRuns = {l1}
  Models = {m1, m2}
  Rigs = {g1, g2}
  Categories = {"chat", "code", "audio"}
  FirstCatalog = {"chat", "code"}
  NoRun = NoRun
  NoCategory = NoCategory
  Data <- MCData
  LocalData <- MCLocalData
  ListedModels <- MCListedModels
  Class <- MCClass
  Fallback = "chat"
  Seeded = {g1}
  Measured = {g2}
  PageSize = 1
  MinTotal = 1
  FirstListing <- MCFirstListing
  FirstData <- MCFirstData
  MaxEdits = 2
  MaxCatalogEdits = 1
  MaxFaults = 1
INVARIANTS PagesComplete PublishedIsAssessed DoneIsConsistent
PROPERTIES  EventuallyCurrent
