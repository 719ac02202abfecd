SPECIFICATION FairSpec
CONSTANTS
  u1 = u1  u2 = u2  u3 = u3  v1 = v1  v2 = v2
  k1 = k1  k2 = k2  k3 = k3  kv1 = kv1  kv2 = kv2
  llm = llm  video = video
  Uploads = {u1}
  Honest = {u1}
  Lookups = {k1, k2, k3, kv1, kv2}
  LookupOf <- MCLookupOf
  Groups = {llm, video}
  GroupOf <- MCGroupOf
  VideoGroups = {video}
  Runs = {r1}
  NoUpload = NoUpload
  NoRun = NoRun
  NoKey = NoKey
  BatchCount = 2
  MaxApiFaults = 0
  MaxWorkerCrashes = 1
  MaxRedisCrashes = 0
PROPERTIES PublishedIsProcessed
