SPECIFICATION FairSpec
CONSTANTS
  a1 = a1
  a2 = a2
  Agents <- TwoAgents
  MayStop = {a2}
  Pool = 1
  Timeout = 1
  MinIdle = 1
  ClaimCount = 1
  Prompt = FALSE
  MaxMsgs = 1
  MaxCrashes = 1
  MaxErrors = 0
  MaxClaimErrors = 0
PROPERTIES
  EventuallyAcked
  WorkersDrain
