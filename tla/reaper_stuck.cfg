SPECIFICATION FairSpec
CONSTANTS
  a1 = a1
  a2 = a2
  Agents = {a1}
  MayStop = {a1}
  Pool = 1
  Timeout = 1
  MinIdle = 1
  ClaimCount = 1
  Prompt = FALSE
  MaxMsgs = 1
  MaxCrashes = 0
  MaxErrors = 0
  MaxClaimErrors = 1
PROPERTY ReaperReturnsToTicker
