SPECIFICATION Spec
CONSTANTS
  a1 = a1
  a2 = a2
  Agents <- TwoAgents
  MayStop = {}
  Pool = 1
  Timeout = 2
  MinIdle = 1
  ClaimCount = 1
  Prompt = TRUE
  MaxMsgs = 1
  MaxCrashes = 0
  MaxErrors = 0
  MaxClaimErrors = 0
SYMMETRY Symmetry
INVARIANT OneHandlerPerMessage
