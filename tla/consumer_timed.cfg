SPECIFICATION Spec
CONSTANTS
  a1 = a1
  a2 = a2
  Agents <- TwoAgents
  MayStop = {}
  Pool = 2
  Timeout = 1
  MinIdle = 3
  ClaimCount = 2
  Prompt = TRUE
  MaxMsgs = 2
  MaxCrashes = 1
  MaxErrors = 0
  MaxClaimErrors = 0
SYMMETRY Symmetry
INVARIANTS
  OneHandlerPerMessage
  TimedInv
PROPERTY NoRunAfterAck
