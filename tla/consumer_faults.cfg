SPECIFICATION Spec
CONSTANTS
  a1 = a1
  a2 = a2
  Agents <- TwoAgents
  MayStop <- TwoAgents
  Pool = 1
  Timeout = 1
  MinIdle = 1
  ClaimCount = 1
  Prompt = FALSE
  MaxMsgs = 1
  MaxCrashes = 1
  MaxErrors = 1
  MaxClaimErrors = 1
SYMMETRY Symmetry
INVARIANTS
  TypeOK
  AckedOnlyHandled
  DeliveryInv
PROPERTIES
  AckedForever
  ImplementsBoard
