CONSTANTS
  Dups = {c1, c2}
  Other = d1
  Calls = {c1, c2, d1}
  key = key
  toolA = toolA
  toolB = toolB
  ToolOf <- MCToolOf
  KeyOf <- MCKeyOf
  TTL = 1
  MaxTime = 4
  StartBy = 2
  NoClaim = NoClaim
  Cap = 1
CHECK_DEADLOCK FALSE
SPECIFICATION FairSpec
INVARIANTS TypeOK AtMostOncePerClaim ReplayAnswersSameCall
PROPERTIES OutcomeImmutable WaiterResolves
