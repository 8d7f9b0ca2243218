SPECIFICATION FairSpec
CONSTANTS
  w1 = w1  w2 = w2
  chunk = chunk  healthy = healthy  poisoned = poisoned  junk = junk  nul = nul
  c1 = c1  c2 = c2  c3 = c3  c4 = c4
  Workers = {w1, w2}
  Messages = {healthy, poisoned, nul}
  Kind <- MCKind
  IdsOf <- MCIdsOf
  CdpIds <- MCCdpIds
  Poison <- MCPoison
  MaxMessages = 2
  SendLimit = 1
  Stoppable = {w1}
  Times = {1, 2}
  MaxFaults = 1
INVARIANT GivenUpWhole
PROPERTIES
  EventuallyDeleted
  StopEnds
CHECK_DEADLOCK FALSE
