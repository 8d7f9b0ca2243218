SPECIFICATION Spec
CONSTANTS
  w1 = w1  w2 = w2
  chunk = chunk  healthy = healthy  poisoned = poisoned  junk = junk  nul = nul
  c1 = c1  c2 = c2  c3 = c3  c4 = c4
  Workers = {w1, w2}
  Messages = {chunk, junk}
  Kind <- MCKind
  IdsOf <- MCIdsOf
  CdpIds <- MCCdpIds
  Poison <- MCPoison
  MaxMessages = 2
  SendLimit = 1
  Stoppable = {w1, w2}
  Times = {1, 2, 3}
  MaxFaults = 2
SYMMETRY Symmetry
INVARIANTS
  TypeOK
  StoredBeforeAlert
  ExitsClean
  AttemptInv
PROPERTY MeetsContract
CHECK_DEADLOCK FALSE
