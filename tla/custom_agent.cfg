SPECIFICATION Spec
CONSTANTS
  Agents = {a1, a2}
  Users = {u1, u2}
  Requests = {r1, r2, r3}
  Drawings <- MCDrawings
  Saved <- MCSaved
  MaxNodes = 3
SYMMETRY Interchangeable
INVARIANTS
  TypeOK
  CyclesAreFound
  CodeFollowsEdges
  EverythingIsTriggered
  HistoryIsFaithful
CHECK_DEADLOCK FALSE
