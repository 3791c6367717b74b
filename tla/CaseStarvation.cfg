SPECIFICATION MCSpec
CONSTANTS
  Subjects = {"case"}
  Shapes = {"deep"}
  w1 = w1
  w2 = w2
  Null = Null
  Workers <- TwoWorkers
  Cards = {c1}
  Events = {1, 2, 3, 4}
  TTL = 1
  MaxTime = 3
  Cases = {1, 2, 3, 4}
  Priorities = {1, 2}
  Items = {1, 2, 3}
  MaxSize = 7
  RowEvents = {e1, e2}
  RowCases = {r1, r2}
  RowTime = 4
  Currencies = {1, 2, 3}
  Weights <- PathWeights
  MaxEdges = 3
  TicketIds = {1, 2, 3, 4}
  TicketPriorities = {1, 2}
  NUMBER_OF_BITS = 11
  NUMBER_OF_HASHES = 3
  CardNumbers <- HashPairs
SYMMETRY Symmetry
PROPERTY CaseNoneMeansNone
CHECK_DEADLOCK FALSE
