SPECIFICATION FairSpec
CONSTANTS
  any = any
  good = good
  Conns = {any, good}
  Requests <- MCRequests
  Query <- MCQuery
  None = None
  NaN = NaN
  Spare = 3
CHECK_DEADLOCK FALSE
INVARIANTS
  Accepted
  Fulfilled
  Answers
  Unanswered
PROPERTIES
  Served
