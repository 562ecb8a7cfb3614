CONSTANTS
  Desc = {d1, d2, d3, d4}
  Heads = {d1}
  Absent = Absent
  Outside = Outside
  MaxNull = 1
SPECIFICATION FairSpec
INVARIANTS
  TypeOK
  ExtractsRequest
PROPERTY WalkEnds
CHECK_DEADLOCK FALSE
