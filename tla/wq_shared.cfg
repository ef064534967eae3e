SPECIFICATION QueuesSpec
CONSTANTS
  Parts = {"kernel", "one", "two"}
  q1 = q1 q2 = q2
  QpTable <- TwoQps Pollers = {p1, p2} Iwarp = FALSE Overtaken = FALSE
  SqSize = 3 CqSize = 2 MaxWrs <- MaxTwo MaxLives <- MaxTwo
  QPs = {q1, q2}
  NoQP = NoQP
  Calm = {q2}
  SQSize = 3
  RQSize = 2
  CQSize = 5
  Jobs <- ReadChains
  Mortal = FALSE
  peer2peer = FALSE
  MaxWr = 2
  MaxConn = 1
INVARIANTS ReadsMatched CqNeverDies 
PROPERTIES UserTold
CHECK_DEADLOCK FALSE
