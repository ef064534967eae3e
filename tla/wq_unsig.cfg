SPECIFICATION Spec
CONSTANTS
  QPs = {q1}
  NoQP = NoQP
  Calm = {}
  SQSize = 3
  RQSize = 2
  CQSize = 7
  Jobs <- OvertakenReads
  Mortal = FALSE
  peer2peer = FALSE
  MaxWr = 6
  MaxConn = 1
INVARIANTS SuccessIsGenuine
