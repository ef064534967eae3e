SPECIFICATION Spec
CONSTANTS
  QPs = {q1}
  NoQP = NoQP
  Calm = {}
  SQSize = 3
  RQSize = 2
  CQSize = 5
  Jobs <- MixedSends
  Mortal = FALSE
  peer2peer = FALSE
  MaxWr = 4
  MaxConn = 1
INVARIANTS TypeOK RingsAgree SuccessIsGenuine FlushLosesNothing
PROPERTIES KeepsPromise
