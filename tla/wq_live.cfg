SPECIFICATION LiveSpec
CONSTANTS
  QPs = {q1}
  NoQP = NoQP
  Calm = {}
  SQSize = 3
  RQSize = 2
  CQSize = 4
  Jobs <- SomeOfEach
  Mortal = TRUE
  peer2peer = FALSE
  MaxWr = 2
  MaxConn = 1
PROPERTIES NoWrAfterFlush ErrorCompletes DeadDeviceCompletes
