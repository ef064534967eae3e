SPECIFICATION AdapterSpec
CONSTANTS
  Parts = {"l2t", "tids", "filters", "mailbox", "txq", "listen"}
  n1 = n1 n2 = n2 e1 = e1 e2 = e2 e3 = e3 f1 = f1 f2 = f2 f3 = f3 s1 = s1
  c1 = c1 c2 = c2 c3 = c3 l1 = l1 l2 = l2 t1 = t1
  None = None NoTid = NoTid
  Size = 2 Neighs = {n1, n2} Tags = {0} Hash <- OneChain
  Conns = {c1, c2} Switchers = {f1} Patient = TRUE MaxWork = 3 MaxEvents = 1
  Eps = {e1, e2, e3} IPv6 = {e3} HwTids = {4, 5, 6, 7} TidRange = 2 NAtids = 2
  Queue <- Queues Shift = 1 Bits = 4 MaxOpens = 3 MaxNoMem = 2
  Rules = {f1, f2, f3} Wides = {f2} Rewriters = {f1, f2} Listeners = {s1}
  Port <- FilterPorts FtidRange = 2 Ftids = 5 Sftids = 4 Hurried = {"silent"}
  MaxFlight = 2 MaxRefusals = 1
  Callers = {c1, c2, c3} MaxCommands = 4
  RingSize = 6 StopThres = 2 MaxReclaim = 4 Batch = 2 StopMapErrs = FALSE
  MaxPackets = 6 MaxMapErrs = 1
  ListenEps = {l1, l2} Stids = {1} Children = {t1} MaxListens = 3
  Trouble = {"refused", "unsent", "late_open", "late_close"}
INVARIANTS  TidsSound  MailboxSound TxSound ListenersSound
PROPERTIES QueuesDrain AnswerIsTrue CallsEnd
CHECK_DEADLOCK FALSE
