SPECIFICATION Spec
CONSTANTS
  q1 = q1
  q2 = q2
  ip1 = ip1
  ip2 = ip2
  Callers = {q1, q2}
  Slots = {q1, q2}
  NoOne = NoOne
  Accounts = {a1}
  MaxOrdinary = 3
  MaxSessions = 3
  MaxTokens = 3
  Addresses = {ip1, ip2}
  MaxActive = 2
  PerHour = 2
  PerMinute = 1
  Uploads = 1
  AiPerSession = 2
  AiPerDay = 2
  AiPerIpDay = 1
  Sockets = {k1}
  Processes = {p1, p2}
  MaxVersion = 2
  Traffics <- Mixes
CHECK_DEADLOCK FALSE
INVARIANTS TypeOK SequentialRotation KilledStayDead CreationLimits OneLiveToken CheckedIsCurrent
INVARIANTS QuotasHold JoinedIsCurrent OrderlyExit
PROPERTY OldSocketsClose
