SPECIFICATION FairSpec
CONSTANTS
  Threads = {t1, t2}
  Workers = {w1}
  QueueSize = 1
  MaxRetries = 1
  Threshold = 2
  Recovery = 2
  None = None
  Gone = Gone
INVARIANTS
  ClosedWhileHealthy
  SocketsDie
PROPERTY
  NetworkRecovers
