SPECIFICATION Spec
CONSTANTS
  t1 = t1
  t2 = t2
  t3 = t3
  Threads = {t1, t2, t3}
  Idle = Idle
  Names <- MCNames
  NsidTable <- MCNsidTable
  Name <- MCName
  ThreadNumMax = 2
  ThreadIdMax = 7
  TokenMax = 7
  MaxContexts = 3
INVARIANT
  RemovedOnceReleased
