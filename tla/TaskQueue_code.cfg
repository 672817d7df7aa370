SPECIFICATION HFairSpec
CONSTANTS
  Threads = {t1, t2, t3}
  Nodes = {n1, n2, n3}
  Null = Null
INVARIANTS
  QueueInv
  NothingLost
PROPERTIES
  PublishedNodesStable
  ImplementsFifo
  LockFree
CHECK_DEADLOCK TRUE
