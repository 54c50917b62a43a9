\* Three threads and four connections: one more connection than threads, so that
\* a creation fails and the descriptor is overwritten after a failure too.
CONSTANTS
  Worker = {w1, w2, w3}
  Nobody = Nobody
  Main = Main
  MaxConn = 4
  MaxSpurious = 2
SPECIFICATION FairSpec
INVARIANTS TypeOK OwnDescriptor
PROPERTIES NoPendingCopy BackToAccept EveryoneServes
\* The run stops when MaxConn connections have been accepted.
CHECK_DEADLOCK FALSE
