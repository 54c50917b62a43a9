\* One handler thread: connections come one after the other.  Four of them are
\* enough to register, connect, publish, and list or delete, and to find in the
\* buffer what an earlier one left there.
CONSTANTS
  Thread = {t1}
  User = {"u1", "REGISTER", "torn", ""}
  Addr = {"p", "torn", ""}
  File = {"f", "torn", ""}
  Desc = {""}
  Nil = Nil
  Requests <- AllRequests
  Vanishing = TRUE
  MaxConn = 4
SPECIFICATION FairServerSpec
INVARIANTS ServerTypeOK
PROPERTIES ServesRegistry EveryConnectionEnds
\* A server that has accepted MaxConn connections stops.
CHECK_DEADLOCK FALSE
