\* One handler thread, so that no race is involved.  Six connections are enough
\* to register, connect, publish a file with an empty name and list it.
CONSTANTS
  Thread = {t1}
  User = {"u1", "REGISTER", "torn", ""}
  Addr = {"p", "torn", ""}
  File = {"f", "torn", ""}
  Desc = {""}
  Nil = Nil
  Requests <- AllRequests
  Vanishing = FALSE
  MaxConn = 6
SPECIFICATION ServerSpec
INVARIANTS CountMatchesEntries
\* A server that has accepted MaxConn connections stops.
CHECK_DEADLOCK FALSE
