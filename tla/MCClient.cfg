\* Three sessions of two users.
CONSTANTS
  Name = {u1, u2}
  Nil = Nil
  Absent = Absent
  Offline = Offline
  MaxSock = 3
  Modes <- Situations
SPECIFICATION FairSpec
INVARIANTS Agree Reachable ExitDisconnects
PROPERTIES PatientStops ClosesItsOwn
\* The client may exit, which ends everything.
CHECK_DEADLOCK FALSE
