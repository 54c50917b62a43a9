\* The user does not wait for the listener.
CONSTANTS
  Name = {u1, u2}
  Nil = Nil
  Absent = Absent
  Offline = Offline
  MaxSock = 3
  Modes <- Hasty
SPECIFICATION FairSpec
PROPERTIES StopsWhenTold
\* The client may exit, which ends everything.
CHECK_DEADLOCK FALSE
