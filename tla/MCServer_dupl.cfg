\* Two clients register at once, each its own name: the smallest race on buffer.
\* Strings is every string a racing thread can take for a name.
CONSTANTS
  Thread = {t1, t2}
  User <- Strings
  Addr <- Strings
  File <- Strings
  Desc <- Strings
  Nil = Nil
  Requests <- Registrations
  Vanishing = FALSE
  MaxConn = 2
SPECIFICATION ServerSpec
INVARIANTS UniqueUsers
SYMMETRY Symmetry
\* A server that has accepted MaxConn connections stops.
CHECK_DEADLOCK FALSE
