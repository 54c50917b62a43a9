\* Two connections at once to a list that already holds a published file, so that
\* two connections are enough to change one user's files, the user and the list
\* around it.  Clients do not vanish: each writes its whole request.
CONSTANTS
  Thread = {t1, t2}
  User <- Strings
  Addr <- Strings
  File <- Strings
  Desc <- Strings
  Nil = Nil
  Requests <- Rivals
  Vanishing = FALSE
  MaxConn = 2
SPECIFICATION SeedSpec
INVARIANTS SectionSurvives FilesStayDistinct CallsComplete
SYMMETRY Symmetry
\* A server that has accepted MaxConn connections stops.
CHECK_DEADLOCK FALSE
