\* Each fetcher fetches once.
CONSTANTS
  u1 = u1
  u2 = u2
  a = a
  m = m
  f1 = f1
  f2 = f2
  p1 = p1
  p2 = p2
  Fetcher = {f1, f2}
  Name = {u1, u2}
  Port = {p1, p2}
  Nil = Nil
  NUL = NUL
  LF = LF
  CR = CR
  CRLF = CRLF
  Ascii = {a, LF}
  Multi = {m}
  Content <- TwoFiles
  Modes <- Situations
SPECIFICATION FairSpec
INVARIANTS TypeOK OkMeansCopied FromAskedUser
PROPERTIES EveryFetchEnds PortGivenBack
\* Fetchers fetch once, and users may all have left.
CHECK_DEADLOCK FALSE
