\* Four cells: two users with a file and a listing, or a user with two files.
CONSTANTS
  writer = writer
  reader = reader
  Thread = {writer, reader}
  User = {u1, u2}
  Addr = {a1}
  File = {f1, f2}
  Desc = {d1}
  Nil = Nil
  Cell = {c1, c2, c3, c4}
  Calls <- WriterAndReader
SPECIFICATION SpecDb
SYMMETRY Symmetry
INVARIANTS ListSound NothingLost SentAsListed
PROPERTIES Linearizable
\* A process that crashed stops.
CHECK_DEADLOCK FALSE
