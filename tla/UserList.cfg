\* Two threads and two users, for races for one name and for first and middle
\* nodes; ListHeap has users with more than one file.
CONSTANTS
  Thread = {t1, t2}
  User = {u1, u2}
  Addr = {a1}
  File = {f1}
  Desc = {d1}
  Nil = Nil
SPECIFICATION FairSpec
INVARIANTS TypeOK UniqueNames CursorValid
PROPERTIES Progress Linearizable FilesChangeOnline
