\* A buffer of three bytes; the client checks the second of two fields.
CONSTANTS
  a = a
  b = b
  t1 = t1
  t2 = t2
  Thread = {t1, t2}
  Byte = {a, b, LF}
  NUL = NUL
  LF = LF
  N = 3
  Checked = {2}
  Modes <- Situations
SPECIFICATION FairSpec
INVARIANTS TypeOK CopyFits FieldsAsSent FieldsArePieces CheckedArriveWhole
PROPERTIES AnswerArrives
