\* Each call is sent at most twice: 25 seconds in all and 15 between datagrams.
CONSTANTS
  t1 = t1
  t2 = t2
  Thread = {t1, t2}
  Nil = Nil
  MaxSends = 2
  Modes <- Situations
SPECIFICATION FairSpec
INVARIANTS SuccessMeansPrinted EveryRequestPrinted
PROPERTIES CallsEnd
\* A server that has made its calls, or has died, stops.
CHECK_DEADLOCK FALSE
