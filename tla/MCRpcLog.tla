------------------------------ MODULE MCRpcLog ------------------------------
(* RpcLog with one thread that has every kind of call, and with two. *)
EXTENDS RpcLog

CONSTANTS t1, t2

\* Three calls of one thread, with and without faults; of two threads one call
\* each or two of one of them, with and without faults, so that each may find the
\* handle made, replaced or destroyed by the other.
Situations ==
       {[callers |-> {t1}, calls |-> 3, files |-> BOOLEAN, faults |-> b] : b \in BOOLEAN}
  \cup {[callers |-> {t1, t2}, calls |-> 2, files |-> {FALSE}, faults |-> b] : b \in BOOLEAN}
=============================================================================
