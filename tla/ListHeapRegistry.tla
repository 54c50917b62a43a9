-------------------------- MODULE ListHeapRegistry --------------------------
(* ListHeap beside the registry that its cells stand for.                  *)
EXTENDS ListHeap

VARIABLE db     \* what Db reads off the cells, so that it is computed once for each state

Follow == db' = IF UNCHANGED <<heap, messages>> THEN db ELSE Db'
InitDb == Init /\ db = Db
NextDb == Next /\ Follow
SpecDb == InitDb /\ [][NextDb]_<<vars, db>>

\* The list in memory implements the registry: each call takes effect at one
\* instant, also when it frees a user's files one after the other, and a listing
\* shows one state of the registry.  Running out of memory in the middle of a
\* listing stops the process, and nothing else does (list.c:343-350).
Abstract == INSTANCE Registry
Linearizable == Abstract!ServiceSpec
=============================================================================
