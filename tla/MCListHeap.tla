----------------------------- MODULE MCListHeap -----------------------------
(* ListHeap with a thread that changes the list and one that lists it.     *)
EXTENDS ListHeapRegistry, TLC

CONSTANTS writer, reader

Listings == {r \in Request : r.op \in {"LIST_USERS", "LIST_CONTENT"}}
WriterAndReader == writer :> Request \ Listings @@ reader :> Listings

Symmetry == Permutations(User) \cup Permutations(File) \cup Permutations(Cell)
=============================================================================
