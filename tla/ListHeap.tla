------------------------------ MODULE ListHeap ------------------------------
(***************************************************************************)
(* src/server/list.c in memory: nodes, file nodes and the entries of a     *)
(* listing are cells that malloc returns, linked by pointers and freed one *)
(* by one; and the loops of treat_request that send a listing, after the   *)
(* mutex was given back.  UserList has the mutex and the lazy              *)
(* initialisation, and shows that one thread at a time is in an operation: *)
(* the locals of list.c are those of that thread.  Before it is            *)
(* initialised messages is NULL, as a global is, so that init_list changes *)
(* nothing here.                                                           *)
(***************************************************************************)
EXTENDS Protocol, FiniteSets

CONSTANTS Cell,    \* addresses that malloc returns
          Calls    \* the calls each thread makes

ASSUME CellAssumption == /\ IsFiniteSet(Cell) /\ Nil \notin Cell
                         /\ Calls \in [Thread -> SUBSET Request]

VARIABLES alive,     \* the process runs
          heap,      \* what each cell holds
          messages,  \* the head of the list
          mutex,     \* the thread that holds it
          pc,        \* where each thread is
          req,       \* its call, or Nil
          ans,       \* what is to be returned, once that is settled
          current, previous,  \* list.c's walk of the users
          scan,      \* file_current, or user_current in list_users
          before,    \* file_previous
          tail,      \* response_current
          reply,     \* the listing of each thread: its head, then what to send next
          left,      \* n_user, less what was sent
          sent       \* the entries sent

locals == <<current, previous, scan, before, tail>>
listing == <<reply, left, sent>>
vars == <<alive, heap, messages, mutex, pc, req, ans, locals, listing>>

Free == [kind |-> "free"]
Raw == [kind |-> "raw"]      \* as malloc returns it
Lost == [kind |-> "lost"]    \* not freed, and nothing points to it
FreeCells == {c \in Cell : heap[c] = Free}

Init == /\ alive = TRUE
        /\ heap = [c \in Cell |-> Free]
        /\ messages = Nil /\ mutex = Nil
        /\ pc = [t \in Thread |-> "idle"]
        /\ req = [t \in Thread |-> Nil] /\ ans = [t \in Thread |-> Nil]
        /\ current = Nil /\ previous = Nil /\ scan = Nil /\ before = Nil /\ tail = Nil
        /\ reply = [t \in Thread |-> Nil]
        /\ left = [t \in Thread |-> 0]
        /\ sent = [t \in Thread |-> {}]

At(t, s) == alive /\ pc[t] = s
Goto(t, s) == pc' = [pc EXCEPT ![t] = s]
Asks(t, ops) == req[t].op \in ops
Lists(t) == Asks(t, {"LIST_USERS", "LIST_CONTENT"})

\* A pointer that is NULL is written through: SIGSEGV.
Crash == /\ alive' = FALSE
         /\ heap' = [c \in Cell |-> Free]
         /\ messages' = Nil /\ mutex' = Nil
         /\ pc' = [t \in Thread |-> "idle"]
         /\ req' = [t \in Thread |-> Nil] /\ ans' = [t \in Thread |-> Nil]
         /\ current' = Nil /\ previous' = Nil /\ scan' = Nil /\ before' = Nil /\ tail' = Nil
         /\ reply' = [t \in Thread |-> Nil]
         /\ left' = [t \in Thread |-> 0]
         /\ sent' = [t \in Thread |-> {}]

-----------------------------------------------------------------------------
(* Into and out of an operation.                                           *)

\* treat_request calls; for a listing it has allocated the first entry, and
\* does not test the pointer.
Call(t, r) ==
  /\ At(t, "idle")
  /\ req' = [req EXCEPT ![t] = r]
  /\ Goto(t, "lock")
  /\ IF r.op \in {"LIST_USERS", "LIST_CONTENT"}
       THEN \E c \in FreeCells \cup {Nil} :
              /\ reply' = [reply EXCEPT ![t] = c]
              /\ heap' = [d \in Cell |-> IF d = c THEN Raw ELSE heap[d]]
       ELSE UNCHANGED <<reply, heap>>
  /\ UNCHANGED <<alive, messages, mutex, ans, locals, left, sent>>

Lock(t) == /\ At(t, "lock") /\ mutex = Nil
           /\ mutex' = t
           /\ current' = messages
           /\ Goto(t, "find")
           /\ UNCHANGED <<alive, heap, messages, req, ans, previous, scan, before, tail, listing>>

Settle(t, code, out) == ans' = [ans EXCEPT ![t] = [code |-> code, out |-> out]]

Unlock(t, next) == /\ mutex' = Nil
                   /\ current' = Nil /\ previous' = Nil /\ scan' = Nil /\ before' = Nil /\ tail' = Nil
                   /\ Goto(t, next)
                   /\ UNCHANGED <<alive, req, left, sent>>

Leave(t, code) == Settle(t, code, {}) /\ Unlock(t, "return")
Refuse(t, code) == Leave(t, code) /\ UNCHANGED <<heap, messages, reply>>

-----------------------------------------------------------------------------
(* The walk of the users, and what each operation does where it ends.      *)

Find(t) ==
  /\ At(t, "find")
  /\ \/ current = Nil /\ Goto(t, "absent") /\ UNCHANGED <<current, previous>>
     \/ /\ current # Nil /\ heap[current].name = req[t].user
        /\ Goto(t, "found")
        /\ UNCHANGED <<current, previous>>
     \/ /\ current # Nil /\ heap[current].name # req[t].user
        /\ previous' = current /\ current' = heap[current].next
        /\ UNCHANGED pc
  /\ UNCHANGED <<alive, heap, messages, mutex, req, ans, scan, before, tail, listing>>

Found(t, ops) == At(t, "found") /\ Asks(t, ops)
Connected(t, ops) == Found(t, ops) /\ heap[current].addr # Nil

Absent(t) == At(t, "absent") /\ ~Asks(t, {"REGISTER"}) /\ Refuse(t, 1)

Offline(t) == /\ Found(t, {"DISCONNECT", "PUBLISH", "DELETE", "LIST_USERS", "LIST_CONTENT"})
              /\ heap[current].addr = Nil
              /\ Refuse(t, 2)

RegisterUser(t) ==
  \/ Found(t, {"REGISTER"}) /\ Refuse(t, 1)
  \/ /\ At(t, "absent") /\ Asks(t, {"REGISTER"})
     /\ \/ Refuse(t, -1)                                \* malloc returns NULL
        \/ \E c \in FreeCells :
             /\ heap' = [heap EXCEPT ![c] = [kind |-> "node", name |-> req[t].user, addr |-> Nil,
                                             list_files |-> Nil, next |-> messages]]
             /\ messages' = c
             /\ Leave(t, 0) /\ UNCHANGED reply

\* Mutant: the `else' of messages = current->next is missing.
UnlinkLater(t) ==
  /\ Found(t, {"UNREGISTER"})
  /\ IF previous = Nil
       THEN UNCHANGED <<heap, messages>>
       ELSE heap' = [heap EXCEPT ![previous].next = heap[current].next] /\ UNCHANGED messages
  /\ scan' = heap[current].list_files
  /\ Settle(t, 0, {})
  /\ Goto(t, "free")
  /\ UNCHANGED <<alive, mutex, req, current, previous, before, tail, listing>>

\* unregister_user takes the node out ...
Unlink(t) ==
  /\ Found(t, {"UNREGISTER"})
  /\ IF previous = Nil
       THEN messages' = heap[current].next /\ UNCHANGED heap
       ELSE heap' = [heap EXCEPT ![previous].next = heap[current].next] /\ UNCHANGED messages
  /\ scan' = heap[current].list_files
  /\ Settle(t, 0, {})
  /\ Goto(t, "free")
  /\ UNCHANGED <<alive, mutex, req, current, previous, before, tail, listing>>

\* ... and frees its files, one by one, having read the next pointer ...
FreeFile(t) == /\ At(t, "free") /\ scan # Nil
               /\ heap' = [heap EXCEPT ![scan] = Free]
               /\ scan' = heap[scan].next
               /\ UNCHANGED <<alive, messages, mutex, pc, req, ans, current, previous, before, tail, listing>>

\* Mutant: the node is freed with its files still in memory.
FreeNodeOnly(t) == /\ At(t, "free")
                   /\ heap' = [heap EXCEPT ![current] = Free]
                   /\ Unlock(t, "return")
                   /\ UNCHANGED <<messages, ans, reply>>

\* ... and the node.
FreeNode(t) == /\ At(t, "free") /\ scan = Nil
               /\ heap' = [heap EXCEPT ![current] = Free]
               /\ Unlock(t, "return")
               /\ UNCHANGED <<messages, ans, reply>>

ConnectUser(t) ==
  /\ Found(t, {"CONNECT"})
  /\ \/ heap[current].addr # Nil /\ Refuse(t, 2)
     \/ heap[current].addr = Nil /\ Refuse(t, 3)        \* getpeername failed
     \/ /\ heap[current].addr = Nil
        /\ heap' = [heap EXCEPT ![current].addr = req[t].addr]
        /\ Leave(t, 0) /\ UNCHANGED <<messages, reply>>

DisconnectUser(t) == /\ Connected(t, {"DISCONNECT"})
                     /\ heap' = [heap EXCEPT ![current].addr = Nil]
                     /\ Leave(t, 0) /\ UNCHANGED <<messages, reply>>

-----------------------------------------------------------------------------
(* Files.                                                                  *)

Files(t) == /\ Connected(t, {"PUBLISH", "DELETE"})
            /\ scan' = heap[current].list_files
            /\ Goto(t, "file")
            /\ UNCHANGED <<alive, heap, messages, mutex, req, ans, current, previous, before, tail, listing>>

FindFile(t) == /\ At(t, "file") /\ scan # Nil /\ heap[scan].name # req[t].file
               /\ before' = scan /\ scan' = heap[scan].next
               /\ UNCHANGED <<alive, heap, messages, mutex, pc, req, ans, current, previous, tail, listing>>

\* Mutant: the new file does not point to those before it.
RegisterFileAlone(t) ==
  /\ At(t, "file") /\ Asks(t, {"PUBLISH"})
  /\ \/ scan # Nil /\ heap[scan].name = req[t].file /\ Refuse(t, 3)
     \/ scan = Nil /\ Refuse(t, 4)
     \/ /\ scan = Nil
        /\ \E c \in FreeCells :
             heap' = [heap EXCEPT ![c] = [kind |-> "file", name |-> req[t].file, desc |-> req[t].desc, next |-> Nil],
                                  ![current].list_files = c]
        /\ Leave(t, 0) /\ UNCHANGED <<messages, reply>>

RegisterFile(t) ==
  /\ At(t, "file") /\ Asks(t, {"PUBLISH"})
  /\ \/ scan # Nil /\ heap[scan].name = req[t].file /\ Refuse(t, 3)
     \/ scan = Nil /\ Refuse(t, 4)                      \* malloc returns NULL
     \/ /\ scan = Nil
        /\ \E c \in FreeCells :
             heap' = [heap EXCEPT ![c] = [kind |-> "file", name |-> req[t].file, desc |-> req[t].desc,
                                          next |-> heap[current].list_files],
                                  ![current].list_files = c]
        /\ Leave(t, 0) /\ UNCHANGED <<messages, reply>>

UnregisterFile(t) ==
  /\ At(t, "file") /\ Asks(t, {"DELETE"})
  /\ \/ scan = Nil /\ Refuse(t, 3)
     \/ /\ scan # Nil /\ heap[scan].name = req[t].file
        /\ heap' = IF before = Nil
                     THEN [heap EXCEPT ![current].list_files = heap[scan].next, ![scan] = Free]
                     ELSE [heap EXCEPT ![before].next = heap[scan].next, ![scan] = Free]
        /\ Leave(t, 0) /\ UNCHANGED <<messages, reply>>

-----------------------------------------------------------------------------
(* Listings.                                                               *)

ListUsers(t) == /\ Connected(t, {"LIST_USERS"})
                /\ scan' = messages /\ tail' = reply[t]
                /\ Goto(t, "fill")
                /\ UNCHANGED <<alive, heap, messages, mutex, req, ans, current, previous, before, listing>>

\* list_content looks for the other user.
ListContent(t) == /\ Connected(t, {"LIST_CONTENT"})
                  /\ current' = messages
                  /\ Goto(t, "target")
                  /\ UNCHANGED <<alive, heap, messages, mutex, req, ans, previous, scan, before, tail, listing>>

Target(t) ==
  /\ At(t, "target")
  /\ \/ current = Nil /\ Refuse(t, 3)
     \/ /\ current # Nil /\ heap[current].name # req[t].other
        /\ current' = heap[current].next
        /\ UNCHANGED <<alive, heap, messages, mutex, pc, req, ans, previous, scan, before, tail, listing>>
     \/ /\ current # Nil /\ heap[current].name = req[t].other /\ heap[current].list_files = Nil
        /\ reply' = [reply EXCEPT ![t] = Nil]
        /\ Settle(t, 0, {}) /\ Unlock(t, "send")
        /\ UNCHANGED <<heap, messages>>
     \/ /\ current # Nil /\ heap[current].name = req[t].other /\ heap[current].list_files # Nil
        /\ scan' = heap[current].list_files /\ tail' = reply[t]
        /\ Goto(t, "fill")
        /\ UNCHANGED <<alive, heap, messages, mutex, req, ans, current, previous, before, listing>>

\* list_users takes the connected users only, list_content every file.
Wanted(t) == Asks(t, {"LIST_USERS"}) => heap[scan].addr # Nil
Copied(t) == IF Asks(t, {"LIST_USERS"})
               THEN [name |-> heap[scan].name, addr |-> heap[scan].addr]
               ELSE [name |-> heap[scan].name, desc |-> heap[scan].desc]

\* Mutant: a user that is left out is counted.
SkipCounted(t) == /\ At(t, "fill") /\ scan # Nil /\ ~Wanted(t)
                  /\ scan' = heap[scan].next
                  /\ left' = [left EXCEPT ![t] = @ + 1]
                  /\ UNCHANGED <<alive, heap, messages, mutex, pc, req, ans, current, previous, before, tail, reply, sent>>

Skip(t) == /\ At(t, "fill") /\ scan # Nil /\ ~Wanted(t)
           /\ scan' = heap[scan].next
           /\ UNCHANGED <<alive, heap, messages, mutex, pc, req, ans, current, previous, before, tail, listing>>

\* An entry is filled in, and the next one allocated when the list goes on,
\* whether or not it will be needed; the pointer is not tested.
Fill(t) ==
  /\ At(t, "fill") /\ scan # Nil /\ Wanted(t) /\ tail # Nil
  /\ \E c \in IF heap[scan].next = Nil THEN {Nil} ELSE FreeCells \cup {Nil} :
       /\ heap' = [d \in Cell |-> CASE d = tail -> [kind |-> "entry", shows |-> Copied(t), next |-> c]
                                    [] d = c    -> Raw
                                    [] OTHER    -> heap[d]]
       /\ tail' = IF heap[scan].next = Nil THEN tail ELSE c
  /\ left' = [left EXCEPT ![t] = IF Asks(t, {"LIST_USERS"}) THEN @ + 1 ELSE @]
  /\ scan' = heap[scan].next
  /\ UNCHANGED <<alive, messages, mutex, pc, req, ans, current, previous, before, reply, sent>>

FillNothing(t) == At(t, "fill") /\ scan # Nil /\ Wanted(t) /\ tail = Nil /\ Crash

\* What a cell points to.
After(c) == IF heap[c].kind \in {"node", "file", "entry"} THEN heap[c].next ELSE Nil

\* The cells reached from a pointer, by distance.
Path(p) == LET cell[k \in 0 .. Cardinality(Cell)] ==
                 IF k = 0 THEN p ELSE LET c == cell[k - 1] IN IF c = Nil THEN Nil ELSE After(c)
           IN  cell
Chain(p) == LET path == Path(p) IN {path[k] : k \in 0 .. Cardinality(Cell)} \ {Nil}
Ends(p) == Path(p)[Cardinality(Cell)] = Nil

FillEnd(t) ==
  /\ At(t, "fill") /\ scan = Nil
  /\ Settle(t, 0, {heap[c].shows : c \in {d \in Chain(reply[t]) : heap[d].kind = "entry"}})
  /\ Unlock(t, "send")
  /\ UNCHANGED <<heap, messages, reply>>

\* treat_request reads an entry to send it; one that was not filled in shows
\* anything.
Shown(c) == IF heap[c].kind = "entry" THEN heap[c].shows ELSE Nil

More(t) == IF Asks(t, {"LIST_USERS"}) THEN left[t] > 0 ELSE reply[t] # Nil

Send(t) ==
  /\ At(t, "send") /\ More(t)
  /\ sent' = [sent EXCEPT ![t] = @ \cup {Shown(reply[t])}]
  /\ reply' = [reply EXCEPT ![t] = IF Asks(t, {"LIST_USERS"}) /\ After(@) = Nil THEN @ ELSE After(@)]
  /\ left' = [left EXCEPT ![t] = IF Asks(t, {"LIST_USERS"}) THEN @ - 1 ELSE @]
  /\ UNCHANGED <<alive, heap, messages, mutex, pc, req, ans, locals>>

SendEnd(t) == /\ At(t, "send") /\ ~More(t)
              /\ Goto(t, "return")
              /\ UNCHANGED <<alive, heap, messages, mutex, req, ans, locals, listing>>

\* The thread ends.  A listing is not freed.
Return(t) == /\ At(t, "return")
             /\ LET kept == UNION {Chain(reply[s]) : s \in Thread \ {t}} IN
                  heap' = [c \in Cell |-> IF heap[c].kind \in {"raw", "entry"} /\ c \notin kept
                                            THEN Lost ELSE heap[c]]
             /\ req' = [req EXCEPT ![t] = Nil] /\ ans' = [ans EXCEPT ![t] = Nil]
             /\ reply' = [reply EXCEPT ![t] = Nil]
             /\ left' = [left EXCEPT ![t] = 0]
             /\ sent' = [sent EXCEPT ![t] = {}]
             /\ Goto(t, "idle")
             /\ UNCHANGED <<alive, messages, mutex, locals>>

-----------------------------------------------------------------------------
Operation(t) ==
  \/ Lock(t) \/ Find(t) \/ Absent(t) \/ Offline(t)
  \/ RegisterUser(t) \/ Unlink(t) \/ FreeFile(t) \/ FreeNode(t)
  \/ ConnectUser(t) \/ DisconnectUser(t)
  \/ Files(t) \/ FindFile(t) \/ RegisterFile(t) \/ UnregisterFile(t)
  \/ ListUsers(t) \/ ListContent(t) \/ Target(t) \/ Skip(t) \/ Fill(t) \/ FillNothing(t) \/ FillEnd(t)

Next == \E t \in Thread : \/ \E r \in Calls[t] : Call(t, r)
                          \/ Operation(t)
                          \/ Send(t) \/ SendEnd(t) \/ Return(t)

Spec == Init /\ [][Next]_vars

-----------------------------------------------------------------------------
(* Properties.                                                             *)

Points(p, kinds) == p = Nil \/ heap[p].kind \in kinds

\* The list is never broken: from messages one comes to nodes only, from each
\* of them to files only, no cell is reached twice, and the pointers of the
\* thread inside list.c are to what it takes them for, also while nodes are
\* taken out and freed (list.c:107-123, 296-304).
ListSound ==
  LET nodes == Chain(messages)
      files(n) == Chain(heap[n].list_files)
      owned == IF \E t \in Thread : pc[t] = "free" THEN nodes \cup {current} ELSE nodes
  IN  /\ Ends(messages) /\ \A n \in nodes : heap[n].kind = "node"
      /\ \A n \in nodes : Ends(heap[n].list_files) /\ \A f \in files(n) : heap[f].kind = "file"
      /\ \A m, n \in nodes : m # n => files(m) \cap files(n) = {}
      /\ {current, previous} \ {Nil} \subseteq owned
      /\ Points(scan, {"node", "file"}) /\ Points(before, {"file"})
      /\ scan # Nil => Points(tail, {"raw"})

\* Every node and every file that was allocated is in the list whenever no
\* operation is under way: none is lost (list.c:115-123, 296-304).
NothingLost ==
  mutex = Nil =>
    {c \in Cell : heap[c].kind \in {"node", "file"}} =
      Chain(messages) \cup UNION {Chain(heap[n].list_files) : n \in Chain(messages)}

\* What is sent of a listing is what the registry answered, though the thread
\* reads its entries after the mutex was given back, while users and files
\* come, go and are freed, and though list_users leaves an entry more than it
\* counts (list.c:348-353, servidor.c:390-419, 491-507).
SentAsListed == \A t \in Thread : pc[t] = "return" => sent[t] = ans[t].out

\* The registry the list stands for.
Db == LET nodes == {c \in Chain(messages) : heap[c].kind = "node"}
          files(n) == {f \in Chain(heap[n].list_files) : heap[f].kind = "file"}
      IN  [u \in {heap[c].name : c \in nodes} |->
             LET n == CHOOSE c \in nodes : heap[c].name = u
             IN  [addr  |-> heap[n].addr,
                  files |-> [f \in {heap[c].name : c \in files(n)} |->
                               heap[CHOOSE c \in files(n) : heap[c].name = f].desc]]]
=============================================================================
