------------------------------ MODULE UserList ------------------------------
(***************************************************************************)
(* src/server/list.c: the linked list of users, its mutex, its lazy        *)
(* initialisation and the eight operations the handler threads call.       *)
(*                                                                         *)
(* Every operation locks the mutex, and the six that change the list first *)
(* test inited_list and, when it is 0, give the mutex back, call init_list *)
(* (which locks it again and looks at the flag once more) and take it back *)
(* before they walk the list.  Other threads run in both windows.  The     *)
(* walk compares one node per step, with whatever string the username      *)
(* pointer holds at that step: the argument u of Walk and RegisterUser is  *)
(* the request's own name here, and the server's shared buffer in Server.  *)
(***************************************************************************)
EXTENDS Protocol

VARIABLES mutex,      \* the thread that holds it, or Nil
          inited,     \* inited_list
          messages,   \* the list of users, head first, each with its files
          pc,         \* where each thread is in list.c
          req,        \* the arguments of its call, or Nil
          cur,        \* position of `current' in the list
          ans         \* the value it is about to return, or Nil

lock == <<mutex, inited>>
vars == <<mutex, inited, messages, pc, req, cur, ans>>

\* No thread is in list.c.
ThreadsInit == /\ mutex = Nil
               /\ pc = [t \in Thread |-> "idle"]
               /\ req = [t \in Thread |-> Nil]
               /\ cur = [t \in Thread |-> 1]
               /\ ans = [t \in Thread |-> Nil]

Init == ThreadsInit /\ inited = FALSE /\ messages = << >>

Goto(t, s) == pc' = [pc EXCEPT ![t] = s]

Online(node) == node.addr # Nil
Publishes(node, f) == \E k \in 1 .. Len(node.files) : node.files[k].name = f

\* k is the position of the first node called u.
IsFirst(k, u) == /\ k \in 1 .. Len(messages)
                 /\ messages[k].name = u
                 /\ \A j \in 1 .. k - 1 : messages[j].name # u

Remove(s, k) == SubSeq(s, 1, k - 1) \o SubSeq(s, k + 1, Len(s))

-----------------------------------------------------------------------------
(* Entering an operation.                                                  *)

Call(t, r) == /\ pc[t] = "idle"
              /\ req' = [req EXCEPT ![t] = r]
              /\ Goto(t, "lock")
              /\ UNCHANGED <<lock, messages, cur, ans>>

\* list_users and list_content do not initialise the list.
Lock(t) == /\ pc[t] = "lock" /\ mutex = Nil
           /\ mutex' = t
           /\ Goto(t, IF req[t].op \in {"LIST_USERS", "LIST_CONTENT"} THEN "walk" ELSE "check")
           /\ UNCHANGED <<inited, messages, req, cur, ans>>

\* Mutant: init_list called with the mutex still held.
CheckInitedHolding(t) == /\ pc[t] = "check"
                         /\ Goto(t, IF inited THEN "walk" ELSE "init")
                         /\ UNCHANGED <<lock, messages, req, cur, ans>>

CheckInited(t) == /\ pc[t] = "check"
                  /\ \/ inited /\ Goto(t, "walk") /\ UNCHANGED mutex
                     \/ ~inited /\ Goto(t, "init") /\ mutex' = Nil
                  /\ UNCHANGED <<inited, messages, req, cur, ans>>

\* Mutant: init_list trusts the test its caller made before unlocking.
InitListAgain(t) == /\ pc[t] = "init" /\ mutex = Nil
                    /\ inited' = TRUE /\ messages' = << >>
                    /\ Goto(t, "relock")
                    /\ UNCHANGED <<mutex, req, cur, ans>>

\* init_list locks, tests the flag again, and unlocks: one step.
InitList(t) == /\ pc[t] = "init" /\ mutex = Nil
               /\ \/ inited /\ UNCHANGED <<inited, messages>>
                  \/ ~inited /\ inited' = TRUE /\ messages' = << >>
               /\ Goto(t, "relock")
               /\ UNCHANGED <<mutex, req, cur, ans>>

\* Mutant: the mutex is not taken back after init_list.
RelockForgotten(t) == /\ pc[t] = "relock"
                      /\ Goto(t, "walk")
                      /\ UNCHANGED <<lock, messages, req, cur, ans>>

Relock(t) == /\ pc[t] = "relock" /\ mutex = Nil
             /\ mutex' = t
             /\ Goto(t, "walk")
             /\ UNCHANGED <<inited, messages, req, cur, ans>>

\* Mutant: `while (current->next)', the last node is not compared.
WalkShort(t, u) ==
  /\ pc[t] = "walk"
  /\ \/ /\ cur[t] < Len(messages) /\ messages[cur[t]].name # u
        /\ cur' = [cur EXCEPT ![t] = @ + 1]
        /\ UNCHANGED pc
     \/ /\ cur[t] < Len(messages) /\ messages[cur[t]].name = u
        /\ Goto(t, "found")
        /\ UNCHANGED cur
     \/ /\ cur[t] >= Len(messages)
        /\ Goto(t, "absent")
        /\ UNCHANGED cur
  /\ UNCHANGED <<lock, messages, req, ans>>

\* One turn of `while (current)': compare one node, or fall off the end.
Walk(t, u) ==
  /\ pc[t] = "walk"
  /\ \/ /\ cur[t] \in 1 .. Len(messages) /\ messages[cur[t]].name # u
        /\ cur' = [cur EXCEPT ![t] = @ + 1]
        /\ UNCHANGED pc
     \/ /\ cur[t] \in 1 .. Len(messages) /\ messages[cur[t]].name = u
        /\ Goto(t, "found")
        /\ UNCHANGED cur
     \/ /\ cur[t] > Len(messages)
        /\ Goto(t, "absent")
        /\ UNCHANGED cur
  /\ UNCHANGED <<lock, messages, req, ans>>

-----------------------------------------------------------------------------
(* What each operation does once its walk has ended: change the list or    *)
(* refuse, and unlock the mutex on the way out.                            *)

Node(t) == messages[cur[t]]

Leave(t, code, out) == /\ ans' = [ans EXCEPT ![t] = [code |-> code, out |-> out]]
                       /\ mutex' = Nil
                       /\ Goto(t, "return")
                       /\ UNCHANGED <<inited, req, cur>>

Refuse(t, code) == Leave(t, code, {}) /\ UNCHANGED messages

\* Mutant: the new node's ip is left as malloc returned it.
RegisterUserUnset(t, u) ==
  /\ req[t].op = "REGISTER"
  /\ \/ pc[t] = "found" /\ Refuse(t, 1)
     \/ pc[t] = "absent" /\ Refuse(t, -1)
     \/ /\ pc[t] = "absent"
        /\ messages' = << [name |-> u, addr |-> u, files |-> << >>] >> \o messages
        /\ Leave(t, 0, {})

RegisterUser(t, u) ==
  /\ req[t].op = "REGISTER"
  /\ \/ pc[t] = "found" /\ Refuse(t, 1)
     \/ pc[t] = "absent" /\ Refuse(t, -1)                        \* malloc failed
     \/ /\ pc[t] = "absent"
        /\ messages' = << [name |-> u, addr |-> Nil, files |-> << >>] >> \o messages
        /\ Leave(t, 0, {})

UnregisterUser(t) ==
  /\ req[t].op = "UNREGISTER"
  /\ \/ pc[t] = "absent" /\ Refuse(t, 1)
     \/ /\ pc[t] = "found"
        /\ messages' = Remove(messages, cur[t])
        /\ Leave(t, 0, {})

ConnectUser(t) ==
  /\ req[t].op = "CONNECT"
  /\ \/ pc[t] = "absent" /\ Refuse(t, 1)
     \/ pc[t] = "found" /\ Online(Node(t)) /\ Refuse(t, 2)
     \/ pc[t] = "found" /\ ~Online(Node(t)) /\ Refuse(t, 3)      \* getpeername failed
     \/ /\ pc[t] = "found" /\ ~Online(Node(t))
        /\ messages' = [messages EXCEPT ![cur[t]].addr = req[t].addr]
        /\ Leave(t, 0, {})

DisconnectUser(t) ==
  /\ req[t].op = "DISCONNECT"
  /\ \/ pc[t] = "absent" /\ Refuse(t, 1)
     \/ pc[t] = "found" /\ ~Online(Node(t)) /\ Refuse(t, 2)
     \/ /\ pc[t] = "found" /\ Online(Node(t))
        /\ messages' = [messages EXCEPT ![cur[t]].addr = Nil]
        /\ Leave(t, 0, {})

\* Mutant: a file already published is published again.
RegisterFileAgain(t) ==
  /\ req[t].op = "PUBLISH"
  /\ \/ pc[t] = "absent" /\ Refuse(t, 1)
     \/ pc[t] = "found" /\ ~Online(Node(t)) /\ Refuse(t, 2)
     \/ /\ pc[t] = "found" /\ Online(Node(t))
        /\ messages' = [messages EXCEPT ![cur[t]].files =
                           << [name |-> req[t].file, desc |-> req[t].desc] >> \o @]
        /\ Leave(t, 0, {})

RegisterFile(t) ==
  /\ req[t].op = "PUBLISH"
  /\ \/ pc[t] = "absent" /\ Refuse(t, 1)
     \/ pc[t] = "found" /\ ~Online(Node(t)) /\ Refuse(t, 2)
     \/ pc[t] = "found" /\ Online(Node(t)) /\ Publishes(Node(t), req[t].file) /\ Refuse(t, 3)
     \/ /\ pc[t] = "found" /\ Online(Node(t)) /\ ~Publishes(Node(t), req[t].file)
        /\ \/ Refuse(t, 4)                                       \* malloc failed
           \/ /\ messages' = [messages EXCEPT ![cur[t]].files =
                                << [name |-> req[t].file, desc |-> req[t].desc] >> \o @]
              /\ Leave(t, 0, {})

\* Mutant: DELETE does not ask whether the user is connected.
UnregisterFileOffline(t) ==
  /\ req[t].op = "DELETE"
  /\ \/ pc[t] = "absent" /\ Refuse(t, 1)
     \/ pc[t] = "found" /\ ~Publishes(Node(t), req[t].file) /\ Refuse(t, 3)
     \/ /\ pc[t] = "found"
        /\ \E k \in 1 .. Len(Node(t).files) :
             /\ Node(t).files[k].name = req[t].file
             /\ messages' = [messages EXCEPT ![cur[t]].files = Remove(@, k)]
        /\ Leave(t, 0, {})

UnregisterFile(t) ==
  /\ req[t].op = "DELETE"
  /\ \/ pc[t] = "absent" /\ Refuse(t, 1)
     \/ pc[t] = "found" /\ ~Online(Node(t)) /\ Refuse(t, 2)
     \/ pc[t] = "found" /\ Online(Node(t)) /\ ~Publishes(Node(t), req[t].file) /\ Refuse(t, 3)
     \/ /\ pc[t] = "found" /\ Online(Node(t))
        /\ \E k \in 1 .. Len(Node(t).files) :
             /\ Node(t).files[k].name = req[t].file
             /\ \A j \in 1 .. k - 1 : Node(t).files[j].name # req[t].file
             /\ messages' = [messages EXCEPT ![cur[t]].files = Remove(@, k)]
        /\ Leave(t, 0, {})

ListUsers(t) ==
  /\ req[t].op = "LIST_USERS"
  /\ \/ pc[t] = "absent" /\ Refuse(t, 1)
     \/ pc[t] = "found" /\ ~Online(Node(t)) /\ Refuse(t, 2)
     \/ /\ pc[t] = "found" /\ Online(Node(t))
        /\ LET connected == {k \in 1 .. Len(messages) : Online(messages[k])}
           IN  Leave(t, 0, {[name |-> messages[k].name, addr |-> messages[k].addr] : k \in connected})
        /\ UNCHANGED messages

ListContent(t) ==
  /\ req[t].op = "LIST_CONTENT"
  /\ \/ pc[t] = "absent" /\ Refuse(t, 1)
     \/ pc[t] = "found" /\ ~Online(Node(t)) /\ Refuse(t, 2)
     \/ /\ pc[t] = "found" /\ Online(Node(t))
        /\ \A k \in 1 .. Len(messages) : messages[k].name # req[t].other
        /\ Refuse(t, 3)
     \/ /\ pc[t] = "found" /\ Online(Node(t))
        /\ \E k \in 1 .. Len(messages) :
             /\ IsFirst(k, req[t].other)
             /\ Leave(t, 0, {messages[k].files[i] : i \in 1 .. Len(messages[k].files)})
        /\ UNCHANGED messages

Return(t) == /\ pc[t] = "return"
             /\ req' = [req EXCEPT ![t] = Nil]
             /\ ans' = [ans EXCEPT ![t] = Nil]
             /\ cur' = [cur EXCEPT ![t] = 1]
             /\ Goto(t, "idle")
             /\ UNCHANGED <<lock, messages>>

-----------------------------------------------------------------------------
\* The steps of a call in progress; u is the string its username points at.
Apply(t, u) == \/ RegisterUser(t, u) \/ UnregisterUser(t)
               \/ ConnectUser(t) \/ DisconnectUser(t)
               \/ RegisterFile(t) \/ UnregisterFile(t)
               \/ ListUsers(t) \/ ListContent(t)

Step(t, u) == Lock(t) \/ CheckInited(t) \/ InitList(t) \/ Relock(t) \/ Walk(t, u) \/ Apply(t, u)

Working(t) == pc[t] \notin {"idle", "return"}
Work(t) == Working(t) /\ Step(t, req[t].user)

Next == \E t \in Thread : (\E r \in Request : Call(t, r)) \/ Work(t) \/ Return(t)

\* A thread that is inside an operation keeps running (threads are scheduled
\* by the kernel); nothing obliges a client to make another request.
Fairness == \A t \in Thread : WF_vars(Work(t))

Spec == Init /\ [][Next]_vars
FairSpec == Spec /\ Fairness

-----------------------------------------------------------------------------
(* Properties.                                                             *)

FileNode == [name : File, desc : Desc]
UserNode == [name : User, addr : Addr \cup {Nil}, files : Seq(FileNode)]

PcSet == {"idle", "lock", "check", "init", "relock", "walk", "found", "absent", "return"}

\* The type invariant: every variable holds what its declaration in list.c
\* or in a thread's frame can hold.
TypeOK == /\ mutex \in Thread \cup {Nil}
          /\ inited \in BOOLEAN
          /\ messages \in Seq(UserNode)
          /\ pc \in [Thread -> PcSet]
          /\ req \in [Thread -> Request \cup {Nil}]
          /\ cur \in [Thread -> Nat]
          /\ ans \in [Thread -> Answer \cup {Nil}]

\* No two nodes of the list carry one name, and no user publishes a name twice:
\* register_user and register_file_from_user decide that a name is new on a walk
\* that ends before they insert, and the lazy initialisation drops the mutex.
Distinct(s) == \A i, j \in 1 .. Len(s) : s[i].name = s[j].name => i = j
UniqueNames == /\ Distinct(messages)
               /\ \A k \in 1 .. Len(messages) : Distinct(messages[k].files)

\* A thread that walks the list, or acts on the node it found there, holds the
\* mutex, and the list has not moved under it: the nodes it passed do not carry
\* the name it looks for, and the node it stopped at does.  Dereferencing
\* `current' in any other state would touch a freed or a different node.
InSection(t) == pc[t] \in {"check", "walk", "found", "absent"}
CursorValid ==
  \A t \in Thread :
    /\ InSection(t) <=> mutex = t
    /\ pc[t] \in {"walk", "found", "absent"} =>
         /\ cur[t] \in 1 .. Len(messages) + 1
         /\ \A j \in 1 .. cur[t] - 1 : messages[j].name # req[t].user
    /\ pc[t] = "found" => cur[t] \in 1 .. Len(messages) /\ Node(t).name = req[t].user
    /\ pc[t] = "absent" => cur[t] = Len(messages) + 1

\* A user's published files change only while that user is connected, or go
\* with the user; being offline, reconnecting, or another user's calls leave
\* them alone (files outlive DISCONNECT).
Named(u) == {k \in 1 .. Len(messages) : messages[k].name = u}
FilesOf(u) == {messages[k].files : k \in Named(u)}
FilesChangeOnline ==
  [][\A u \in User : FilesOf(u) # {} /\ FilesOf(u)' # FilesOf(u) =>
       \/ Named(u)' = {}
       \/ \A k \in Named(u) : Online(messages[k])]_vars

\* The list implements the registry: each call takes effect at one instant
\* between its call and its return, with the answer the registry gives there.
Db == [u \in {messages[k].name : k \in 1 .. Len(messages)} |->
         LET n == messages[CHOOSE k \in 1 .. Len(messages) : messages[k].name = u]
         IN  [addr  |-> n.addr,
              files |-> [f \in {n.files[i].name : i \in 1 .. Len(n.files)} |->
                          n.files[CHOOSE i \in 1 .. Len(n.files) : n.files[i].name = f].desc]]]
Abstract == INSTANCE Registry WITH db <- Db
Linearizable == Abstract!Spec

\* Somebody always gets through: while threads are inside operations, one of
\* them returns.  No exit path keeps the mutex, and nobody locks it twice.
Progress == (\E t \in Thread : Working(t)) ~> (\E t \in Thread : pc[t] = "return")
=============================================================================
