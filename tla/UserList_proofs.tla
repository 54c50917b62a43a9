-------------------------- MODULE UserList_proofs --------------------------
(***************************************************************************)
(* Theorems about UserList for any number of threads, users and files.     *)
(***************************************************************************)
EXTENDS UserList, SequenceTheorems, TLAPS

(* Two facts the properties leave out: a thread inside an operation has a   *)
(* request, and `current' is the head of the list until the walk begins.    *)
Pending ==
  \A t \in Thread :
    /\ Working(t) => req[t] \in Request
    /\ pc[t] \in {"idle", "lock", "check", "init", "relock"} => cur[t] = 1

IInv == TypeOK /\ Pending /\ CursorValid /\ UniqueNames

-----------------------------------------------------------------------------
(* Facts about the data.                                                   *)

\* A request carries the fields its operation reads, each of its type.
LEMMA RequestFields ==
  ASSUME NEW r \in Request
  PROVE  /\ r.user \in User
         /\ r.op = "CONNECT" => r.addr \in Addr
         /\ r.op = "PUBLISH" => r.file \in File /\ r.desc \in Desc
         /\ r.op = "DELETE" => r.file \in File
BY DEF Request

\* Unlinking the k-th node of a list shifts the later ones down by one.
LEMMA RemoveShifts ==
  ASSUME NEW S, NEW s \in Seq(S), NEW k \in 1 .. Len(s)
  PROVE  /\ Remove(s, k) \in Seq(S)
         /\ Len(Remove(s, k)) = Len(s) - 1
         /\ \A i \in 1 .. Len(s) - 1 :
              Remove(s, k)[i] = IF i < k THEN s[i] ELSE s[i + 1]
<1>. DEFINE a == SubSeq(s, 1, k - 1)
            b == SubSeq(s, k + 1, Len(s))
<1>0. Len(s) \in Nat /\ \A i \in 1 .. Len(s) : s[i] \in S
  BY LenProperties
<1>1. /\ a \in Seq(S) /\ Len(a) = k - 1
      /\ \A i \in 1 .. k - 1 : a[i] = s[i]
  BY <1>0, SubSeqProperties
<1>2. /\ b \in Seq(S) /\ Len(b) = Len(s) - k
      /\ \A i \in 1 .. Len(s) - k : b[i] = s[i + k]
  BY <1>0, SubSeqProperties
<1>3. /\ a \o b \in Seq(S) /\ Len(a \o b) = Len(s) - 1
      /\ \A i \in 1 .. Len(s) - 1 : (a \o b)[i] = IF i < k THEN s[i] ELSE s[i + 1]
  <2>1. /\ a \o b \in Seq(S) /\ Len(a \o b) = Len(a) + Len(b)
        /\ \A i \in 1 .. Len(a) + Len(b) :
             (a \o b)[i] = IF i <= Len(a) THEN a[i] ELSE b[i - Len(a)]
    <3>. HIDE DEF a, b
    <3>. QED BY <1>1, <1>2, ConcatProperties, Zenon
  <2>. HIDE DEF a, b
  <2>. QED BY <1>0, <1>1, <1>2, <2>1
<1>. QED BY <1>3 DEF Remove

\* Pushing a node at the head shifts the others up by one.
LEMMA PushShifts ==
  ASSUME NEW S, NEW s \in Seq(S), NEW e \in S
  PROVE  /\ <<e>> \o s \in Seq(S)
         /\ Len(<<e>> \o s) = Len(s) + 1
         /\ (<<e>> \o s)[1] = e
         /\ \A i \in 2 .. Len(s) + 1 : (<<e>> \o s)[i] = s[i - 1]
OBVIOUS

\* Writing one node of the list keeps the others.
LEMMA WriteNode ==
  ASSUME NEW s \in Seq(UserNode), NEW k \in 1 .. Len(s), NEW n \in UserNode
  PROVE  /\ [s EXCEPT ![k] = n] \in Seq(UserNode)
         /\ Len([s EXCEPT ![k] = n]) = Len(s)
         /\ \A i \in 1 .. Len(s) : [s EXCEPT ![k] = n][i] = IF i = k THEN n ELSE s[i]
BY ExceptSeq, LenProperties

\* The answers threads leave with are answers.
LEMMA AnswerTypes ==
  ASSUME NEW code \in -1 .. 4, NEW out \in (SUBSET UserEntry) \cup (SUBSET FileEntry)
  PROVE  [code |-> code, out |-> out] \in Answer
BY DEF Answer

\* What every exit of an operation does to the variables other than the list.
LEMMA LeaveTypes ==
  ASSUME TypeOK, NEW t \in Thread, NEW code \in -1 .. 4,
         NEW out \in (SUBSET UserEntry) \cup (SUBSET FileEntry),
         Leave(t, code, out)
  PROVE  /\ mutex' \in Thread \cup {Nil}
         /\ inited' \in BOOLEAN
         /\ pc' \in [Thread -> PcSet]
         /\ req' \in [Thread -> Request \cup {Nil}]
         /\ cur' \in [Thread -> Nat]
         /\ ans' \in [Thread -> Answer \cup {Nil}]
BY AnswerTypes DEF TypeOK, Leave, Goto, PcSet

\* So a refusal, which leaves the list alone, keeps every type.
LEMMA RefuseTypes ==
  ASSUME TypeOK, NEW t \in Thread, NEW code \in -1 .. 4, Refuse(t, code)
  PROVE  TypeOK'
BY LeaveTypes DEF Refuse, TypeOK

\* The listings threads leave with are listings.
LEMMA UsersListed ==
  ASSUME TypeOK
  PROVE  {[name |-> messages[k].name, addr |-> messages[k].addr] :
            k \in {i \in 1 .. Len(messages) : Online(messages[i])}} \in SUBSET UserEntry
<1>. DEFINE connected == {k \in 1 .. Len(messages) : Online(messages[k])}
<1>1. \A k \in connected : messages[k] \in UserNode /\ messages[k].addr # Nil
  BY LenProperties DEF TypeOK, Online
<1>. QED BY <1>1 DEF UserNode, UserEntry

\* So is the listing of one user's files.
LEMMA FilesListed ==
  ASSUME TypeOK, NEW k \in 1 .. Len(messages)
  PROVE  {messages[k].files[i] : i \in 1 .. Len(messages[k].files)} \in SUBSET FileEntry
<1>1. messages[k] \in UserNode
  BY LenProperties DEF TypeOK
<1>2. messages[k].files \in Seq(FileEntry)
  BY <1>1 DEF UserNode, FileNode, FileEntry
<1>. QED BY <1>2, LenProperties

-----------------------------------------------------------------------------
(* Type correctness.                                                       *)

\* Every step keeps every type; a cursor that is valid is what lets the
\* operations write the node they found.
LEMMA TypeInductive ==
  ASSUME TypeOK, Pending, CursorValid, NEW t \in Thread,
         Work(t) \/ Return(t) \/ \E r \in Request : Call(t, r)
  PROVE  TypeOK'
<1>1. CASE \E r \in Request : Call(t, r)
  BY <1>1 DEF TypeOK, Call, Goto, PcSet, lock
<1>2. CASE Return(t)
  BY <1>2 DEF TypeOK, Return, Goto, PcSet, lock
<1>3. CASE Work(t)
  <2>. DEFINE u == req[t].user
  <2>0. req[t] \in Request /\ u \in User
    BY <1>3, RequestFields DEF Work, Pending
  <2>n. pc[t] = "found" => /\ cur[t] \in 1 .. Len(messages)
                           /\ Node(t) \in UserNode
    BY DEF CursorValid, TypeOK, Node
  <2>1. CASE Lock(t)
    BY <2>1 DEF TypeOK, Lock, Goto, PcSet
  <2>2. CASE CheckInited(t)
    BY <2>2 DEF TypeOK, CheckInited, Goto, PcSet
  <2>3. CASE InitList(t)
    BY <2>3, EmptySeq DEF TypeOK, InitList, Goto, PcSet
  <2>4. CASE Relock(t)
    BY <2>4 DEF TypeOK, Relock, Goto, PcSet
  <2>5. CASE Walk(t, u)
    <3>1. pc' \in [Thread -> PcSet]
      BY <2>5 DEF TypeOK, Walk, Goto, PcSet
    <3>2. cur' \in [Thread -> Nat]
      BY <2>5 DEF TypeOK, Walk
    <3>. QED BY <2>5, <3>1, <3>2 DEF TypeOK, Walk, lock
  <2>6. CASE RegisterUser(t, u)
    <3>. DEFINE n == [name |-> u, addr |-> Nil, files |-> << >>]
    <3>1. n \in UserNode
      BY <2>0 DEF UserNode
    <3>2. CASE messages' = <<n>> \o messages /\ Leave(t, 0, {})
      BY <3>1, <3>2, PushShifts, LeaveTypes DEF TypeOK
    <3>. QED BY <2>6, <3>2, RefuseTypes DEF RegisterUser
  <2>7. CASE UnregisterUser(t)
    <3>1. CASE pc[t] = "found" /\ messages' = Remove(messages, cur[t]) /\ Leave(t, 0, {})
      BY <3>1, <2>n, RemoveShifts, LeaveTypes DEF TypeOK
    <3>. QED BY <2>7, <3>1, RefuseTypes DEF UnregisterUser
  <2>8. CASE ConnectUser(t)
    <3>1. ASSUME pc[t] = "found", Leave(t, 0, {}),
                 messages' = [messages EXCEPT ![cur[t]].addr = req[t].addr]
          PROVE  TypeOK'
      <4>1. req[t].addr \in Addr
        BY <2>0, <2>8, RequestFields DEF ConnectUser
      <4>2. [Node(t) EXCEPT !.addr = req[t].addr] \in UserNode
        BY <3>1, <2>n, <4>1 DEF UserNode
      <4>3. messages' \in Seq(UserNode)
        BY <3>1, <2>n, <4>2, WriteNode DEF TypeOK, Node
      <4>. QED BY <3>1, <4>3, LeaveTypes DEF TypeOK
    <3>. QED BY <2>8, <3>1, RefuseTypes DEF ConnectUser
  <2>9. CASE DisconnectUser(t)
    <3>1. ASSUME pc[t] = "found", Leave(t, 0, {}),
                 messages' = [messages EXCEPT ![cur[t]].addr = Nil]
          PROVE  TypeOK'
      <4>1. [Node(t) EXCEPT !.addr = Nil] \in UserNode
        BY <3>1, <2>n DEF UserNode
      <4>2. messages' \in Seq(UserNode)
        BY <3>1, <2>n, <4>1, WriteNode DEF TypeOK, Node
      <4>. QED BY <3>1, <4>2, LeaveTypes DEF TypeOK
    <3>. QED BY <2>9, <3>1, RefuseTypes DEF DisconnectUser
  <2>10. CASE RegisterFile(t)
    <3>. DEFINE f == [name |-> req[t].file, desc |-> req[t].desc]
    <3>1. ASSUME pc[t] = "found", Leave(t, 0, {}),
                 messages' = [messages EXCEPT ![cur[t]].files = <<f>> \o @]
          PROVE  TypeOK'
      <4>1. f \in FileNode /\ Node(t).files \in Seq(FileNode)
        BY <2>0, <2>10, <2>n, <3>1, RequestFields DEF RegisterFile, FileNode, UserNode
      <4>2. <<f>> \o Node(t).files \in Seq(FileNode)
        BY <4>1, PushShifts
      <4>3. [Node(t) EXCEPT !.files = <<f>> \o @] \in UserNode
        BY <3>1, <2>n, <4>2 DEF UserNode
      <4>4. messages' \in Seq(UserNode)
        BY <3>1, <2>n, <4>3, WriteNode DEF TypeOK, Node
      <4>. QED BY <3>1, <4>4, LeaveTypes DEF TypeOK
    <3>. QED BY <2>10, <3>1, RefuseTypes DEF RegisterFile
  <2>11. CASE UnregisterFile(t)
    <3>1. ASSUME pc[t] = "found", Leave(t, 0, {}),
                 NEW k \in 1 .. Len(Node(t).files),
                 messages' = [messages EXCEPT ![cur[t]].files = Remove(@, k)]
          PROVE  TypeOK'
      <4>1. Remove(Node(t).files, k) \in Seq(FileNode)
        BY <2>n, <3>1, RemoveShifts DEF UserNode
      <4>2. [Node(t) EXCEPT !.files = Remove(@, k)] \in UserNode
        BY <3>1, <2>n, <4>1 DEF UserNode
      <4>3. messages' \in Seq(UserNode)
        BY <3>1, <2>n, <4>2, WriteNode DEF TypeOK, Node
      <4>. QED BY <3>1, <4>3, LeaveTypes DEF TypeOK
    <3>. HIDE DEF u
    <3>2. CASE \E c \in {1, 2, 3} : Refuse(t, c)
      BY <3>2, RefuseTypes
    <3>3. CASE ~ \E c \in {1, 2, 3} : Refuse(t, c)
      <4>1. PICK k \in 1 .. Len(Node(t).files) :
              messages' = [messages EXCEPT ![cur[t]].files = Remove(@, k)]
        BY <2>11, <3>3, Zenon DEF UnregisterFile
      <4>2. pc[t] = "found" /\ Leave(t, 0, {})
        BY <2>11, <3>3, Zenon DEF UnregisterFile
      <4>. QED BY <3>1, <4>1, <4>2
    <3>. QED BY <3>2, <3>3
  <2>12. CASE ListUsers(t)
    <3>. DEFINE out == {[name |-> messages[k].name, addr |-> messages[k].addr] :
                          k \in {i \in 1 .. Len(messages) : Online(messages[i])}}
    <3>1. out \in SUBSET UserEntry
      BY UsersListed
    <3>2. CASE Leave(t, 0, out) /\ UNCHANGED messages
      BY <3>1, <3>2, LeaveTypes DEF TypeOK
    <3>. QED BY <2>12, <3>2, RefuseTypes DEF ListUsers
  <2>13. CASE ListContent(t)
    <3>1. ASSUME NEW k \in 1 .. Len(messages), UNCHANGED messages,
                 Leave(t, 0, {messages[k].files[i] : i \in 1 .. Len(messages[k].files)})
          PROVE  TypeOK'
      <4>. DEFINE out == {messages[k].files[i] : i \in 1 .. Len(messages[k].files)}
      <4>1. out \in SUBSET FileEntry
        BY FilesListed
      <4>2. Leave(t, 0, out)
        BY <3>1
      <4>3. UNCHANGED messages
        BY <3>1
      <4>. HIDE DEF out
      <4>. QED BY <4>1, <4>2, <4>3, LeaveTypes DEF TypeOK
    <3>2. CASE \E c \in {1, 2, 3} : Refuse(t, c)
      BY <3>2, RefuseTypes
    <3>3. CASE ~ \E c \in {1, 2, 3} : Refuse(t, c)
      BY <2>13, <3>1, <3>3, Zenon DEF ListContent
    <3>. QED BY <3>2, <3>3
  <2>. QED BY <1>3, <2>1, <2>2, <2>3, <2>4, <2>5, <2>6, <2>7, <2>8, <2>9, <2>10,
             <2>11, <2>12, <2>13 DEF Work, Step, Apply
<1>. QED BY <1>1, <1>2, <1>3

-----------------------------------------------------------------------------
(* Mutual exclusion and the walk.                                          *)

\* Every operation ends its work inside the section and leaves by Leave.
LEMMA ApplyLeaves ==
  ASSUME NEW t \in Thread, NEW u, Apply(t, u)
  PROVE  /\ pc[t] \in {"found", "absent"}
         /\ \E code, out : Leave(t, code, out)
<1>1. CASE \E code : Refuse(t, code) /\ pc[t] \in {"found", "absent"}
  BY <1>1 DEF Refuse
<1>2. CASE RegisterUser(t, u)
  BY <1>1, <1>2, Zenon DEF RegisterUser
<1>3. CASE UnregisterUser(t)
  BY <1>1, <1>3, Zenon DEF UnregisterUser
<1>4. CASE ConnectUser(t)
  BY <1>1, <1>4, Zenon DEF ConnectUser
<1>5. CASE DisconnectUser(t)
  BY <1>1, <1>5, Zenon DEF DisconnectUser
<1>6. CASE RegisterFile(t)
  BY <1>1, <1>6, Zenon DEF RegisterFile
<1>7. CASE UnregisterFile(t)
  BY <1>1, <1>7, Zenon DEF UnregisterFile
<1>8. CASE ListUsers(t)
  BY <1>1, <1>8, Zenon DEF ListUsers
<1>9. CASE ListContent(t)
  BY <1>1, <1>9, Zenon DEF ListContent
<1>. QED BY <1>2, <1>3, <1>4, <1>5, <1>6, <1>7, <1>8, <1>9 DEF Apply

\* Whatever a thread did to the list, nobody else was looking at it: when it
\* leaves, no thread is in the section.
LEMMA LeaveKeepsCursors ==
  ASSUME TypeOK, Pending, CursorValid, NEW t \in Thread,
         pc[t] \in {"found", "absent"}, NEW code, NEW out, Leave(t, code, out)
  PROVE  Pending' /\ CursorValid'
<1>1. \A s \in Thread \ {t} : ~InSection(s) /\ pc'[s] = pc[s] /\ req'[s] = req[s] /\ cur'[s] = cur[s]
  BY DEF CursorValid, InSection, Leave, Goto, TypeOK
<1>2. pc'[t] = "return" /\ mutex' = Nil
  BY DEF Leave, Goto, TypeOK
<1>. QED BY <1>1, <1>2, NilAssumption DEF Pending, CursorValid, InSection, Working

\* Every step keeps the cursors valid and the requests pending.
LEMMA CursorInductive ==
  ASSUME TypeOK, Pending, CursorValid, NEW t \in Thread,
         Work(t) \/ Return(t) \/ \E r \in Request : Call(t, r)
  PROVE  Pending' /\ CursorValid'
<1>. USE NilAssumption
<1>0. Len(messages) \in Nat
  BY LenProperties DEF TypeOK
<1>1. CASE \E r \in Request : Call(t, r)
  BY <1>0, <1>1 DEF TypeOK, Pending, CursorValid, InSection, Working, Call, Goto, lock, Node
<1>2. CASE Return(t)
  BY <1>0, <1>2 DEF TypeOK, Pending, CursorValid, InSection, Working, Return, Goto, lock, Node
<1>3. CASE Lock(t)
  BY <1>0, <1>3 DEF TypeOK, Pending, CursorValid, InSection, Working, Lock, Goto, Node
<1>4. CASE CheckInited(t)
  BY <1>0, <1>4 DEF TypeOK, Pending, CursorValid, InSection, Working, CheckInited, Goto, Node
<1>5. CASE InitList(t)
  BY <1>0, <1>5 DEF TypeOK, Pending, CursorValid, InSection, Working, InitList, Goto, Node
<1>6. CASE Relock(t)
  BY <1>0, <1>6 DEF TypeOK, Pending, CursorValid, InSection, Working, Relock, Goto, Node
<1>7. CASE Walk(t, req[t].user)
  BY <1>0, <1>7 DEF TypeOK, Pending, CursorValid, InSection, Working, Walk, Goto, lock, Node
<1>8. CASE Apply(t, req[t].user)
  BY <1>8, ApplyLeaves, LeaveKeepsCursors
<1>. QED BY <1>1, <1>2, <1>3, <1>4, <1>5, <1>6, <1>7, <1>8 DEF Work, Step

-----------------------------------------------------------------------------
(* Uniqueness of names.                                                    *)

\* Pushing a node under a name no node has keeps the names distinct.
LEMMA PushDistinct ==
  ASSUME NEW S, NEW s \in Seq(S), NEW e \in S, Distinct(s),
         \A i \in 1 .. Len(s) : s[i].name # e.name
  PROVE  Distinct(<<e>> \o s)
<1>1. \A i \in 1 .. Len(s) + 1 : (<<e>> \o s)[i] = IF i = 1 THEN e ELSE s[i - 1]
  BY PushShifts, LenProperties
<1>2. Len(<<e>> \o s) = Len(s) + 1 /\ Len(s) \in Nat
  BY PushShifts, LenProperties
<1>. DEFINE p == <<e>> \o s
<1>. HIDE DEF p
<1>3. ASSUME NEW i \in 1 .. Len(s) + 1, NEW j \in 1 .. Len(s) + 1, p[i].name = p[j].name
      PROVE  i = j
  BY <1>1, <1>2, <1>3 DEF p, Distinct
<1>. QED BY <1>2, <1>3 DEF p, Distinct

\* Unlinking a node keeps the names distinct.
LEMMA RemoveDistinct ==
  ASSUME NEW S, NEW s \in Seq(S), NEW k \in 1 .. Len(s), Distinct(s)
  PROVE  Distinct(Remove(s, k))
<1>1. /\ Len(Remove(s, k)) = Len(s) - 1
      /\ \A i \in 1 .. Len(s) - 1 : Remove(s, k)[i] = IF i < k THEN s[i] ELSE s[i + 1]
      /\ Len(s) \in Nat
  BY RemoveShifts, LenProperties
<1>. QED BY <1>1 DEF Distinct

\* Rewriting a node under its own name keeps the names distinct, and the files
\* of every user distinct when the new files are.
LEMMA WriteUnique ==
  ASSUME TypeOK, UniqueNames, NEW k \in 1 .. Len(messages), NEW n \in UserNode,
         n.name = messages[k].name, Distinct(n.files),
         messages' = [messages EXCEPT ![k] = n]
  PROVE  UniqueNames'
<1>1. /\ Len(messages') = Len(messages)
      /\ \A i \in 1 .. Len(messages) : messages'[i] = IF i = k THEN n ELSE messages[i]
  BY WriteNode DEF TypeOK
<1>2. \A i \in 1 .. Len(messages) : messages'[i].name = messages[i].name
  BY <1>1
<1>3. Distinct(messages')
  BY <1>1, <1>2 DEF UniqueNames, Distinct
<1>4. \A i \in 1 .. Len(messages') : Distinct(messages'[i].files)
  BY <1>1 DEF UniqueNames
<1>. QED BY <1>3, <1>4 DEF UniqueNames

\* Every step keeps the names unique: a node is pushed only after a walk that
\* ended without finding its name.
LEMMA UniqueInductive ==
  ASSUME IInv, NEW t \in Thread,
         Work(t) \/ Return(t) \/ \E r \in Request : Call(t, r)
  PROVE  UniqueNames'
<1>. USE DEF IInv
<1>. DEFINE u == req[t].user
<1>0. CASE UNCHANGED messages
  BY <1>0 DEF UniqueNames, Distinct
<1>1. ASSUME Work(t), messages' # messages PROVE UniqueNames'
  <2>0. req[t] \in Request /\ u \in User
    BY <1>1, RequestFields DEF Work, Pending
  <2>n. pc[t] = "found" => /\ cur[t] \in 1 .. Len(messages)
                           /\ Node(t) \in UserNode
                           /\ Distinct(Node(t).files)
    BY DEF CursorValid, TypeOK, Node, UniqueNames
  <2>1. CASE InitList(t)
    BY <1>1, <2>1 DEF InitList, UniqueNames, Distinct
  <2>2. CASE RegisterUser(t, u)
    <3>. DEFINE n == [name |-> u, addr |-> Nil, files |-> << >>]
    <3>1. pc[t] = "absent" /\ messages' = <<n>> \o messages
      BY <1>1, <2>2 DEF RegisterUser, Refuse
    <3>2. \A i \in 1 .. Len(messages) : messages[i].name # n.name
      BY <3>1, LenProperties DEF CursorValid, TypeOK
    <3>3. n \in UserNode /\ Distinct(n.files)
      BY <2>0 DEF UserNode, Distinct
    <3>. HIDE DEF n
    <3>4. Distinct(messages')
      BY <3>1, <3>2, <3>3, PushDistinct DEF TypeOK, UniqueNames
    <3>5. /\ Len(messages') = Len(messages) + 1 /\ Len(messages) \in Nat
          /\ messages'[1] = n
          /\ \A i \in 2 .. Len(messages) + 1 : messages'[i] = messages[i - 1]
      BY <3>1, <3>3, PushShifts, LenProperties DEF TypeOK
    <3>6. \A i \in 1 .. Len(messages') : Distinct(messages'[i].files)
      BY <3>3, <3>5 DEF UniqueNames
    <3>. QED BY <3>4, <3>6 DEF UniqueNames
  <2>3. CASE UnregisterUser(t)
    <3>1. pc[t] = "found" /\ messages' = Remove(messages, cur[t])
      BY <1>1, <2>3 DEF UnregisterUser, Refuse
    <3>2. Distinct(messages')
      BY <2>n, <3>1, RemoveDistinct DEF TypeOK, UniqueNames
    <3>3. /\ Len(messages') = Len(messages) - 1 /\ Len(messages) \in Nat
          /\ \A i \in 1 .. Len(messages) - 1 :
               messages'[i] = IF i < cur[t] THEN messages[i] ELSE messages[i + 1]
      BY <2>n, <3>1, RemoveShifts, LenProperties DEF TypeOK
    <3>4. \A i \in 1 .. Len(messages') : Distinct(messages'[i].files)
      BY <3>3 DEF UniqueNames
    <3>. QED BY <3>2, <3>4 DEF UniqueNames
  <2>4. CASE ConnectUser(t)
    <3>1. /\ pc[t] = "found" /\ req[t].addr \in Addr
          /\ messages' = [messages EXCEPT ![cur[t]] = [Node(t) EXCEPT !.addr = req[t].addr]]
      BY <1>1, <2>0, <2>4, RequestFields DEF ConnectUser, Refuse, Node
    <3>2. /\ [Node(t) EXCEPT !.addr = req[t].addr] \in UserNode
          /\ [Node(t) EXCEPT !.addr = req[t].addr].name = Node(t).name
          /\ [Node(t) EXCEPT !.addr = req[t].addr].files = Node(t).files
      BY <2>n, <3>1 DEF UserNode
    <3>. QED BY <2>n, <3>1, <3>2, WriteUnique DEF Node
  <2>5. CASE DisconnectUser(t)
    <3>1. /\ pc[t] = "found"
          /\ messages' = [messages EXCEPT ![cur[t]] = [Node(t) EXCEPT !.addr = Nil]]
      BY <1>1, <2>5 DEF DisconnectUser, Refuse, Node
    <3>2. /\ [Node(t) EXCEPT !.addr = Nil] \in UserNode
          /\ [Node(t) EXCEPT !.addr = Nil].name = Node(t).name
          /\ [Node(t) EXCEPT !.addr = Nil].files = Node(t).files
      BY <2>n, <3>1 DEF UserNode
    <3>. QED BY <2>n, <3>1, <3>2, WriteUnique DEF Node
  <2>6. CASE RegisterFile(t)
    <3>. DEFINE f == [name |-> req[t].file, desc |-> req[t].desc]
                n == [Node(t) EXCEPT !.files = <<f>> \o @]
    <3>1. /\ pc[t] = "found" /\ ~Publishes(Node(t), req[t].file)
          /\ messages' = [messages EXCEPT ![cur[t]] = n]
      BY <1>1, <2>6 DEF RegisterFile, Refuse, Node
    <3>2. f \in FileNode /\ Node(t).files \in Seq(FileNode)
      BY <2>0, <2>6, <2>n, <3>1, RequestFields DEF RegisterFile, FileNode, UserNode
    <3>3. <<f>> \o Node(t).files \in Seq(FileNode)
      BY <3>2, PushShifts
    <3>4. Distinct(<<f>> \o Node(t).files)
      BY <2>n, <3>1, <3>2, PushDistinct DEF Publishes
    <3>5. n \in UserNode /\ n.name = Node(t).name /\ n.files = <<f>> \o Node(t).files
      BY <2>n, <3>1, <3>3 DEF UserNode
    <3>. HIDE DEF f, n
    <3>. QED BY <2>n, <3>1, <3>4, <3>5, WriteUnique DEF Node
  <2>7. CASE UnregisterFile(t)
    <3>1. PICK k \in 1 .. Len(Node(t).files) :
            /\ pc[t] = "found"
            /\ messages' = [messages EXCEPT ![cur[t]].files = Remove(@, k)]
      BY <1>1, <2>7, Zenon DEF UnregisterFile, Refuse
    <3>. DEFINE n == [Node(t) EXCEPT !.files = Remove(@, k)]
    <3>2. messages' = [messages EXCEPT ![cur[t]] = n]
      BY <3>1 DEF Node
    <3>3. Node(t).files \in Seq(FileNode)
      BY <2>n, <3>1 DEF UserNode
    <3>4. Distinct(Remove(Node(t).files, k)) /\ Remove(Node(t).files, k) \in Seq(FileNode)
      BY <2>n, <3>1, <3>3, RemoveDistinct, RemoveShifts
    <3>5. n \in UserNode /\ n.name = Node(t).name /\ n.files = Remove(Node(t).files, k)
      BY <2>n, <3>1, <3>4 DEF UserNode
    <3>. HIDE DEF n
    <3>. QED BY <2>n, <3>1, <3>2, <3>4, <3>5, WriteUnique DEF Node
  <2>8. CASE ListUsers(t) \/ ListContent(t)
    <3>1. UNCHANGED messages
      BY <2>8, Zenon DEF ListUsers, ListContent, Refuse
    <3>. QED BY <1>1, <3>1
  <2>9. CASE Lock(t) \/ CheckInited(t) \/ Relock(t) \/ Walk(t, u)
    BY <1>1, <2>9 DEF Lock, CheckInited, Relock, Walk
  <2>. QED BY <1>1, <2>1, <2>2, <2>3, <2>4, <2>5, <2>6, <2>7, <2>8, <2>9
             DEF Work, Step, Apply
<1>2. CASE Return(t) \/ \E r \in Request : Call(t, r)
  BY <1>0, <1>2 DEF Return, Call
<1>. QED BY <1>0, <1>1, <1>2

-----------------------------------------------------------------------------
(* The theorems.                                                           *)

\* The conjunction is an inductive invariant.
LEMMA Inductive == Spec => []IInv
<1>1. Init => IInv
  <2>. SUFFICES ASSUME Init PROVE IInv
    OBVIOUS
  <2>1. TypeOK
    BY EmptySeq DEF Init, ThreadsInit, TypeOK, PcSet
  <2>2. Pending
    BY DEF Init, ThreadsInit, Pending, Working
  <2>3. CursorValid
    BY NilAssumption DEF Init, ThreadsInit, CursorValid, InSection
  <2>4. UniqueNames
    BY DEF Init, ThreadsInit, UniqueNames, Distinct
  <2>. QED BY <2>1, <2>2, <2>3, <2>4 DEF IInv
<1>2. IInv /\ [Next]_vars => IInv'
  <2>1. CASE Next
    BY <2>1, TypeInductive, CursorInductive, UniqueInductive DEF IInv, Next
  <2>2. CASE UNCHANGED vars
    BY <2>2 DEF vars, lock, IInv, TypeOK, Pending, Working, CursorValid, InSection, Node,
                UniqueNames, Distinct
  <2>. QED BY <2>1, <2>2
<1>. QED BY <1>1, <1>2, PTL DEF Spec

\* Every variable of list.c keeps its type, for every number of threads.
THEOREM TypeCorrect == Spec => []TypeOK
BY Inductive, PTL DEF IInv

\* Mutual exclusion and a stable walk: no two threads are ever inside list.c's
\* sections, and the node a thread found is still the one it looked for when it
\* acts on it, however the unlock / init_list / relock windows interleave.
THEOREM WalkIsStable == Spec => []CursorValid
BY Inductive, PTL DEF IInv

\* register_user never admits a name twice and register_file_from_user never
\* publishes one twice, for any number of threads, users and files.
THEOREM NamesStayUnique == Spec => []UniqueNames
BY Inductive, PTL DEF IInv

-----------------------------------------------------------------------------
(* The registry that a list stands for.                                    *)

\* The names in a list of nodes, and the maps that list.c's lists stand for.
Names(s) == {s[i].name : i \in 1 .. Len(s)}
FileMap(s) == [f \in Names(s) |-> s[CHOOSE i \in 1 .. Len(s) : s[i].name = f].desc]
View(n) == [addr |-> n.addr, files |-> FileMap(n.files)]
UserMap(s) == [u \in Names(s) |-> View(s[CHOOSE i \in 1 .. Len(s) : s[i].name = u])]

\* The refinement mapping in these terms, before and after a step.
LEMMA DbIsUserMap == Db = UserMap(messages) /\ Db' = UserMap(messages')
BY DEF Db, UserMap, View, FileMap, Names

\* In a list without duplicates the map has every node's value at its name.
LEMMA FileMapAt ==
  ASSUME NEW s, Distinct(s), NEW k \in 1 .. Len(s)
  PROVE  FileMap(s)[s[k].name] = s[k].desc
<1>. DEFINE c == CHOOSE i \in 1 .. Len(s) : s[i].name = s[k].name
<1>1. c \in 1 .. Len(s) /\ s[c].name = s[k].name
  OBVIOUS
<1>2. c = k
  <2>. HIDE DEF c
  <2>. QED BY <1>1 DEF Distinct
<1>. QED BY <1>2 DEF FileMap, Names

\* The same of the users.
LEMMA UserMapAt ==
  ASSUME NEW s, Distinct(s), NEW k \in 1 .. Len(s)
  PROVE  UserMap(s)[s[k].name] = View(s[k])
<1>. DEFINE c == CHOOSE i \in 1 .. Len(s) : s[i].name = s[k].name
<1>1. c \in 1 .. Len(s) /\ s[c].name = s[k].name
  OBVIOUS
<1>2. c = k
  <2>. HIDE DEF c
  <2>. QED BY <1>1 DEF Distinct
<1>. QED BY <1>2 DEF UserMap, Names

\* Such a map is the only one: f is the map of s when it has its domain and values.
LEMMA FileMapOnly ==
  ASSUME NEW s, Distinct(s), NEW f, f = [x \in DOMAIN f |-> f[x]], DOMAIN f = Names(s),
         \A k \in 1 .. Len(s) : f[s[k].name] = s[k].desc
  PROVE  FileMap(s) = f
<1>1. ASSUME NEW x \in Names(s) PROVE FileMap(s)[x] = f[x]
  <2>1. PICK k \in 1 .. Len(s) : x = s[k].name
    BY DEF Names
  <2>. QED BY <2>1, FileMapAt
<1>2. FileMap(s) = [x \in Names(s) |-> FileMap(s)[x]]
  BY DEF FileMap
<1>. QED BY <1>1, <1>2

\* The same of the users.
LEMMA UserMapOnly ==
  ASSUME NEW s, Distinct(s), NEW f, f = [x \in DOMAIN f |-> f[x]], DOMAIN f = Names(s),
         \A k \in 1 .. Len(s) : f[s[k].name] = View(s[k])
  PROVE  UserMap(s) = f
<1>1. ASSUME NEW x \in Names(s) PROVE UserMap(s)[x] = f[x]
  <2>1. PICK k \in 1 .. Len(s) : x = s[k].name
    BY DEF Names
  <2>. QED BY <2>1, UserMapAt
<1>2. UserMap(s) = [x \in Names(s) |-> UserMap(s)[x]]
  BY DEF UserMap
<1>. QED BY <1>1, <1>2

\* What pushing, unlinking and rewriting a node do to the names.
LEMMA PushNames ==
  ASSUME NEW S, NEW s \in Seq(S), NEW e \in S
  PROVE  Names(<<e>> \o s) = Names(s) \cup {e.name}
<1>1. /\ Len(<<e>> \o s) = Len(s) + 1 /\ Len(s) \in Nat
      /\ \A i \in 1 .. Len(s) + 1 : (<<e>> \o s)[i] = IF i = 1 THEN e ELSE s[i - 1]
  BY PushShifts, LenProperties
<1>. DEFINE p == <<e>> \o s
<1>2. \A i \in 1 .. Len(s) : i + 1 \in 1 .. Len(p) /\ p[i + 1] = s[i]
  BY <1>1
<1>3. 1 \in 1 .. Len(p) /\ p[1] = e
  BY <1>1
<1>4. \A i \in 1 .. Len(p) : p[i] = e \/ (i - 1 \in 1 .. Len(s) /\ p[i] = s[i - 1])
  BY <1>1
<1>. HIDE DEF p
<1>5. Names(p) = Names(s) \cup {e.name}
  BY <1>2, <1>3, <1>4, SMTT(30) DEF Names
<1>. QED BY <1>5 DEF p

\* Unlinking leaves no node that was not in the list.
LEMMA RemoveSelects ==
  ASSUME NEW S, NEW s \in Seq(S), NEW k \in 1 .. Len(s), NEW j \in 1 .. Len(Remove(s, k))
  PROVE  \E i \in 1 .. Len(s) : Remove(s, k)[j] = s[i]
<1>. DEFINE r == Remove(s, k)
<1>1. /\ Len(r) = Len(s) - 1 /\ Len(s) \in Nat
      /\ \A i \in 1 .. Len(s) - 1 : r[i] = IF i < k THEN s[i] ELSE s[i + 1]
  BY RemoveShifts, LenProperties
<1>2. j \in 1 .. Len(r)
  OBVIOUS
<1>. HIDE DEF r
<1>3. \/ r[j] = s[j] /\ j \in 1 .. Len(s)
      \/ r[j] = s[j + 1] /\ j + 1 \in 1 .. Len(s)
  BY <1>1, <1>2
<1>4. \E i \in 1 .. Len(s) : r[j] = s[i]
  BY <1>3
<1>. QED BY <1>4 DEF r

\* Unlinking a node takes its name, and no other, out of the names.
LEMMA RemoveNames ==
  ASSUME NEW S, NEW s \in Seq(S), NEW k \in 1 .. Len(s), Distinct(s)
  PROVE  Names(Remove(s, k)) = Names(s) \ {s[k].name}
<1>. DEFINE r == Remove(s, k)
<1>1. /\ Len(r) = Len(s) - 1 /\ Len(s) \in Nat
      /\ \A i \in 1 .. Len(s) - 1 : r[i] = IF i < k THEN s[i] ELSE s[i + 1]
  BY RemoveShifts, LenProperties
<1>. HIDE DEF r
<1>2. \A i \in 1 .. Len(s) : i # k => s[i].name # s[k].name
  BY DEF Distinct
<1>3. ASSUME NEW i \in 1 .. Len(r) PROVE r[i].name \in Names(s) \ {s[k].name}
  <2>1. CASE i < k
    BY <1>1, <1>2, <2>1 DEF Names
  <2>2. CASE i >= k
    <3>1. i + 1 \in 1 .. Len(s) /\ i + 1 # k /\ r[i] = s[i + 1]
      BY <1>1, <2>2, SMTT(30)
    <3>. QED BY <1>2, <3>1 DEF Names
  <2>. QED BY <1>1, <2>1, <2>2
<1>4. ASSUME NEW i \in 1 .. Len(s), i # k PROVE s[i].name \in Names(r)
  <2>1. CASE i < k
    BY <1>1, <2>1 DEF Names
  <2>2. CASE i > k
    <3>1. i - 1 \in 1 .. Len(r) /\ r[i - 1] = s[i]
      BY <1>1, <2>2
    <3>. QED BY <3>1 DEF Names
  <2>. QED BY <1>1, <1>4, <2>1, <2>2
<1>5. Names(r) = Names(s) \ {s[k].name}
  BY <1>3, <1>4 DEF Names
<1>. QED BY <1>5 DEF r

\* Pushing a file adds its name and description to the map.
LEMMA FileMapPush ==
  ASSUME NEW S, NEW s \in Seq(S), NEW e \in S, Distinct(s),
         \A i \in 1 .. Len(s) : s[i].name # e.name
  PROVE  FileMap(<<e>> \o s) = Abstract!With(FileMap(s), e.name, e.desc)
<1>. DEFINE p == <<e>> \o s
            f == Abstract!With(FileMap(s), e.name, e.desc)
<1>1. Distinct(p) /\ Names(p) = Names(s) \cup {e.name}
  BY PushDistinct, PushNames
<1>2. DOMAIN FileMap(s) = Names(s)
  BY DEF FileMap
<1>3. f = [x \in DOMAIN f |-> f[x]] /\ DOMAIN f = Names(s) \cup {e.name}
  BY <1>2 DEF Abstract!With
<1>4. ASSUME NEW k \in 1 .. Len(p) PROVE f[p[k].name] = p[k].desc
  <2>1. p[k] = e \/ \E i \in 1 .. Len(s) : p[k] = s[i]
    BY PushShifts, LenProperties
  <2>2. CASE p[k] = e
    BY <2>2 DEF Abstract!With
  <2>3. ASSUME NEW i \in 1 .. Len(s), p[k] = s[i] PROVE f[p[k].name] = p[k].desc
    BY <1>2, <2>3, FileMapAt DEF Abstract!With, Names
  <2>. QED BY <2>1, <2>2, <2>3
<1>. HIDE DEF p, f
<1>5. FileMap(p) = f
  BY <1>1, <1>3, <1>4, FileMapOnly
<1>. QED BY <1>5 DEF p, f

\* Unlinking a file takes it out of the map.
LEMMA FileMapRemove ==
  ASSUME NEW S, NEW s \in Seq(S), NEW k \in 1 .. Len(s), Distinct(s)
  PROVE  FileMap(Remove(s, k)) = Abstract!Without(FileMap(s), s[k].name)
<1>. DEFINE r == Remove(s, k)
            f == Abstract!Without(FileMap(s), s[k].name)
<1>1. Distinct(r) /\ Names(r) = Names(s) \ {s[k].name}
  BY RemoveDistinct, RemoveNames
<1>2. DOMAIN FileMap(s) = Names(s)
  BY DEF FileMap
<1>3. f = [x \in DOMAIN f |-> f[x]] /\ DOMAIN f = Names(s) \ {s[k].name}
  BY <1>2 DEF Abstract!Without
<1>4. ASSUME NEW j \in 1 .. Len(r) PROVE f[r[j].name] = r[j].desc
  <2>2. PICK i \in 1 .. Len(s) : r[j] = s[i]
    BY RemoveSelects
  <2>3. r[j].name \in Names(r)
    BY DEF Names
  <2>4. FileMap(s)[s[i].name] = s[i].desc
    BY FileMapAt
  <2>. HIDE DEF r
  <2>. QED BY <1>1, <1>2, <2>2, <2>3, <2>4 DEF Abstract!Without
<1>. HIDE DEF r, f
<1>5. FileMap(r) = f
  BY <1>1, <1>3, <1>4, FileMapOnly
<1>. QED BY <1>5 DEF r, f

\* The same two facts of the users, and what rewriting a node does.
LEMMA UserMapPush ==
  ASSUME NEW S, NEW s \in Seq(S), NEW e \in S, Distinct(s),
         \A i \in 1 .. Len(s) : s[i].name # e.name
  PROVE  UserMap(<<e>> \o s) = Abstract!With(UserMap(s), e.name, View(e))
<1>. DEFINE p == <<e>> \o s
            f == Abstract!With(UserMap(s), e.name, View(e))
<1>1. Distinct(p) /\ Names(p) = Names(s) \cup {e.name}
  BY PushDistinct, PushNames
<1>2. DOMAIN UserMap(s) = Names(s)
  BY DEF UserMap
<1>3. f = [x \in DOMAIN f |-> f[x]] /\ DOMAIN f = Names(s) \cup {e.name}
  BY <1>2 DEF Abstract!With
<1>4. ASSUME NEW k \in 1 .. Len(p) PROVE f[p[k].name] = View(p[k])
  <2>1. p[k] = e \/ \E i \in 1 .. Len(s) : p[k] = s[i]
    BY PushShifts, LenProperties
  <2>2. CASE p[k] = e
    BY <2>2 DEF Abstract!With
  <2>3. ASSUME NEW i \in 1 .. Len(s), p[k] = s[i] PROVE f[p[k].name] = View(p[k])
    BY <1>2, <2>3, UserMapAt DEF Abstract!With, Names
  <2>. QED BY <2>1, <2>2, <2>3
<1>. HIDE DEF p, f
<1>5. UserMap(p) = f
  BY <1>1, <1>3, <1>4, UserMapOnly
<1>. QED BY <1>5 DEF p, f

\* Unlinking a node takes its user out of the map.
LEMMA UserMapRemove ==
  ASSUME NEW S, NEW s \in Seq(S), NEW k \in 1 .. Len(s), Distinct(s)
  PROVE  UserMap(Remove(s, k)) = Abstract!Without(UserMap(s), s[k].name)
<1>. DEFINE r == Remove(s, k)
            f == Abstract!Without(UserMap(s), s[k].name)
<1>1. Distinct(r) /\ Names(r) = Names(s) \ {s[k].name}
  BY RemoveDistinct, RemoveNames
<1>2. DOMAIN UserMap(s) = Names(s)
  BY DEF UserMap
<1>3. f = [x \in DOMAIN f |-> f[x]] /\ DOMAIN f = Names(s) \ {s[k].name}
  BY <1>2 DEF Abstract!Without
<1>4. ASSUME NEW j \in 1 .. Len(r) PROVE f[r[j].name] = View(r[j])
  <2>2. PICK i \in 1 .. Len(s) : r[j] = s[i]
    BY RemoveSelects
  <2>3. r[j].name \in Names(r)
    BY DEF Names
  <2>4. UserMap(s)[s[i].name] = View(s[i])
    BY UserMapAt
  <2>. HIDE DEF r
  <2>. QED BY <1>1, <1>2, <2>2, <2>3, <2>4 DEF Abstract!Without
<1>. HIDE DEF r, f
<1>5. UserMap(r) = f
  BY <1>1, <1>3, <1>4, UserMapOnly
<1>. QED BY <1>5 DEF r, f

\* Rewriting a node under its own name changes the map at that name alone.
LEMMA UserMapWrite ==
  ASSUME NEW s \in Seq(UserNode), NEW k \in 1 .. Len(s), NEW n \in UserNode,
         Distinct(s), n.name = s[k].name
  PROVE  UserMap([s EXCEPT ![k] = n]) = [UserMap(s) EXCEPT ![n.name] = View(n)]
<1>. DEFINE w == [s EXCEPT ![k] = n]
            f == [UserMap(s) EXCEPT ![n.name] = View(n)]
<1>1. Len(w) = Len(s) /\ \A i \in 1 .. Len(s) : w[i] = IF i = k THEN n ELSE s[i]
  BY WriteNode
<1>2. DOMAIN UserMap(s) = Names(s)
  BY DEF UserMap
<1>. HIDE DEF w
<1>3. \A i \in 1 .. Len(s) : w[i].name = s[i].name
  BY <1>1
<1>4. Distinct(w) /\ Names(w) = Names(s)
  BY <1>1, <1>3 DEF Distinct, Names
<1>5. f = [x \in DOMAIN f |-> f[x]] /\ DOMAIN f = Names(s)
  <2>1. f = [x \in DOMAIN UserMap(s) |-> IF x = n.name THEN View(n) ELSE UserMap(s)[x]]
    OBVIOUS
  <2>. QED BY <1>2, <2>1
<1>6. ASSUME NEW i \in 1 .. Len(w) PROVE f[w[i].name] = View(w[i])
  <2>1. w[i].name \in Names(s)
    BY <1>4 DEF Names
  <2>2. CASE i = k
    BY <1>1, <1>2, <2>1, <2>2
  <2>3. CASE i # k
    <3>1. s[i].name # n.name
      BY <1>1, <2>3 DEF Distinct
    <3>2. UserMap(s)[s[i].name] = View(s[i])
      BY <1>1, UserMapAt
    <3>. QED BY <1>1, <1>2, <2>1, <2>3, <3>1, <3>2
  <2>. QED BY <2>2, <2>3
<1>. HIDE DEF f
<1>7. UserMap(w) = f
  BY <1>4, <1>5, <1>6, UserMapOnly
<1>. QED BY <1>7 DEF w, f

-----------------------------------------------------------------------------
(* list.c implements the registry.                                         *)

(* Two facts the refinement needs: an answer is there from the end of the   *)
(* work to the return, and the list is empty until it is initialised, so    *)
(* that init_list takes nothing away.                                       *)
Outstanding ==
  \A t \in Thread : /\ pc[t] = "idle" => req[t] = Nil
                    /\ ans[t] # Nil <=> pc[t] = "return"
Initialised ==
  /\ ~inited => messages = << >>
  /\ \A t \in Thread :
       /\ pc[t] = "relock" => inited
       /\ pc[t] \in {"walk", "found", "absent"} =>
            inited \/ req[t].op \in {"LIST_USERS", "LIST_CONTENT"}

RInv == IInv /\ Outstanding /\ Initialised

\* Every operation leaves with an answer of its type.
LEMMA ApplyAnswers ==
  ASSUME TypeOK, NEW t \in Thread, NEW u, Apply(t, u)
  PROVE  ans'[t] # Nil /\ pc'[t] = "return"
<1>. DEFINE Out == (SUBSET UserEntry) \cup (SUBSET FileEntry)
<1>0. {} \in Out
  OBVIOUS
<1>1. ASSUME NEW c \in -1 .. 4, NEW o \in Out, Leave(t, c, o)
      PROVE  ans'[t] # Nil /\ pc'[t] = "return"
  BY <1>1, AnswerTypes, AnswerAssumption DEF Leave, Goto, TypeOK
<1>. HIDE DEF Out
<1>2. ASSUME NEW c \in -1 .. 4, Refuse(t, c)
      PROVE  ans'[t] # Nil /\ pc'[t] = "return"
  BY <1>0, <1>1, <1>2 DEF Refuse
<1>3. CASE Leave(t, 0, {})
  BY <1>0, <1>1, <1>3
<1>4. CASE \E c \in {-1, 1, 2, 3, 4} : Refuse(t, c)
  BY <1>2, <1>4
<1>5. CASE RegisterUser(t, u)
  BY <1>3, <1>4, <1>5 DEF RegisterUser
<1>6. CASE UnregisterUser(t) \/ ConnectUser(t) \/ DisconnectUser(t)
  BY <1>3, <1>4, <1>6 DEF UnregisterUser, ConnectUser, DisconnectUser
<1>7. CASE RegisterFile(t)
  BY <1>3, <1>4, <1>7 DEF RegisterFile
<1>8. CASE UnregisterFile(t)
  BY <1>3, <1>4, <1>8, Zenon DEF UnregisterFile
<1>9. CASE ListUsers(t)
  <2>. DEFINE o == {[name |-> messages[k].name, addr |-> messages[k].addr] :
                      k \in {i \in 1 .. Len(messages) : Online(messages[i])}}
  <2>1. o \in Out
    BY UsersListed DEF Out
  <2>2. Leave(t, 0, o) \/ \E c \in {1, 2} : Refuse(t, c)
    BY <1>9, Zenon DEF ListUsers
  <2>. HIDE DEF o
  <2>. QED BY <1>1, <1>4, <2>1, <2>2
<1>10. CASE ListContent(t)
  <2>1. ASSUME NEW k \in 1 .. Len(messages),
               Leave(t, 0, {messages[k].files[i] : i \in 1 .. Len(messages[k].files)})
        PROVE  ans'[t] # Nil /\ pc'[t] = "return"
    <3>. DEFINE o == {messages[k].files[i] : i \in 1 .. Len(messages[k].files)}
    <3>1. o \in Out
      BY FilesListed DEF Out
    <3>2. Leave(t, 0, o)
      BY <2>1
    <3>. HIDE DEF o
    <3>. QED BY <1>1, <3>1, <3>2
  <2>. QED BY <1>4, <1>10, <2>1, Zenon DEF ListContent
<1>. QED BY <1>5, <1>6, <1>7, <1>8, <1>9, <1>10 DEF Apply

\* Every step keeps the answers where they belong.
LEMMA OutstandingInductive ==
  ASSUME TypeOK, Pending, Outstanding, NEW t \in Thread,
         Work(t) \/ Return(t) \/ \E r \in Request : Call(t, r)
  PROVE  Outstanding'
<1>1. CASE Return(t) \/ \E r \in Request : Call(t, r)
  BY <1>1 DEF TypeOK, Outstanding, Return, Call, Goto
<1>2. CASE Working(t) /\ Apply(t, req[t].user)
  <2>1. ans'[t] # Nil /\ pc'[t] = "return"
    BY <1>2, ApplyAnswers
  <2>2. PICK code, out : Leave(t, code, out)
    BY <1>2, ApplyLeaves
  <2>. QED BY <2>1, <2>2 DEF TypeOK, Outstanding, Leave, Goto
<1>3. CASE Working(t) /\ (Lock(t) \/ CheckInited(t) \/ InitList(t) \/ Relock(t) \/ Walk(t, req[t].user))
  BY <1>3 DEF TypeOK, Outstanding, Working, Lock, CheckInited, InitList, Relock, Walk, Goto
<1>. QED BY <1>1, <1>2, <1>3 DEF Work, Step

\* A thread that acts on the list comes after its initialisation.
LEMMA InitialisedInductive ==
  ASSUME TypeOK, Pending, CursorValid, Initialised, NEW t \in Thread,
         Work(t) \/ Return(t) \/ \E r \in Request : Call(t, r)
  PROVE  Initialised'
<1>. DEFINE L == {"LIST_USERS", "LIST_CONTENT"}
<1>1. CASE Return(t) \/ \E r \in Request : Call(t, r)
  BY <1>1 DEF TypeOK, Initialised, Return, Call, Goto, lock
<1>2. CASE Apply(t, req[t].user)
  <2>1. pc[t] \in {"found", "absent"}
    BY <1>2, ApplyLeaves
  <2>2. PICK code, out : Leave(t, code, out)
    BY <1>2, ApplyLeaves
  <2>3. inited' = inited /\ req' = req /\ \A s \in Thread : pc'[s] = pc[s] \/ pc'[s] = "return"
    BY <2>2 DEF Leave, Goto, TypeOK
  <2>4. ~inited => req[t].op \in L
    BY <2>1 DEF Initialised
  <2>5. req[t].op \in L => messages' = messages
    <3>1. req[t].op \in L => ListUsers(t) \/ ListContent(t)
      BY <1>2 DEF Apply, RegisterUser, UnregisterUser, ConnectUser, DisconnectUser,
                  RegisterFile, UnregisterFile
    <3>. QED BY <3>1, Zenon DEF ListUsers, ListContent, Refuse
  <2>6. ~inited' => messages' = << >>
    BY <2>3, <2>4, <2>5 DEF Initialised
  <2>. QED BY <2>3, <2>6 DEF Initialised
<1>3. CASE InitList(t)
  BY <1>3 DEF TypeOK, Initialised, InitList, Goto
<1>4. CASE Lock(t) \/ CheckInited(t) \/ Relock(t) \/ Walk(t, req[t].user)
  BY <1>4 DEF TypeOK, Initialised, Lock, CheckInited, Relock, Walk, Goto, lock
<1>. QED BY <1>1, <1>2, <1>3, <1>4 DEF Work, Step

\* The refinement's facts hold in every reachable state.
LEMMA RInductive == Spec => []RInv
<1>1. Init => Outstanding /\ Initialised
  BY DEF Init, ThreadsInit, Outstanding, Initialised
<1>2. IInv /\ Outstanding /\ Initialised /\ [Next]_vars => (Outstanding /\ Initialised)'
  <2>1. CASE Next
    BY <2>1, OutstandingInductive, InitialisedInductive DEF Next, IInv
  <2>2. CASE UNCHANGED vars
    BY <2>2 DEF vars, lock, Outstanding, Initialised
  <2>. QED BY <2>1, <2>2
<1>. QED BY <1>1, <1>2, Inductive, PTL DEF Spec, RInv

\* What a thread found is what the registry has under the name.
LEMMA FoundIsKnown ==
  ASSUME RInv, NEW t \in Thread, pc[t] = "found"
  PROVE  /\ cur[t] \in 1 .. Len(messages) /\ Node(t) \in UserNode
         /\ Node(t).name = req[t].user
         /\ Distinct(messages) /\ Distinct(Node(t).files)
         /\ Abstract!Known(req[t].user)
         /\ Db[req[t].user] = View(Node(t))
         /\ Abstract!Online(req[t].user) <=> Online(Node(t))
         /\ \A f : f \in DOMAIN Db[req[t].user].files <=> Publishes(Node(t), f)
<1>. DEFINE n == Node(t)
            u == req[t].user
<1>1. cur[t] \in 1 .. Len(messages) /\ n.name = u
  BY DEF RInv, IInv, CursorValid
<1>2. n \in UserNode /\ Distinct(messages) /\ Distinct(n.files)
  BY <1>1, LenProperties DEF RInv, IInv, TypeOK, UniqueNames, Node
<1>3. u \in Names(messages)
  BY <1>1 DEF Names, Node
<1>4. UserMap(messages)[u] = View(n)
  BY <1>1, <1>2, UserMapAt DEF Node
<1>5. DOMAIN UserMap(messages) = Names(messages)
  BY DEF UserMap
<1>6. u \in DOMAIN Db /\ Db[u] = View(n)
  BY <1>3, <1>4, <1>5, DbIsUserMap
<1>7. View(n).addr = n.addr /\ DOMAIN View(n).files = Names(n.files)
  BY DEF View, FileMap
<1>8. Abstract!Known(u) /\ (Abstract!Online(u) <=> Online(n))
  BY <1>6, <1>7 DEF Abstract!Known, Abstract!Online, Online
<1>9. \A f : f \in Names(n.files) <=> Publishes(n, f)
  BY DEF Names, Publishes
<1>. HIDE DEF n, u
<1>10. \A f : f \in DOMAIN Db[u].files <=> Publishes(n, f)
  BY <1>6, <1>7, <1>9
<1>. QED BY <1>1, <1>2, <1>6, <1>8, <1>10 DEF n, u

\* What it did not find is not in the registry.
LEMMA AbsentIsUnknown ==
  ASSUME RInv, NEW t \in Thread, pc[t] = "absent"
  PROVE  /\ ~Abstract!Known(req[t].user)
         /\ \A i \in 1 .. Len(messages) : messages[i].name # req[t].user
<1>1. Len(messages) \in Nat
  BY LenProperties DEF RInv, IInv, TypeOK
<1>2. \A i \in 1 .. Len(messages) : messages[i].name # req[t].user
  BY <1>1 DEF RInv, IInv, CursorValid
<1>3. DOMAIN Db = Names(messages)
  BY DbIsUserMap DEF UserMap
<1>. QED BY <1>2, <1>3 DEF Abstract!Known, Names

\* Leaving list.c answers the call; a refusal answers it and changes nothing.
LEMMA LeaveAnswers ==
  ASSUME NEW t, NEW code, NEW out, Leave(t, code, out)
  PROVE  Abstract!Answered(t, code, out) /\ UNCHANGED req
BY DEF Leave, Abstract!Answered

\* A refusal in list.c is one in the registry.
LEMMA RefuseRefused ==
  ASSUME NEW t, NEW code, Refuse(t, code)
  PROVE  Abstract!Refused(t, code) /\ UNCHANGED req
<1>1. Leave(t, code, {}) /\ messages' = messages
  BY DEF Refuse
<1>2. Db' = Db
  BY <1>1, DbIsUserMap
<1>. QED BY <1>1, <1>2, LeaveAnswers DEF Abstract!Refused

\* Each operation does to the registry what the registry's own one does.
LEMMA RegisterDoes ==
  ASSUME RInv, NEW t \in Thread, req[t] \in Request, RegisterUser(t, req[t].user)
  PROVE  Abstract!Register(t, req[t].user)
<1>. DEFINE u == req[t].user
            n == [name |-> u, addr |-> Nil, files |-> << >>]
<1>1. CASE pc[t] = "found" /\ Refuse(t, 1)
  BY <1>1, FoundIsKnown, RefuseRefused DEF Abstract!Register
<1>2. CASE pc[t] = "absent" /\ Refuse(t, -1)
  BY <1>2, AbsentIsUnknown, RefuseRefused DEF Abstract!Register
<1>3. CASE pc[t] = "absent" /\ messages' = <<n>> \o messages /\ Leave(t, 0, {})
  <2>1. n \in UserNode /\ messages \in Seq(UserNode) /\ Distinct(messages)
    BY RequestFields DEF UserNode, RInv, IInv, TypeOK, UniqueNames
  <2>2. View(n) = [addr |-> Nil, files |-> << >>]
    <3>1. FileMap(<< >>) = << >>
      BY DEF FileMap, Names
    <3>. QED BY <3>1 DEF View
  <2>3. \A i \in 1 .. Len(messages) : messages[i].name # n.name
    BY <1>3, AbsentIsUnknown
  <2>4. UserMap(messages') = Abstract!With(UserMap(messages), u, [addr |-> Nil, files |-> << >>])
    <3>1. n.name = u
      OBVIOUS
    <3>. HIDE DEF n
    <3>. QED BY <1>3, <2>1, <2>2, <2>3, <3>1, UserMapPush
  <2>5. Db' = Abstract!With(Db, u, [addr |-> Nil, files |-> << >>])
    BY <2>4, DbIsUserMap
  <2>6. ~Abstract!Known(u) /\ Abstract!Answered(t, 0, {})
    BY <1>3, AbsentIsUnknown, LeaveAnswers
  <2>. QED BY <2>5, <2>6 DEF Abstract!Register
<1>. QED BY <1>1, <1>2, <1>3 DEF RegisterUser

\* UNREGISTER takes the user out of the registry, or refuses as it does.
LEMMA UnregisterDoes ==
  ASSUME RInv, NEW t \in Thread, UnregisterUser(t)
  PROVE  Abstract!Unregister(t, req[t].user)
<1>1. CASE pc[t] = "absent" /\ Refuse(t, 1)
  BY <1>1, AbsentIsUnknown, RefuseRefused DEF Abstract!Unregister
<1>2. CASE pc[t] = "found" /\ messages' = Remove(messages, cur[t]) /\ Leave(t, 0, {})
  <2>1. Db' = Abstract!Without(Db, req[t].user)
    BY <1>2, FoundIsKnown, UserMapRemove, DbIsUserMap DEF Node, RInv, IInv, TypeOK
  <2>. QED BY <1>2, <2>1, FoundIsKnown, LeaveAnswers DEF Abstract!Unregister
<1>. QED BY <1>1, <1>2 DEF UnregisterUser

\* Rewriting the node a thread found, under its name.
LEMMA WriteDoes ==
  ASSUME RInv, NEW t \in Thread, pc[t] = "found", NEW n \in UserNode, n.name = req[t].user,
         messages' = [messages EXCEPT ![cur[t]] = n]
  PROVE  Db' = [Db EXCEPT ![req[t].user] = View(n)]
<1>1. /\ cur[t] \in 1 .. Len(messages) /\ messages[cur[t]].name = n.name
      /\ messages \in Seq(UserNode) /\ Distinct(messages)
  BY FoundIsKnown DEF Node, RInv, IInv, TypeOK
<1>2. UserMap(messages') = [UserMap(messages) EXCEPT ![n.name] = View(n)]
  BY <1>1, UserMapWrite
<1>. QED BY <1>2, DbIsUserMap

\* CONNECT gives the user an address, or refuses as the registry does.
LEMMA ConnectDoes ==
  ASSUME RInv, NEW t \in Thread, req[t] \in Request, ConnectUser(t)
  PROVE  Abstract!Connect(t, req[t].user, req[t].addr)
<1>. DEFINE u == req[t].user
            n == [Node(t) EXCEPT !.addr = req[t].addr]
<1>1. CASE pc[t] = "absent" /\ Refuse(t, 1)
  BY <1>1, AbsentIsUnknown, RefuseRefused DEF Abstract!Connect
<1>2. CASE pc[t] = "found" /\ Online(Node(t)) /\ Refuse(t, 2)
  BY <1>2, FoundIsKnown, RefuseRefused DEF Abstract!Connect
<1>3. CASE pc[t] = "found" /\ ~Online(Node(t)) /\ Refuse(t, 3)
  BY <1>3, FoundIsKnown, RefuseRefused DEF Abstract!Connect
<1>4. CASE /\ pc[t] = "found" /\ ~Online(Node(t)) /\ Leave(t, 0, {})
           /\ messages' = [messages EXCEPT ![cur[t]].addr = req[t].addr]
  <2>1. Node(t) \in UserNode /\ Node(t).name = u /\ req[t].addr \in Addr
    BY <1>4, FoundIsKnown, RequestFields DEF ConnectUser
  <2>2. n \in UserNode /\ n.name = u /\ View(n) = [View(Node(t)) EXCEPT !.addr = req[t].addr]
    BY <2>1 DEF UserNode, View
  <2>3. messages' = [messages EXCEPT ![cur[t]] = n]
    BY <1>4 DEF Node
  <2>. HIDE DEF n
  <2>4. Db' = [Db EXCEPT ![u] = View(n)]
    BY <1>4, <2>2, <2>3, WriteDoes
  <2>5. Db' = [Db EXCEPT ![u].addr = req[t].addr]
    BY <1>4, <2>2, <2>4, FoundIsKnown
  <2>. QED BY <1>4, <2>5, FoundIsKnown, LeaveAnswers DEF Abstract!Connect
<1>. QED BY <1>1, <1>2, <1>3, <1>4 DEF ConnectUser

\* DISCONNECT takes the address away, or refuses as the registry does.
LEMMA DisconnectDoes ==
  ASSUME RInv, NEW t \in Thread, DisconnectUser(t)
  PROVE  Abstract!Disconnect(t, req[t].user)
<1>. DEFINE u == req[t].user
            n == [Node(t) EXCEPT !.addr = Nil]
<1>1. CASE pc[t] = "absent" /\ Refuse(t, 1)
  BY <1>1, AbsentIsUnknown, RefuseRefused DEF Abstract!Disconnect, Abstract!OnlineOnly
<1>2. CASE pc[t] = "found" /\ ~Online(Node(t)) /\ Refuse(t, 2)
  BY <1>2, FoundIsKnown, RefuseRefused DEF Abstract!Disconnect, Abstract!OnlineOnly
<1>3. CASE /\ pc[t] = "found" /\ Online(Node(t)) /\ Leave(t, 0, {})
           /\ messages' = [messages EXCEPT ![cur[t]].addr = Nil]
  <2>1. Node(t) \in UserNode /\ Node(t).name = u
    BY <1>3, FoundIsKnown
  <2>2. n \in UserNode /\ n.name = u /\ View(n) = [View(Node(t)) EXCEPT !.addr = Nil]
    BY <2>1 DEF UserNode, View
  <2>3. messages' = [messages EXCEPT ![cur[t]] = n]
    BY <1>3 DEF Node
  <2>. HIDE DEF n
  <2>4. Db' = [Db EXCEPT ![u] = View(n)]
    BY <1>3, <2>2, <2>3, WriteDoes
  <2>5. Db' = [Db EXCEPT ![u].addr = Nil]
    BY <1>3, <2>2, <2>4, FoundIsKnown
  <2>. QED BY <1>3, <2>5, FoundIsKnown, LeaveAnswers DEF Abstract!Disconnect
<1>. QED BY <1>1, <1>2, <1>3 DEF DisconnectUser

\* Rewriting the files of the node a thread found.
LEMMA WriteFilesDoes ==
  ASSUME RInv, NEW t \in Thread, pc[t] = "found", NEW fs \in Seq(FileNode),
         messages' = [messages EXCEPT ![cur[t]].files = fs]
  PROVE  Db' = [Db EXCEPT ![req[t].user].files = FileMap(fs)]
<1>. DEFINE u == req[t].user
            n == [Node(t) EXCEPT !.files = fs]
<1>1. Node(t) \in UserNode /\ Node(t).name = u
  BY FoundIsKnown
<1>2. n \in UserNode /\ n.name = u /\ View(n) = [View(Node(t)) EXCEPT !.files = FileMap(fs)]
  BY <1>1 DEF UserNode, View
<1>3. messages' = [messages EXCEPT ![cur[t]] = n]
  BY DEF Node
<1>. HIDE DEF n
<1>4. Db' = [Db EXCEPT ![u] = View(n)]
  BY <1>2, <1>3, WriteDoes
<1>. QED BY <1>2, <1>4, FoundIsKnown

\* PUBLISH adds the file, or refuses as the registry does.
LEMMA PublishDoes ==
  ASSUME RInv, NEW t \in Thread, req[t] \in Request, RegisterFile(t)
  PROVE  Abstract!Publish(t, req[t].user, req[t].file, req[t].desc)
<1>. DEFINE u == req[t].user
            f == [name |-> req[t].file, desc |-> req[t].desc]
<1>1. CASE pc[t] = "absent" /\ Refuse(t, 1)
  BY <1>1, AbsentIsUnknown, RefuseRefused DEF Abstract!Publish, Abstract!OnlineOnly
<1>2. CASE pc[t] = "found" /\ ~Online(Node(t)) /\ Refuse(t, 2)
  BY <1>2, FoundIsKnown, RefuseRefused DEF Abstract!Publish, Abstract!OnlineOnly
<1>3. CASE pc[t] = "found" /\ Online(Node(t)) /\ Publishes(Node(t), req[t].file) /\ Refuse(t, 3)
  BY <1>3, FoundIsKnown, RefuseRefused DEF Abstract!Publish
<1>4. CASE pc[t] = "found" /\ Online(Node(t)) /\ ~Publishes(Node(t), req[t].file) /\ Refuse(t, 4)
  BY <1>4, FoundIsKnown, RefuseRefused DEF Abstract!Publish
<1>5. CASE /\ pc[t] = "found" /\ Online(Node(t)) /\ ~Publishes(Node(t), req[t].file)
           /\ messages' = [messages EXCEPT ![cur[t]].files = <<f>> \o @]
           /\ Leave(t, 0, {})
  <2>. DEFINE old == Node(t).files
  <2>1. f \in FileNode /\ old \in Seq(FileNode) /\ Distinct(old)
    BY <1>5, FoundIsKnown, RequestFields DEF RegisterFile, FileNode, UserNode
  <2>2. <<f>> \o old \in Seq(FileNode)
    BY <2>1, PushShifts
  <2>3. \A i \in 1 .. Len(old) : old[i].name # f.name
    BY <1>5 DEF Publishes
  <2>4. FileMap(<<f>> \o old) = Abstract!With(FileMap(old), req[t].file, req[t].desc)
    <3>1. f.name = req[t].file /\ f.desc = req[t].desc
      OBVIOUS
    <3>. HIDE DEF f, old
    <3>. QED BY <2>1, <2>3, <3>1, FileMapPush
  <2>5. messages' = [messages EXCEPT ![cur[t]].files = <<f>> \o old]
    BY <1>5 DEF Node
  <2>6. Db' = [Db EXCEPT ![u].files = FileMap(<<f>> \o old)]
    <3>. HIDE DEF f, old, u
    <3>. QED BY <1>5, <2>2, <2>5, WriteFilesDoes DEF u
  <2>7. FileMap(old) = Db[u].files
    <3>1. Db[u] = View(Node(t))
      BY <1>5, FoundIsKnown
    <3>. QED BY <3>1 DEF View
  <2>8. Db' = [Db EXCEPT ![u].files = Abstract!With(@, req[t].file, req[t].desc)]
    BY <2>4, <2>6, <2>7
  <2>. QED BY <1>5, <2>8, FoundIsKnown, LeaveAnswers DEF Abstract!Publish
<1>. QED BY <1>1, <1>2, <1>3, <1>4, <1>5 DEF RegisterFile

\* DELETE takes the file away, or refuses as the registry does.
LEMMA DeleteDoes ==
  ASSUME RInv, NEW t \in Thread, UnregisterFile(t)
  PROVE  Abstract!Delete(t, req[t].user, req[t].file)
<1>. DEFINE u == req[t].user
            old == Node(t).files
<1>1. CASE pc[t] = "absent" /\ Refuse(t, 1)
  BY <1>1, AbsentIsUnknown, RefuseRefused DEF Abstract!Delete, Abstract!OnlineOnly
<1>2. CASE pc[t] = "found" /\ ~Online(Node(t)) /\ Refuse(t, 2)
  BY <1>2, FoundIsKnown, RefuseRefused DEF Abstract!Delete, Abstract!OnlineOnly
<1>3. CASE pc[t] = "found" /\ Online(Node(t)) /\ ~Publishes(Node(t), req[t].file) /\ Refuse(t, 3)
  BY <1>3, FoundIsKnown, RefuseRefused DEF Abstract!Delete
<1>4. ASSUME pc[t] = "found", Online(Node(t)), NEW k \in 1 .. Len(old),
             old[k].name = req[t].file, Leave(t, 0, {}),
             messages' = [messages EXCEPT ![cur[t]].files = Remove(@, k)]
      PROVE  Abstract!Delete(t, u, req[t].file)
  <2>1. old \in Seq(FileNode) /\ Distinct(old)
    BY <1>4, FoundIsKnown DEF UserNode
  <2>2. Remove(old, k) \in Seq(FileNode) /\ FileMap(Remove(old, k)) = Abstract!Without(FileMap(old), req[t].file)
    BY <1>4, <2>1, RemoveShifts, FileMapRemove
  <2>3. messages' = [messages EXCEPT ![cur[t]].files = Remove(old, k)]
    BY <1>4 DEF Node
  <2>4. Db' = [Db EXCEPT ![u].files = FileMap(Remove(old, k))]
    <3>. HIDE DEF old, u
    <3>. QED BY <1>4, <2>2, <2>3, WriteFilesDoes DEF u
  <2>5. FileMap(old) = Db[u].files
    <3>1. Db[u] = View(Node(t))
      BY <1>4, FoundIsKnown
    <3>. QED BY <3>1 DEF View
  <2>6. Db' = [Db EXCEPT ![u].files = Abstract!Without(@, req[t].file)]
    BY <2>2, <2>4, <2>5
  <2>7. Publishes(Node(t), req[t].file)
    BY <1>4 DEF Publishes
  <2>. QED BY <1>4, <2>6, <2>7, FoundIsKnown, LeaveAnswers DEF Abstract!Delete
<1>. QED BY <1>1, <1>2, <1>3, <1>4, Zenon DEF UnregisterFile

\* LIST_USERS answers with the connected users, or refuses as the registry does.
LEMMA ListUsersDoes ==
  ASSUME RInv, NEW t \in Thread, ListUsers(t)
  PROVE  Abstract!ListUsers(t, req[t].user)
<1>1. CASE pc[t] = "absent" /\ Refuse(t, 1)
  BY <1>1, AbsentIsUnknown, RefuseRefused DEF Abstract!ListUsers, Abstract!OnlineOnly
<1>2. CASE pc[t] = "found" /\ ~Online(Node(t)) /\ Refuse(t, 2)
  BY <1>2, FoundIsKnown, RefuseRefused DEF Abstract!ListUsers, Abstract!OnlineOnly
<1>3. ASSUME pc[t] = "found", Online(Node(t)), UNCHANGED messages,
             Leave(t, 0, {[name |-> messages[k].name, addr |-> messages[k].addr] :
                            k \in {i \in 1 .. Len(messages) : Online(messages[i])}})
      PROVE  Abstract!ListUsers(t, req[t].user)
  <2>. DEFINE here == {[name |-> messages[k].name, addr |-> messages[k].addr] :
                         k \in {i \in 1 .. Len(messages) : Online(messages[i])}}
              there == {[name |-> v, addr |-> Db[v].addr] :
                          v \in {w \in DOMAIN Db : Abstract!Online(w)}}
  <2>1. DOMAIN Db = Names(messages)
    BY DbIsUserMap DEF UserMap
  <2>2. ASSUME NEW k \in 1 .. Len(messages)
        PROVE  /\ messages[k].name \in DOMAIN Db
               /\ Db[messages[k].name].addr = messages[k].addr
    <3>1. UserMap(messages)[messages[k].name] = View(messages[k])
      BY UserMapAt DEF RInv, IInv, UniqueNames
    <3>. QED BY <2>1, <3>1, DbIsUserMap DEF View, Names
  <2>3. \A k \in 1 .. Len(messages) : Online(messages[k]) <=> Abstract!Online(messages[k].name)
    BY <2>2 DEF Online, Abstract!Online, Abstract!Known
  <2>4. \A v \in DOMAIN Db : \E k \in 1 .. Len(messages) : v = messages[k].name
    BY <2>1 DEF Names
  <2>5. here \subseteq there
    BY <2>2, <2>3
  <2>6. there \subseteq here
    <3>1. ASSUME NEW v \in DOMAIN Db, Abstract!Online(v)
          PROVE  [name |-> v, addr |-> Db[v].addr] \in here
      <4>1. PICK k \in 1 .. Len(messages) : v = messages[k].name
        BY <2>4
      <4>2. Online(messages[k]) /\ Db[v].addr = messages[k].addr
        BY <2>2, <2>3, <3>1, <4>1
      <4>. QED BY <4>1, <4>2
    <3>. QED BY <3>1
  <2>7. here = there
    BY <2>5, <2>6
  <2>8. Abstract!Answered(t, 0, there) /\ UNCHANGED Db
    BY <1>3, <2>7, LeaveAnswers, DbIsUserMap
  <2>. QED BY <1>3, <2>8, FoundIsKnown DEF Abstract!ListUsers
<1>. QED BY <1>1, <1>2, <1>3, Zenon DEF ListUsers

\* LIST_CONTENT answers with the other user's files, or refuses as the registry does.
LEMMA ListContentDoes ==
  ASSUME RInv, NEW t \in Thread, ListContent(t)
  PROVE  Abstract!ListContent(t, req[t].user, req[t].other)
<1>. DEFINE v == req[t].other
<1>0. DOMAIN Db = Names(messages)
  BY DbIsUserMap DEF UserMap
<1>1. CASE pc[t] = "absent" /\ Refuse(t, 1)
  BY <1>1, AbsentIsUnknown, RefuseRefused DEF Abstract!ListContent, Abstract!OnlineOnly
<1>2. CASE pc[t] = "found" /\ ~Online(Node(t)) /\ Refuse(t, 2)
  BY <1>2, FoundIsKnown, RefuseRefused DEF Abstract!ListContent, Abstract!OnlineOnly
<1>3. CASE /\ pc[t] = "found" /\ Online(Node(t)) /\ Refuse(t, 3)
           /\ \A k \in 1 .. Len(messages) : messages[k].name # v
  <2>1. ~Abstract!Known(v)
    BY <1>0, <1>3 DEF Abstract!Known, Names
  <2>. QED BY <1>3, <2>1, FoundIsKnown, RefuseRefused DEF Abstract!ListContent
<1>4. ASSUME pc[t] = "found", Online(Node(t)), UNCHANGED messages,
             NEW k \in 1 .. Len(messages), messages[k].name = v,
             Leave(t, 0, {messages[k].files[i] : i \in 1 .. Len(messages[k].files)})
      PROVE  Abstract!ListContent(t, req[t].user, v)
  <2>. DEFINE fs == messages[k].files
              here == {fs[i] : i \in 1 .. Len(fs)}
              there == {[name |-> f, desc |-> Db[v].files[f]] : f \in DOMAIN Db[v].files}
  <2>1. /\ Distinct(fs) /\ Distinct(messages)
        /\ \A i \in 1 .. Len(fs) : fs[i] = [name |-> fs[i].name, desc |-> fs[i].desc]
    <3>1. messages[k] \in UserNode
      BY LenProperties DEF RInv, IInv, TypeOK
    <3>2. fs \in Seq(FileNode)
      BY <3>1 DEF UserNode
    <3>3. \A i \in 1 .. Len(fs) : fs[i] \in FileNode
      BY <3>2, LenProperties
    <3>. QED BY <3>3 DEF FileNode, RInv, IInv, UniqueNames
  <2>2. v \in DOMAIN Db /\ Db[v].files = FileMap(fs)
    <3>1. UserMap(messages)[v] = View(messages[k])
      BY <1>4, <2>1, UserMapAt
    <3>. QED BY <1>0, <1>4, <3>1, DbIsUserMap DEF View, Names
  <2>3. DOMAIN FileMap(fs) = Names(fs) /\ \A i \in 1 .. Len(fs) : FileMap(fs)[fs[i].name] = fs[i].desc
    <3>1. DOMAIN FileMap(fs) = Names(fs)
      BY DEF FileMap
    <3>. HIDE DEF fs
    <3>. QED BY <2>1, <3>1, FileMapAt
  <2>4. here = there
    <3>. HIDE DEF fs
    <3>1. \A i \in 1 .. Len(fs) : fs[i] \in there
      BY <2>1, <2>2, <2>3 DEF Names
    <3>2. ASSUME NEW f \in Names(fs) PROVE [name |-> f, desc |-> FileMap(fs)[f]] \in here
      <4>1. PICK i \in 1 .. Len(fs) : f = fs[i].name
        BY DEF Names
      <4>2. [name |-> f, desc |-> FileMap(fs)[f]] = fs[i]
        BY <2>1, <2>3, <4>1
      <4>. QED BY <4>2
    <3>. QED BY <2>2, <2>3, <3>1, <3>2
  <2>5. Abstract!Answered(t, 0, there) /\ UNCHANGED Db
    BY <1>4, <2>4, LeaveAnswers, DbIsUserMap
  <2>6. Abstract!Online(req[t].user) /\ Abstract!Known(v)
    BY <1>4, <2>2, FoundIsKnown DEF Abstract!Known
  <2>. QED BY <2>5, <2>6, Zenon DEF Abstract!ListContent
<1>. QED BY <1>1, <1>2, <1>3, <1>4, Zenon DEF ListContent, IsFirst

\* An operation's end is the instant at which its call takes effect.
LEMMA ApplyDoes ==
  ASSUME RInv, NEW t \in Thread, Working(t), Apply(t, req[t].user)
  PROVE  Abstract!Do(t)
<1>1. /\ req[t] \in Request /\ req[t] # Nil
      /\ ans[t] = Nil
  BY RequestAssumption DEF RInv, IInv, Pending, Outstanding, Working
<1>2. PICK code, out : Leave(t, code, out)
  BY ApplyLeaves
<1>3. UNCHANGED req
  BY <1>2, LeaveAnswers
<1>. DEFINE u == req[t].user
<1>4. CASE RegisterUser(t, u)
  BY <1>1, <1>3, <1>4, RegisterDoes DEF RegisterUser, Abstract!Do
<1>5. CASE UnregisterUser(t)
  BY <1>1, <1>3, <1>5, UnregisterDoes DEF UnregisterUser, Abstract!Do
<1>6. CASE ConnectUser(t)
  BY <1>1, <1>3, <1>6, ConnectDoes DEF ConnectUser, Abstract!Do
<1>7. CASE DisconnectUser(t)
  BY <1>1, <1>3, <1>7, DisconnectDoes DEF DisconnectUser, Abstract!Do
<1>8. CASE RegisterFile(t)
  BY <1>1, <1>3, <1>8, PublishDoes DEF RegisterFile, Abstract!Do
<1>9. CASE UnregisterFile(t)
  BY <1>1, <1>3, <1>9, DeleteDoes DEF UnregisterFile, Abstract!Do
<1>10. CASE ListUsers(t)
  BY <1>1, <1>3, <1>10, ListUsersDoes DEF ListUsers, Abstract!Do
<1>11. CASE ListContent(t)
  BY <1>1, <1>3, <1>11, ListContentDoes DEF ListContent, Abstract!Do
<1>. QED BY <1>4, <1>5, <1>6, <1>7, <1>8, <1>9, <1>10, <1>11 DEF Apply

\* Every step of list.c is a step of the registry or leaves it as it is.
LEMMA StepRefines ==
  ASSUME RInv, [Next]_vars
  PROVE  [Abstract!Next]_(Abstract!vars)
<1>1. ASSUME NEW t \in Thread, NEW r \in Request, Call(t, r) PROVE Abstract!Call(t)
  <2>1. Db' = Db /\ ans' = ans /\ req' = [req EXCEPT ![t] = r] /\ req[t] = Nil
    BY <1>1, DbIsUserMap DEF Call, RInv, Outstanding
  <2>. QED BY <2>1 DEF Abstract!Call, Abstract!Request, Request
<1>2. ASSUME NEW t \in Thread, Return(t) PROVE Abstract!Return(t)
  <2>1. Db' = Db
    BY <1>2, DbIsUserMap DEF Return
  <2>. QED BY <1>2, <2>1 DEF Return, Abstract!Return, RInv, Outstanding
<1>3. ASSUME NEW t \in Thread, Work(t) PROVE Abstract!Do(t) \/ UNCHANGED Abstract!vars
  <2>1. CASE Lock(t) \/ CheckInited(t) \/ InitList(t) \/ Relock(t) \/ Walk(t, req[t].user)
    <3>1. UNCHANGED <<messages, req, ans>>
      BY <2>1 DEF Lock, CheckInited, InitList, Relock, Walk, RInv, Initialised
    <3>. QED BY <3>1, DbIsUserMap DEF Abstract!vars
  <2>. QED BY <1>3, <2>1, ApplyDoes DEF Work, Step
<1>4. CASE UNCHANGED vars
  BY <1>4, DbIsUserMap DEF vars, Abstract!vars
<1>. QED BY <1>1, <1>2, <1>3, <1>4 DEF Next, Abstract!Next

\* The list implements the registry, for any number of threads: with its lock,
\* its lazy initialisation and its walks, every call takes effect at one instant
\* between its call and its return, and with the answer the registry gives there.
THEOREM ListImplementsRegistry == Spec => Linearizable
<1>1. Init => Abstract!Init
  <2>. SUFFICES ASSUME Init PROVE Abstract!Init
    OBVIOUS
  <2>1. messages = << >> /\ Names(<< >>) = {}
    BY DEF Init, Names
  <2>2. Db = << >>
    BY <2>1, DbIsUserMap DEF UserMap
  <2>. QED BY <2>2 DEF Init, ThreadsInit, Abstract!Init
<1>2. RInv /\ [Next]_vars => [Abstract!Next]_(Abstract!vars)
  BY StepRefines
<1>. QED BY <1>1, <1>2, RInductive, PTL DEF Spec, Linearizable, Abstract!Spec

-----------------------------------------------------------------------------
(* Files change only while their owner is connected.                       *)

\* A step that keeps the names, and u's files, keeps what u publishes.
LEMMA FilesOfSame ==
  ASSUME NEW u, Len(messages') = Len(messages),
         \A k \in 1 .. Len(messages) : /\ messages'[k].name = messages[k].name
                                       /\ messages[k].name = u => messages'[k].files = messages[k].files
  PROVE  FilesOf(u)' = FilesOf(u)
<1>1. Named(u)' = Named(u)
  BY DEF Named
<1>. QED BY <1>1 DEF FilesOf, Named

\* Rewriting the node of one user leaves the files of the others alone.
LEMMA WriteKeepsFiles ==
  ASSUME IInv, NEW t \in Thread, pc[t] = "found", NEW n \in UserNode, n.name = req[t].user,
         messages' = [messages EXCEPT ![cur[t]] = n], NEW u \in User
  PROVE  n.files = Node(t).files \/ u # req[t].user => FilesOf(u)' = FilesOf(u)
<1>1. /\ cur[t] \in 1 .. Len(messages) /\ Node(t).name = req[t].user
      /\ messages \in Seq(UserNode)
  BY DEF IInv, CursorValid, TypeOK
<1>2. /\ Len(messages') = Len(messages)
      /\ \A i \in 1 .. Len(messages) : messages'[i] = IF i = cur[t] THEN n ELSE messages[i]
  BY <1>1, WriteNode
<1>. QED BY <1>1, <1>2, FilesOfSame DEF Node

\* So does pushing a node under another name.
LEMMA PushKeepsFiles ==
  ASSUME TypeOK, NEW n \in UserNode, messages' = <<n>> \o messages, NEW u, u # n.name
  PROVE  FilesOf(u)' = FilesOf(u)
<1>1. /\ Len(messages') = Len(messages) + 1 /\ Len(messages) \in Nat
      /\ \A i \in 1 .. Len(messages) + 1 : messages'[i] = IF i = 1 THEN n ELSE messages[i - 1]
  BY PushShifts, LenProperties DEF TypeOK
<1>2. ASSUME NEW k \in Named(u)' PROVE messages'[k].files \in FilesOf(u)
  <2>1. k - 1 \in 1 .. Len(messages) /\ messages'[k] = messages[k - 1]
    BY <1>1 DEF Named
  <2>. QED BY <2>1 DEF Named, FilesOf
<1>3. ASSUME NEW k \in Named(u) PROVE messages[k].files \in FilesOf(u)'
  <2>1. k + 1 \in 1 .. Len(messages') /\ messages'[k + 1] = messages[k]
    BY <1>1 DEF Named
  <2>. QED BY <2>1 DEF Named, FilesOf
<1>. QED BY <1>2, <1>3 DEF FilesOf

\* Unlinking another user's node leaves u's files alone.
LEMMA RemoveKeepsFiles ==
  ASSUME TypeOK, NEW c \in 1 .. Len(messages), messages' = Remove(messages, c), NEW u,
         u # messages[c].name
  PROVE  FilesOf(u)' = FilesOf(u)
<1>1. /\ Len(messages') = Len(messages) - 1 /\ Len(messages) \in Nat
      /\ \A i \in 1 .. Len(messages) - 1 : messages'[i] = IF i < c THEN messages[i] ELSE messages[i + 1]
  BY RemoveShifts, LenProperties DEF TypeOK
<1>2. ASSUME NEW k \in Named(u)' PROVE messages'[k].files \in FilesOf(u)
  <2>1. PICK i \in 1 .. Len(messages) : messages'[k] = messages[i]
    BY RemoveSelects DEF TypeOK, Named
  <2>. QED BY <2>1 DEF Named, FilesOf
<1>3. ASSUME NEW k \in Named(u) PROVE messages[k].files \in FilesOf(u)'
  <2>1. k # c /\ k \in 1 .. Len(messages)
    BY DEF Named
  <2>2. \E i \in 1 .. Len(messages') : messages'[i] = messages[k]
    <3>1. CASE k < c
      BY <1>1, <2>1, <3>1
    <3>2. CASE k > c
      <4>1. k - 1 \in 1 .. Len(messages') /\ messages'[k - 1] = messages[k]
        BY <1>1, <2>1, <3>2
      <4>. QED BY <4>1
    <3>. QED BY <2>1, <3>1, <3>2
  <2>. QED BY <2>2 DEF Named, FilesOf
<1>. QED BY <1>2, <1>3 DEF FilesOf

\* The rule, for one step of one thread.
LEMMA StepKeepsFiles ==
  ASSUME IInv, NEW t \in Thread, Working(t), Step(t, req[t].user),
         NEW u \in User, FilesOf(u) # {}, FilesOf(u)' # FilesOf(u)
  PROVE  Named(u)' = {} \/ \A k \in Named(u) : Online(messages[k])
<1>. DEFINE v == req[t].user
<1>. USE DEF IInv
<1>0. req[t] \in Request /\ v \in User
  BY RequestFields DEF Pending
<1>n. pc[t] = "found" => /\ cur[t] \in 1 .. Len(messages) /\ Node(t).name = v
                         /\ Node(t) \in UserNode
                         /\ \A k \in Named(v) : k = cur[t]
  BY DEF CursorValid, TypeOK, Node, UniqueNames, Distinct, Named
<1>1. messages' # messages /\ Named(u) # {}
  BY DEF FilesOf, Named
<1>2. CASE InitList(t)
  BY <1>1, <1>2 DEF InitList, Named
<1>3. CASE RegisterUser(t, v)
  <2>. DEFINE n == [name |-> v, addr |-> Nil, files |-> << >>]
  <2>1. pc[t] = "absent" /\ messages' = <<n>> \o messages
    BY <1>1, <1>3 DEF RegisterUser, Refuse
  <2>2. n \in UserNode /\ n.name = v
    BY <1>0 DEF UserNode
  <2>3. u # v
    <3>1. Len(messages) \in Nat
      BY LenProperties DEF TypeOK
    <3>2. \A k \in 1 .. Len(messages) : messages[k].name # v
      BY <2>1, <3>1 DEF CursorValid
    <3>. QED BY <1>1, <3>2 DEF Named
  <2>. HIDE DEF n
  <2>. QED BY <2>1, <2>2, <2>3, PushKeepsFiles
<1>4. CASE UnregisterUser(t)
  <2>1. pc[t] = "found" /\ messages' = Remove(messages, cur[t])
    BY <1>1, <1>4 DEF UnregisterUser, Refuse
  <2>2. u = v
    BY <1>n, <2>1, RemoveKeepsFiles DEF Node
  <2>3. v \notin Names(messages')
    BY <1>n, <2>1, RemoveNames DEF Node, TypeOK, UniqueNames
  <2>. QED BY <2>2, <2>3 DEF Names, Named
<1>5. CASE ConnectUser(t)
  <2>1. /\ pc[t] = "found" /\ req[t].addr \in Addr
        /\ messages' = [messages EXCEPT ![cur[t]] = [Node(t) EXCEPT !.addr = req[t].addr]]
    BY <1>0, <1>1, <1>5, RequestFields DEF ConnectUser, Refuse, Node
  <2>. DEFINE n == [Node(t) EXCEPT !.addr = req[t].addr]
  <2>2. n \in UserNode /\ n.name = v /\ n.files = Node(t).files
    BY <1>n, <2>1 DEF UserNode
  <2>. HIDE DEF n
  <2>. QED BY <2>1, <2>2, WriteKeepsFiles DEF n
<1>6. CASE DisconnectUser(t)
  <2>1. /\ pc[t] = "found"
        /\ messages' = [messages EXCEPT ![cur[t]] = [Node(t) EXCEPT !.addr = Nil]]
    BY <1>1, <1>6 DEF DisconnectUser, Refuse, Node
  <2>. DEFINE n == [Node(t) EXCEPT !.addr = Nil]
  <2>2. n \in UserNode /\ n.name = v /\ n.files = Node(t).files
    BY <1>n, <2>1 DEF UserNode
  <2>. HIDE DEF n
  <2>. QED BY <2>1, <2>2, WriteKeepsFiles DEF n
<1>7. ASSUME pc[t] = "found", Online(Node(t)), NEW fs \in Seq(FileNode),
             messages' = [messages EXCEPT ![cur[t]].files = fs]
      PROVE  \A k \in Named(u) : Online(messages[k])
  <2>. DEFINE n == [Node(t) EXCEPT !.files = fs]
  <2>1. n \in UserNode /\ n.name = v
    BY <1>n, <1>7 DEF UserNode
  <2>2. messages' = [messages EXCEPT ![cur[t]] = n]
    BY <1>7 DEF Node
  <2>. HIDE DEF n
  <2>3. u = v
    BY <1>7, <2>1, <2>2, WriteKeepsFiles
  <2>. QED BY <1>n, <1>7, <2>3 DEF Node
<1>8. CASE RegisterFile(t)
  <2>. DEFINE f == [name |-> req[t].file, desc |-> req[t].desc]
  <2>1. /\ pc[t] = "found" /\ Online(Node(t))
        /\ messages' = [messages EXCEPT ![cur[t]].files = <<f>> \o Node(t).files]
    BY <1>1, <1>8 DEF RegisterFile, Refuse, Node
  <2>2. f \in FileNode /\ Node(t).files \in Seq(FileNode)
    BY <1>0, <1>8, <1>n, <2>1, RequestFields DEF RegisterFile, FileNode, UserNode
  <2>3. <<f>> \o Node(t).files \in Seq(FileNode)
    BY <2>2, PushShifts
  <2>. HIDE DEF f
  <2>. QED BY <1>7, <2>1, <2>3
<1>9. CASE UnregisterFile(t)
  <2>1. PICK k \in 1 .. Len(Node(t).files) :
          /\ pc[t] = "found" /\ Online(Node(t))
          /\ messages' = [messages EXCEPT ![cur[t]].files = Remove(@, k)]
    BY <1>1, <1>9, Zenon DEF UnregisterFile, Refuse
  <2>2. messages' = [messages EXCEPT ![cur[t]].files = Remove(Node(t).files, k)]
    BY <2>1 DEF Node
  <2>3. Remove(Node(t).files, k) \in Seq(FileNode)
    BY <1>n, <2>1, RemoveShifts DEF UserNode
  <2>. QED BY <1>7, <2>1, <2>2, <2>3
<1>10. CASE ListUsers(t) \/ ListContent(t)
  BY <1>1, <1>10, Zenon DEF ListUsers, ListContent, Refuse
<1>11. CASE Lock(t) \/ CheckInited(t) \/ Relock(t) \/ Walk(t, v)
  BY <1>1, <1>11 DEF Lock, CheckInited, Relock, Walk
<1>. QED BY <1>2, <1>3, <1>4, <1>5, <1>6, <1>8, <1>9, <1>10, <1>11 DEF Step, Apply

\* A user's published files change only while that user is connected, or go with
\* the user, whatever the other threads do.
THEOREM FilesOutliveSessions == Spec => FilesChangeOnline
<1>1. IInv /\ [Next]_vars =>
        [\A u \in User : FilesOf(u) # {} /\ FilesOf(u)' # FilesOf(u) =>
           \/ Named(u)' = {}
           \/ \A k \in Named(u) : Online(messages[k])]_vars
  <2>1. CASE \E t \in Thread : Work(t)
    BY <2>1, StepKeepsFiles DEF Work
  <2>2. CASE UNCHANGED messages
    BY <2>2 DEF FilesOf, Named
  <2>3. CASE \E t \in Thread : Return(t) \/ \E r \in Request : Call(t, r)
    BY <2>2, <2>3 DEF Return, Call
  <2>. QED BY <2>1, <2>2, <2>3 DEF Next, vars
<1>. QED BY <1>1, Inductive, PTL DEF Spec, FilesChangeOnline
=============================================================================
