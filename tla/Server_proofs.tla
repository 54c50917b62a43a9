--------------------------- MODULE Server_proofs ---------------------------
(***************************************************************************)
(* Theorems about Server for any number of threads and any requests: what  *)
(* the race on the buffer cannot do to the list.                           *)
(***************************************************************************)
EXTENDS Server, UserList_proofs

(* What the variables hold.  A name in the list can be any string a thread  *)
(* reads from the buffer.                                                   *)
Phases == {"idle", "start", "read", "fill", "test", "copy", "clear", "call", "list", "log",
           "reply", "close", "leaked"}
TextFile == [name : Text, desc : Text]
TextNode == [name : Text, addr : Text \cup {Nil}, files : Seq(TextFile)]
Complete(op) == {a \in Seq(Text) : Len(a) = Fields[op]}
Calls == UNION {{CallOf(op, a) : a \in Complete(op)} : op \in DOMAIN Fields}

RequestTypes ==
  /\ alive \in BOOLEAN
  /\ accepted \in 0 .. MaxConn
  /\ buffer \in [val : Text, by : Thread \cup {Nil}]
  /\ sent \in [Thread -> Seq(Text)]
  /\ phase \in [Thread -> Phases]
  /\ branch \in [Thread -> DOMAIN Fields \cup {Nil}]
  /\ args \in [Thread -> Seq(Text)]

ListTypes ==
  /\ mutex \in Thread \cup {Nil}
  /\ messages \in Seq(TextNode)
  /\ pc \in [Thread -> PcSet]
  /\ req \in [Thread -> Calls \cup {Nil}]
  /\ cur \in [Thread -> Nat]

(* Where a thread is in its request: it has its operation from the second   *)
(* field on, and all its fields when it calls list.c.                       *)
Path(t) ==
  /\ Len(args[t]) <= 5
  /\ phase[t] \in {"idle", "start", "test"} => args[t] = << >>
  /\ phase[t] \in {"read", "fill"} =>
       \/ args[t] = << >>
       \/ branch[t] \in DOMAIN Fields /\ Len(args[t]) < Fields[branch[t]]
  /\ phase[t] = "fill" => Len(args[t]) < Len(sent[t])
  /\ phase[t] \in {"copy", "clear"} =>
       branch[t] \in DOMAIN Fields /\ Len(args[t]) < Fields[branch[t]]
  /\ phase[t] \in {"call", "list"} =>
       branch[t] \in DOMAIN Fields /\ Len(args[t]) = Fields[branch[t]]
  /\ phase[t] = "list" => req[t] = CallOf(branch[t], args[t])
  /\ phase[t] # "list" => ~Working(t)
  /\ Working(t) => req[t] \in Calls
Paths == \A t \in Thread : Path(t)

SInv == RequestTypes /\ ListTypes /\ Paths /\ SectionSurvives /\ FilesStayDistinct

-----------------------------------------------------------------------------
(* Facts about the data.                                                   *)

\* Every branch reads from three to five fields.
LEMMA FieldNumbers ==
  /\ DOMAIN Fields = {"REGISTER", "UNREGISTER", "CONNECT", "PUBLISH", "DELETE", "DISCONNECT",
                      "LIST_USERS", "LIST_CONTENT"}
  /\ \A op \in DOMAIN Fields : Fields[op] \in 3 .. 5
  /\ Fields["PUBLISH"] = 5 /\ Fields["CONNECT"] = 4
BY DEF Fields

\* The strings that are no field of a request are strings.
LEMMA NoField == Empty \in Text /\ Torn \in Text
BY DEF Text

\* A call carries its operation's strings.
LEMMA CallStrings ==
  ASSUME NEW c \in Calls
  PROVE  /\ c.op = "CONNECT" => c.addr \in Text
         /\ c.op = "PUBLISH" => c.file \in Text /\ c.desc \in Text
<1>1. PICK op \in DOMAIN Fields : \E a \in Complete(op) : c = CallOf(op, a)
  BY DEF Calls
<1>2. PICK a \in Complete(op) : c = CallOf(op, a)
  BY <1>1
<1>3. a \in Seq(Text) /\ Len(a) = Fields[op]
  BY <1>2 DEF Complete
<1>4. CASE op = "CONNECT"
  <2>1. 4 \in 1 .. Len(a)
    BY <1>3, <1>4, FieldNumbers
  <2>2. c = ConnectCall(a)
    BY <1>2, <1>4 DEF CallOf
  <2>. QED BY <1>3, <2>1, <2>2 DEF ConnectCall
<1>5. CASE op = "PUBLISH"
  <2>1. 4 \in 1 .. Len(a) /\ 5 \in 1 .. Len(a)
    BY <1>3, <1>5, FieldNumbers
  <2>2. c = PublishCall(a)
    BY <1>2, <1>5 DEF CallOf
  <2>. QED BY <1>3, <2>1, <2>2 DEF PublishCall
<1>6. CASE op \in DOMAIN Fields \ {"CONNECT", "PUBLISH"}
  <2>1. c \in {RegisterCall(a), UnregisterCall(a), DeleteCall(a), DisconnectCall(a),
               ListUsersCall(a), ListContentCall(a)}
    BY <1>2, <1>6, FieldNumbers DEF CallOf
  <2>. QED BY <2>1 DEF RegisterCall, UnregisterCall, DeleteCall, DisconnectCall, ListUsersCall,
                       ListContentCall
<1>. QED BY <1>4, <1>5, <1>6

-----------------------------------------------------------------------------
(* The steps of a handler thread.                                          *)

\* A step of list.c is one thread's, and keeps its request.
LEMMA StepIsLocal ==
  ASSUME ListTypes, NEW t \in Thread, NEW u, Step(t, u)
  PROVE  UNCHANGED req /\ \A s \in Thread : s # t => pc'[s] = pc[s]
<1>1. CASE Lock(t) \/ CheckInited(t) \/ InitList(t) \/ Relock(t) \/ Walk(t, u)
  BY <1>1 DEF Lock, CheckInited, InitList, Relock, Walk, Goto, ListTypes
<1>2. CASE Apply(t, u)
  BY <1>2, ApplyLeaves DEF Leave, Goto, ListTypes
<1>. QED BY <1>1, <1>2 DEF Step

\* The end of the process resets every thread.
LEMMA DieResets ==
  ASSUME RequestTypes, Die
  PROVE  RequestTypes' /\ ListTypes' /\ Paths' /\ SectionSurvives' /\ FilesStayDistinct'
<1>. USE ServerAssumption, NoField
<1>1. [val |-> Empty, by |-> Nil] \in [val : Text, by : Thread \cup {Nil}]
  OBVIOUS
<1>2. RequestTypes'
  <2>1. \A s \in Thread : << >> \in Seq(Text) /\ "idle" \in Phases
    BY DEF Phases
  <2>2. sent' \in [Thread -> Seq(Text)] /\ args' \in [Thread -> Seq(Text)]
    BY <2>1 DEF Die
  <2>3. phase' \in [Thread -> Phases] /\ branch' \in [Thread -> DOMAIN Fields \cup {Nil}]
    BY <2>1 DEF Die
  <2>4. /\ alive' \in BOOLEAN /\ accepted' \in 0 .. MaxConn
        /\ buffer' \in [val : Text, by : Thread \cup {Nil}]
    BY <1>1 DEF Die, RequestTypes
  <2>. QED BY <2>2, <2>3, <2>4 DEF RequestTypes
<1>3. ListTypes'
  BY DEF Die, ListTypes, PcSet
<1>4. Paths'
  BY DEF Die, Paths, Path, Working
<1>5. SectionSurvives' /\ FilesStayDistinct'
  BY NilAssumption DEF Die, SectionSurvives, InSection, FilesStayDistinct
<1>. QED BY <1>2, <1>3, <1>4, <1>5

\* A thread's path depends on nobody else.
LEMMA PathApart ==
  ASSUME Paths, NEW t \in Thread, Path(t)',
         \A s \in Thread : s # t => /\ phase'[s] = phase[s] /\ branch'[s] = branch[s]
                                    /\ args'[s] = args[s] /\ sent'[s] = sent[s]
                                    /\ pc'[s] = pc[s] /\ req'[s] = req[s]
  PROVE  Paths'
<1>1. ASSUME NEW s \in Thread, s # t PROVE Path(s)'
  BY <1>1 DEF Paths, Path, Working
<1>. QED BY <1>1 DEF Paths

\* Every step keeps the types of the request path.
LEMMA RequestTypesInductive ==
  ASSUME RequestTypes, Paths, [ServerNext]_allvars
  PROVE  RequestTypes'
<1>. USE ServerAssumption, NoField
<1>1. ASSUME NEW t \in Thread, NEW r \in Requests, NEW n \in 0 .. Len(r), Accept(t, r, n)
      PROVE  RequestTypes'
  <2>1. /\ UNCHANGED <<alive, buffer, branch, args>>
        /\ phase' \in [Thread -> Phases] /\ accepted' \in 0 .. MaxConn
    BY <1>1 DEF Accept, Enter, RequestTypes, Phases
  <2>2. r \in Seq(Text) /\ SubSeq(r, 1, n) \in Seq(Text)
    OBVIOUS
  <2>3. ASSUME n < Len(r), NEW last \in {<< >>} \cup {<<h>> : h \in Half(r[n + 1])}
        PROVE  SubSeq(r, 1, n) \o last \in Seq(Text)
    <3>1. r[n + 1] \in Text
      BY <2>2, <2>3, LenProperties
    <3>2. last = << >> \/ \E h \in Text : last = <<h>>
      BY <2>3, <3>1 DEF Half
    <3>3. CASE last = << >>
      BY <2>2, <3>3
    <3>4. ASSUME NEW h \in Text, last = <<h>> PROVE SubSeq(r, 1, n) \o last \in Seq(Text)
      BY <2>2, <3>4
    <3>. QED BY <3>2, <3>3, <3>4
  <2>4. \E s \in Seq(Text) : sent' = [sent EXCEPT ![t] = s]
    BY <1>1, <2>2, <2>3 DEF Accept
  <2>. QED BY <2>1, <2>4 DEF RequestTypes
<1>2. ASSUME NEW t \in Thread, Allocate(t) PROVE RequestTypes'
  BY <1>2 DEF Allocate, Enter, RequestTypes, Phases, conn, list
<1>3. ASSUME NEW t \in Thread, NoMemory(t) PROVE RequestTypes'
  BY <1>3 DEF NoMemory, End, Enter, RequestTypes, Phases, conn, list
<1>4. ASSUME NEW t \in Thread, Fill(t) PROVE RequestTypes'
  <2>1. UNCHANGED <<alive, accepted, sent, branch, args>> /\ phase' \in [Thread -> Phases]
    BY <1>4 DEF Fill, Enter, RequestTypes, Phases, conn
  <2>2. sent[t][Field(t)] \in Text
    <3>1. sent[t] \in Seq(Text) /\ args[t] \in Seq(Text) /\ Field(t) <= Len(sent[t])
      BY <1>4 DEF Fill, RequestTypes
    <3>2. Field(t) \in 1 .. Len(sent[t])
      BY <3>1 DEF Field
    <3>. QED BY <3>1, <3>2
  <2>3. \E v \in Text : buffer' = [val |-> v, by |-> t]
    BY <1>4, <2>2 DEF Fill, RequestTypes
  <2>. QED BY <2>1, <2>3 DEF RequestTypes
<1>5. ASSUME NEW t \in Thread, Filled(t) PROVE RequestTypes'
  <2>1. phase[t] = "fill" /\ UNCHANGED <<alive, accepted, sent, branch, args>>
    BY <1>5 DEF Filled, conn
  <2>2. sent[t][Field(t)] \in Text
    <3>1. sent[t] \in Seq(Text) /\ args[t] \in Seq(Text) /\ Len(args[t]) < Len(sent[t])
      BY <2>1 DEF RequestTypes, Paths, Path
    <3>2. Field(t) \in 1 .. Len(sent[t])
      BY <3>1 DEF Field
    <3>. QED BY <3>1, <3>2
  <2>3. /\ [val |-> sent[t][Field(t)], by |-> Nil] \in [val : Text, by : Thread \cup {Nil}]
        /\ [val |-> Torn, by |-> Nil] \in [val : Text, by : Thread \cup {Nil}]
    BY <2>2
  <2>4. buffer' \in [val : Text, by : Thread \cup {Nil}]
    BY <1>5, <2>3 DEF Filled
  <2>5. phase' \in [Thread -> Phases]
    BY <1>5 DEF Filled, AfterRead, Enter, RequestTypes, Phases
  <2>. QED BY <2>1, <2>4, <2>5 DEF RequestTypes
<1>6. ASSUME NEW t \in Thread, EndOfStream(t) PROVE RequestTypes'
  BY <1>6 DEF EndOfStream, AfterRead, Field, Enter, RequestTypes, Phases, conn, list
<1>7. ASSUME NEW t \in Thread, ReadError(t) PROVE RequestTypes'
  <2>1. UNCHANGED <<alive, accepted, sent, branch, args>> /\ phase' \in [Thread -> Phases]
    BY <1>7 DEF ReadError, Enter, RequestTypes, Phases, conn
  <2>2. buffer' \in [val : Text, by : Thread \cup {Nil}]
    <3>1. CASE UNCHANGED buffer
      BY <3>1 DEF RequestTypes
    <3>2. CASE buffer' = [buffer EXCEPT !.by = IF @ = t THEN Nil ELSE @]
      BY <3>2 DEF RequestTypes
    <3>. QED BY <1>7, <3>1, <3>2 DEF ReadError
  <2>. QED BY <2>1, <2>2 DEF RequestTypes
<1>8. ASSUME NEW t \in Thread, TestOperation(t) PROVE RequestTypes'
  BY <1>8, ZenonT(30) DEF TestOperation, Enter, RequestTypes, Phases, conn, list
<1>9. ASSUME NEW t \in Thread, Copy(t) PROVE RequestTypes'
  BY <1>9 DEF Copy, Field, Kept, Enter, RequestTypes, Phases, conn, list
<1>10. ASSUME NEW t \in Thread, Clear(t) PROVE RequestTypes'
  BY <1>10 DEF Clear, Enter, RequestTypes, Phases, conn, list
<1>11. ASSUME NEW t \in Thread, CallList(t) PROVE RequestTypes'
  BY <1>11 DEF CallList, Enter, RequestTypes, Phases, conn, list
<1>12. ASSUME NEW t \in Thread, InList(t) PROVE RequestTypes'
  BY <1>12 DEF InList, svars, RequestTypes, Phases, conn
<1>13. ASSUME NEW t \in Thread, Wipe(t) PROVE RequestTypes'
  BY <1>13 DEF Wipe, Enter, RequestTypes, Phases, conn, list
<1>14. ASSUME NEW t \in Thread, Log(t) PROVE RequestTypes'
  BY <1>14 DEF Log, Enter, RequestTypes, Phases, conn, list
<1>15. ASSUME NEW t \in Thread, LogExits(t) PROVE RequestTypes'
  BY <1>15, DieResets DEF LogExits
<1>16. ASSUME NEW t \in Thread, Reply(t) PROVE RequestTypes'
  BY <1>16 DEF Reply, Enter, RequestTypes, Phases, conn, list
<1>17. ASSUME NEW t \in Thread, ReplyKills(t) PROVE RequestTypes'
  BY <1>17, DieResets DEF ReplyKills
<1>18. ASSUME NEW t \in Thread, Close(t) PROVE RequestTypes'
  BY <1>18 DEF Close, End, Enter, RequestTypes, Phases, conn, list
<1>19. CASE AcceptFails
  BY <1>19, DieResets DEF AcceptFails
<1>20. CASE Restart
  BY <1>20 DEF Restart, RequestTypes, Phases, conn, list
<1>21. CASE UNCHANGED allvars
  BY <1>21 DEF allvars, svars, RequestTypes, Phases, conn, list
<1>. QED BY <1>1, <1>2, <1>3, <1>4, <1>5, <1>6, <1>7, <1>8, <1>9, <1>10, <1>11, <1>12, <1>13,
     <1>14, <1>15, <1>16, <1>17, <1>18, <1>19, <1>20, <1>21
            DEF ServerNext, Handle

\* Every step keeps a thread on its path.
LEMMA PathsInductive ==
  ASSUME RequestTypes, ListTypes, Paths, [ServerNext]_allvars
  PROVE  Paths'
<1>. USE ServerAssumption, NoField, FieldNumbers
<1>1. ASSUME NEW t \in Thread, NEW r \in Requests, NEW n \in 0 .. Len(r), Accept(t, r, n)
      PROVE  Paths'
  <2>1. \A s \in Thread : s # t => /\ phase'[s] = phase[s] /\ branch'[s] = branch[s]
                                   /\ args'[s] = args[s] /\ sent'[s] = sent[s]
                                   /\ pc'[s] = pc[s] /\ req'[s] = req[s]
    BY <1>1 DEF Accept, Enter, list, RequestTypes, ListTypes
  <2>2. Path(t)'
    BY <1>1 DEF Accept, Enter, list, Paths, Path, Working, RequestTypes, ListTypes
  <2>. QED BY <2>1, <2>2, PathApart
<1>2. ASSUME NEW t \in Thread, Allocate(t) PROVE Paths'
  <2>1. \A s \in Thread : s # t => /\ phase'[s] = phase[s] /\ branch'[s] = branch[s]
                                   /\ args'[s] = args[s] /\ sent'[s] = sent[s]
                                   /\ pc'[s] = pc[s] /\ req'[s] = req[s]
    BY <1>2 DEF Allocate, conn, list, Enter, RequestTypes, ListTypes
  <2>2. Path(t)'
    <3>1. phase[t] = "start" /\ phase'[t] = "read" /\ UNCHANGED <<args, branch, sent, pc, req>>
      BY <1>2 DEF Allocate, Enter, conn, list, RequestTypes
    <3>2. args'[t] = << >> /\ Len(args'[t]) <= 5 /\ ~Working(t)'
      BY <3>1 DEF Paths, Path, Working
    <3>. QED BY <3>1, <3>2, Zenon DEF Path
  <2>. QED BY <2>1, <2>2, PathApart
<1>3. ASSUME NEW t \in Thread, NoMemory(t) PROVE Paths'
  <2>1. \A s \in Thread : s # t => /\ phase'[s] = phase[s] /\ branch'[s] = branch[s]
                                   /\ args'[s] = args[s] /\ sent'[s] = sent[s]
                                   /\ pc'[s] = pc[s] /\ req'[s] = req[s]
    BY <1>3 DEF NoMemory, End, Return, Goto, list, Enter, RequestTypes, ListTypes
  <2>2. Path(t)'
    BY <1>3 DEF NoMemory, End, Return, Goto, list, Enter, Paths, Path, Working, RequestTypes,
         ListTypes
  <2>. QED BY <2>1, <2>2, PathApart
<1>4. ASSUME NEW t \in Thread, Fill(t) PROVE Paths'
  <2>1. \A s \in Thread : s # t => /\ phase'[s] = phase[s] /\ branch'[s] = branch[s]
                                   /\ args'[s] = args[s] /\ sent'[s] = sent[s]
                                   /\ pc'[s] = pc[s] /\ req'[s] = req[s]
    BY <1>4 DEF Fill, conn, list, Enter, RequestTypes, ListTypes
  <2>2. Path(t)'
    <3>1. /\ phase[t] = "read" /\ phase'[t] = "fill" /\ UNCHANGED <<args, branch, sent, pc, req>>
          /\ Len(args[t]) + 1 <= Len(sent[t])
      BY <1>4 DEF Fill, Enter, Field, conn, list, RequestTypes
    <3>2. Path(t) /\ Len(args[t]) \in Nat /\ Len(sent[t]) \in Nat
      BY DEF Paths, RequestTypes
    <3>3. Len(args[t]) < Len(sent[t])
      BY <3>1, <3>2
    <3>. QED BY <3>1, <3>2, <3>3 DEF Path, Working
  <2>. QED BY <2>1, <2>2, PathApart
<1>5. ASSUME NEW t \in Thread, Filled(t) PROVE Paths'
  <2>1. \A s \in Thread : s # t => /\ phase'[s] = phase[s] /\ branch'[s] = branch[s]
                                   /\ args'[s] = args[s] /\ sent'[s] = sent[s]
                                   /\ pc'[s] = pc[s] /\ req'[s] = req[s]
    BY <1>5 DEF Filled, AfterRead, Field, Enter, conn, list, RequestTypes, ListTypes
  <2>2. Path(t)'
    BY <1>5 DEF Filled, AfterRead, Field, Enter, conn, list, Paths, Path, Working, RequestTypes,
         ListTypes
  <2>. QED BY <2>1, <2>2, PathApart
<1>6. ASSUME NEW t \in Thread, EndOfStream(t) PROVE Paths'
  <2>1. \A s \in Thread : s # t => /\ phase'[s] = phase[s] /\ branch'[s] = branch[s]
                                   /\ args'[s] = args[s] /\ sent'[s] = sent[s]
                                   /\ pc'[s] = pc[s] /\ req'[s] = req[s]
    BY <1>6 DEF EndOfStream, AfterRead, Field, Enter, conn, list, RequestTypes, ListTypes
  <2>2. Path(t)'
    BY <1>6 DEF EndOfStream, AfterRead, Field, Enter, conn, list, Paths, Path, Working,
         RequestTypes, ListTypes
  <2>. QED BY <2>1, <2>2, PathApart
<1>7. ASSUME NEW t \in Thread, ReadError(t) PROVE Paths'
  <2>1. \A s \in Thread : s # t => /\ phase'[s] = phase[s] /\ branch'[s] = branch[s]
                                   /\ args'[s] = args[s] /\ sent'[s] = sent[s]
                                   /\ pc'[s] = pc[s] /\ req'[s] = req[s]
    BY <1>7 DEF ReadError, Enter, conn, list, RequestTypes, ListTypes
  <2>2. Path(t)'
    BY <1>7 DEF ReadError, Enter, conn, list, Paths, Path, Working, RequestTypes, ListTypes
  <2>. QED BY <2>1, <2>2, PathApart
<1>8. ASSUME NEW t \in Thread, TestOperation(t) PROVE Paths'
  <2>1. \A s \in Thread : s # t => /\ phase'[s] = phase[s] /\ branch'[s] = branch[s]
                                   /\ args'[s] = args[s] /\ sent'[s] = sent[s]
                                   /\ pc'[s] = pc[s] /\ req'[s] = req[s]
    BY <1>8 DEF TestOperation, Enter, conn, list, RequestTypes, ListTypes
  <2>2. Path(t)'
    <3>1. phase[t] = "test" /\ UNCHANGED <<args, sent, pc, req>>
      BY <1>8 DEF TestOperation, Enter, conn, list
    <3>2. args[t] = << >> /\ Len(args[t]) <= 5 /\ ~Working(t)'
      BY <3>1 DEF Paths, Path, Working
    <3>3. \/ phase'[t] = "copy" /\ branch'[t] \in DOMAIN Fields
          \/ phase'[t] = "close" /\ branch'[t] = branch[t]
      BY <1>8 DEF TestOperation, Enter, RequestTypes
    <3>. QED BY <3>1, <3>2, <3>3 DEF Path, Paths, RequestTypes
  <2>. QED BY <2>1, <2>2, PathApart
<1>9. ASSUME NEW t \in Thread, Copy(t) PROVE Paths'
  <2>1. \A s \in Thread : s # t => /\ phase'[s] = phase[s] /\ branch'[s] = branch[s]
                                   /\ args'[s] = args[s] /\ sent'[s] = sent[s]
                                   /\ pc'[s] = pc[s] /\ req'[s] = req[s]
    BY <1>9 DEF Copy, Field, Kept, Enter, conn, list, RequestTypes, ListTypes
  <2>2. Path(t)'
    BY <1>9, SMTT(30) DEF Copy, Field, Kept, Enter, conn, list, Paths, Path, Working, RequestTypes, ListTypes
  <2>. QED BY <2>1, <2>2, PathApart
<1>10. ASSUME NEW t \in Thread, Clear(t) PROVE Paths'
  <2>1. \A s \in Thread : s # t => /\ phase'[s] = phase[s] /\ branch'[s] = branch[s]
                                   /\ args'[s] = args[s] /\ sent'[s] = sent[s]
                                   /\ pc'[s] = pc[s] /\ req'[s] = req[s]
    BY <1>10 DEF Clear, Enter, conn, list, RequestTypes, ListTypes
  <2>2. Path(t)'
    BY <1>10 DEF Clear, Enter, conn, list, Paths, Path, Working, RequestTypes, ListTypes
  <2>. QED BY <2>1, <2>2, PathApart
<1>11. ASSUME NEW t \in Thread, CallList(t) PROVE Paths'
  <2>1. \A s \in Thread : s # t => /\ phase'[s] = phase[s] /\ branch'[s] = branch[s]
                                   /\ args'[s] = args[s] /\ sent'[s] = sent[s]
                                   /\ pc'[s] = pc[s] /\ req'[s] = req[s]
    BY <1>11 DEF CallList, Enter, Call, Goto, conn, RequestTypes, ListTypes
  <2>2. Path(t)'
    <3>1. /\ phase[t] = "call" /\ phase'[t] = "list" /\ UNCHANGED <<branch, args, sent>>
          /\ req'[t] = CallOf(branch[t], args[t])
      BY <1>11 DEF CallList, Call, Enter, conn, RequestTypes, ListTypes
    <3>2. branch[t] \in DOMAIN Fields /\ args[t] \in Complete(branch[t])
      BY <3>1 DEF Paths, Path, RequestTypes, Complete
    <3>3. req'[t] \in Calls
      BY <3>1, <3>2 DEF Calls
    <3>. QED BY <3>1, <3>2, <3>3 DEF Paths, Path
  <2>. QED BY <2>1, <2>2, PathApart
<1>12. ASSUME NEW t \in Thread, InList(t) PROVE Paths'
  <2>0. UNCHANGED req /\ \A s \in Thread : s # t => pc'[s] = pc[s]
    BY <1>12, StepIsLocal DEF InList
  <2>1. \A s \in Thread : s # t => /\ phase'[s] = phase[s] /\ branch'[s] = branch[s]
                                   /\ args'[s] = args[s] /\ sent'[s] = sent[s]
                                   /\ pc'[s] = pc[s] /\ req'[s] = req[s]
    BY <1>12, <2>0 DEF InList, svars, conn
  <2>2. Path(t)'
    BY <1>12, <2>0 DEF InList, svars, conn, Paths, Path, Working
  <2>. QED BY <2>1, <2>2, PathApart
<1>13. ASSUME NEW t \in Thread, Wipe(t) PROVE Paths'
  <2>1. \A s \in Thread : s # t => /\ phase'[s] = phase[s] /\ branch'[s] = branch[s]
                                   /\ args'[s] = args[s] /\ sent'[s] = sent[s]
                                   /\ pc'[s] = pc[s] /\ req'[s] = req[s]
    BY <1>13 DEF Wipe, Enter, conn, list, RequestTypes, ListTypes
  <2>2. Path(t)'
    BY <1>13 DEF Wipe, Enter, conn, list, Paths, Path, Working, RequestTypes, ListTypes
  <2>. QED BY <2>1, <2>2, PathApart
<1>14. ASSUME NEW t \in Thread, Log(t) PROVE Paths'
  <2>1. \A s \in Thread : s # t => /\ phase'[s] = phase[s] /\ branch'[s] = branch[s]
                                   /\ args'[s] = args[s] /\ sent'[s] = sent[s]
                                   /\ pc'[s] = pc[s] /\ req'[s] = req[s]
    BY <1>14 DEF Log, Enter, conn, list, RequestTypes, ListTypes
  <2>2. Path(t)'
    BY <1>14 DEF Log, Enter, conn, list, Paths, Path, Working, RequestTypes, ListTypes
  <2>. QED BY <2>1, <2>2, PathApart
<1>15. ASSUME NEW t \in Thread, LogExits(t) PROVE Paths'
  BY <1>15, DieResets DEF LogExits
<1>16. ASSUME NEW t \in Thread, Reply(t) PROVE Paths'
  <2>1. \A s \in Thread : s # t => /\ phase'[s] = phase[s] /\ branch'[s] = branch[s]
                                   /\ args'[s] = args[s] /\ sent'[s] = sent[s]
                                   /\ pc'[s] = pc[s] /\ req'[s] = req[s]
    BY <1>16 DEF Reply, Enter, conn, list, RequestTypes, ListTypes
  <2>2. Path(t)'
    BY <1>16 DEF Reply, Enter, conn, list, Paths, Path, Working, RequestTypes, ListTypes
  <2>. QED BY <2>1, <2>2, PathApart
<1>17. ASSUME NEW t \in Thread, ReplyKills(t) PROVE Paths'
  BY <1>17, DieResets DEF ReplyKills
<1>18. ASSUME NEW t \in Thread, Close(t) PROVE Paths'
  <2>1. \A s \in Thread : s # t => /\ phase'[s] = phase[s] /\ branch'[s] = branch[s]
                                   /\ args'[s] = args[s] /\ sent'[s] = sent[s]
                                   /\ pc'[s] = pc[s] /\ req'[s] = req[s]
    BY <1>18 DEF Close, End, Return, Goto, list, Enter, RequestTypes, ListTypes
  <2>2. Path(t)'
    BY <1>18 DEF Close, End, Return, Goto, list, Enter, Paths, Path, Working, RequestTypes,
         ListTypes
  <2>. QED BY <2>1, <2>2, PathApart
<1>19. CASE AcceptFails
  BY <1>19, DieResets DEF AcceptFails
<1>20. CASE Restart
  BY <1>20 DEF Restart, Paths, Path, RequestTypes, Working, conn, list
<1>21. CASE UNCHANGED allvars
  BY <1>21 DEF allvars, svars, Paths, Path, RequestTypes, Working, conn, list
<1>. QED BY <1>1, <1>2, <1>3, <1>4, <1>5, <1>6, <1>7, <1>8, <1>9, <1>10, <1>11, <1>12, <1>13,
     <1>14, <1>15, <1>16, <1>17, <1>18, <1>19, <1>20, <1>21
            DEF ServerNext, Handle

-----------------------------------------------------------------------------
(* The steps of list.c, on whatever string the buffer holds.               *)

\* Rewriting one node keeps the list's types and its files distinct.
LEMMA WriteText ==
  ASSUME messages \in Seq(TextNode), FilesStayDistinct,
         NEW k \in 1 .. Len(messages), NEW n \in TextNode, Distinct(n.files),
         messages' = [messages EXCEPT ![k] = n]
  PROVE  messages' \in Seq(TextNode) /\ FilesStayDistinct'
<1>1. /\ messages' \in Seq(TextNode) /\ Len(messages') = Len(messages)
      /\ \A i \in 1 .. Len(messages) : messages'[i] = IF i = k THEN n ELSE messages[i]
  BY ExceptSeq, LenProperties
<1>. QED BY <1>1 DEF FilesStayDistinct

\* What an operation does to the list keeps its types and its files distinct:
\* the node it writes is the one it found, and a file's name was looked up in
\* the same section.
LEMMA ApplyWrites ==
  ASSUME ListTypes, SectionSurvives, FilesStayDistinct, NEW t \in Thread, NEW u \in Text,
         req[t] \in Calls, Apply(t, u)
  PROVE  messages' \in Seq(TextNode) /\ FilesStayDistinct'
<1>0. CASE UNCHANGED messages
  BY <1>0 DEF FilesStayDistinct, ListTypes
<1>n. ASSUME pc[t] = "found"
      PROVE  /\ cur[t] \in 1 .. Len(messages)
             /\ Node(t) \in TextNode
             /\ Node(t).files \in Seq(TextFile)
             /\ Distinct(Node(t).files)
  <2>1. cur[t] \in 1 .. Len(messages)
    BY <1>n DEF SectionSurvives
  <2>2. Node(t) \in TextNode /\ Distinct(Node(t).files)
    BY <2>1, LenProperties DEF ListTypes, Node, FilesStayDistinct
  <2>. QED BY <2>1, <2>2 DEF TextNode
<1>m. messages \in Seq(TextNode)
  BY DEF ListTypes
<1>1. ASSUME RegisterUser(t, u), messages' # messages
      PROVE  messages' \in Seq(TextNode) /\ FilesStayDistinct'
  <2>. DEFINE n == [name |-> u, addr |-> Nil, files |-> << >>]
  <2>1. messages' = <<n>> \o messages
    BY <1>1 DEF RegisterUser, Refuse
  <2>2. n \in TextNode /\ Distinct(n.files)
    BY DEF TextNode, Distinct
  <2>. HIDE DEF n
  <2>3. /\ messages' \in Seq(TextNode)
        /\ Len(messages') = Len(messages) + 1 /\ Len(messages) \in Nat
        /\ messages'[1] = n
        /\ \A i \in 2 .. Len(messages) + 1 : messages'[i] = messages[i - 1]
    BY <1>m, <2>1, <2>2, PushShifts, LenProperties
  <2>4. ASSUME NEW i \in 1 .. Len(messages) + 1 PROVE Distinct(messages'[i].files)
    <3>1. CASE i = 1
      BY <2>2, <2>3, <3>1
    <3>2. CASE i \in 2 .. Len(messages) + 1
      BY <2>3, <3>2 DEF FilesStayDistinct
    <3>. QED BY <2>3, <3>1, <3>2
  <2>. QED BY <2>3, <2>4 DEF FilesStayDistinct
<1>2. ASSUME UnregisterUser(t), messages' # messages
      PROVE  messages' \in Seq(TextNode) /\ FilesStayDistinct'
  <2>1. pc[t] = "found" /\ messages' = Remove(messages, cur[t])
    BY <1>2 DEF UnregisterUser, Refuse
  <2>2. /\ messages' \in Seq(TextNode)
        /\ Len(messages') = Len(messages) - 1 /\ Len(messages) \in Nat
        /\ \A i \in 1 .. Len(messages) - 1 :
             messages'[i] = IF i < cur[t] THEN messages[i] ELSE messages[i + 1]
    BY <1>m, <1>n, <2>1, RemoveShifts, LenProperties
  <2>. QED BY <2>2 DEF FilesStayDistinct
<1>3. ASSUME ConnectUser(t), messages' # messages
      PROVE  messages' \in Seq(TextNode) /\ FilesStayDistinct'
  <2>1. /\ pc[t] = "found" /\ req[t].addr \in Text
        /\ messages' = [messages EXCEPT ![cur[t]] = [Node(t) EXCEPT !.addr = req[t].addr]]
    BY <1>3, CallStrings DEF ConnectUser, Refuse, Node
  <2>2. /\ [Node(t) EXCEPT !.addr = req[t].addr] \in TextNode
        /\ [Node(t) EXCEPT !.addr = req[t].addr].files = Node(t).files
    BY <1>n, <2>1 DEF TextNode
  <2>. QED BY <1>m, <1>n, <2>1, <2>2, WriteText
<1>4. ASSUME DisconnectUser(t), messages' # messages
      PROVE  messages' \in Seq(TextNode) /\ FilesStayDistinct'
  <2>1. /\ pc[t] = "found"
        /\ messages' = [messages EXCEPT ![cur[t]] = [Node(t) EXCEPT !.addr = Nil]]
    BY <1>4 DEF DisconnectUser, Refuse, Node
  <2>2. /\ [Node(t) EXCEPT !.addr = Nil] \in TextNode
        /\ [Node(t) EXCEPT !.addr = Nil].files = Node(t).files
    BY <1>n, <2>1 DEF TextNode
  <2>. QED BY <1>m, <1>n, <2>1, <2>2, WriteText
<1>5. ASSUME RegisterFile(t), messages' # messages
      PROVE  messages' \in Seq(TextNode) /\ FilesStayDistinct'
  <2>. DEFINE f == [name |-> req[t].file, desc |-> req[t].desc]
              n == [Node(t) EXCEPT !.files = <<f>> \o @]
  <2>1. /\ pc[t] = "found" /\ ~Publishes(Node(t), req[t].file)
        /\ messages' = [messages EXCEPT ![cur[t]] = n]
    BY <1>5 DEF RegisterFile, Refuse, Node
  <2>2. f \in TextFile /\ f.name = req[t].file
    BY <1>5, CallStrings DEF RegisterFile, TextFile
  <2>3. \A i \in 1 .. Len(Node(t).files) : Node(t).files[i].name # f.name
    BY <2>1, <2>2 DEF Publishes
  <2>4. n.files = <<f>> \o Node(t).files /\ n = [Node(t) EXCEPT !.files = <<f>> \o Node(t).files]
    BY <1>n, <2>1 DEF TextNode
  <2>. HIDE DEF f, n
  <2>5. <<f>> \o Node(t).files \in Seq(TextFile)
    BY <1>n, <2>1, <2>2, PushShifts
  <2>6. Distinct(<<f>> \o Node(t).files)
    BY <1>n, <2>1, <2>2, <2>3, PushDistinct
  <2>7. n \in TextNode
    BY <1>n, <2>1, <2>4, <2>5 DEF TextNode
  <2>. QED BY <1>m, <1>n, <2>1, <2>4, <2>6, <2>7, WriteText
<1>6. ASSUME UnregisterFile(t), messages' # messages
      PROVE  messages' \in Seq(TextNode) /\ FilesStayDistinct'
  <2>1. PICK k \in 1 .. Len(Node(t).files) :
          /\ pc[t] = "found"
          /\ messages' = [messages EXCEPT ![cur[t]].files = Remove(@, k)]
    BY <1>6, Zenon DEF UnregisterFile, Refuse
  <2>. DEFINE n == [Node(t) EXCEPT !.files = Remove(Node(t).files, k)]
  <2>2. messages' = [messages EXCEPT ![cur[t]] = n]
    BY <2>1 DEF Node
  <2>3. Distinct(Remove(Node(t).files, k)) /\ Remove(Node(t).files, k) \in Seq(TextFile)
    BY <1>n, <2>1, RemoveDistinct, RemoveShifts
  <2>4. n \in TextNode /\ n.files = Remove(Node(t).files, k)
    BY <1>n, <2>1, <2>3 DEF TextNode
  <2>. HIDE DEF n
  <2>. QED BY <1>m, <1>n, <2>1, <2>2, <2>3, <2>4, WriteText, ZenonT(30)
<1>7. ASSUME ListUsers(t) \/ ListContent(t)
      PROVE  UNCHANGED messages
  BY <1>7, Zenon DEF ListUsers, ListContent, Refuse
<1>. QED BY <1>0, <1>1, <1>2, <1>3, <1>4, <1>5, <1>6, <1>7 DEF Apply

\* A step of list.c keeps the section: whoever changes the list holds the mutex
\* or finds it free, so that nobody else is looking at a node.
LEMMA StepKeepsList ==
  ASSUME ListTypes, SectionSurvives, FilesStayDistinct, NEW t \in Thread, NEW u \in Text,
         req[t] \in Calls, Step(t, u)
  PROVE  ListTypes' /\ SectionSurvives' /\ FilesStayDistinct'
<1>. USE NilAssumption
<1>0. Len(messages) \in Nat
  BY LenProperties DEF ListTypes
<1>1. CASE Lock(t)
  BY <1>1 DEF Lock, Goto, ListTypes, PcSet, SectionSurvives, InSection, FilesStayDistinct
<1>2. CASE CheckInited(t)
  BY <1>2 DEF CheckInited, Goto, ListTypes, PcSet, SectionSurvives, InSection, FilesStayDistinct
<1>3. CASE InitList(t)
  <2>1. ListTypes'
    <3>1. messages' \in Seq(TextNode)
      BY <1>3, EmptySeq DEF InitList, ListTypes
    <3>. QED BY <1>3, <3>1 DEF InitList, Goto, ListTypes, PcSet
  <2>3. FilesStayDistinct'
    <3>1. messages' = messages \/ messages' = << >>
      BY <1>3 DEF InitList
    <3>. QED BY <3>1 DEF FilesStayDistinct
  <2>2. SectionSurvives'
    BY <1>3 DEF InitList, Goto, ListTypes, SectionSurvives, InSection
  <2>. QED BY <2>1, <2>2, <2>3
<1>4. CASE Relock(t)
  BY <1>4 DEF Relock, Goto, ListTypes, PcSet, SectionSurvives, InSection, FilesStayDistinct
<1>5. CASE Walk(t, u)
  <2>1. UNCHANGED <<mutex, inited, messages, req>>
    BY <1>5 DEF Walk, lock
  <2>2. pc' \in [Thread -> PcSet] /\ cur' \in [Thread -> Nat]
    <3>1. pc' \in [Thread -> PcSet]
      BY <1>5 DEF Walk, Goto, ListTypes, PcSet
    <3>2. cur' \in [Thread -> Nat]
      BY <1>5 DEF Walk, ListTypes
    <3>. QED BY <3>1, <3>2
  <2>3. ListTypes' /\ FilesStayDistinct'
    BY <2>1, <2>2 DEF ListTypes, FilesStayDistinct
  <2>4. \A s \in Thread : s # t => pc'[s] = pc[s] /\ cur'[s] = cur[s]
    BY <1>5 DEF Walk, Goto, ListTypes
  <2>5. /\ pc[t] = "walk" /\ pc'[t] \in {"walk", "found", "absent"}
        /\ pc'[t] = "found" => cur'[t] \in 1 .. Len(messages)
    BY <1>5 DEF Walk, Goto, ListTypes
  <2>6. ASSUME NEW s \in Thread
        PROVE  (InSection(s) <=> mutex = s)' /\ (pc[s] = "found" => cur[s] \in 1 .. Len(messages))'
    BY <2>1, <2>4, <2>5 DEF SectionSurvives, InSection
  <2>. QED BY <2>3, <2>6 DEF SectionSurvives
<1>6. CASE Apply(t, u)
  <2>1. messages' \in Seq(TextNode) /\ FilesStayDistinct'
    BY <1>6, ApplyWrites
  <2>2. pc[t] \in {"found", "absent"} /\ \E code, out : Leave(t, code, out)
    BY <1>6, ApplyLeaves
  <2>3. /\ mutex' = Nil /\ pc' = [pc EXCEPT ![t] = "return"] /\ UNCHANGED <<req, cur>>
    BY <2>2 DEF Leave, Goto
  <2>4. ListTypes'
    BY <2>1, <2>3 DEF ListTypes, PcSet
  <2>5. \A s \in Thread : ~InSection(s)' /\ pc'[s] # "found"
    BY <2>2, <2>3 DEF ListTypes, SectionSurvives, InSection
  <2>. QED BY <2>1, <2>3, <2>4, <2>5 DEF SectionSurvives
<1>. QED BY <1>1, <1>2, <1>3, <1>4, <1>5, <1>6 DEF Step

\* The username a thread passes is a string it has read, whichever pointer it is.
LEMMA UsernameIsText ==
  ASSUME RequestTypes, Paths, NEW t \in Thread, phase[t] = "list"
  PROVE  Username(t) \in Text
<1>1. branch[t] \in DOMAIN Fields /\ Len(args[t]) = Fields[branch[t]]
  BY DEF Paths, Path
<1>2. 3 \in 1 .. Len(args[t])
  BY <1>1, FieldNumbers
<1>3. args[t] \in Seq(Text) /\ buffer.val \in Text
  BY DEF RequestTypes
<1>4. args[t][3] \in Text
  BY <1>2, <1>3
<1>. QED BY <1>3, <1>4 DEF Username

\* Every step keeps the section and what is in it.
LEMMA SectionInductive ==
  ASSUME RequestTypes, ListTypes, Paths, SectionSurvives, FilesStayDistinct, [ServerNext]_allvars
  PROVE  ListTypes' /\ SectionSurvives' /\ FilesStayDistinct'
<1>1. ASSUME NEW t \in Thread, NEW r \in Requests, NEW n \in 0 .. Len(r), Accept(t, r, n)
      PROVE  ListTypes' /\ SectionSurvives' /\ FilesStayDistinct'
  BY <1>1 DEF Accept, ListTypes, SectionSurvives, FilesStayDistinct, InSection, list, conn
<1>2. ASSUME NEW t \in Thread, Allocate(t)
      PROVE  ListTypes' /\ SectionSurvives' /\ FilesStayDistinct'
  BY <1>2 DEF Allocate, Enter, ListTypes, SectionSurvives, FilesStayDistinct, InSection, list, conn
<1>3. ASSUME NEW t \in Thread, NoMemory(t)
      PROVE  ListTypes' /\ SectionSurvives' /\ FilesStayDistinct'
  <2>1. Return(t) \/ UNCHANGED list
    BY <1>3 DEF NoMemory, End
  <2>2. CASE Return(t)
    BY <2>2 DEF Return, Goto, lock, PcSet, ListTypes, SectionSurvives, InSection, FilesStayDistinct
  <2>3. CASE UNCHANGED list
    BY <2>3 DEF list, ListTypes, SectionSurvives, InSection, FilesStayDistinct
  <2>. QED BY <2>1, <2>2, <2>3
<1>4. ASSUME NEW t \in Thread, Fill(t) PROVE ListTypes' /\ SectionSurvives' /\ FilesStayDistinct'
  BY <1>4 DEF Fill, Enter, ListTypes, SectionSurvives, FilesStayDistinct, InSection, list, conn
<1>5. ASSUME NEW t \in Thread, Filled(t)
      PROVE  ListTypes' /\ SectionSurvives' /\ FilesStayDistinct'
  BY <1>5 DEF Filled, AfterRead, Field, Enter, ListTypes, SectionSurvives, FilesStayDistinct,
       InSection, list, conn
<1>6. ASSUME NEW t \in Thread, EndOfStream(t)
      PROVE  ListTypes' /\ SectionSurvives' /\ FilesStayDistinct'
  BY <1>6 DEF EndOfStream, AfterRead, Field, Enter, ListTypes, SectionSurvives,
       FilesStayDistinct, InSection, list, conn
<1>7. ASSUME NEW t \in Thread, ReadError(t)
      PROVE  ListTypes' /\ SectionSurvives' /\ FilesStayDistinct'
  BY <1>7 DEF ReadError, Enter, ListTypes, SectionSurvives, FilesStayDistinct, InSection, list, conn
<1>8. ASSUME NEW t \in Thread, TestOperation(t)
      PROVE  ListTypes' /\ SectionSurvives' /\ FilesStayDistinct'
  BY <1>8 DEF TestOperation, Enter, ListTypes, SectionSurvives, FilesStayDistinct, InSection,
       list, conn
<1>9. ASSUME NEW t \in Thread, Copy(t) PROVE ListTypes' /\ SectionSurvives' /\ FilesStayDistinct'
  BY <1>9 DEF Copy, Field, Kept, Enter, ListTypes, SectionSurvives, FilesStayDistinct, InSection,
       list, conn
<1>10. ASSUME NEW t \in Thread, Clear(t)
      PROVE  ListTypes' /\ SectionSurvives' /\ FilesStayDistinct'
  BY <1>10 DEF Clear, Enter, ListTypes, SectionSurvives, FilesStayDistinct, InSection, list, conn
<1>11. ASSUME NEW t \in Thread, CallList(t)
      PROVE  ListTypes' /\ SectionSurvives' /\ FilesStayDistinct'
  <2>1. /\ phase[t] = "call" /\ pc[t] = "idle" /\ pc' = [pc EXCEPT ![t] = "lock"]
        /\ req' = [req EXCEPT ![t] = CallOf(branch[t], args[t])]
        /\ UNCHANGED <<mutex, messages, cur>>
    BY <1>11 DEF CallList, Call, Goto, lock
  <2>2. branch[t] \in DOMAIN Fields /\ args[t] \in Complete(branch[t])
    BY <2>1 DEF Paths, Path, RequestTypes, Complete
  <2>3. CallOf(branch[t], args[t]) \in Calls
    BY <2>2 DEF Calls
  <2>4. ListTypes'
    BY <2>1, <2>3 DEF ListTypes, PcSet
  <2>5. SectionSurvives' /\ FilesStayDistinct'
    BY <2>1 DEF ListTypes, SectionSurvives, InSection, FilesStayDistinct
  <2>. QED BY <2>4, <2>5
<1>12. ASSUME NEW t \in Thread, InList(t)
      PROVE  ListTypes' /\ SectionSurvives' /\ FilesStayDistinct'
  <2>1. phase[t] = "list" /\ Working(t) /\ Step(t, Username(t))
    BY <1>12 DEF InList
  <2>2. req[t] \in Calls /\ Username(t) \in Text
    BY <2>1, UsernameIsText DEF Paths, Path
  <2>. QED BY <2>1, <2>2, StepKeepsList
<1>13. ASSUME NEW t \in Thread, Wipe(t)
      PROVE  ListTypes' /\ SectionSurvives' /\ FilesStayDistinct'
  BY <1>13 DEF Wipe, Enter, ListTypes, SectionSurvives, FilesStayDistinct, InSection, list, conn
<1>14. ASSUME NEW t \in Thread, Log(t) PROVE ListTypes' /\ SectionSurvives' /\ FilesStayDistinct'
  BY <1>14 DEF Log, Enter, ListTypes, SectionSurvives, FilesStayDistinct, InSection, list, conn
<1>15. ASSUME NEW t \in Thread, LogExits(t)
      PROVE  ListTypes' /\ SectionSurvives' /\ FilesStayDistinct'
  BY <1>15, DieResets DEF LogExits
<1>16. ASSUME NEW t \in Thread, Reply(t)
      PROVE  ListTypes' /\ SectionSurvives' /\ FilesStayDistinct'
  BY <1>16 DEF Reply, Enter, ListTypes, SectionSurvives, FilesStayDistinct, InSection, list, conn
<1>17. ASSUME NEW t \in Thread, ReplyKills(t)
      PROVE  ListTypes' /\ SectionSurvives' /\ FilesStayDistinct'
  BY <1>17, DieResets DEF ReplyKills
<1>18. ASSUME NEW t \in Thread, Close(t)
      PROVE  ListTypes' /\ SectionSurvives' /\ FilesStayDistinct'
  <2>1. Return(t) \/ UNCHANGED list
    BY <1>18 DEF Close, End
  <2>2. CASE Return(t)
    BY <2>2 DEF Return, Goto, lock, PcSet, ListTypes, SectionSurvives, InSection, FilesStayDistinct
  <2>3. CASE UNCHANGED list
    BY <2>3 DEF list, ListTypes, SectionSurvives, InSection, FilesStayDistinct
  <2>. QED BY <2>1, <2>2, <2>3
<1>19. CASE AcceptFails
  BY <1>19, DieResets DEF AcceptFails
<1>20. CASE Restart
  BY <1>20 DEF Restart, ListTypes, SectionSurvives, FilesStayDistinct, InSection, list, conn
<1>21. CASE UNCHANGED allvars
  BY <1>21 DEF allvars, svars, ListTypes, SectionSurvives, FilesStayDistinct, InSection, list, conn
<1>. QED BY <1>1, <1>2, <1>3, <1>4, <1>5, <1>6, <1>7, <1>8, <1>9, <1>10, <1>11, <1>12, <1>13,
     <1>14, <1>15, <1>16, <1>17, <1>18, <1>19, <1>20, <1>21
            DEF ServerNext, Handle

-----------------------------------------------------------------------------
(* The theorems.                                                           *)

\* SInv holds in every state.
LEMMA ServerInductive == ServerSpec => []SInv
<1>1. ServerInit => SInv
  <2>. SUFFICES ASSUME ServerInit PROVE SInv
    OBVIOUS
  <2>. USE ServerAssumption, NilAssumption, NoField DEF ServerInit, Init, ThreadsInit, ConnInit
  <2>1. RequestTypes
    <3>1. buffer \in [val : Text, by : Thread \cup {Nil}] /\ << >> \in Seq(Text)
      OBVIOUS
    <3>. QED BY <3>1 DEF RequestTypes, Phases
  <2>2. ListTypes
    BY DEF ListTypes, PcSet
  <2>3. Paths
    <3>. SUFFICES ASSUME NEW t \in Thread PROVE Path(t)
      BY DEF Paths
    <3>1. phase[t] = "idle" /\ args[t] = << >> /\ Len(args[t]) <= 5 /\ ~Working(t)
      BY DEF Working
    <3>. QED BY <3>1, Zenon DEF Path
  <2>4. SectionSurvives /\ FilesStayDistinct
    BY DEF SectionSurvives, InSection, FilesStayDistinct
  <2>. QED BY <2>1, <2>2, <2>3, <2>4 DEF SInv
<1>2. SInv /\ [ServerNext]_allvars => SInv'
  BY RequestTypesInductive, PathsInductive, SectionInductive DEF SInv
<1>. QED BY <1>1, <1>2, PTL DEF ServerSpec

\* Every variable of the request path holds what its declaration can hold.
THEOREM RequestPathTypes == ServerSpec => []ServerTypeOK
<1>1. SInv => ServerTypeOK
  <2>. SUFFICES ASSUME SInv
                PROVE  \A t \in Thread : /\ phase[t] \in Phases
                                         /\ branch[t] \in DOMAIN Fields \cup {Nil}
                                         /\ Len(args[t]) \in 0 .. 5
    BY DEF SInv, RequestTypes, ServerTypeOK, Phases
  <2>. TAKE t \in Thread
  <2>1. Len(args[t]) \in 0 .. 5
    <3>1. Len(args[t]) \in Nat /\ Len(args[t]) <= 5
      BY DEF SInv, RequestTypes, Paths, Path
    <3>2. \A n \in Nat : n <= 5 => n \in 0 .. 5
      OBVIOUS
    <3>. QED BY <3>1, <3>2, Zenon
  <2>2. phase[t] \in Phases /\ branch[t] \in DOMAIN Fields \cup {Nil}
    BY DEF SInv, RequestTypes
  <2>. QED BY <2>1, <2>2
<1>. QED BY <1>1, ServerInductive, PTL

\* The lost and mixed names the shared buffer passes to list.c never make two
\* threads share the section or one use a node that is not in the list.
THEOREM RaceSparesTheSection == ServerSpec => []SectionSurvives
<1>1. SInv => SectionSurvives
  BY DEF SInv
<1>. QED BY <1>1, ServerInductive, PTL

\* And no user ever publishes one name twice, even under a mixed user name.
THEOREM RaceSparesTheFiles == ServerSpec => []FilesStayDistinct
<1>1. SInv => FilesStayDistinct
  BY DEF SInv
<1>. QED BY <1>1, ServerInductive, PTL

\* Whatever strings the race on the buffer produces and wherever a client stops,
\* list.c is called with all the fields of the operation and no other.
THEOREM CallsAreComplete == ServerSpec => []CallsComplete
<1>1. SInv => CallsComplete
  BY DEF SInv, Paths, Path, CallsComplete
<1>. QED BY <1>1, ServerInductive, PTL
=============================================================================
