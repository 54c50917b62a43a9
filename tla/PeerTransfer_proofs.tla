------------------------ MODULE PeerTransfer_proofs ------------------------
(***************************************************************************)
(* Theorems about PeerTransfer for any number of clients, ports and files. *)
(***************************************************************************)
EXTENDS PeerTransfer, SequenceTheorems, TLAPS

(* What the variables hold.                                                *)
Byte == {"0", "1", "2", NUL} \cup Ascii \cup Multi
Listener == {"off", "bound", "waiting", "request", "send", "close"}
Stages == {"idle", "ask", "connect", "send", "status", "content", "save", "finally",
           "done", "dead", "gone"}

UserTypes ==
  /\ mode \in Modes
  /\ entry \in [Name -> Port \cup {Nil}] /\ port \in [Name -> Port \cup {Nil}]
  /\ lst \in [Name -> Listener] /\ told \in [Name -> BOOLEAN]
  /\ queue \in [Name -> Seq(Fetcher)]
  /\ serving \in [Name -> Fetcher \cup {Nil}]
  /\ out \in [Name -> Seq(Byte)]
  /\ \A u \in Name : /\ serving[u] \in Fetcher <=> lst[u] \in {"request", "send"}
                     /\ port[u] = Nil <=> lst[u] = "off"
                     /\ Len(queue[u]) <= mode.backlog

FetcherTypes ==
  /\ stage \in [Fetcher -> Stages]
  /\ asked \in [Fetcher -> Name \cup {Nil}] /\ addr \in [Fetcher -> Port \cup {Nil}]
  /\ socketC \in [Fetcher -> {"unbound", "None", "open"}]
  /\ peer \in [Fetcher -> Name \cup {Nil}]
  /\ pipe \in [Fetcher -> Seq(Byte)] /\ text \in [Fetcher -> Seq(Byte)]
  /\ ended \in [Fetcher -> {"no", "eof", "reset"}]
  /\ local \in [Fetcher -> Seq(Byte) \cup {Nil}]
  /\ result \in [Fetcher -> {Nil, "OK", "ERROR", "USER_ERROR", "raised"}]
  /\ \A f \in Fetcher : /\ peer[f] \in Name <=> socketC[f] = "open"
                        /\ stage[f] # "idle" => asked[f] \in Name

(* A fetcher is in the queue of its peer or served by it, once.  What waits *)
(* has been sent nothing.                                                   *)
Asking(f) == stage[f] \in {"idle", "ask", "connect"}
Served(f) == peer[f] \in Name /\ serving[peer[f]] = f /\ lst[peer[f]] = "send"
Unread(f) == pipe[f] = << >> /\ stage[f] \notin {"content", "save"}
Waiting(u) ==
  /\ \A i \in 1 .. Len(queue[u]) : /\ peer[queue[u][i]] = u /\ queue[u][i] # serving[u]
                                   /\ Unread(queue[u][i])
  /\ \A i, j \in 1 .. Len(queue[u]) : queue[u][i] = queue[u][j] => i = j
Serving(u) ==
  /\ serving[u] \in Fetcher => peer[serving[u]] = u
  /\ lst[u] = "request" => Unread(serving[u])
  /\ lst[u] = "send" => stage[serving[u]] # "send"
Fetching(f) ==
  /\ Asking(f) => peer[f] = Nil
  /\ stage[f] \in {"send", "status", "content", "save"} => peer[f] \in Name
Connections == /\ \A u \in Name : Waiting(u) /\ Serving(u)
               /\ \A f \in Fetcher : Fetching(f)

(* What was sent to a fetcher is the beginning of one reply of its peer: s  *)
(* is in the reply w after its first k bytes.                               *)
Within(w, k, s) == k + Len(s) <= Len(w) /\ \A i \in 1 .. Len(s) : s[i] = w[k + i]
Whole(u) == <<"0", NUL>> \o Text(u) \o <<NUL>>
InStatus(f) ==
  \E w \in Reply(peer[f]) : /\ Within(w, 0, pipe[f])
                            /\ Served(f) => Within(w, Len(pipe[f]), out[peer[f]])
InContent(f) ==
  LET w == Whole(peer[f])
      k == 2 + Len(text[f])
  IN  /\ Within(w, 2, text[f]) /\ Within(w, k, pipe[f])
      /\ Served(f) => Within(w, k + Len(pipe[f]), out[peer[f]])
Stream(f) ==
  /\ Asking(f) \/ stage[f] = "send" => pipe[f] = << >>
  /\ Asking(f) \/ stage[f] \in {"send", "status"} => text[f] = << >> /\ local[f] = Nil
  /\ stage[f] = "status" => InStatus(f)
  /\ stage[f] = "content" => InContent(f)
  /\ stage[f] = "save" => text[f] = Text(peer[f])
  /\ local[f] # Nil => local[f] = Text(peer[f])
  /\ result[f] = "OK" => local[f] # Nil
Streams == \A f \in Fetcher : Stream(f)

(* Where ports are not used again, the port a user is published on, and the *)
(* one a fetcher was given, are nobody else's.                              *)
Ports ==
  ~mode.reuse =>
    /\ \A u, v \in Name : entry[v] # Nil /\ port[u] = entry[v] => u = v
    /\ \A f \in Fetcher :
         /\ stage[f] = "connect" => \A u \in Name : port[u] = addr[f] => u = asked[f]
         /\ peer[f] # Nil => peer[f] = asked[f]
    /\ \A f \in Fetcher : stage[f] = "connect" => addr[f] # Nil

PInv == UserTypes /\ FetcherTypes /\ Connections /\ Streams /\ Ports

-----------------------------------------------------------------------------
(* Replies, and what of them is on its way.                                *)

\* The reply with a file in it, byte by byte.
LEMMA WholeBytes ==
  ASSUME NEW u \in Name
  PROVE  /\ Text(u) \in Seq(Ascii \cup Multi) /\ Len(Text(u)) \in Nat
         /\ Whole(u) \in Seq(Byte) /\ Len(Whole(u)) = Len(Text(u)) + 3
         /\ Whole(u)[1] = "0" /\ Whole(u)[2] = NUL /\ Whole(u)[Len(Text(u)) + 3] = NUL
         /\ \A i \in 1 .. Len(Text(u)) : Whole(u)[2 + i] = Text(u)[i]
<1>1. Text(u) \in Seq(Ascii \cup Multi)
  <2>1. Content[u] \in Seq(Ascii \cup Multi \cup {CR, CRLF}) /\ LF \in Ascii
    BY TransferAssumption
  <2>2. \A i \in 1 .. Len(Content[u]) : Text(u)[i] \in Ascii \cup Multi
    BY <2>1 DEF Text
  <2>. QED BY <2>1, <2>2 DEF Text
<1>2. Text(u) \in Seq(Byte) /\ Len(Text(u)) \in Nat
  BY <1>1 DEF Byte
<1>. DEFINE n == Len(Text(u))
            s == <<"0", NUL>> \o Text(u)
<1>3. <<"0", NUL>> \in Seq(Byte) /\ <<NUL>> \in Seq(Byte)
  BY DEF Byte
<1>4. /\ s \in Seq(Byte) /\ Len(s) = n + 2 /\ s[1] = "0" /\ s[2] = NUL
      /\ \A i \in 1 .. n : s[2 + i] = Text(u)[i]
  BY <1>2, <1>3
<1>. HIDE DEF s
<1>5. /\ s \o <<NUL>> \in Seq(Byte) /\ Len(s \o <<NUL>>) = n + 3
      /\ \A i \in 1 .. n + 2 : (s \o <<NUL>>)[i] = s[i]
      /\ (s \o <<NUL>>)[n + 3] = NUL
  BY <1>2, <1>3, <1>4
<1>6. Whole(u) = s \o <<NUL>>
  BY DEF Whole, s
<1>. QED BY <1>1, <1>2, <1>4, <1>5, <1>6

\* What a reply is made of.
LEMMA ReplyBytes ==
  ASSUME NEW u \in Name
  PROVE  /\ Reply(u) = {<<"1", NUL>>, <<"2", NUL>>, Whole(u)}
         /\ Reply(u) \subseteq Seq(Byte)
<1>1. Reply(u) = {<<"1", NUL>>, <<"2", NUL>>, Whole(u)}
  BY DEF Reply, Whole
<1>2. <<"1", NUL>> \in Seq(Byte) /\ <<"2", NUL>> \in Seq(Byte)
  BY DEF Byte
<1>. QED BY <1>1, <1>2, WholeBytes

\* The byte that comes next is the next of the reply.
LEMMA NextByte ==
  ASSUME NEW w \in Seq(Byte), NEW k \in Nat, NEW s \in Seq(Byte), s # << >>, Within(w, k, s)
  PROVE  /\ Head(s) = w[k + 1] /\ Head(s) \in Byte /\ k + 1 <= Len(w)
         /\ Tail(s) \in Seq(Byte) /\ Len(Tail(s)) = Len(s) - 1 /\ Within(w, k + 1, Tail(s))
<1>1. Head(s) = s[1] /\ 1 \in 1 .. Len(s) /\ Len(s) \in Nat /\ Len(w) \in Nat
  OBVIOUS
<1>2. Tail(s) \in Seq(Byte) /\ Len(Tail(s)) = Len(s) - 1
  OBVIOUS
<1>3. ASSUME NEW i \in 1 .. Len(Tail(s)) PROVE Tail(s)[i] = w[k + 1 + i]
  <2>1. Tail(s)[i] = s[i + 1] /\ i + 1 \in 1 .. Len(s)
    BY <1>1, <1>2
  <2>. QED BY <2>1 DEF Within
<1>. QED BY <1>1, <1>2, <1>3 DEF Within

\* Where the next byte is, counted from both ends.
LEMMA Sums ==
  ASSUME NEW n \in Nat, NEW m \in Nat
  PROVE  /\ 2 + (n + 1) = 2 + n + 1 /\ 2 + (n + 1) + (m - 1) = 2 + n + m
         /\ 2 + (m - 2) = m /\ 0 + m = m
<1>. QED OBVIOUS

\* A string of one digit, and what follows it.
LEMMA TwoBytes ==
  ASSUME NEW s \in Seq(Byte), Len(s) >= 2
  PROVE  /\ s # << >> /\ Tail(s) \in Seq(Byte) /\ Tail(s) # << >>
         /\ Tail(Tail(s)) \in Seq(Byte) /\ Len(Tail(Tail(s))) = Len(s) - 2
<1>1. \A t \in Seq(Byte) : Len(t) >= 1 => /\ t # << >> /\ Tail(t) \in Seq(Byte)
                                          /\ Len(Tail(t)) = Len(t) - 1
  OBVIOUS
<1>2. Len(s) \in Nat /\ s # << >> /\ Tail(s) \in Seq(Byte) /\ Len(Tail(s)) = Len(s) - 1
  BY <1>1
<1>. DEFINE t == Tail(s)
<1>. HIDE DEF t
<1>3. t \in Seq(Byte) /\ Len(t) = Len(s) - 1 /\ Len(t) >= 1
  BY <1>2 DEF t
<1>4. t # << >> /\ Tail(t) \in Seq(Byte) /\ Len(Tail(t)) = Len(s) - 2
  <2>1. t # << >> /\ Tail(t) \in Seq(Byte) /\ Len(Tail(t)) = Len(t) - 1
    BY <1>1, <1>3, Zenon
  <2>2. Len(t) - 1 = Len(s) - 2
    BY <1>2, <1>3
  <2>. QED BY <2>1, <2>2
<1>. QED BY <1>2, <1>4 DEF t

\* A string of one digit is the first of a reply.
LEMMA NextTwo ==
  ASSUME NEW w \in Seq(Byte), NEW s \in Seq(Byte), Len(s) >= 2, Within(w, 0, s)
  PROVE  Head(s) = w[1] /\ Within(w, 2, Tail(Tail(s)))
<1>1. s # << >> /\ Tail(s) \in Seq(Byte) /\ Tail(s) # << >>
  BY TwoBytes
<1>2. Head(s) = w[0 + 1] /\ Within(w, 0 + 1, Tail(s))
  BY <1>1, NextByte
<1>3. Within(w, 1, Tail(s))
  BY <1>2
<1>4. Within(w, 1 + 1, Tail(Tail(s)))
  BY <1>1, <1>3, NextByte
<1>. QED BY <1>2, <1>4

\* A byte that is read continues what was read.
LEMMA ReadByte ==
  ASSUME NEW w \in Seq(Byte), NEW k \in Nat, NEW s \in Seq(Byte), NEW b \in Byte,
         Within(w, k, s), k + Len(s) + 1 <= Len(w), b = w[k + Len(s) + 1]
  PROVE  Append(s, b) \in Seq(Byte) /\ Len(Append(s, b)) = Len(s) + 1 /\ Within(w, k, Append(s, b))
<1>1. Append(s, b) \in Seq(Byte) /\ Len(Append(s, b)) = Len(s) + 1 /\ Len(s) \in Nat
  OBVIOUS
<1>2. ASSUME NEW i \in 1 .. Len(s) + 1 PROVE Append(s, b)[i] = w[k + i]
  <2>1. CASE i = Len(s) + 1
    BY <2>1
  <2>2. CASE i \in 1 .. Len(s)
    BY <2>2 DEF Within
  <2>. QED BY <1>1, <2>1, <2>2
<1>. QED BY <1>1, <1>2 DEF Within

\* A byte that is sent goes from what is to be sent to what is on its way.
LEMMA SentByte ==
  ASSUME NEW w \in Seq(Byte), NEW k \in Nat, NEW s \in Seq(Byte), NEW o \in Seq(Byte), o # << >>,
         Within(w, k, s), Within(w, k + Len(s), o)
  PROVE  /\ Append(s, Head(o)) \in Seq(Byte)
         /\ Within(w, k, Append(s, Head(o)))
         /\ Within(w, k + Len(Append(s, Head(o))), Tail(o))
<1>1. Len(s) \in Nat
  OBVIOUS
<1>2. /\ Head(o) = w[k + Len(s) + 1] /\ Head(o) \in Byte /\ k + Len(s) + 1 <= Len(w)
      /\ Within(w, k + Len(s) + 1, Tail(o))
  BY <1>1, NextByte
<1>3. Len(Append(s, Head(o))) = Len(s) + 1
  BY <1>2
<1>4. Append(s, Head(o)) \in Seq(Byte) /\ Within(w, k, Append(s, Head(o)))
  BY <1>1, <1>2, ReadByte
<1>5. k + Len(Append(s, Head(o))) = k + Len(s) + 1
  BY <1>1, <1>3
<1>. QED BY <1>2, <1>4, <1>5

\* What a file's bytes are, and where the NUL after them is.
LEMMA ContentByte ==
  ASSUME NEW u \in Name, NEW t \in Seq(Byte), NEW p \in Seq(Byte), p # << >>,
         Within(Whole(u), 2, t), Within(Whole(u), 2 + Len(t), p)
  PROVE  /\ Head(p) \in Ascii \cup Multi \cup {NUL}
         /\ Head(p) = NUL => t = Text(u)
<1>. DEFINE w == Whole(u)
            n == Len(Text(u))
<1>1. /\ w \in Seq(Byte) /\ Len(w) = n + 3 /\ n \in Nat /\ w[n + 3] = NUL
      /\ \A i \in 1 .. n : w[2 + i] = Text(u)[i]
      /\ Text(u) \in Seq(Ascii \cup Multi)
  BY WholeBytes
<1>2. Len(t) \in Nat
  OBVIOUS
<1>3. Head(p) = w[2 + Len(t) + 1] /\ 2 + Len(t) + 1 <= Len(w)
  <2>. HIDE DEF w
  <2>. QED BY <1>1, <1>2, NextByte DEF w
<1>. HIDE DEF w
<1>4. CASE Len(t) = n
  <2>1. \A i \in 1 .. n : t[i] = Text(u)[i]
    BY <1>1, <1>4 DEF Within, w
  <2>2. t = Text(u)
    <3>1. Text(u) \in Seq(Byte)
      BY <1>1 DEF Byte
    <3>. QED BY <3>1, <1>4, <2>1, SeqEqual
  <2>. QED BY <1>1, <1>2, <1>3, <1>4, <2>2
<1>5. CASE Len(t) < n
  <2>1. Len(t) + 1 \in 1 .. n
    BY <1>1, <1>2, <1>5
  <2>2. Head(p) = Text(u)[Len(t) + 1]
    BY <1>1, <1>2, <1>3, <2>1
  <2>3. Head(p) \in Ascii \cup Multi
    BY <1>1, <2>1, <2>2
  <2>. QED BY <2>3, TransferAssumption
<1>. QED BY <1>1, <1>2, <1>3, <1>4, <1>5

-----------------------------------------------------------------------------
(* The steps keep the invariant.                                           *)

\* Every step keeps the users' types.
LEMMA UserTypesInductive ==
  ASSUME UserTypes, FetcherTypes, [Next]_vars
  PROVE  UserTypes'
<1>. USE TransferAssumption DEF UserTypes, Listener, users, fetchers, reading
<1>1. ASSUME NEW u \in Name, Publish(u) PROVE UserTypes'
  BY <1>1 DEF Publish
<1>2. ASSUME NEW u \in Name, Leave(u) PROVE UserTypes'
  BY <1>2 DEF Leave, End
<1>3. ASSUME NEW u \in Name, Vanish(u) PROVE UserTypes'
  BY <1>3 DEF Vanish, End
<1>4. ASSUME NEW u \in Name, Recover(u) PROVE UserTypes'
  BY <1>4 DEF Recover
<1>5. ASSUME NEW u \in Name, Listen(u) PROVE UserTypes'
  BY <1>5 DEF Listen
<1>6. ASSUME NEW u \in Name, Accept(u) PROVE UserTypes'
  BY <1>6 DEF Accept
<1>7. ASSUME NEW u \in Name, ReadRequest(u) PROVE UserTypes'
  BY <1>7, ReplyBytes DEF ReadRequest
<1>8. ASSUME NEW u \in Name, Send(u) PROVE UserTypes'
  BY <1>8 DEF Send
<1>9. ASSUME NEW u \in Name, CloseClient(u) PROVE UserTypes'
  BY <1>9 DEF CloseClient, End
<1>10. ASSUME NEW u \in Name, SendFails(u) PROVE UserTypes'
  BY <1>10 DEF SendFails
<1>11. ASSUME NEW u \in Name, Wake(u) PROVE UserTypes'
  BY <1>11 DEF Wake
<1>12. ASSUME NEW u \in Name, Close(u) PROVE UserTypes'
  BY <1>12 DEF Close, End
<1>13. ASSUME NEW f \in Fetcher, NEW u \in Name, GetFile(f, u) PROVE UserTypes'
  BY <1>13 DEF GetFile, Goto
<1>14. ASSUME NEW f \in Fetcher, Ask(f) PROVE UserTypes'
  BY <1>14 DEF Ask, Goto, Return
<1>15. ASSUME NEW f \in Fetcher, Connect(f) PROVE UserTypes'
  <2>1. CASE UNCHANGED queue
    BY <1>15, <2>1 DEF Connect
  <2>2. ASSUME NEW u \in Name, ~Full(u), queue' = [queue EXCEPT ![u] = Append(@, f)]
        PROVE  UserTypes'
    <3>1. queue[u] \in Seq(Fetcher) /\ Len(queue[u]) + 1 <= mode.backlog
      BY <2>2 DEF Full
    <3>2. Append(queue[u], f) \in Seq(Fetcher) /\ Len(Append(queue[u], f)) = Len(queue[u]) + 1
      BY <3>1
    <3>3. UNCHANGED <<mode, entry, port, lst, told, serving, out>>
      BY <1>15 DEF Connect
    <3>. QED BY <2>2, <3>1, <3>2, <3>3
  <2>3. \/ UNCHANGED queue
        \/ \E u \in Name : ~Full(u) /\ queue' = [queue EXCEPT ![u] = Append(@, f)]
    BY <1>15 DEF Connect, Listening
  <2>. QED BY <2>1, <2>2, <2>3
<1>16. ASSUME NEW f \in Fetcher, SendRequest(f) PROVE UserTypes'
  BY <1>16 DEF SendRequest, Goto
<1>17. ASSUME NEW f \in Fetcher, ReadStatus(f) PROVE UserTypes'
  BY <1>17 DEF ReadStatus, Goto, Return
<1>18. ASSUME NEW f \in Fetcher, ReadContent(f) PROVE UserTypes'
  BY <1>18 DEF ReadContent, Goto, Return, Took
<1>19. ASSUME NEW f \in Fetcher, ReadReset(f) PROVE UserTypes'
  BY <1>19 DEF ReadReset, Goto, Return
<1>20. ASSUME NEW f \in Fetcher, Save(f) PROVE UserTypes'
  BY <1>20 DEF Save, Goto, Return
<1>21. ASSUME NEW f \in Fetcher, Finally(f) PROVE UserTypes'
  BY <1>21 DEF Finally, Goto, Drop
<1>22. ASSUME NEW f \in Fetcher, Killed(f) PROVE UserTypes'
  BY <1>22 DEF Killed, Goto, Drop
<1>23. CASE UNCHANGED vars
  BY <1>23 DEF vars
<1>24. ASSUME NEW u \in Name, RequestRaises(u) PROVE UserTypes'
  BY <1>24 DEF RequestRaises, End
<1>. QED BY <1>1, <1>2, <1>3, <1>4, <1>5, <1>6, <1>7, <1>8, <1>9, <1>10, <1>11, <1>12, <1>13,
     <1>14, <1>15, <1>16, <1>17, <1>18, <1>19, <1>20, <1>21, <1>22, <1>23, <1>24
            DEF Next, ListenerStep, FetcherStep

\* Every step keeps the fetchers' types.
LEMMA FetcherTypesInductive ==
  ASSUME UserTypes, FetcherTypes, Connections, Streams, [Next]_vars
  PROVE  FetcherTypes'
<1>. USE TransferAssumption DEF FetcherTypes, Stages, users, fetchers, reading
<1>1. ASSUME NEW u \in Name, Publish(u) PROVE FetcherTypes'
  BY <1>1 DEF Publish
<1>2. ASSUME NEW u \in Name, Leave(u) PROVE FetcherTypes'
  BY <1>2 DEF Leave, End
<1>3. ASSUME NEW u \in Name, Vanish(u) PROVE FetcherTypes'
  BY <1>3 DEF Vanish, End
<1>4. ASSUME NEW u \in Name, Recover(u) PROVE FetcherTypes'
  BY <1>4 DEF Recover
<1>5. ASSUME NEW u \in Name, Listen(u) PROVE FetcherTypes'
  BY <1>5 DEF Listen
<1>6. ASSUME NEW u \in Name, Accept(u) PROVE FetcherTypes'
  BY <1>6 DEF Accept
<1>7. ASSUME NEW u \in Name, ReadRequest(u) PROVE FetcherTypes'
  BY <1>7 DEF ReadRequest
<1>8. ASSUME NEW u \in Name, Send(u) PROVE FetcherTypes'
  <2>1. out[u] \in Seq(Byte) /\ out[u] # << >> /\ serving[u] \in Fetcher
    BY <1>8 DEF Send, UserTypes
  <2>2. Append(pipe[serving[u]], Head(out[u])) \in Seq(Byte)
    BY <2>1
  <2>3. /\ pipe' = [pipe EXCEPT ![serving[u]] = IF Left(serving[u]) THEN << >> ELSE Append(@, Head(out[u]))]
        /\ UNCHANGED <<mode, stage, asked, addr, socketC, peer, ended, text, local, result>>
    BY <1>8 DEF Send
  <2>. QED BY <2>1, <2>2, <2>3
<1>9. ASSUME NEW u \in Name, CloseClient(u) PROVE FetcherTypes'
  BY <1>9 DEF CloseClient, End
<1>10. ASSUME NEW u \in Name, SendFails(u) PROVE FetcherTypes'
  BY <1>10 DEF SendFails
<1>11. ASSUME NEW u \in Name, Wake(u) PROVE FetcherTypes'
  BY <1>11 DEF Wake
<1>12. ASSUME NEW u \in Name, Close(u) PROVE FetcherTypes'
  BY <1>12 DEF Close, End
<1>13. ASSUME NEW f \in Fetcher, NEW u \in Name, GetFile(f, u) PROVE FetcherTypes'
  BY <1>13 DEF GetFile, Goto
<1>14. ASSUME NEW f \in Fetcher, Ask(f) PROVE FetcherTypes'
  <2>1. asked[f] \in Name /\ entry[asked[f]] \in Port \cup {Nil}
    BY <1>14 DEF Ask, UserTypes
  <2>2. CASE Goto(f, "connect") /\ UNCHANGED result
    BY <1>14, <2>1, <2>2 DEF Ask, Goto
  <2>3. CASE Return(f, "USER_ERROR")
    BY <1>14, <2>1, <2>3 DEF Ask, Return, Goto
  <2>. QED BY <1>14, <2>2, <2>3 DEF Ask
<1>15. ASSUME NEW f \in Fetcher, Connect(f) PROVE FetcherTypes'
  <2>1. UNCHANGED <<asked, addr, pipe, ended, text, local>> /\ asked[f] \in Name
    BY <1>15 DEF Connect
  <2>2. ASSUME NEW u \in Name, peer' = [peer EXCEPT ![f] = u], socketC' = [socketC EXCEPT ![f] = "open"],
               Goto(f, "send"), UNCHANGED result
        PROVE  FetcherTypes'
    BY <2>1, <2>2 DEF Goto
  <2>3. CASE UNCHANGED peer /\ socketC' = [socketC EXCEPT ![f] = "None"] /\ Return(f, "USER_ERROR")
    <3>1. peer[f] \notin Name
      BY <1>15 DEF Connect, Connections, Fetching, Asking
    <3>. QED BY <2>1, <2>3, <3>1 DEF Goto, Return
  <2>4. \/ \E u \in Name : /\ peer' = [peer EXCEPT ![f] = u] /\ socketC' = [socketC EXCEPT ![f] = "open"]
                           /\ Goto(f, "send") /\ UNCHANGED result
        \/ UNCHANGED peer /\ socketC' = [socketC EXCEPT ![f] = "None"] /\ Return(f, "USER_ERROR")
    BY <1>15 DEF Connect, Listening
  <2>. QED BY <2>2, <2>3, <2>4
<1>16. ASSUME NEW f \in Fetcher, SendRequest(f) PROVE FetcherTypes'
  BY <1>16 DEF SendRequest, Goto
<1>17. ASSUME NEW f \in Fetcher, ReadStatus(f) PROVE FetcherTypes'
  <2>1. /\ pipe' = [pipe EXCEPT ![f] = Tail(Tail(@))] /\ Len(pipe[f]) >= 2 /\ stage[f] = "status"
        /\ UNCHANGED <<asked, addr, socketC, peer, ended, text, local>>
    BY <1>17 DEF ReadStatus
  <2>2. Tail(Tail(pipe[f])) \in Seq(Byte)
    BY <2>1, TwoBytes
  <2>3. \/ Goto(f, "content") /\ UNCHANGED result
        \/ \E r \in {"ERROR", "USER_ERROR"} : Return(f, r)
    BY <1>17 DEF ReadStatus
  <2>4. CASE Goto(f, "content") /\ UNCHANGED result
    BY <2>1, <2>2, <2>4 DEF Goto
  <2>5. ASSUME NEW r \in {"ERROR", "USER_ERROR"}, Return(f, r) PROVE FetcherTypes'
    BY <2>1, <2>2, <2>5 DEF Goto, Return
  <2>. QED BY <2>3, <2>4, <2>5
<1>18. ASSUME NEW f \in Fetcher, ReadContent(f) PROVE FetcherTypes'
  <2>1. /\ stage[f] = "content" /\ pipe[f] # << >> /\ pipe[f] \in Seq(Byte)
        /\ pipe' = [pipe EXCEPT ![f] = Tail(@)] /\ Tail(pipe[f]) \in Seq(Byte)
        /\ UNCHANGED <<asked, addr, socketC, peer, ended, local>>
    BY <1>18 DEF ReadContent, Took
  <2>2. Head(pipe[f]) \in Ascii \cup Multi \cup {NUL}
    <3>1. peer[f] \in Name /\ text[f] \in Seq(Byte)
      BY <2>1 DEF Connections, Fetching
    <3>. QED BY <2>1, <3>1, ContentByte DEF Streams, Stream, InContent
  <2>3. CASE Goto(f, "save") /\ UNCHANGED <<text, result>>
    BY <2>1, <2>3 DEF Goto
  <2>4. CASE text' = [text EXCEPT ![f] = Append(@, Head(pipe[f]))] /\ UNCHANGED <<stage, result>>
    <3>1. Append(text[f], Head(pipe[f])) \in Seq(Byte)
      BY <2>1
    <3>. QED BY <2>1, <2>4, <3>1
  <2>5. CASE Return(f, "USER_ERROR") /\ UNCHANGED text
    BY <2>1, <2>5 DEF Goto, Return
  <2>. QED BY <1>18, <2>2, <2>3, <2>4, <2>5 DEF ReadContent
<1>19. ASSUME NEW f \in Fetcher, ReadReset(f) PROVE FetcherTypes'
  BY <1>19 DEF ReadReset, Goto, Return
<1>20. ASSUME NEW f \in Fetcher, Save(f) PROVE FetcherTypes'
  <2>1. CASE local' = [local EXCEPT ![f] = text[f]] /\ Return(f, "OK")
    BY <1>20, <2>1 DEF Save, Goto, Return
  <2>2. CASE Return(f, "USER_ERROR") /\ UNCHANGED local
    BY <1>20, <2>2 DEF Save, Goto, Return
  <2>. QED BY <1>20, <2>1, <2>2 DEF Save
<1>21. ASSUME NEW f \in Fetcher, Finally(f) PROVE FetcherTypes'
  BY <1>21 DEF Finally, Goto, Drop
<1>22. ASSUME NEW f \in Fetcher, Killed(f) PROVE FetcherTypes'
  <2>1. CASE stage[f] = "send" /\ Goto(f, "dead")
    BY <1>22, <2>1 DEF Killed, Goto, Drop
  <2>2. CASE stage[f] \in {"status", "content"} /\ Goto(f, "gone")
    BY <1>22, <2>2 DEF Killed, Goto, Drop
  <2>. QED BY <1>22, <2>1, <2>2 DEF Killed
<1>23. CASE UNCHANGED vars
  BY <1>23 DEF vars
<1>24. ASSUME NEW u \in Name, RequestRaises(u) PROVE FetcherTypes'
  BY <1>24 DEF RequestRaises, End
<1>. QED BY <1>1, <1>2, <1>3, <1>4, <1>5, <1>6, <1>7, <1>8, <1>9, <1>10, <1>11, <1>12, <1>13,
     <1>14, <1>15, <1>16, <1>17, <1>18, <1>19, <1>20, <1>21, <1>22, <1>23, <1>24
            DEF Next, ListenerStep, FetcherStep

\* A fetcher that was never served is in no queue; one that is served is in none.
LEMMA Elsewhere ==
  ASSUME UserTypes, Connections, NEW f \in Fetcher
  PROVE  /\ \A u \in Name : \A i \in 1 .. Len(queue[u]) : queue[u][i] \in Fetcher
         /\ peer[f] = Nil => \A u \in Name : /\ serving[u] # f
                                             /\ \A i \in 1 .. Len(queue[u]) : queue[u][i] # f
         /\ \A u, v \in Name : serving[v] = f => \A i \in 1 .. Len(queue[u]) : queue[u][i] # f
         /\ \A u, v \in Name : serving[v] = f /\ serving[u] = f => u = v
<1>. USE TransferAssumption
<1>1. \A u \in Name : queue[u] \in Seq(Fetcher)
  BY DEF UserTypes
<1>2. \A u \in Name : \A i \in 1 .. Len(queue[u]) : queue[u][i] \in Fetcher
  BY <1>1
<1>3. \A u \in Name : \A i \in 1 .. Len(queue[u]) : peer[queue[u][i]] = u /\ queue[u][i] # serving[u]
  BY DEF Connections, Waiting
<1>4. \A u \in Name : serving[u] = f => peer[f] = u
  BY DEF Connections, Serving
<1>. QED BY <1>2, <1>3, <1>4

\* A byte of the content is read, or it was the last.
LEMMA ContentRead ==
  ASSUME FetcherTypes, Connections, Streams, NEW f \in Fetcher, ReadContent(f)
  PROVE  UNCHANGED stage \/ \E s \in {"save", "finally"} : stage' = [stage EXCEPT ![f] = s]
<1>1. stage[f] = "content" /\ pipe[f] # << >>
  BY DEF ReadContent
<1>2. peer[f] \in Name /\ text[f] \in Seq(Byte) /\ pipe[f] \in Seq(Byte)
  BY <1>1 DEF Connections, Fetching, FetcherTypes
<1>3. Head(pipe[f]) \in Ascii \cup Multi \cup {NUL}
  BY <1>1, <1>2, ContentByte DEF Streams, Stream, InContent
<1>. QED BY <1>3 DEF ReadContent, Goto, Return

\* A step of a fetcher that asks nobody new.
LEMMA FetcherMoves ==
  ASSUME UserTypes, FetcherTypes, Connections, NEW f \in Fetcher,
         UNCHANGED <<queue, serving, lst, peer>>,
         \A g \in Fetcher : g # f => stage'[g] = stage[g] /\ pipe'[g] = pipe[g],
         Unread(f) => Unread(f)',
         Asking(f)' => Asking(f),
         stage'[f] # "send",
         stage'[f] \in {"status", "content", "save"} => stage[f] \in {"send", "status", "content", "save"}
  PROVE  Connections'
<1>1. ASSUME NEW g \in Fetcher PROVE Fetching(g)'
  BY <1>1 DEF Connections, Fetching, Asking
<1>2. ASSUME NEW g \in Fetcher, Unread(g) PROVE Unread(g)'
  BY <1>2 DEF Unread
<1>3. ASSUME NEW u \in Name PROVE Waiting(u)'
  BY <1>2, Elsewhere DEF Connections, Waiting
<1>4. ASSUME NEW u \in Name PROVE Serving(u)'
  <2>1. lst[u] \in {"request", "send"} => serving[u] \in Fetcher
    BY DEF UserTypes
  <2>. QED BY <1>2, <2>1 DEF Connections, Serving
<1>. QED BY <1>1, <1>3, <1>4 DEF Connections

\* The listener takes the first of its queue.
LEMMA QueueMoves ==
  ASSUME UserTypes, Connections, NEW u \in Name, queue[u] # << >>, lst'[u] = "request",
         serving'[u] = Head(queue[u]), queue'[u] = Tail(queue[u]), UNCHANGED <<stage, peer, pipe>>
  PROVE  Waiting(u)' /\ Serving(u)'
<1>. DEFINE q == queue[u]
<1>1. q \in Seq(Fetcher) /\ q # << >> /\ Waiting(u)
  BY DEF UserTypes, Connections
<1>. HIDE DEF q
<1>2. /\ Len(q) \in Nat /\ 1 \in 1 .. Len(q) /\ Head(q) = q[1] /\ Len(Tail(q)) = Len(q) - 1
      /\ \A i \in 1 .. Len(Tail(q)) : Tail(q)[i] = q[i + 1] /\ i + 1 \in 1 .. Len(q)
  BY <1>1
<1>3. /\ \A i \in 1 .. Len(q) : peer[q[i]] = u /\ Unread(q[i])
      /\ \A i, j \in 1 .. Len(q) : q[i] = q[j] => i = j
  BY <1>1 DEF Waiting, q
<1>4. /\ \A i \in 1 .. Len(Tail(q)) : peer[Tail(q)[i]] = u /\ Unread(Tail(q)[i]) /\ Tail(q)[i] # q[1]
      /\ \A i, j \in 1 .. Len(Tail(q)) : Tail(q)[i] = Tail(q)[j] => i = j
  BY <1>2, <1>3
<1>5. queue'[u] = Tail(q) /\ serving'[u] = q[1] /\ peer[q[1]] = u /\ Unread(q[1])
  BY <1>2, <1>3 DEF q
<1>6. Waiting(u)'
  <2>. DEFINE r == Tail(q)
  <2>1. /\ \A i \in 1 .. Len(r) : /\ peer[r[i]] = u /\ pipe[r[i]] = << >>
                                  /\ stage[r[i]] \notin {"content", "save"} /\ r[i] # q[1]
        /\ \A i, j \in 1 .. Len(r) : r[i] = r[j] => i = j
    BY <1>4 DEF Unread
  <2>2. queue'[u] = r
    BY <1>5
  <2>. HIDE DEF r
  <2>3. \A i \in 1 .. Len(r) : /\ peer'[r[i]] = u /\ r[i] # serving'[u]
                               /\ pipe'[r[i]] = << >> /\ stage'[r[i]] \notin {"content", "save"}
    BY <1>5, <2>1
  <2>. QED BY <2>1, <2>2, <2>3 DEF Waiting, Unread
<1>7. Serving(u)'
  BY <1>5 DEF Serving, Unread
<1>. QED BY <1>6, <1>7

\* A connection is put at the end of a queue.
LEMMA QueueGrows ==
  ASSUME UserTypes, Connections, NEW u \in Name, NEW f \in Fetcher, peer[f] = Nil,
         queue'[u] = Append(queue[u], f), UNCHANGED serving, peer'[f] = u, Unread(f)',
         \A g \in Fetcher : g # f => peer'[g] = peer[g] /\ (Unread(g) => Unread(g)')
  PROVE  Waiting(u)'
<1>. DEFINE q == queue[u]
<1>1. q \in Seq(Fetcher) /\ Waiting(u)
  BY DEF UserTypes, Connections
<1>2. \A i \in 1 .. Len(q) : q[i] \in Fetcher /\ q[i] # f
  BY Elsewhere
<1>3. /\ \A i \in 1 .. Len(q) : peer[q[i]] = u /\ Unread(q[i]) /\ q[i] # serving[u]
      /\ \A i, j \in 1 .. Len(q) : q[i] = q[j] => i = j
  BY <1>1 DEF Waiting
<1>. DEFINE r == Append(q, f)
<1>. HIDE DEF q
<1>4. /\ Len(q) \in Nat /\ Len(r) = Len(q) + 1
      /\ \A i \in 1 .. Len(r) : \/ i \in 1 .. Len(q) /\ r[i] = q[i]
                                \/ i = Len(q) + 1 /\ r[i] = f
  BY <1>1
<1>5. queue'[u] = r /\ serving[u] # f
  BY Elsewhere DEF q
<1>. HIDE DEF r
<1>6. \A g \in Fetcher : Unread(g) \/ g = f => pipe'[g] = << >> /\ stage'[g] \notin {"content", "save"}
  BY DEF Unread
<1>7. \A i \in 1 .. Len(r) : /\ peer'[r[i]] = u /\ r[i] # serving[u]
                             /\ pipe'[r[i]] = << >> /\ stage'[r[i]] \notin {"content", "save"}
  BY <1>2, <1>3, <1>4, <1>5, <1>6
<1>8. \A i, j \in 1 .. Len(r) : r[i] = r[j] => i = j
  BY <1>2, <1>3, <1>4
<1>. QED BY <1>5, <1>7, <1>8 DEF Waiting, Unread

\* Every step keeps a fetcher where its connection is.
LEMMA ConnectionsInductive ==
  ASSUME UserTypes, FetcherTypes, Connections, Streams, [Next]_vars
  PROVE  Connections'
<1>. USE TransferAssumption
<1>1. ASSUME NEW u \in Name, Publish(u) PROVE Connections'
  BY <1>1 DEF Publish, UserTypes, FetcherTypes, Listener, Stages, Connections, Waiting, Serving,
       Fetching, Asking, Unread, users, fetchers, reading
<1>2. ASSUME NEW u \in Name, Leave(u) PROVE Connections'
  <2>1. queue' = [queue EXCEPT ![u] = << >>] /\ UNCHANGED <<lst, serving, stage, peer, pipe>>
    BY <1>2 DEF Leave
  <2>2. ASSUME NEW v \in Name PROVE Waiting(v)' /\ Serving(v)'
    <3>1. queue'[v] = queue[v] \/ queue'[v] = << >>
      BY <2>1 DEF UserTypes
    <3>. QED BY <2>1, <3>1 DEF Connections, Waiting, Serving, Unread
  <2>3. ASSUME NEW f \in Fetcher PROVE Fetching(f)'
    BY <2>1 DEF Connections, Fetching, Asking
  <2>. QED BY <2>2, <2>3 DEF Connections
<1>3. ASSUME NEW u \in Name, Vanish(u) PROVE Connections'
  BY <1>3, SMTT(30) DEF Vanish, End, UserTypes, FetcherTypes, Listener, Stages, Connections, Waiting,
       Serving, Fetching, Asking, Unread, users, fetchers, reading
<1>4. ASSUME NEW u \in Name, Recover(u) PROVE Connections'
  BY <1>4 DEF Recover, UserTypes, FetcherTypes, Listener, Stages, Connections, Waiting, Serving,
       Fetching, Asking, Unread, users, fetchers, reading
<1>5. ASSUME NEW u \in Name, Listen(u) PROVE Connections'
  BY <1>5 DEF Listen, UserTypes, FetcherTypes, Listener, Stages, Connections, Waiting, Serving,
       Fetching, Asking, Unread, users, fetchers, reading
<1>6. ASSUME NEW u \in Name, Accept(u) PROVE Connections'
  <2>1. /\ lst[u] = "waiting" /\ queue[u] # << >> /\ lst' = [lst EXCEPT ![u] = "request"]
        /\ serving' = [serving EXCEPT ![u] = Head(queue[u])]
        /\ queue' = [queue EXCEPT ![u] = Tail(@)] /\ UNCHANGED <<stage, peer, pipe>>
    BY <1>6 DEF Accept, fetchers, reading
  <2>2. Waiting(u)' /\ Serving(u)'
    BY <2>1, QueueMoves DEF UserTypes
  <2>3. ASSUME NEW v \in Name, v # u PROVE Waiting(v)' /\ Serving(v)'
    <3>1. queue'[v] = queue[v] /\ serving'[v] = serving[v] /\ lst'[v] = lst[v]
      BY <2>1, <2>3 DEF UserTypes
    <3>. QED BY <2>1, <3>1 DEF Connections, Waiting, Serving, Unread
  <2>4. ASSUME NEW f \in Fetcher PROVE Fetching(f)'
    BY <2>1 DEF Connections, Fetching, Asking
  <2>. QED BY <2>2, <2>3, <2>4 DEF Connections
<1>7. ASSUME NEW u \in Name, ReadRequest(u) PROVE Connections'
  BY <1>7 DEF ReadRequest, UserTypes, FetcherTypes, Listener, Stages, Connections, Waiting,
       Serving, Fetching, Asking, Unread, users, fetchers, reading
<1>8. ASSUME NEW u \in Name, Send(u) PROVE Connections'
  <2>1. /\ lst[u] = "send" /\ serving[u] \in Fetcher /\ UNCHANGED <<queue, serving, lst, stage, peer>>
        /\ \A g \in Fetcher : g # serving[u] => pipe'[g] = pipe[g]
    BY <1>8 DEF Send, UserTypes, FetcherTypes
  <2>2. ASSUME NEW v \in Name PROVE Waiting(v)'
    <3>1. \A i \in 1 .. Len(queue[v]) : pipe'[queue[v][i]] = pipe[queue[v][i]]
      BY <2>1, Elsewhere
    <3>. QED BY <2>1, <3>1 DEF Connections, Waiting, Unread
  <2>3. ASSUME NEW v \in Name PROVE Serving(v)'
    <3>1. lst[v] = "request" => serving[v] \in Fetcher /\ serving[v] # serving[u]
      BY <2>1, Elsewhere DEF UserTypes
    <3>. QED BY <2>1, <3>1 DEF Connections, Serving, Unread
  <2>4. ASSUME NEW f \in Fetcher PROVE Fetching(f)'
    BY <2>1 DEF Connections, Fetching, Asking
  <2>. QED BY <2>2, <2>3, <2>4 DEF Connections
<1>9. ASSUME NEW u \in Name, CloseClient(u) PROVE Connections'
  <2>1. /\ lst[u] = "send" /\ serving' = [serving EXCEPT ![u] = Nil] /\ UNCHANGED <<queue, stage, peer, pipe>>
        /\ \E s \in {"close", "waiting"} : lst' = [lst EXCEPT ![u] = s]
    BY <1>9 DEF CloseClient, fetchers, reading
  <2>2. ASSUME NEW v \in Name PROVE Waiting(v)' /\ Serving(v)'
    <3>1. \/ serving'[v] = serving[v] /\ lst'[v] = lst[v]
          \/ serving'[v] = Nil /\ lst'[v] \in {"close", "waiting"}
      BY <2>1 DEF UserTypes
    <3>2. \A i \in 1 .. Len(queue[v]) : queue[v][i] # Nil
      BY DEF UserTypes
    <3>. QED BY <2>1, <3>1, <3>2 DEF Connections, Waiting, Serving, Unread
  <2>3. ASSUME NEW f \in Fetcher PROVE Fetching(f)'
    BY <2>1 DEF Connections, Fetching, Asking
  <2>. QED BY <2>2, <2>3 DEF Connections
<1>10. ASSUME NEW u \in Name, SendFails(u) PROVE Connections'
  <2>1. /\ lst[u] = "send" /\ serving' = [serving EXCEPT ![u] = Nil] /\ UNCHANGED <<queue, stage, peer, pipe>>
        /\ \E s \in {"close", "waiting"} : lst' = [lst EXCEPT ![u] = s]
    BY <1>10 DEF SendFails, fetchers, reading
  <2>2. ASSUME NEW v \in Name PROVE Waiting(v)' /\ Serving(v)'
    <3>1. \/ serving'[v] = serving[v] /\ lst'[v] = lst[v]
          \/ serving'[v] = Nil /\ lst'[v] \in {"close", "waiting"}
      BY <2>1 DEF UserTypes
    <3>2. \A i \in 1 .. Len(queue[v]) : queue[v][i] # Nil
      BY DEF UserTypes
    <3>. QED BY <2>1, <3>1, <3>2 DEF Connections, Waiting, Serving, Unread
  <2>3. ASSUME NEW f \in Fetcher PROVE Fetching(f)'
    BY <2>1 DEF Connections, Fetching, Asking
  <2>. QED BY <2>2, <2>3 DEF Connections
<1>11. ASSUME NEW u \in Name, Wake(u) PROVE Connections'
  BY <1>11 DEF Wake, UserTypes, FetcherTypes, Listener, Stages, Connections, Waiting, Serving,
       Fetching, Asking, Unread, users, fetchers, reading
<1>12. ASSUME NEW u \in Name, Close(u) PROVE Connections'
  BY <1>12, SMTT(30) DEF Close, End, UserTypes, FetcherTypes, Listener, Stages, Connections, Waiting,
       Serving, Fetching, Asking, Unread, users, fetchers, reading
<1>13. ASSUME NEW f \in Fetcher, NEW u \in Name, GetFile(f, u) PROVE Connections'
  <2>1. UNCHANGED <<queue, serving, lst, peer>>
    BY <1>13 DEF GetFile, Goto, users
  <2>2. \A g \in Fetcher : g # f => stage'[g] = stage[g] /\ pipe'[g] = pipe[g]
    BY <1>13 DEF GetFile, Goto, reading, FetcherTypes
  <2>3. /\ Unread(f) => Unread(f)'
        /\ Asking(f)' => Asking(f)
        /\ stage'[f] # "send"
        /\ stage'[f] \in {"status", "content", "save"} => stage[f] \in {"send", "status", "content", "save"}
    BY <1>13 DEF GetFile, Goto, Unread, Asking, FetcherTypes, reading
  <2>. QED BY <2>1, <2>2, <2>3, FetcherMoves, Zenon
<1>14. ASSUME NEW f \in Fetcher, Ask(f) PROVE Connections'
  <2>1. UNCHANGED <<queue, serving, lst, peer>>
    BY <1>14 DEF Ask, Goto, Return, users
  <2>2. \A g \in Fetcher : g # f => stage'[g] = stage[g] /\ pipe'[g] = pipe[g]
    BY <1>14 DEF Ask, Goto, Return, reading, FetcherTypes
  <2>3. /\ Unread(f) => Unread(f)'
        /\ Asking(f)' => Asking(f)
        /\ stage'[f] # "send"
        /\ stage'[f] \in {"status", "content", "save"} => stage[f] \in {"send", "status", "content", "save"}
    BY <1>14 DEF Ask, Goto, Return, Unread, Asking, FetcherTypes, reading
  <2>. QED BY <2>1, <2>2, <2>3, FetcherMoves, Zenon
<1>15. ASSUME NEW f \in Fetcher, Connect(f) PROVE Connections'
  <2>1. stage[f] = "connect" /\ UNCHANGED <<serving, lst, pipe>> /\ pipe[f] = << >> /\ peer[f] = Nil
    BY <1>15 DEF Connect, Streams, Stream, Asking, Connections, Fetching, reading
  <2>2. ASSUME NEW u \in Name, peer' = [peer EXCEPT ![f] = u],
               queue' = [queue EXCEPT ![u] = Append(@, f)], Goto(f, "send")
        PROVE  Connections'
    <3>1. Unread(f)' /\ peer'[f] = u /\ stage'[f] = "send"
      BY <2>1, <2>2 DEF Goto, FetcherTypes, Unread
    <3>2. \A g \in Fetcher : g # f => /\ peer'[g] = peer[g] /\ stage'[g] = stage[g]
                                      /\ Unread(g) => Unread(g)'
      BY <2>1, <2>2 DEF Goto, FetcherTypes, Unread
    <3>3. queue'[u] = Append(queue[u], f)
      BY <2>2 DEF UserTypes
    <3>4. Waiting(u)'
      BY <2>1, <3>1, <3>2, <3>3, QueueGrows
    <3>5. ASSUME NEW v \in Name, v # u PROVE Waiting(v)'
      <4>1. queue'[v] = queue[v]
        BY <2>2, <3>5 DEF UserTypes
      <4>. QED BY <2>1, <3>2, <4>1, Elsewhere DEF Connections, Waiting
    <3>6. ASSUME NEW v \in Name PROVE Serving(v)'
      <4>1. serving[v] # f /\ (lst[v] \in {"request", "send"} => serving[v] \in Fetcher)
        BY <2>1, Elsewhere DEF UserTypes
      <4>. QED BY <2>1, <3>2, <4>1 DEF Connections, Serving
    <3>7. ASSUME NEW g \in Fetcher PROVE Fetching(g)'
      BY <3>1, <3>2 DEF Connections, Fetching, Asking
    <3>. QED BY <3>4, <3>5, <3>6, <3>7 DEF Connections
  <2>3. CASE UNCHANGED <<peer, queue>> /\ Goto(f, "finally")
    <3>1. \A g \in Fetcher : g # f => stage'[g] = stage[g] /\ pipe'[g] = pipe[g]
      BY <2>1, <2>3 DEF Goto, FetcherTypes
    <3>2. /\ Unread(f) => Unread(f)'
          /\ Asking(f)' => Asking(f)
          /\ stage'[f] # "send"
          /\ stage'[f] \in {"status", "content", "save"} => stage[f] \in {"send", "status", "content", "save"}
      BY <2>1, <2>3 DEF Goto, FetcherTypes, Unread, Asking
    <3>. QED BY <2>1, <2>3, <3>1, <3>2, FetcherMoves, Zenon
  <2>4. \/ \E u \in Name : /\ peer' = [peer EXCEPT ![f] = u]
                           /\ queue' = [queue EXCEPT ![u] = Append(@, f)] /\ Goto(f, "send")
        \/ UNCHANGED <<peer, queue>> /\ Goto(f, "finally")
    BY <1>15 DEF Connect, Listening, Return
  <2>. QED BY <2>2, <2>3, <2>4
<1>16. ASSUME NEW f \in Fetcher, SendRequest(f) PROVE Connections'
  <2>1. UNCHANGED <<queue, serving, lst, peer>>
    BY <1>16 DEF SendRequest, Goto, users
  <2>2. \A g \in Fetcher : g # f => stage'[g] = stage[g] /\ pipe'[g] = pipe[g]
    BY <1>16 DEF SendRequest, Goto, reading, FetcherTypes
  <2>3. /\ Unread(f) => Unread(f)'
        /\ Asking(f)' => Asking(f)
        /\ stage'[f] # "send"
        /\ stage'[f] \in {"status", "content", "save"} => stage[f] \in {"send", "status", "content", "save"}
    BY <1>16 DEF SendRequest, Goto, Unread, Asking, FetcherTypes, reading
  <2>. QED BY <2>1, <2>2, <2>3, FetcherMoves, Zenon
<1>17. ASSUME NEW f \in Fetcher, ReadStatus(f) PROVE Connections'
  <2>1. UNCHANGED <<queue, serving, lst, peer>>
    BY <1>17 DEF ReadStatus, Goto, Return, users
  <2>2. \A g \in Fetcher : g # f => stage'[g] = stage[g] /\ pipe'[g] = pipe[g]
    BY <1>17 DEF ReadStatus, Goto, Return, reading, FetcherTypes
  <2>3. /\ Unread(f) => Unread(f)'
        /\ Asking(f)' => Asking(f)
        /\ stage'[f] # "send"
        /\ stage'[f] \in {"status", "content", "save"} => stage[f] \in {"send", "status", "content", "save"}
    BY <1>17 DEF ReadStatus, Goto, Return, Unread, Asking, FetcherTypes, reading
  <2>. QED BY <2>1, <2>2, <2>3, FetcherMoves, Zenon
<1>18. ASSUME NEW f \in Fetcher, ReadContent(f) PROVE Connections'
  <2>1. UNCHANGED <<queue, serving, lst, peer>>
    BY <1>18 DEF ReadContent, users
  <2>2. /\ stage[f] = "content" /\ pipe' = [pipe EXCEPT ![f] = Tail(@)]
        /\ UNCHANGED stage \/ \E s \in {"save", "finally"} : stage' = [stage EXCEPT ![f] = s]
    BY <1>18, ContentRead DEF ReadContent, Took
  <2>3. \A g \in Fetcher : g # f => stage'[g] = stage[g] /\ pipe'[g] = pipe[g]
    BY <2>2 DEF FetcherTypes
  <2>4. /\ Unread(f) => Unread(f)'
        /\ Asking(f)' => Asking(f)
        /\ stage'[f] # "send"
        /\ stage'[f] \in {"status", "content", "save"} => stage[f] \in {"send", "status", "content", "save"}
    BY <2>2 DEF Unread, Asking, FetcherTypes
  <2>. QED BY <2>1, <2>3, <2>4, FetcherMoves, Zenon
<1>19. ASSUME NEW f \in Fetcher, ReadReset(f) PROVE Connections'
  <2>1. UNCHANGED <<queue, serving, lst, peer>>
    BY <1>19 DEF ReadReset, Goto, Return, users
  <2>2. \A g \in Fetcher : g # f => stage'[g] = stage[g] /\ pipe'[g] = pipe[g]
    BY <1>19 DEF ReadReset, Goto, Return, reading, FetcherTypes
  <2>3. /\ Unread(f) => Unread(f)'
        /\ Asking(f)' => Asking(f)
        /\ stage'[f] # "send"
        /\ stage'[f] \in {"status", "content", "save"} => stage[f] \in {"send", "status", "content", "save"}
    BY <1>19 DEF ReadReset, Goto, Return, Unread, Asking, FetcherTypes, reading
  <2>. QED BY <2>1, <2>2, <2>3, FetcherMoves, Zenon
<1>20. ASSUME NEW f \in Fetcher, Save(f) PROVE Connections'
  <2>1. UNCHANGED <<queue, serving, lst, peer>>
    BY <1>20 DEF Save, Goto, Return, users
  <2>2. \A g \in Fetcher : g # f => stage'[g] = stage[g] /\ pipe'[g] = pipe[g]
    BY <1>20 DEF Save, Goto, Return, reading, FetcherTypes
  <2>3. /\ Unread(f) => Unread(f)'
        /\ Asking(f)' => Asking(f)
        /\ stage'[f] # "send"
        /\ stage'[f] \in {"status", "content", "save"} => stage[f] \in {"send", "status", "content", "save"}
    BY <1>20 DEF Save, Goto, Return, Unread, Asking, FetcherTypes, reading
  <2>. QED BY <2>1, <2>2, <2>3, FetcherMoves, Zenon
<1>21. ASSUME NEW f \in Fetcher, Finally(f) PROVE Connections'
  <2>1. UNCHANGED <<queue, serving, lst, peer>>
    BY <1>21 DEF Finally, Goto, Drop, users
  <2>2. \A g \in Fetcher : g # f => stage'[g] = stage[g] /\ pipe'[g] = pipe[g]
    BY <1>21 DEF Finally, Goto, Drop, reading, FetcherTypes
  <2>3. /\ Unread(f) => Unread(f)'
        /\ Asking(f)' => Asking(f)
        /\ stage'[f] # "send"
        /\ stage'[f] \in {"status", "content", "save"} => stage[f] \in {"send", "status", "content", "save"}
    BY <1>21 DEF Finally, Goto, Drop, Unread, Asking, FetcherTypes, reading
  <2>. QED BY <2>1, <2>2, <2>3, FetcherMoves, Zenon
<1>22. ASSUME NEW f \in Fetcher, Killed(f) PROVE Connections'
  <2>1. UNCHANGED <<queue, serving, lst, peer>>
    BY <1>22 DEF Killed, Goto, Drop, users
  <2>2. \A g \in Fetcher : g # f => stage'[g] = stage[g] /\ pipe'[g] = pipe[g]
    BY <1>22 DEF Killed, Goto, Drop, reading, FetcherTypes
  <2>3. /\ Unread(f) => Unread(f)'
        /\ Asking(f)' => Asking(f)
        /\ stage'[f] # "send"
        /\ stage'[f] \in {"status", "content", "save"} => stage[f] \in {"send", "status", "content", "save"}
    BY <1>22 DEF Killed, Goto, Drop, Unread, Asking, FetcherTypes, reading
  <2>. QED BY <2>1, <2>2, <2>3, FetcherMoves, Zenon
<1>23. CASE UNCHANGED vars
  BY <1>23 DEF vars, UserTypes, FetcherTypes, Listener, Stages, Connections, Waiting, Serving,
       Fetching, Asking, Unread, users, fetchers, reading
<1>24. ASSUME NEW u \in Name, RequestRaises(u) PROVE Connections'
  <2>1. /\ lst[u] = "request" /\ serving' = [serving EXCEPT ![u] = Nil] /\ UNCHANGED <<queue, stage, peer, pipe>>
        /\ lst' = [lst EXCEPT ![u] = "close"]
    BY <1>24 DEF RequestRaises
  <2>2. ASSUME NEW v \in Name PROVE Waiting(v)' /\ Serving(v)'
    <3>1. \/ serving'[v] = serving[v] /\ lst'[v] = lst[v]
          \/ serving'[v] = Nil /\ lst'[v] = "close"
      BY <2>1 DEF UserTypes
    <3>2. \A i \in 1 .. Len(queue[v]) : queue[v][i] # Nil
      BY DEF UserTypes
    <3>. QED BY <2>1, <3>1, <3>2 DEF Connections, Waiting, Serving, Unread
  <2>3. ASSUME NEW f \in Fetcher PROVE Fetching(f)'
    BY <2>1 DEF Connections, Fetching, Asking
  <2>. QED BY <2>2, <2>3 DEF Connections
<1>. QED BY <1>1, <1>2, <1>3, <1>4, <1>5, <1>6, <1>7, <1>8, <1>9, <1>10, <1>11, <1>12, <1>13,
     <1>14, <1>15, <1>16, <1>17, <1>18, <1>19, <1>20, <1>21, <1>22, <1>23, <1>24
            DEF Next, ListenerStep, FetcherStep

\* A step that neither sends to a fetcher nor reads for it, and starts to serve
\* nobody that has read something.
LEMMA StreamStays ==
  ASSUME NEW f \in Fetcher, Stream(f),
         peer'[f] = peer[f], stage'[f] = stage[f], text'[f] = text[f],
         local'[f] = local[f], result'[f] = result[f], pipe'[f] = pipe[f],
         Served(f)' => Served(f) /\ out'[peer[f]] = out[peer[f]]
  PROVE  Stream(f)'
<1>1. InStatus(f) => InStatus(f)'
  BY DEF InStatus, Reply
<1>2. InContent(f) => InContent(f)'
  BY DEF InContent, Whole
<1>. QED BY <1>1, <1>2 DEF Stream, Asking

\* A byte is sent to a fetcher that has asked.
LEMMA StreamGrows ==
  ASSUME NEW f \in Fetcher, Stream(f), ~Asking(f), stage[f] # "send",
         peer'[f] = peer[f], stage'[f] = stage[f], text'[f] = text[f],
         local'[f] = local[f], result'[f] = result[f],
         stage[f] = "status" => InStatus(f)', stage[f] = "content" => InContent(f)'
  PROVE  Stream(f)'
<1>. QED BY DEF Stream, Asking

\* What a step of another fetcher leaves alone.
LEMMA StreamsApart ==
  ASSUME Streams, NEW f \in Fetcher, UNCHANGED <<serving, lst, out>>,
         \A g \in Fetcher : g # f => /\ peer'[g] = peer[g] /\ stage'[g] = stage[g] /\ text'[g] = text[g]
                                     /\ local'[g] = local[g] /\ result'[g] = result[g] /\ pipe'[g] = pipe[g],
         Stream(f)'
  PROVE  Streams'
<1>1. ASSUME NEW g \in Fetcher, g # f PROVE Stream(g)'
  <2>1. Served(g)' => Served(g) /\ out'[peer[g]] = out[peer[g]]
    BY <1>1 DEF Served
  <2>. QED BY <1>1, <2>1, StreamStays DEF Streams
<1>. QED BY <1>1 DEF Streams

\* Every step keeps what is sent and read the bytes of one reply.
LEMMA StreamsInductive ==
  ASSUME UserTypes, FetcherTypes, Connections, Streams, [Next]_vars
  PROVE  Streams'
<1>. USE TransferAssumption
<1>1. ASSUME NEW u \in Name, Publish(u) PROVE Streams'
  <2>1. UNCHANGED <<stage, peer, text, local, result, pipe>>
    BY <1>1 DEF Publish, fetchers, reading
  <2>2. ASSUME NEW f \in Fetcher, Served(f)' PROVE Served(f) /\ out'[peer[f]] = out[peer[f]]
    BY <1>1, <2>1, <2>2 DEF Publish, Served, UserTypes
  <2>. QED BY <2>1, <2>2, StreamStays DEF Streams
<1>2. ASSUME NEW u \in Name, Leave(u) PROVE Streams'
  <2>1. UNCHANGED <<stage, peer, text, local, result, pipe>>
    BY <1>2 DEF Leave, fetchers, reading
  <2>2. ASSUME NEW f \in Fetcher, Served(f)' PROVE Served(f) /\ out'[peer[f]] = out[peer[f]]
    BY <1>2, <2>1, <2>2 DEF Leave, Served, UserTypes
  <2>. QED BY <2>1, <2>2, StreamStays DEF Streams
<1>3. ASSUME NEW u \in Name, Vanish(u) PROVE Streams'
  <2>1. UNCHANGED <<stage, peer, text, local, result, pipe>>
    BY <1>3 DEF Vanish, fetchers, reading
  <2>2. ASSUME NEW f \in Fetcher, Served(f)' PROVE Served(f) /\ out'[peer[f]] = out[peer[f]]
    BY <1>3, <2>1, <2>2 DEF Vanish, Served, UserTypes
  <2>. QED BY <2>1, <2>2, StreamStays DEF Streams
<1>4. ASSUME NEW u \in Name, Recover(u) PROVE Streams'
  <2>1. UNCHANGED <<stage, peer, text, local, result, pipe>>
    BY <1>4 DEF Recover, fetchers, reading
  <2>2. ASSUME NEW f \in Fetcher, Served(f)' PROVE Served(f) /\ out'[peer[f]] = out[peer[f]]
    BY <1>4, <2>1, <2>2 DEF Recover, Served, UserTypes
  <2>. QED BY <2>1, <2>2, StreamStays DEF Streams
<1>5. ASSUME NEW u \in Name, Listen(u) PROVE Streams'
  <2>1. UNCHANGED <<stage, peer, text, local, result, pipe>>
    BY <1>5 DEF Listen, fetchers, reading
  <2>2. ASSUME NEW f \in Fetcher, Served(f)' PROVE Served(f) /\ out'[peer[f]] = out[peer[f]]
    BY <1>5, <2>1, <2>2 DEF Listen, Served, UserTypes
  <2>. QED BY <2>1, <2>2, StreamStays DEF Streams
<1>6. ASSUME NEW u \in Name, Accept(u) PROVE Streams'
  <2>1. UNCHANGED <<stage, peer, text, local, result, pipe>>
    BY <1>6 DEF Accept, fetchers, reading
  <2>2. ASSUME NEW f \in Fetcher, Served(f)' PROVE Served(f) /\ out'[peer[f]] = out[peer[f]]
    BY <1>6, <2>1, <2>2 DEF Accept, Served, UserTypes
  <2>. QED BY <2>1, <2>2, StreamStays DEF Streams
<1>7. ASSUME NEW u \in Name, ReadRequest(u) PROVE Streams'
  <2>1. PICK m \in Reply(u) : out' = [out EXCEPT ![u] = m]
    BY <1>7 DEF ReadRequest
  <2>2. PICK f \in Fetcher : f = serving[u] /\ peer[f] = u /\ Unread(f)
    BY <1>7 DEF ReadRequest, UserTypes, Connections, Serving
  <2>3. /\ stage[f] \notin {"send", "dead"} /\ out'[u] = m
        /\ UNCHANGED <<serving, stage, peer, text, local, result, pipe>>
        /\ \A v \in Name : v # u => lst'[v] = lst[v] /\ out'[v] = out[v]
    BY <1>7, <2>1, <2>2 DEF ReadRequest, fetchers, reading, UserTypes
  <2>4. ASSUME NEW g \in Fetcher, g # f PROVE Stream(g)'
    <3>1. Served(g)' => Served(g) /\ out'[peer[g]] = out[peer[g]]
      BY <2>2, <2>3, <2>4 DEF Served
    <3>. QED BY <2>3, <3>1, StreamStays DEF Streams
  <2>5. InStatus(f)'
    <3>1. Len(m) \in Nat /\ Within(m, 0, << >>) /\ Within(m, 0, m)
      BY ReplyBytes DEF Within
    <3>2. m \in Reply(peer[f])' /\ pipe'[f] = << >> /\ peer'[f] = u /\ Len(<< >>) = 0
      BY <2>2, <2>3 DEF Reply, Unread
    <3>. QED BY <2>3, <3>1, <3>2 DEF InStatus
  <2>6. Stream(f)'
    BY <2>2, <2>3, <2>5 DEF Streams, Stream, Asking, Unread
  <2>. QED BY <2>4, <2>6 DEF Streams
<1>8. ASSUME NEW u \in Name, Send(u) PROVE Streams'
  <2>1. PICK f \in Fetcher : f = serving[u] /\ peer[f] = u /\ stage[f] # "send"
    BY <1>8 DEF Send, UserTypes, Connections, Serving
  <2>2. /\ UNCHANGED <<serving, lst, stage, peer, text, local, result>> /\ lst[u] = "send"
        /\ pipe'[f] = IF Left(f) THEN << >> ELSE Append(pipe[f], Head(out[u]))
        /\ out'[u] = Tail(out[u]) /\ out[u] # << >> /\ out[u] \in Seq(Byte)
        /\ \A v \in Name : v # u => out'[v] = out[v]
        /\ \A g \in Fetcher : g # f => pipe'[g] = pipe[g]
    BY <1>8, <2>1 DEF Send, UserTypes, FetcherTypes
  <2>3. ASSUME NEW g \in Fetcher, g # f PROVE Stream(g)'
    <3>1. Served(g)' => Served(g) /\ out'[peer[g]] = out[peer[g]]
      BY <2>1, <2>2, <2>3 DEF Served
    <3>. QED BY <2>2, <2>3, <3>1, StreamStays DEF Streams
  <2>4. /\ Served(f) /\ Stream(f) /\ ~Asking(f) /\ pipe[f] \in Seq(Byte) /\ text[f] \in Seq(Byte)
    BY <2>1, <2>2 DEF Served, Streams, Connections, Fetching, FetcherTypes
  <2>. /\ stage[f] # "send" /\ peer'[f] = peer[f] /\ stage'[f] = stage[f] /\ text'[f] = text[f]
       /\ local'[f] = local[f] /\ result'[f] = result[f]
    BY <2>1, <2>2
  <2>5. ASSUME stage[f] = "status" PROVE Stream(f)'
    <3>1. pipe'[f] = Append(pipe[f], Head(out[u]))
      BY <2>2, <2>5 DEF Left
    <3>2. PICK w \in Reply(u) : Within(w, 0, pipe[f]) /\ Within(w, Len(pipe[f]), out[u])
      BY <2>1, <2>4, <2>5 DEF Stream, InStatus
    <3>3. w \in Seq(Byte) /\ 0 + Len(pipe[f]) = Len(pipe[f])
      BY <2>4, ReplyBytes
    <3>4. Within(w, 0, pipe'[f]) /\ Within(w, 0 + Len(pipe'[f]), Tail(out[u])) /\ pipe'[f] \in Seq(Byte)
      <4>1. Within(w, 0 + Len(pipe[f]), out[u])
        BY <3>2, <3>3
      <4>2. 0 \in Nat /\ pipe[f] \in Seq(Byte) /\ out[u] \in Seq(Byte) /\ out[u] # << >>
        BY <2>2, <2>4
      <4>3. /\ Append(pipe[f], Head(out[u])) \in Seq(Byte)
            /\ Within(w, 0, Append(pipe[f], Head(out[u])))
            /\ Within(w, 0 + Len(Append(pipe[f], Head(out[u]))), Tail(out[u]))
        BY <3>2, <3>3, <4>1, <4>2, SentByte
      <4>. QED BY <3>1, <4>3
    <3>5. Within(w, Len(pipe'[f]), Tail(out[u]))
      BY <3>4
    <3>6. InStatus(f)'
      BY <2>1, <2>2, <3>4, <3>5, ZenonT(30) DEF InStatus, Reply
    <3>7. stage[f] # "content"
      BY <2>5
    <3>. QED BY <2>4, <3>6, <3>7, StreamGrows, Zenon
  <2>6. ASSUME stage[f] = "content" PROVE Stream(f)'
    <3>1. pipe'[f] = Append(pipe[f], Head(out[u]))
      BY <2>2, <2>6 DEF Left
    <3>. DEFINE w == Whole(u)
                k == 2 + Len(text[f])
    <3>2. Within(w, 2, text[f]) /\ Within(w, k, pipe[f]) /\ Within(w, k + Len(pipe[f]), out[u])
      BY <2>1, <2>4, <2>6 DEF Stream, InContent
    <3>3. w \in Seq(Byte) /\ k \in Nat
      BY <2>4, WholeBytes
    <3>4. pipe[f] \in Seq(Byte) /\ out[u] \in Seq(Byte) /\ out[u] # << >>
      BY <2>2, <2>4
    <3>. HIDE DEF w, k
    <3>5. /\ Within(w, k, Append(pipe[f], Head(out[u])))
          /\ Within(w, k + Len(Append(pipe[f], Head(out[u]))), Tail(out[u]))
      BY <3>2, <3>3, <3>4, SentByte
    <3>6. Within(w, k, pipe'[f]) /\ Within(w, k + Len(pipe'[f]), Tail(out[u]))
      BY <3>1, <3>5
    <3>7. InContent(f)'
      BY <2>1, <2>2, <3>2, <3>6 DEF InContent, Whole, w, k
    <3>8. stage[f] # "status"
      BY <2>6
    <3>. QED BY <2>4, <3>7, <3>8, StreamGrows, Zenon
  <2>7. ASSUME stage[f] \notin {"status", "content"} PROVE Stream(f)'
    BY <2>4, <2>7, StreamGrows, Zenon
  <2>. QED BY <2>3, <2>4, <2>5, <2>6, <2>7 DEF Streams
<1>9. ASSUME NEW u \in Name, CloseClient(u) PROVE Streams'
  <2>1. UNCHANGED <<stage, peer, text, local, result, pipe>>
    BY <1>9 DEF CloseClient, fetchers, reading
  <2>2. ASSUME NEW f \in Fetcher, Served(f)' PROVE Served(f) /\ out'[peer[f]] = out[peer[f]]
    BY <1>9, <2>1, <2>2 DEF CloseClient, Served, UserTypes
  <2>. QED BY <2>1, <2>2, StreamStays DEF Streams
<1>10. ASSUME NEW u \in Name, SendFails(u) PROVE Streams'
  <2>1. UNCHANGED <<stage, peer, text, local, result, pipe>>
    BY <1>10 DEF SendFails, fetchers, reading
  <2>2. ASSUME NEW f \in Fetcher, Served(f)' PROVE Served(f) /\ out'[peer[f]] = out[peer[f]]
    BY <1>10, <2>1, <2>2 DEF SendFails, Served, UserTypes
  <2>. QED BY <2>1, <2>2, StreamStays DEF Streams
<1>11. ASSUME NEW u \in Name, Wake(u) PROVE Streams'
  <2>1. UNCHANGED <<stage, peer, text, local, result, pipe>>
    BY <1>11 DEF Wake, fetchers, reading
  <2>2. ASSUME NEW f \in Fetcher, Served(f)' PROVE Served(f) /\ out'[peer[f]] = out[peer[f]]
    BY <1>11, <2>1, <2>2 DEF Wake, Served, UserTypes
  <2>. QED BY <2>1, <2>2, StreamStays DEF Streams
<1>12. ASSUME NEW u \in Name, Close(u) PROVE Streams'
  <2>1. UNCHANGED <<stage, peer, text, local, result, pipe>>
    BY <1>12 DEF Close, fetchers, reading
  <2>2. ASSUME NEW f \in Fetcher, Served(f)' PROVE Served(f) /\ out'[peer[f]] = out[peer[f]]
    BY <1>12, <2>1, <2>2 DEF Close, Served, UserTypes
  <2>. QED BY <2>1, <2>2, StreamStays DEF Streams
<1>13. ASSUME NEW f \in Fetcher, NEW u \in Name, GetFile(f, u) PROVE Streams'
  <2>1. /\ UNCHANGED <<serving, lst, out>> /\ Stream(f)
        /\ \A g \in Fetcher : g # f => /\ peer'[g] = peer[g] /\ stage'[g] = stage[g] /\ text'[g] = text[g]
                                       /\ local'[g] = local[g] /\ result'[g] = result[g] /\ pipe'[g] = pipe[g]
    BY <1>13 DEF GetFile, Goto, users, fetchers, reading, FetcherTypes, Streams
  <2>2. Stream(f)'
    BY <1>13, <2>1 DEF GetFile, Goto, users, fetchers, reading, FetcherTypes, Stream, Asking
  <2>. QED BY <2>1, <2>2, StreamsApart
<1>14. ASSUME NEW f \in Fetcher, Ask(f) PROVE Streams'
  <2>1. /\ UNCHANGED <<serving, lst, out>> /\ Stream(f)
        /\ \A g \in Fetcher : g # f => /\ peer'[g] = peer[g] /\ stage'[g] = stage[g] /\ text'[g] = text[g]
                                       /\ local'[g] = local[g] /\ result'[g] = result[g] /\ pipe'[g] = pipe[g]
    BY <1>14 DEF Ask, Goto, Return, users, fetchers, reading, FetcherTypes, Streams
  <2>2. Stream(f)'
    BY <1>14, <2>1 DEF Ask, Goto, Return, users, fetchers, reading, FetcherTypes, Stream, Asking
  <2>. QED BY <2>1, <2>2, StreamsApart
<1>15. ASSUME NEW f \in Fetcher, Connect(f) PROVE Streams'
  <2>1. /\ UNCHANGED <<serving, lst, out>> /\ Stream(f)
        /\ \A g \in Fetcher : g # f => /\ peer'[g] = peer[g] /\ stage'[g] = stage[g] /\ text'[g] = text[g]
                                       /\ local'[g] = local[g] /\ result'[g] = result[g] /\ pipe'[g] = pipe[g]
    BY <1>15 DEF Connect, Goto, Return, users, fetchers, reading, FetcherTypes, Streams
  <2>2. Stream(f)'
    BY <1>15, <2>1 DEF Connect, Goto, Return, users, fetchers, reading, FetcherTypes, Stream, Asking
  <2>. QED BY <2>1, <2>2, StreamsApart
<1>16. ASSUME NEW f \in Fetcher, SendRequest(f) PROVE Streams'
  <2>1. /\ UNCHANGED <<serving, lst, out>> /\ Stream(f)
        /\ \A g \in Fetcher : g # f => /\ peer'[g] = peer[g] /\ stage'[g] = stage[g] /\ text'[g] = text[g]
                                       /\ local'[g] = local[g] /\ result'[g] = result[g] /\ pipe'[g] = pipe[g]
    BY <1>16 DEF SendRequest, Goto, users, fetchers, reading, FetcherTypes, Streams
  <2>2. Stream(f)'
    <3>1. /\ stage[f] = "send" /\ stage'[f] = "status" /\ UNCHANGED <<peer, text, local, result, pipe>>
      BY <1>16 DEF SendRequest, Goto, reading, FetcherTypes
    <3>2. pipe[f] = << >> /\ peer[f] \in Name /\ ~Served(f)
      BY <3>1 DEF Streams, Stream, Connections, Fetching, Served, Serving
    <3>3. ~Served(f)'
      BY <2>1, <3>1, <3>2 DEF Served
    <3>4. InStatus(f)'
      <4>1. <<"1", NUL>> \in Reply(peer[f])'
        BY DEF Reply
      <4>2. Within(<<"1", NUL>>, 0, << >>)
        BY DEF Within
      <4>. QED BY <3>1, <3>2, <3>3, <4>1, <4>2 DEF InStatus
    <3>. QED BY <2>1, <3>1, <3>4 DEF Stream, Asking
  <2>. QED BY <2>1, <2>2, StreamsApart
<1>17. ASSUME NEW f \in Fetcher, ReadStatus(f) PROVE Streams'
  <2>1. /\ UNCHANGED <<serving, lst, out>> /\ Stream(f)
        /\ \A g \in Fetcher : g # f => /\ peer'[g] = peer[g] /\ stage'[g] = stage[g] /\ text'[g] = text[g]
                                       /\ local'[g] = local[g] /\ result'[g] = result[g] /\ pipe'[g] = pipe[g]
    BY <1>17 DEF ReadStatus, Goto, Return, users, fetchers, reading, FetcherTypes, Streams
  <2>2. Stream(f)'
    <3>1. /\ stage[f] = "status" /\ UNCHANGED <<peer, text, local>> /\ Len(pipe[f]) >= 2
          /\ pipe'[f] = Tail(Tail(pipe[f])) /\ pipe[f] \in Seq(Byte)
      BY <1>17 DEF ReadStatus, Goto, Return, reading, FetcherTypes
    <3>2. /\ peer[f] \in Name /\ text[f] = << >> /\ local[f] = Nil /\ InStatus(f)
      BY <2>1, <3>1 DEF Stream, Connections, Fetching
    <3>3. CASE Head(pipe[f]) = "0"
      <4>1. stage'[f] = "content" /\ UNCHANGED result
        BY <1>17, <3>3 DEF ReadStatus, Goto, Return, FetcherTypes
      <4>2. PICK w \in Reply(peer[f]) : /\ Within(w, 0, pipe[f])
                                        /\ Served(f) => Within(w, Len(pipe[f]), out[peer[f]])
        BY <3>2 DEF InStatus
      <4>3. w \in Seq(Byte)
        BY <3>2, ReplyBytes
      <4>4. Head(pipe[f]) = w[1] /\ Within(w, 2, Tail(Tail(pipe[f])))
        <5>1. pipe[f] \in Seq(Byte) /\ Len(pipe[f]) >= 2 /\ Within(w, 0, pipe[f])
          BY <3>1, <4>2
        <5>. QED BY <4>3, <5>1, NextTwo, Zenon
      <4>5. Len(Tail(Tail(pipe[f]))) = Len(pipe[f]) - 2
        BY <3>1, TwoBytes
      <4>6. w = Whole(peer[f])
        BY <3>2, <3>3, <4>4, ReplyBytes
      <4>7. 2 <= Len(w) /\ Len(pipe[f]) \in Nat
        BY <3>1, <3>2, <4>6, WholeBytes
      <4>8. InContent(f)'
        <5>1. w = Whole(peer[f])' /\ Within(w, 2, text'[f]) /\ 2 + Len(text'[f]) = 2
          BY <3>1, <3>2, <4>6, <4>7 DEF Within, Whole
        <5>2. Within(w, 2 + Len(text'[f]), pipe'[f])
          BY <3>1, <4>4, <5>1
        <5>3. 2 + Len(text'[f]) + Len(pipe'[f]) = Len(pipe[f])
          <6>1. Len(pipe'[f]) = Len(pipe[f]) - 2 /\ 2 + Len(text'[f]) = 2
            BY <3>1, <4>5, <5>1
          <6>. QED BY <4>7, <6>1, Sums, Zenon
        <5>4. Served(f)' => Served(f) /\ out'[peer[f]] = out[peer[f]]
          BY <2>1, <3>1 DEF Served
        <5>5. Served(f)' => Within(w, 2 + Len(text'[f]) + Len(pipe'[f]), out'[peer[f]])
          <6>1. Served(f)' => Within(w, Len(pipe[f]), out'[peer[f]])
            BY <4>2, <5>4
          <6>. QED BY <5>3, <6>1, Zenon
        <5>6. peer'[f] = peer[f]
          BY <3>1
        <5>. QED BY <5>1, <5>2, <5>5, <5>6 DEF InContent
      <4>. QED BY <2>1, <3>1, <3>2, <4>1, <4>8 DEF Stream, Asking
    <3>4. CASE Head(pipe[f]) # "0"
      <4>1. stage'[f] = "finally" /\ result'[f] # "OK"
        BY <1>17, <3>4 DEF ReadStatus, Goto, Return, FetcherTypes
      <4>. QED BY <3>1, <3>2, <4>1 DEF Stream, Asking
    <3>. QED BY <3>3, <3>4
  <2>. QED BY <2>1, <2>2, StreamsApart
<1>18. ASSUME NEW f \in Fetcher, ReadContent(f) PROVE Streams'
  <2>. DEFINE w == Whole(peer[f])
              n == Len(text[f])
              b == Head(pipe[f])
  <2>1. /\ stage[f] = "content" /\ pipe[f] # << >> /\ pipe[f] \in Seq(Byte) /\ text[f] \in Seq(Byte)
        /\ pipe' = [pipe EXCEPT ![f] = Tail(@)] /\ UNCHANGED <<serving, lst, out, peer, local>>
    BY <1>18 DEF ReadContent, Took, users, FetcherTypes
  <2>2. /\ Stream(f) /\ peer[f] \in Name /\ Within(w, 2, text[f]) /\ Within(w, 2 + n, pipe[f])
        /\ Served(f) => Within(w, 2 + n + Len(pipe[f]), out[peer[f]])
    BY <2>1 DEF Streams, Stream, InContent, Connections, Fetching
  <2>3. b \in Ascii \cup Multi \cup {NUL} /\ (b = NUL => text[f] = Text(peer[f]))
    BY <2>1, <2>2, ContentByte
  <2>4. \A g \in Fetcher : g # f => pipe'[g] = pipe[g]
    BY <2>1 DEF FetcherTypes
  <2>5. CASE b = NUL /\ Goto(f, "save") /\ UNCHANGED <<text, result>>
    <3>1. Stream(f)'
      BY <2>1, <2>2, <2>3, <2>5 DEF Stream, Asking, Goto, FetcherTypes
    <3>. QED BY <2>1, <2>4, <2>5, <3>1, StreamsApart DEF Goto, FetcherTypes
  <2>6. CASE text' = [text EXCEPT ![f] = Append(@, b)] /\ UNCHANGED <<stage, result>>
    <3>1. w \in Seq(Byte) /\ 2 + n \in Nat
      BY <2>1, <2>2, WholeBytes
    <3>2. /\ b = w[2 + n + 1] /\ b \in Byte /\ 2 + n + 1 <= Len(w)
          /\ Len(Tail(pipe[f])) = Len(pipe[f]) - 1 /\ Within(w, 2 + n + 1, Tail(pipe[f]))
      <4>. HIDE DEF w
      <4>. QED BY <2>1, <2>2, <3>1, NextByte
    <3>3. Len(Append(text[f], b)) = n + 1 /\ Within(w, 2, Append(text[f], b))
      <4>. HIDE DEF w, b
      <4>1. 2 \in Nat /\ text[f] \in Seq(Byte) /\ Within(w, 2, text[f])
        BY <2>1, <2>2
      <4>2. b \in Byte /\ 2 + Len(text[f]) + 1 <= Len(w) /\ b = w[2 + Len(text[f]) + 1]
        BY <3>2
      <4>. QED BY <3>1, <4>1, <4>2, ReadByte
    <3>4. text'[f] = Append(text[f], b) /\ pipe'[f] = Tail(pipe[f]) /\ w = Whole(peer[f])'
      BY <2>1, <2>6 DEF FetcherTypes, Whole
    <3>5. Len(pipe[f]) \in Nat /\ n \in Nat
      BY <2>1
    <3>6. 2 + Len(text'[f]) = 2 + n + 1 /\ 2 + Len(text'[f]) + Len(pipe'[f]) = 2 + n + Len(pipe[f])
      <4>1. Len(text'[f]) = n + 1 /\ Len(pipe'[f]) = Len(pipe[f]) - 1
        BY <3>2, <3>3, <3>4
      <4>. HIDE DEF n
      <4>2. 2 + (n + 1) = 2 + n + 1 /\ 2 + (n + 1) + (Len(pipe[f]) - 1) = 2 + n + Len(pipe[f])
        BY <3>5, Sums
      <4>. QED BY <4>1, <4>2, Zenon
    <3>7. Served(f)' => Served(f)
      BY <2>1 DEF Served
    <3>8. InContent(f)'
      BY <2>1, <2>2, <3>2, <3>3, <3>4, <3>6, <3>7 DEF InContent
    <3>9. Stream(f)'
      BY <2>1, <2>2, <2>6, <3>8 DEF Stream, Asking
    <3>. QED BY <2>1, <2>4, <2>6, <3>9, StreamsApart DEF FetcherTypes
  <2>7. CASE Return(f, "USER_ERROR") /\ UNCHANGED text
    <3>1. Stream(f)'
      BY <2>1, <2>2, <2>7 DEF Stream, Asking, Goto, Return, FetcherTypes
    <3>. QED BY <2>1, <2>4, <2>7, <3>1, StreamsApart DEF Goto, Return, FetcherTypes
  <2>8. \/ b = NUL /\ Goto(f, "save") /\ UNCHANGED <<text, result>>
        \/ text' = [text EXCEPT ![f] = Append(@, b)] /\ UNCHANGED <<stage, result>>
        \/ Return(f, "USER_ERROR") /\ UNCHANGED text
    BY <1>18, <2>3 DEF ReadContent
  <2>. QED BY <2>5, <2>6, <2>7, <2>8
<1>19. ASSUME NEW f \in Fetcher, ReadReset(f) PROVE Streams'
  <2>1. /\ UNCHANGED <<serving, lst, out>> /\ Stream(f)
        /\ \A g \in Fetcher : g # f => /\ peer'[g] = peer[g] /\ stage'[g] = stage[g] /\ text'[g] = text[g]
                                       /\ local'[g] = local[g] /\ result'[g] = result[g] /\ pipe'[g] = pipe[g]
    BY <1>19 DEF ReadReset, Goto, Return, users, fetchers, reading, FetcherTypes, Streams
  <2>2. Stream(f)'
    BY <1>19, <2>1 DEF ReadReset, Goto, Return, users, fetchers, reading, FetcherTypes, Stream,
         Asking
  <2>. QED BY <2>1, <2>2, StreamsApart
<1>20. ASSUME NEW f \in Fetcher, Save(f) PROVE Streams'
  <2>1. /\ UNCHANGED <<serving, lst, out>> /\ Stream(f)
        /\ \A g \in Fetcher : g # f => /\ peer'[g] = peer[g] /\ stage'[g] = stage[g] /\ text'[g] = text[g]
                                       /\ local'[g] = local[g] /\ result'[g] = result[g] /\ pipe'[g] = pipe[g]
    BY <1>20 DEF Save, Goto, Return, users, fetchers, reading, FetcherTypes, Streams
  <2>2. Stream(f)'
    <3>1. /\ stage[f] = "save" /\ stage'[f] = "finally" /\ UNCHANGED <<peer, text>>
          /\ \/ local'[f] = text[f] /\ Text(peer[f]) # Nil
             \/ local'[f] = local[f] /\ result'[f] # "OK"
      BY <1>20, WholeBytes DEF Save, Goto, Return, reading, FetcherTypes, Connections, Fetching
    <3>. QED BY <2>1, <3>1 DEF Stream, Asking
  <2>. QED BY <2>1, <2>2, StreamsApart
<1>21. ASSUME NEW f \in Fetcher, Finally(f) PROVE Streams'
  <2>1. /\ UNCHANGED <<serving, lst, out>> /\ Stream(f)
        /\ \A g \in Fetcher : g # f => /\ peer'[g] = peer[g] /\ stage'[g] = stage[g] /\ text'[g] = text[g]
                                       /\ local'[g] = local[g] /\ result'[g] = result[g] /\ pipe'[g] = pipe[g]
    BY <1>21 DEF Finally, Goto, Drop, users, fetchers, reading, FetcherTypes, Streams
  <2>2. Stream(f)'
    BY <1>21, <2>1 DEF Finally, Goto, Drop, users, fetchers, reading, FetcherTypes, Stream, Asking
  <2>. QED BY <2>1, <2>2, StreamsApart
<1>22. ASSUME NEW f \in Fetcher, Killed(f) PROVE Streams'
  <2>1. /\ UNCHANGED <<serving, lst, out>> /\ Stream(f)
        /\ \A g \in Fetcher : g # f => /\ peer'[g] = peer[g] /\ stage'[g] = stage[g] /\ text'[g] = text[g]
                                       /\ local'[g] = local[g] /\ result'[g] = result[g] /\ pipe'[g] = pipe[g]
    BY <1>22 DEF Killed, Goto, Drop, users, fetchers, reading, FetcherTypes, Streams
  <2>2. Stream(f)'
    BY <1>22, <2>1 DEF Killed, Goto, Drop, users, fetchers, reading, FetcherTypes, Stream, Asking
  <2>. QED BY <2>1, <2>2, StreamsApart
<1>23. CASE UNCHANGED vars
  BY <1>23, StreamStays DEF vars, Streams, Served, users, fetchers, reading
<1>24. ASSUME NEW u \in Name, RequestRaises(u) PROVE Streams'
  <2>1. UNCHANGED <<stage, peer, text, local, result, pipe>>
    BY <1>24 DEF RequestRaises
  <2>2. ASSUME NEW f \in Fetcher, Served(f)' PROVE Served(f) /\ out'[peer[f]] = out[peer[f]]
    BY <1>24, <2>1, <2>2 DEF RequestRaises, Served, UserTypes
  <2>. QED BY <2>1, <2>2, StreamStays DEF Streams
<1>. QED BY <1>1, <1>2, <1>3, <1>4, <1>5, <1>6, <1>7, <1>8, <1>9, <1>10, <1>11, <1>12, <1>13,
     <1>14, <1>15, <1>16, <1>17, <1>18, <1>19, <1>20, <1>21, <1>22, <1>23, <1>24
            DEF Next, ListenerStep, FetcherStep

\* Every step keeps a port that is published, or given to a fetcher, one user's.
LEMMA PortsInductive ==
  ASSUME UserTypes, FetcherTypes, Connections, Streams, Ports, [Next]_vars
  PROVE  Ports'
<1>. USE TransferAssumption
<1>1. ASSUME NEW u \in Name, Publish(u) PROVE Ports'
  BY <1>1 DEF Publish, UserTypes, FetcherTypes, Ports, Known, users, fetchers, reading
<1>2. ASSUME NEW u \in Name, Leave(u) PROVE Ports'
  BY <1>2 DEF Leave, End, UserTypes, FetcherTypes, Ports, Known, users, fetchers, reading
<1>3. ASSUME NEW u \in Name, Vanish(u) PROVE Ports'
  BY <1>3 DEF Vanish, End, UserTypes, FetcherTypes, Ports, Known, users, fetchers, reading
<1>4. ASSUME NEW u \in Name, Recover(u) PROVE Ports'
  BY <1>4 DEF Recover, UserTypes, FetcherTypes, Ports, Known, users, fetchers, reading
<1>5. ASSUME NEW u \in Name, Listen(u) PROVE Ports'
  BY <1>5 DEF Listen, UserTypes, FetcherTypes, Ports, Known, users, fetchers, reading
<1>6. ASSUME NEW u \in Name, Accept(u) PROVE Ports'
  BY <1>6 DEF Accept, UserTypes, FetcherTypes, Ports, Known, users, fetchers, reading
<1>7. ASSUME NEW u \in Name, ReadRequest(u) PROVE Ports'
  BY <1>7 DEF ReadRequest, UserTypes, FetcherTypes, Ports, Known, users, fetchers, reading
<1>8. ASSUME NEW u \in Name, Send(u) PROVE Ports'
  BY <1>8 DEF Send, UserTypes, FetcherTypes, Ports, Known, users, fetchers, reading
<1>9. ASSUME NEW u \in Name, CloseClient(u) PROVE Ports'
  BY <1>9 DEF CloseClient, End, UserTypes, FetcherTypes, Ports, Known, users, fetchers, reading
<1>10. ASSUME NEW u \in Name, SendFails(u) PROVE Ports'
  BY <1>10 DEF SendFails, UserTypes, FetcherTypes, Ports, Known, users, fetchers, reading
<1>11. ASSUME NEW u \in Name, Wake(u) PROVE Ports'
  BY <1>11 DEF Wake, UserTypes, FetcherTypes, Ports, Known, users, fetchers, reading
<1>12. ASSUME NEW u \in Name, Close(u) PROVE Ports'
  BY <1>12 DEF Close, End, UserTypes, FetcherTypes, Ports, Known, users, fetchers, reading
<1>13. ASSUME NEW f \in Fetcher, NEW u \in Name, GetFile(f, u) PROVE Ports'
  BY <1>13 DEF GetFile, Goto, Connections, Fetching, Asking, UserTypes, FetcherTypes, Ports,
       Known, users, fetchers, reading
<1>14. ASSUME NEW f \in Fetcher, Ask(f) PROVE Ports'
  BY <1>14 DEF Ask, Goto, Return, UserTypes, FetcherTypes, Ports, Known, users, fetchers, reading
<1>15. ASSUME NEW f \in Fetcher, Connect(f) PROVE Ports'
  <2>1. /\ UNCHANGED <<mode, entry, port, addr, asked>> /\ stage[f] = "connect"
        /\ \A g \in Fetcher : stage'[g] = "connect" => stage[g] = "connect"
        /\ \A g \in Fetcher : g # f => peer'[g] = peer[g]
        /\ peer'[f] = peer[f] \/ \E u \in Listening(addr[f]) : peer'[f] = u
    BY <1>15 DEF Connect, Goto, Return, FetcherTypes
  <2>2. \A u \in Listening(addr[f]) : port[u] = addr[f] /\ u \in Name
    BY DEF Listening
  <2>. QED BY <2>1, <2>2 DEF Ports
<1>16. ASSUME NEW f \in Fetcher, SendRequest(f) PROVE Ports'
  BY <1>16 DEF SendRequest, Goto, UserTypes, FetcherTypes, Ports, Known, users, fetchers, reading
<1>17. ASSUME NEW f \in Fetcher, ReadStatus(f) PROVE Ports'
  <2>1. UNCHANGED <<mode, entry, port, addr, asked, peer>>
    BY <1>17 DEF ReadStatus, users
  <2>2. \A g \in Fetcher : stage'[g] = "connect" => stage[g] = "connect"
    BY <1>17 DEF ReadStatus, Goto, Return, FetcherTypes
  <2>. QED BY <2>1, <2>2 DEF Ports
<1>18. ASSUME NEW f \in Fetcher, ReadContent(f) PROVE Ports'
  <2>1. UNCHANGED <<mode, entry, port, addr, asked, peer>>
    BY <1>18 DEF ReadContent, users
  <2>2. \A g \in Fetcher : stage'[g] = "connect" => stage[g] = "connect"
    BY <1>18, ContentRead DEF ReadContent, FetcherTypes
  <2>. QED BY <2>1, <2>2 DEF Ports
<1>19. ASSUME NEW f \in Fetcher, ReadReset(f) PROVE Ports'
  BY <1>19 DEF ReadReset, Goto, Return, UserTypes, FetcherTypes, Ports, Known, users, fetchers,
       reading
<1>20. ASSUME NEW f \in Fetcher, Save(f) PROVE Ports'
  <2>1. UNCHANGED <<mode, entry, port, addr, asked, peer>>
    BY <1>20 DEF Save, users
  <2>2. \A g \in Fetcher : stage'[g] = "connect" => stage[g] = "connect"
    BY <1>20 DEF Save, Goto, Return, FetcherTypes
  <2>. QED BY <2>1, <2>2 DEF Ports
<1>21. ASSUME NEW f \in Fetcher, Finally(f) PROVE Ports'
  BY <1>21 DEF Finally, Goto, Drop, UserTypes, FetcherTypes, Ports, Known, users, fetchers, reading
<1>22. ASSUME NEW f \in Fetcher, Killed(f) PROVE Ports'
  <2>1. UNCHANGED <<mode, entry, port, addr, asked, peer>>
    BY <1>22 DEF Killed, users
  <2>2. \A g \in Fetcher : stage'[g] = "connect" => stage[g] = "connect"
    BY <1>22 DEF Killed, Goto, Drop, FetcherTypes
  <2>. QED BY <2>1, <2>2 DEF Ports
<1>23. CASE UNCHANGED vars
  BY <1>23 DEF vars, UserTypes, FetcherTypes, Ports, Known, users, fetchers, reading
<1>24. ASSUME NEW u \in Name, RequestRaises(u) PROVE Ports'
  BY <1>24 DEF RequestRaises, End, UserTypes, FetcherTypes, Ports, Known, users, fetchers, reading
<1>. QED BY <1>1, <1>2, <1>3, <1>4, <1>5, <1>6, <1>7, <1>8, <1>9, <1>10, <1>11, <1>12, <1>13,
     <1>14, <1>15, <1>16, <1>17, <1>18, <1>19, <1>20, <1>21, <1>22, <1>23, <1>24
            DEF Next, ListenerStep, FetcherStep

-----------------------------------------------------------------------------
(* The theorems.                                                           *)

\* The conjunction is an inductive invariant.
LEMMA Inductive == Spec => []PInv
<1>1. Init => PInv
  <2>. SUFFICES ASSUME Init PROVE PInv
    OBVIOUS
  <2>. USE TransferAssumption DEF Init
  <2>1. UserTypes
    <3>1. \A u \in Name : queue[u] = << >> /\ Len(<< >>) = 0 /\ mode.backlog \in Nat
      OBVIOUS
    <3>. QED BY <3>1 DEF UserTypes, Listener
  <2>2. FetcherTypes
    BY DEF FetcherTypes, Stages
  <2>3. Connections
    BY DEF Connections, Waiting, Serving, Fetching, Asking
  <2>4. Streams
    BY DEF Streams, Stream, Asking
  <2>5. Ports
    BY DEF Ports
  <2>. QED BY <2>1, <2>2, <2>3, <2>4, <2>5 DEF PInv
<1>2. PInv /\ [Next]_vars => PInv'
  BY UserTypesInductive, FetcherTypesInductive, ConnectionsInductive, StreamsInductive,
     PortsInductive DEF PInv
<1>. QED BY <1>1, <1>2, PTL DEF Spec

\* The types, for any number of clients, ports and files: a listener serves
\* somebody exactly while it reads a request or sends, and holds no more
\* connections than listen(5) allows (client.py:158-190).
THEOREM TypeCorrect == Spec => []TypeOK
<1>1. PInv => TypeOK
  <2>. SUFFICES ASSUME PInv PROVE TypeOK
    OBVIOUS
  <2>1. ASSUME NEW u \in Name PROVE Queued(u) \subseteq Fetcher
    BY DEF PInv, UserTypes, Queued
  <2>. QED BY <2>1 DEF PInv, UserTypes, FetcherTypes, Listener, TypeOK
<1>. QED BY <1>1, Inductive, PTL

\* What GET_FILE has written is the whole text of the file of the user it reached,
\* every line end of it a newline, and OK is returned for nothing else, whoever is
\* killed, leaves or is served at the same time (client.py:37-44, 143, 576-586).
THEOREM CopiesAreWhole == Spec => []OkMeansCopied
<1>1. PInv => OkMeansCopied
  BY DEF PInv, Streams, Stream, OkMeansCopied
<1>. QED BY <1>1, Inductive, PTL

\* Where no port is used again that somebody was told of, the user that answers
\* is the one that was asked for, however many users come and go (client.py:564).
THEOREM AskedUserAnswers == Spec => []FromAskedUser
<1>1. PInv => FromAskedUser
  BY DEF PInv, Ports, FromAskedUser
<1>. QED BY <1>1, Inductive, PTL
=============================================================================
