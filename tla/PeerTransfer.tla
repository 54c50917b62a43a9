---------------------------- MODULE PeerTransfer ----------------------------
(***************************************************************************)
(* GET_FILE: getfile of one client against listen_requests of another      *)
(* (src/client.py), which is asked for at the address LIST_USERS gave.     *)
(*                                                                         *)
(* Fetchers are clients that run getfile, users are clients that other     *)
(* clients may fetch from; each has one file.  A user publishes the port   *)
(* of a socket it has bound, later listens on it, and serves one           *)
(* connection at a time.  What is sent and not yet read is a sequence of   *)
(* bytes, ended by the strings' NULs; the kernel delivers it in order.     *)
(* Clients leave, and may vanish, at any moment; ports are used again.     *)
(***************************************************************************)
EXTENDS Integers, Sequences

CONSTANTS Fetcher,   \* clients that fetch
          Name,      \* users they fetch from
          Port,      \* ports of the host the users are on
          Nil,       \* no port, no user, no fetcher, no file
          NUL,       \* the end of a string
          Ascii,     \* bytes of characters of one byte
          Multi,     \* bytes of characters of more than one
          LF,        \* the newline,
          CR, CRLF,  \* and the other line ends that a file read as text may have
          Content,   \* the file that is asked for, at each user
          Modes      \* the situations: who fetches, whether users disconnect, which
                     \* clients may be killed, the ports of the host, whether one that
                     \* somebody was told of is used again, and how many connections a
                     \* socket holds that are not accepted yet (listen(5))

ASSUME TransferAssumption ==
  /\ Nil \notin Port \cup Name \cup Fetcher \cup {"OK"}
  /\ NUL \notin Ascii \cup Multi /\ LF \in Ascii
  /\ Nil \notin Seq(Ascii \cup Multi)
  /\ \A u \in Name : Content[u] \in Seq(Ascii \cup Multi \cup {CR, CRLF})
  /\ Modes \subseteq [fetchers : SUBSET Fetcher, leaving : BOOLEAN, mortal : SUBSET (Fetcher \cup Name),
                      ports : SUBSET Port, reuse : BOOLEAN, backlog : Nat \ {0}]

VARIABLES mode,     \* the situation, which does not change
          entry,    \* the server: the port of each connected user
          port,     \* the port each user's socket holds
          lst,      \* where each user's listener is
          told,     \* whether it has been told to stop
          queue,    \* fetchers connected and not accepted
          serving,  \* the fetcher it serves
          out,      \* what it has still to send
          stage,    \* where each fetcher is in getfile
          asked,    \* the user it asks for
          addr,     \* the port it was given
          socketC,  \* its local socketC: unbound, None or open
          peer,     \* the user it is connected to
          pipe,     \* bytes on their way to it
          ended,    \* whether more come: no, end of stream or reset
          text,     \* what read_response has read of the content
          local,    \* its local file
          result    \* what getfile returned

users == <<entry, port, lst, told, queue, serving, out>>
reading == <<pipe, ended, text>>
fetchers == <<stage, asked, addr, socketC, peer, reading, local, result>>
vars == <<mode, users, fetchers>>

Init == /\ mode \in Modes
        /\ entry = [u \in Name |-> Nil] /\ port = [u \in Name |-> Nil]
        /\ lst = [u \in Name |-> "off"] /\ told = [u \in Name |-> FALSE]
        /\ queue = [u \in Name |-> <<>>]
        /\ serving = [u \in Name |-> Nil] /\ out = [u \in Name |-> <<>>]
        /\ stage = [f \in Fetcher |-> "idle"] /\ asked = [f \in Fetcher |-> Nil]
        /\ addr = [f \in Fetcher |-> Nil] /\ socketC = [f \in Fetcher |-> "unbound"]
        /\ peer = [f \in Fetcher |-> Nil]
        /\ pipe = [f \in Fetcher |-> <<>>] /\ ended = [f \in Fetcher |-> "no"]
        /\ text = [f \in Fetcher |-> <<>>]
        /\ local = [f \in Fetcher |-> Nil] /\ result = [f \in Fetcher |-> Nil]

\* The fetcher has closed its connection, or was killed before or after it sent
\* its request.
Left(f) == stage[f] \in {"done", "dead", "gone"}

\* What was on its way to it is dropped.
Drop(f) == /\ pipe' = [pipe EXCEPT ![f] = <<>>]
           /\ text' = [text EXCEPT ![f] = <<>>]
           /\ ended' = [ended EXCEPT ![f] = "eof"]

\* Connections in the set F end, in one of the ways `how' for each.
End(F, how) == \E e \in [F -> how] :
                 ended' = [f \in Fetcher |-> IF f \in F /\ ended[f] = "no" THEN e[f] ELSE ended[f]]

Queued(u) == {queue[u][i] : i \in DOMAIN queue[u]}

-----------------------------------------------------------------------------
(* Users.                                                                  *)

\* Ports the server publishes, or a fetcher is about to connect to.
Known == {entry[v] : v \in Name} \cup {addr[f] : f \in {g \in Fetcher : stage[g] = "connect"}}

\* CONNECT: bind takes any free port, and the server publishes it.
Publish(u) == /\ lst[u] = "off" /\ entry[u] = Nil
              /\ \E p \in mode.ports :
                   /\ \A v \in Name : port[v] # p
                   /\ mode.reuse \/ p \notin Known
                   /\ port' = [port EXCEPT ![u] = p]
                   /\ entry' = [entry EXCEPT ![u] = p]
              /\ lst' = [lst EXCEPT ![u] = "bound"]
              /\ told' = [told EXCEPT ![u] = FALSE]
              /\ UNCHANGED <<mode, queue, serving, out, fetchers>>

\* The listener thread has come to listen.
Listen(u) == /\ lst[u] = "bound"
             /\ lst' = [lst EXCEPT ![u] = "waiting"]
             /\ UNCHANGED <<mode, entry, port, told, queue, serving, out, fetchers>>

\* Mutant: the server is told, the listener is not.
LeaveListening(u) == /\ mode.leaving /\ entry[u] # Nil /\ lst[u] \in {"waiting", "request", "send"}
                     /\ entry' = [entry EXCEPT ![u] = Nil]
                     /\ UNCHANGED <<mode, port, lst, told, queue, serving, out, fetchers>>

\* DISCONNECT, once the listener listens (Client has the case before): the
\* shutdown resets what was not accepted, a transfer goes on.
Leave(u) == /\ mode.leaving /\ entry[u] # Nil /\ lst[u] \in {"waiting", "request", "send"}
            /\ entry' = [entry EXCEPT ![u] = Nil]
            /\ told' = [told EXCEPT ![u] = TRUE]
            /\ queue' = [queue EXCEPT ![u] = <<>>]
            /\ End(Queued(u), {"reset"})
            /\ UNCHANGED <<mode, port, lst, serving, out, stage, asked, addr, socketC, peer, pipe, text, local, result>>

\* The client is killed: the server goes on publishing its port, which is free.
Vanish(u) == /\ u \in mode.mortal /\ lst[u] # "off"
             /\ lst' = [lst EXCEPT ![u] = "off"]
             /\ port' = [port EXCEPT ![u] = Nil]
             /\ queue' = [queue EXCEPT ![u] = <<>>]
             /\ serving' = [serving EXCEPT ![u] = Nil]
             /\ out' = [out EXCEPT ![u] = <<>>]
             /\ End(Queued(u) \cup ({serving[u]} \ {Nil}), {"eof", "reset"})
             /\ UNCHANGED <<mode, entry, told, stage, asked, addr, socketC, peer, pipe, text, local, result>>

\* Started again, its user disconnects what the server still has of it.
Recover(u) == /\ lst[u] = "off" /\ entry[u] # Nil
              /\ entry' = [entry EXCEPT ![u] = Nil]
              /\ UNCHANGED <<mode, port, lst, told, queue, serving, out, fetchers>>

Accept(u) == /\ lst[u] = "waiting" /\ queue[u] # <<>>
             /\ serving' = [serving EXCEPT ![u] = Head(queue[u])]
             /\ queue' = [queue EXCEPT ![u] = Tail(@)]
             /\ lst' = [lst EXCEPT ![u] = "request"]
             /\ UNCHANGED <<mode, entry, port, told, out, fetchers>>

\* A user's file as leer_archivo reads it: open in text mode makes every line end
\* a newline.
Text(u) == [i \in 1 .. Len(Content[u]) |->
              IF Content[u][i] \in {CR, CRLF} THEN LF ELSE Content[u][i]]

\* leer_archivo and the message it makes: the file is not there, cannot be
\* read, or is sent.
Reply(u) == {<<"1", NUL>>, <<"2", NUL>>, <<"0", NUL>> \o Text(u) \o <<NUL>>}

\* The request has come.  read_response would wait for ever for that of a
\* fetcher that vanished before it sent it.
ReadRequest(u) == /\ lst[u] = "request"
                  /\ stage[serving[u]] \notin {"send", "dead"}
                  /\ \E m \in Reply(u) : out' = [out EXCEPT ![u] = m]
                  /\ lst' = [lst EXCEPT ![u] = "send"]
                  /\ UNCHANGED <<mode, entry, port, told, queue, serving, fetchers>>

\* The name of the file has a character of more than one byte: read_response
\* raises, the listener's loop is left and its client_socket is dropped with
\* bytes of the request unread, which resets the connection.
RequestRaises(u) == /\ lst[u] = "request"
                    /\ stage[serving[u]] \notin {"send", "dead"}
                    /\ End({serving[u]}, {"reset"})
                    /\ serving' = [serving EXCEPT ![u] = Nil]
                    /\ lst' = [lst EXCEPT ![u] = "close"]
                    /\ UNCHANGED <<mode, entry, port, told, queue, out, stage, asked, addr, socketC, peer, pipe, text, local, result>>

\* sendall, byte by byte.
Send(u) == /\ lst[u] = "send" /\ out[u] # <<>>
           /\ pipe' = [pipe EXCEPT ![serving[u]] = IF Left(serving[u]) THEN <<>> ELSE Append(@, Head(out[u]))]
           /\ out' = [out EXCEPT ![u] = Tail(@)]
           /\ UNCHANGED <<mode, entry, port, lst, told, queue, serving, stage, asked, addr, socketC, peer, ended, text, local, result>>

\* close, and the next connection unless the flag is set.
CloseClient(u) == /\ lst[u] = "send" /\ out[u] = <<>>
                  /\ End({serving[u]}, {"eof"})
                  /\ serving' = [serving EXCEPT ![u] = Nil]
                  /\ lst' = [lst EXCEPT ![u] = IF told[u] THEN "close" ELSE "waiting"]
                  /\ UNCHANGED <<mode, entry, port, told, queue, out, stage, asked, addr, socketC, peer, pipe, text, local, result>>

\* Mutant: the connection being served is not forgotten.
SendFailsStill(u) == /\ lst[u] = "send" /\ Left(serving[u])
                     /\ out' = [out EXCEPT ![u] = <<>>]
                     /\ lst' = [lst EXCEPT ![u] = "close"]
                     /\ UNCHANGED <<mode, entry, port, told, queue, serving, fetchers>>

\* sendall to a fetcher that has closed or is gone may raise: the listener's
\* loop is left.
SendFails(u) == /\ lst[u] = "send" /\ Left(serving[u])
                /\ serving' = [serving EXCEPT ![u] = Nil]
                /\ out' = [out EXCEPT ![u] = <<>>]
                /\ lst' = [lst EXCEPT ![u] = "close"]
                /\ UNCHANGED <<mode, entry, port, told, queue, fetchers>>

\* The shutdown wakes accept.
Wake(u) == /\ lst[u] = "waiting" /\ told[u]
           /\ lst' = [lst EXCEPT ![u] = "close"]
           /\ UNCHANGED <<mode, entry, port, told, queue, serving, out, fetchers>>

\* Mutant: the listener's thread ends and its socket is not closed.
CloseLeaks(u) == /\ lst[u] = "close"
                 /\ lst' = [lst EXCEPT ![u] = "off"]
                 /\ UNCHANGED <<mode, entry, port, told, queue, serving, out, fetchers>>

\* The `finally' of listen_requests.
Close(u) == /\ lst[u] = "close"
            /\ lst' = [lst EXCEPT ![u] = "off"]
            /\ port' = [port EXCEPT ![u] = Nil]
            /\ queue' = [queue EXCEPT ![u] = <<>>]
            /\ End(Queued(u), {"reset"})
            /\ UNCHANGED <<mode, entry, told, serving, out, stage, asked, addr, socketC, peer, pipe, text, local, result>>

-----------------------------------------------------------------------------
(* Fetchers.                                                               *)

Goto(f, s) == stage' = [stage EXCEPT ![f] = s]
Return(f, r) == result' = [result EXCEPT ![f] = r] /\ Goto(f, "finally")

\* getfile asks for a user.
GetFile(f, u) == /\ stage[f] = "idle" /\ f \in mode.fetchers
                 /\ asked' = [asked EXCEPT ![f] = u]
                 /\ Goto(f, "ask")
                 /\ UNCHANGED <<mode, users, addr, socketC, peer, reading, local, result>>

\* Mutant: the name of the entry is not compared.
AskAny(f) == /\ stage[f] = "ask" /\ entry[asked[f]] # Nil
             /\ \E u \in Name : /\ entry[u] # Nil
                               /\ addr' = [addr EXCEPT ![f] = entry[u]]
             /\ Goto(f, "connect")
             /\ UNCHANGED <<mode, users, asked, socketC, peer, reading, local, result>>

\* LIST_USERS and get_data_by_user: the port is a snapshot.
Ask(f) == /\ stage[f] = "ask"
          /\ addr' = [addr EXCEPT ![f] = entry[asked[f]]]
          /\ IF entry[asked[f]] = Nil THEN Return(f, "USER_ERROR")
                                      ELSE Goto(f, "connect") /\ UNCHANGED result
          /\ UNCHANGED <<mode, users, asked, socketC, peer, reading, local>>

Listening(p) == {u \in Name : port[u] = p /\ lst[u] \in {"waiting", "request", "send"} /\ ~told[u]}

\* connect_socket: whoever listens on the port now, or None when nobody does, or
\* the connections it holds stay as many as it can until connect gives up.
Full(u) == Len(queue[u]) >= mode.backlog
Connect(f) ==
  /\ stage[f] = "connect"
  /\ \/ \E u \in Listening(addr[f]) :
          /\ ~Full(u)
          /\ peer' = [peer EXCEPT ![f] = u]
          /\ queue' = [queue EXCEPT ![u] = Append(@, f)]
          /\ socketC' = [socketC EXCEPT ![f] = "open"]
          /\ Goto(f, "send")
          /\ UNCHANGED result
     \/ /\ \A u \in Listening(addr[f]) : Full(u)
        /\ socketC' = [socketC EXCEPT ![f] = "None"]
        /\ Return(f, "USER_ERROR")
        /\ UNCHANGED <<peer, queue>>
  /\ UNCHANGED <<mode, entry, port, lst, told, serving, out, asked, addr, reading, local>>

SendRequest(f) == /\ stage[f] = "send"
                  /\ Goto(f, "status")
                  /\ UNCHANGED <<mode, users, asked, addr, socketC, peer, reading, local, result>>

\* A byte of the string read_response is reading.
Took(f) == pipe' = [pipe EXCEPT ![f] = Tail(@)]

\* The status is a string of one digit; only after "0" does content come.
ReadStatus(f) ==
  /\ stage[f] = "status" /\ Len(pipe[f]) >= 2
  /\ pipe' = [pipe EXCEPT ![f] = Tail(Tail(@))]
  /\ CASE Head(pipe[f]) = "0" -> Goto(f, "content") /\ UNCHANGED result
       [] Head(pipe[f]) = "1" -> Return(f, "ERROR")
       [] OTHER               -> Return(f, "USER_ERROR")
  /\ UNCHANGED <<mode, users, asked, addr, socketC, peer, ended, text, local>>

\* Bytes are decoded one by one: those of a longer character raise.
ReadContent(f) ==
  /\ stage[f] = "content" /\ pipe[f] # <<>>
  /\ Took(f)
  /\ CASE Head(pipe[f]) = NUL      -> Goto(f, "save") /\ UNCHANGED <<text, result>>
       [] Head(pipe[f]) \in Ascii  -> text' = [text EXCEPT ![f] = Append(@, Head(pipe[f]))] /\ UNCHANGED <<stage, result>>
       [] Head(pipe[f]) \in Multi  -> Return(f, "USER_ERROR") /\ UNCHANGED text
  /\ UNCHANGED <<mode, users, asked, addr, socketC, peer, ended, local>>

\* Mutant: an empty recv is taken for the end of the string.
ReadResetOrEnd(f) == /\ stage[f] \in {"status", "content"} /\ ended[f] # "no" /\ pipe[f] = <<>>
                     /\ IF stage[f] = "content" THEN Goto(f, "save") /\ UNCHANGED result
                                                ELSE Return(f, "USER_ERROR")
                     /\ UNCHANGED <<mode, users, asked, addr, socketC, peer, reading, local>>

\* A reset raises, in sendall or recv.  At the end of the stream recv returns
\* the empty string and read_response asks again, for ever.
ReadReset(f) == /\ stage[f] \in {"send", "status", "content"} /\ ended[f] = "reset"
                /\ Return(f, "USER_ERROR")
                /\ UNCHANGED <<mode, users, asked, addr, socketC, peer, reading, local>>

\* save_content writes the file, or cannot open it.
Save(f) == /\ stage[f] = "save"
           /\ \/ local' = [local EXCEPT ![f] = text[f]] /\ Return(f, "OK")
              \/ Return(f, "USER_ERROR") /\ UNCHANGED local
           /\ UNCHANGED <<mode, users, asked, addr, socketC, peer, reading>>

\* The `finally' closes socketC: an exception when there is none replaces what
\* was to be returned.
Finally(f) == /\ stage[f] = "finally"
              /\ result' = [result EXCEPT ![f] = IF socketC[f] = "open" THEN @ ELSE "raised"]
              /\ Goto(f, "done")
              /\ Drop(f)
              /\ UNCHANGED <<mode, users, asked, addr, socketC, peer, local>>

\* The fetcher is killed.
Killed(f) == /\ f \in mode.mortal
             /\ \/ stage[f] = "send" /\ Goto(f, "dead")
                \/ stage[f] \in {"status", "content"} /\ Goto(f, "gone")
             /\ Drop(f)
             /\ UNCHANGED <<mode, users, asked, addr, socketC, peer, local, result>>

-----------------------------------------------------------------------------
ListenerStep(u) == \/ Listen(u) \/ Accept(u) \/ ReadRequest(u) \/ RequestRaises(u) \/ Send(u)
                   \/ CloseClient(u) \/ SendFails(u) \/ Wake(u) \/ Close(u)
FetcherStep(f) == \/ Ask(f) \/ Connect(f) \/ SendRequest(f) \/ ReadStatus(f) \/ ReadContent(f)
                  \/ ReadReset(f) \/ Save(f) \/ Finally(f)

Next == \/ \E u \in Name : Publish(u) \/ Leave(u) \/ Vanish(u) \/ Recover(u) \/ ListenerStep(u)
        \/ \E f \in Fetcher : \/ \E u \in Name : GetFile(f, u)
                              \/ FetcherStep(f) \/ Killed(f)

\* Threads run; nobody need connect, leave or fetch.
Fairness == /\ \A u \in Name : WF_vars(ListenerStep(u))
            /\ \A f \in Fetcher : WF_vars(FetcherStep(f))

Spec == Init /\ [][Next]_vars
FairSpec == Spec /\ Fairness

-----------------------------------------------------------------------------
(* Properties.                                                             *)

\* The type invariant, with what a listener serves while it serves.
TypeOK ==
  /\ \A u \in Name :
       /\ entry[u] \in Port \cup {Nil} /\ port[u] \in Port \cup {Nil}
       /\ lst[u] \in {"off", "bound", "waiting", "request", "send", "close"}
       /\ serving[u] \in Fetcher <=> lst[u] \in {"request", "send"}
       /\ Queued(u) \subseteq Fetcher /\ Len(queue[u]) <= mode.backlog
       /\ port[u] = Nil <=> lst[u] = "off"
  /\ \A f \in Fetcher :
       /\ peer[f] \in Name <=> socketC[f] = "open"
       /\ ended[f] \in {"no", "eof", "reset"}
       /\ result[f] \in {Nil, "OK", "ERROR", "USER_ERROR", "raised"}

\* A local file that GET_FILE has written is the whole text of the file of the
\* user it reached, whoever vanishes, leaves or is served at the same time, and OK
\* is returned for nothing else (client.py:37-44, 143, 576-586).  It is not always
\* the file itself: a file with other line ends arrives with newlines.
OkMeansCopied ==
  \A f \in Fetcher : /\ local[f] # Nil => local[f] = Text(peer[f])
                     /\ result[f] = "OK" => local[f] # Nil

\* A fetch comes to an end as long as nobody is killed, though users disconnect
\* while it is in their queue or being served (client.py:158-190, 573-578).
EveryFetchEnds ==
  mode.mortal = {} => \A f \in Fetcher : stage[f] = "ask" ~> stage[f] = "done"

\* A user that has disconnected gives its port back, whoever it was serving and
\* whoever waits in its queue, as long as nobody is killed (client.py:163-190).
PortGivenBack ==
  mode.mortal = {} => \A u \in Name : entry[u] = Nil /\ port[u] # Nil ~> port[u] = Nil

\* A fetch that is answered is answered by the user that was asked for, unless
\* a port is used again that the server publishes or a fetcher has been told:
\* `Ya tenemos la info que necesitamos y podemos pedirsela al otro cliente'
\* (client.py:564).
FromAskedUser == ~mode.reuse => \A f \in Fetcher : peer[f] # Nil => peer[f] = asked[f]
=============================================================================
