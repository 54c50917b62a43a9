------------------------------- MODULE Client -------------------------------
(***************************************************************************)
(* The session of one client, src/client.py: CONNECT, DISCONNECT and QUIT  *)
(* at its shell, and the threads that run listen_requests.  They share the *)
(* attributes of the class: _server_socket and _stop_flag are written and  *)
(* read by the shell and by every listener, without a lock.                *)
(*                                                                         *)
(* The server is the registry that Registry specifies, reduced to who is   *)
(* registered and on which socket a user is published; it may exit, and    *)
(* starts again with no users.  Sockets are numbered as CONNECT opens      *)
(* them; a listener has the number of the one its CONNECT opened, but      *)
(* works on the one it finds in _server_socket.                            *)
(***************************************************************************)
EXTENDS Integers, FiniteSets

CONSTANTS Name,       \* user names
          Nil,        \* no user, no command, no socket
          Absent,     \* at the server: not registered ...
          Offline,    \* ... or registered and not connected
          MaxSock,    \* sockets
          Modes       \* the situations: sessions is how many sockets are opened,
                      \* one per CONNECT (a bound); the others are what may happen:
                      \*   patient     the user waits for the listeners to settle
                      \*   own         DISCONNECT names the user of the session
                      \*   stays       nobody unregisters a user that is connected
                      \*   interrupts  Ctrl-C comes in the middle of a command
                      \*   outages     the time service is down
                      \*   lasting     the server does not exit
                      \*   polite      peers make no listener raise, and none hang

Sock == 1 .. MaxSock

ASSUME ClientAssumption == /\ MaxSock \in Nat
                           /\ Nil \notin Sock \cup Name
                           /\ Nil \notin {"connect", "disconnect", "quit", "ask", "answer"}
                           /\ Absent # Offline /\ {Absent, Offline} \cap Sock = {}
                           /\ Modes \subseteq
                                [patient : BOOLEAN, own : BOOLEAN, stays : BOOLEAN,
                                 interrupts : BOOLEAN, outages : BOOLEAN, lasting : BOOLEAN,
                                 polite : BOOLEAN, sessions : 0 .. MaxSock]

VARIABLES mode,      \* the situation, which does not change
          running,   \* the client process
          connected, \* _connected
          user,      \* _user
          flag,      \* _stop_flag
          current,   \* _server_socket
          opened,    \* sockets opened so far
          kernel,    \* what the kernel knows of each
          closed,    \* those closed by close()
          cmd,       \* the command the shell is at, its step and the code
          thread,    \* where each listener is in listen_requests
          on,        \* the socket it waits for a connection on
          entry      \* the server: a user's socket, or offline, or absent

shell == <<connected, user, cmd>>
sockets == <<current, opened, kernel, closed>>
listeners == <<thread, on>>
vars == <<mode, running, shell, flag, sockets, listeners, entry>>

Prompt == [op |-> Nil, user |-> Nil, step |-> Nil, code |-> Nil]

Init == /\ mode \in Modes
        /\ running = TRUE /\ connected = FALSE /\ user = Nil
        /\ flag = FALSE
        /\ current = Nil /\ opened = 0 /\ closed = {}
        /\ kernel = [s \in Sock |-> "none"]
        /\ cmd = Prompt
        /\ thread = [l \in Sock |-> "none"]
        /\ on = [l \in Sock |-> Nil]
        /\ entry = [u \in Name |-> Absent]

Idle == running /\ cmd = Prompt
Online(u) == entry[u] \in Sock

\* Waiting for a connection that may come, or not there.
Settled == \A l \in Sock : \/ thread[l] \in {"none", "dead"}
                           \/ thread[l] = "waiting" /\ kernel[on[l]] = "listening"

AtPrompt == Idle /\ (mode.patient => Settled)

-----------------------------------------------------------------------------
(* Commands.  The server answers from its registry at one instant.         *)

\* REGISTER and UNREGISTER leave the session alone.  Neither client.py nor the
\* server refuses to unregister a user that is connected, of this client or by
\* another one.
Register(u) == /\ AtPrompt /\ entry[u] = Absent
               /\ entry' = [entry EXCEPT ![u] = Offline]
               /\ UNCHANGED <<mode, running, shell, flag, sockets, listeners>>

Unregister(u) == /\ AtPrompt /\ entry[u] # Absent
                 /\ mode.stays => ~Online(u)
                 /\ entry' = [entry EXCEPT ![u] = Absent]
                 /\ UNCHANGED <<mode, running, shell, flag, sockets, listeners>>

\* connect opens and binds the socket, once it has reached the server.
Connect(u) == /\ AtPrompt /\ ~connected
              /\ opened < mode.sessions
              /\ opened' = opened + 1
              /\ current' = opened'
              /\ kernel' = [kernel EXCEPT ![opened'] = "bound"]
              /\ cmd' = [op |-> "connect", user |-> u, step |-> "ask", code |-> Nil]
              /\ UNCHANGED <<mode, running, connected, user, flag, closed, listeners, entry>>

Answered(code) == cmd' = [cmd EXCEPT !.step = "answer", !.code = code]

\* The server enters the address, which nobody listens on yet.
ServerConnects ==
  /\ running /\ cmd.op = "connect" /\ cmd.step = "ask"
  /\ \/ entry[cmd.user] = Absent /\ Answered(1) /\ UNCHANGED entry
     \/ Online(cmd.user) /\ Answered(2) /\ UNCHANGED entry
     \/ /\ entry[cmd.user] = Offline /\ Answered(0)
        /\ entry' = [entry EXCEPT ![cmd.user] = current]
  /\ UNCHANGED <<mode, running, connected, user, flag, sockets, listeners>>

\* CONNECT OK starts the listener, which is not waited for.
ConnectOk == /\ running /\ cmd.op = "connect" /\ cmd.step = "answer" /\ cmd.code = 0
             /\ thread' = [thread EXCEPT ![opened] = "listen"]
             /\ connected' = TRUE /\ user' = cmd.user
             /\ cmd' = Prompt
             /\ UNCHANGED <<mode, running, flag, sockets, on, entry>>

\* Any other answer, or an exception: the time service is down, or the server
\* exited.
ConnectFails == /\ running /\ cmd.op = "connect"
                /\ \/ cmd.step = "ask" /\ mode.outages
                   \/ cmd.step = "answer" /\ cmd.code # 0
                   \/ cmd.step = "lost"
                /\ closed' = closed \cup {current}
                /\ cmd' = Prompt
                /\ UNCHANGED <<mode, running, connected, user, flag, current, opened, kernel, listeners, entry>>

\* DISCONNECT takes any name.
Disconnect(u) == /\ AtPrompt /\ (mode.own /\ connected => u = user)
                 /\ cmd' = [op |-> "disconnect", user |-> u, step |-> "ask", code |-> Nil]
                 /\ UNCHANGED <<mode, running, connected, user, flag, sockets, listeners, entry>>

\* Mutant: QUIT only ends the program.
QuitAtOnce == /\ AtPrompt
              /\ running' = FALSE
              /\ UNCHANGED <<mode, shell, flag, sockets, listeners, entry>>

\* QUIT, or Ctrl-C at the prompt.
Quit == /\ AtPrompt
        /\ IF connected
             THEN /\ cmd' = [op |-> "quit", user |-> user, step |-> "ask", code |-> Nil]
                  /\ UNCHANGED running
             ELSE running' = FALSE /\ UNCHANGED cmd
        /\ UNCHANGED <<mode, connected, user, flag, sockets, listeners, entry>>

\* Ctrl-C in the middle of a command, also of one that hangs: KeyboardInterrupt
\* is no Exception, and the shell disconnects a client that knows it is connected.
Interrupt == /\ mode.interrupts /\ running /\ cmd # Prompt /\ cmd.op # "quit"
             /\ IF connected
                  THEN /\ cmd' = [op |-> "quit", user |-> user, step |-> "ask", code |-> Nil]
                       /\ UNCHANGED running
                  ELSE running' = FALSE /\ UNCHANGED cmd
             /\ UNCHANGED <<mode, connected, user, flag, sockets, listeners, entry>>

Disconnecting(step) == running /\ cmd.op \in {"disconnect", "quit"} /\ cmd.step = step

ServerDisconnects ==
  /\ Disconnecting("ask")
  /\ \/ entry[cmd.user] = Absent /\ Answered(1) /\ UNCHANGED entry
     \/ entry[cmd.user] = Offline /\ Answered(2) /\ UNCHANGED entry
     \/ /\ Online(cmd.user) /\ Answered(0)
        /\ entry' = [entry EXCEPT ![cmd.user] = Offline]
  /\ UNCHANGED <<mode, running, connected, user, flag, sockets, listeners>>

\* The method returns: to the prompt, or to the end of the program.
Returns == IF cmd.op = "quit" THEN running' = FALSE /\ UNCHANGED cmd
                              ELSE cmd' = Prompt /\ UNCHANGED running

\* The session is forgotten and the flag set, whatever the answer is.
Forget == /\ Disconnecting("answer")
          /\ connected' = FALSE /\ user' = Nil
          /\ flag' = TRUE
          /\ IF cmd.code = 0 THEN cmd' = [cmd EXCEPT !.step = "shut"] /\ UNCHANGED running
                             ELSE Returns
          /\ UNCHANGED <<mode, sockets, listeners, entry>>

\* Mutant: only the flag tells the listener.
NoShutdown == /\ Disconnecting("shut")
              /\ Returns
              /\ UNCHANGED <<mode, connected, user, flag, sockets, listeners, entry>>

\* shutdown of a socket that listens; of any other it raises an exception.
Shutdown == /\ Disconnecting("shut")
            /\ flag' = TRUE
            /\ IF current # Nil /\ current \notin closed /\ kernel[current] = "listening"
                 THEN kernel' = [kernel EXCEPT ![current] = "shut"]
                 ELSE UNCHANGED kernel
            /\ Returns
            /\ UNCHANGED <<mode, connected, user, current, opened, closed, listeners, entry>>

\* Mutant: a DISCONNECT that could not be sent forgets the session as well.
DisconnectForgets == /\ \/ Disconnecting("ask") /\ mode.outages
                        \/ Disconnecting("lost")
                     /\ connected' = FALSE /\ user' = Nil
                     /\ Returns
                     /\ UNCHANGED <<mode, flag, sockets, listeners, entry>>

\* The time service is down and the exception comes before the request is sent;
\* or the server has exited, before connect_socket or after.
DisconnectFails == /\ \/ Disconnecting("ask") /\ mode.outages
                      \/ Disconnecting("ask") /\ ~mode.lasting /\ \A u \in Name : entry[u] = Absent
                      \/ Disconnecting("lost")
                   /\ Returns
                   /\ UNCHANGED <<mode, connected, user, flag, sockets, listeners, entry>>

-----------------------------------------------------------------------------
\* The server exits and starts again, at once or later; it keeps nothing.  A
\* command that waits for its answer may have it already, gets an exception
\* when the connection is reset, or hangs when it is closed, since read_response
\* reads on at the end of the stream.
ServerExits ==
  /\ ~mode.lasting /\ running
  /\ entry' = [u \in Name |-> Absent]
  /\ \/ cmd.step # "ask" /\ UNCHANGED cmd
     \/ /\ cmd.step \in {"ask", "answer"}
        /\ \E s \in {"lost", "hung"} : cmd' = [cmd EXCEPT !.step = s, !.code = Nil]
  /\ UNCHANGED <<mode, running, connected, user, flag, sockets, listeners>>

-----------------------------------------------------------------------------
(* listen_requests.                                                        *)

At(l, p) == running /\ thread[l] = p
Goto(l, p) == thread' = [thread EXCEPT ![l] = p]

Listen(l) == /\ At(l, "listen")
             /\ IF current \in closed
                  THEN Goto(l, "close") /\ UNCHANGED kernel
                  ELSE Goto(l, "clear") /\ kernel' = [kernel EXCEPT ![current] = "listening"]
             /\ UNCHANGED <<mode, running, shell, flag, current, opened, closed, on, entry>>

\* Mutant: the flag is not cleared.
ClearNot(l) == /\ At(l, "clear")
               /\ Goto(l, "test")
               /\ UNCHANGED <<mode, running, shell, flag, sockets, on, entry>>

Clear(l) == /\ At(l, "clear")
            /\ flag' = FALSE
            /\ Goto(l, "test")
            /\ UNCHANGED <<mode, running, shell, sockets, on, entry>>

Test(l) == /\ At(l, "test")
           /\ Goto(l, IF flag THEN "close" ELSE "accept")
           /\ UNCHANGED <<mode, running, shell, flag, sockets, on, entry>>

\* accept of whatever _server_socket is now; it raises unless that listens.
Accept(l) == /\ At(l, "accept")
             /\ IF current \notin closed /\ kernel[current] = "listening"
                  THEN Goto(l, "waiting") /\ on' = [on EXCEPT ![l] = current]
                  ELSE Goto(l, "close") /\ UNCHANGED on
             /\ UNCHANGED <<mode, running, shell, flag, sockets, entry>>

\* A peer connects to the socket, which a thread that waits keeps alive.
PeerComes(l) == /\ At(l, "waiting") /\ kernel[on[l]] = "listening"
                /\ Goto(l, "serve") /\ on' = [on EXCEPT ![l] = Nil]
                /\ UNCHANGED <<mode, running, shell, flag, sockets, entry>>

\* The shutdown wakes accept with an error.
WakeShut(l) == /\ At(l, "waiting") /\ kernel[on[l]] = "shut"
               /\ Goto(l, "close")
               /\ UNCHANGED <<mode, running, shell, flag, sockets, on, entry>>

\* The peer has been answered; or its bytes do not decode, or it has reset the
\* connection that sendall writes to, and the exception ends the loop.
Serve(l) == /\ At(l, "serve")
            /\ \/ Goto(l, "test")
               \/ ~mode.polite /\ Goto(l, "close")
            /\ UNCHANGED <<mode, running, shell, flag, sockets, on, entry>>

\* The `finally': whatever _server_socket is now.
Close(l) == /\ At(l, "close")
            /\ closed' = closed \cup {current}
            /\ Goto(l, "dead") /\ on' = [on EXCEPT ![l] = Nil]
            /\ UNCHANGED <<mode, running, shell, flag, current, opened, kernel, entry>>

-----------------------------------------------------------------------------
Command == \/ \E u \in Name : Register(u) \/ Unregister(u) \/ Connect(u) \/ Disconnect(u)
           \/ Quit
Shell == \/ ServerConnects \/ ConnectOk \/ ConnectFails
         \/ ServerDisconnects \/ Forget \/ Shutdown \/ DisconnectFails
Listener(l) == \/ Listen(l) \/ Clear(l) \/ Test(l) \/ Accept(l)
               \/ WakeShut(l) \/ Close(l)

Next == \/ Command \/ Shell \/ Interrupt \/ ServerExits
        \/ \E l \in Sock : Listener(l) \/ Serve(l) \/ PeerComes(l)

\* Threads run; nobody need type a command or connect as a peer, and a peer that
\* is not polite need not let the listener go on.
Fairness == /\ WF_vars(Shell)
            /\ \A l \in Sock : WF_vars(Listener(l)) /\ WF_vars(mode.polite /\ Serve(l))

Spec == Init /\ [][Next]_vars
FairSpec == Spec /\ Fairness

-----------------------------------------------------------------------------
(* Properties.                                                             *)

\* The server keeps what it was told while a client is connected.
Steady == mode.stays /\ mode.lasting

\* Client and server agree, between commands, whatever command failed or was
\* interrupted and whatever the listeners are doing (client.py:232-233, 271-272):
\* while the server keeps it, the user of the session is published on the socket
\* of the session; and nobody else is on line, as long as the user disconnects
\* nobody else.  (Unregistered, or forgotten by the server, a client still says
\* that it is connected.)
Agree == Idle => /\ connected <=> user # Nil
                 /\ Steady /\ connected => entry[user] = current
                 /\ mode.own => \A u \in Name : Online(u) => u = user /\ entry[u] = current

Alive(l) == thread[l] \notin {"none", "dead"}

\* A user who lets the listeners settle and disconnects nobody else, at a server
\* that keeps what it was told.
Calm == mode.patient /\ mode.own /\ Steady

\* Such a user that is connected can be reached at the address the server gives
\* of it once its listeners have settled, unless a peer ended the listener: one
\* of them waits on that address (client.py:161-165, 207-223).
Reachable == Calm /\ mode.polite /\ Idle /\ connected /\ Settled =>
               /\ kernel[current] = "listening"
               /\ Cardinality({l \in Sock : thread[l] = "waiting" /\ on[l] = current}) = 1

\* Once the client is disconnected its listener ends, unless it connects again
\* or exits: `Activamos el evento para que el hilo pare' (client.py:273).
StopsWhenTold == Idle /\ ~connected ~>
                   connected \/ ~running \/ cmd.op = "connect" \/ \A l \in Sock : ~Alive(l)

\* It does end for a calm user, who lets it come to accept before the next
\* command, though peers may come to it while it is told (client.py:274-279).
PatientStops == Calm /\ mode.polite /\ Idle /\ ~connected ~>
                  connected \/ ~running \/ cmd.op = "connect" \/ \A l \in Sock : ~Alive(l)

\* The listener of such a user never closes the socket of a later session
\* (client.py:190), whatever its peers do: it ends with the exception its own
\* shutdown raised, `hacer shutdown del socket [...] se cierra con una excepcion'
\* (client.py:678), or with the one a peer caused.
ClosesItsOwn == [][Calm => \A l \in Sock : Alive(l) /\ thread'[l] = "dead" =>
                     \A s \in closed' \ closed : s <= l]_vars

\* A client that exits leaves no user connected, QUIT and Ctrl-C at the prompt
\* disconnect it (client.py:674-679, 685-687), while the user disconnects nobody
\* else, the time service is there and no Ctrl-C comes in the middle of a command.
ExitDisconnects ==
  ~running /\ mode.own /\ ~mode.outages /\ ~mode.interrupts => \A u \in Name : ~Online(u)
=============================================================================
