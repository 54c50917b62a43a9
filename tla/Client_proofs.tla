--------------------------- MODULE Client_proofs ---------------------------
(***************************************************************************)
(* Theorems about Client for any number of sockets, sessions and users.    *)
(***************************************************************************)
EXTENDS Client, FiniteSetTheorems, TLAPS

(* What the variables hold; only a connected client, or one about to be,   *)
(* has a user and a socket.                                                *)
CommandSet == [op : {Nil, "connect", "disconnect", "quit"}, user : Name \cup {Nil},
               step : {Nil, "ask", "answer", "shut", "lost", "hung"}, code : {Nil, 0, 1, 2}]
Places == {"none", "listen", "clear", "test", "accept", "waiting", "serve", "close", "dead"}

ShellTypes ==
  /\ mode \in Modes
  /\ running \in BOOLEAN /\ connected \in BOOLEAN
  /\ user \in Name \cup {Nil}
  /\ connected <=> user # Nil
  /\ cmd \in CommandSet
  /\ cmd.op = Nil => cmd = Prompt
  /\ cmd.op # Nil => cmd.user \in Name
  /\ opened \in 0 .. MaxSock /\ current = IF opened = 0 THEN Nil ELSE opened
  /\ connected \/ cmd.op = "connect" => opened # 0
  /\ entry \in [Name -> Sock \cup {Absent, Offline}]

(* No listener is there before its session, and no socket closed before it. *)
ListenerTypes ==
  /\ flag \in BOOLEAN
  /\ closed \subseteq 1 .. opened
  /\ kernel \in [Sock -> {"none", "bound", "listening", "shut"}]
  /\ thread \in [Sock -> Places]
  /\ \A l \in Sock : thread[l] # "none" => l <= opened
  /\ on \in [Sock -> Sock \cup {Nil}]

(* Who is on line at the server, at every step of a command: what the       *)
(* client believes, except between the server's answer and the client's     *)
(* hearing of it.                                                           *)
NobodyOnline == \A u \in Name : ~Online(u)
OnlyOnline(w) == \A u \in Name : Online(u) => u = w /\ entry[u] = current
Known == /\ Steady /\ connected => entry[user] = current
         /\ mode.own => OnlyOnline(user)

Session ==
  /\ running /\ cmd.op = Nil => Known
  /\ running /\ cmd.op = "connect" =>
       /\ ~connected /\ cmd.step \in {"ask", "answer", "lost", "hung"}
       /\ mode.own /\ (cmd.step # "answer" \/ cmd.code # 0) => NobodyOnline
       /\ cmd.step = "answer" /\ cmd.code = 0 =>
            /\ Steady => entry[cmd.user] = current
            /\ mode.own => OnlyOnline(cmd.user)
       /\ Steady => cmd.step \in {"ask", "answer"}
  /\ running /\ cmd.op \in {"disconnect", "quit"} =>
       /\ cmd.step \in {"ask", "answer", "shut", "lost", "hung"}
       /\ (mode.own \/ cmd.op = "quit") /\ connected => cmd.user = user
       /\ cmd.step = "ask" /\ cmd.op = "disconnect" => Known
       /\ cmd.step = "ask" /\ cmd.op = "quit" => connected /\ (mode.own => OnlyOnline(user))
       /\ mode.own /\ cmd.step # "ask" => NobodyOnline
       /\ mode.own /\ Steady /\ cmd.step = "answer" /\ connected /\ cmd.op = "disconnect" =>
            cmd.code = 0
       /\ mode.own /\ cmd.step = "answer" /\ cmd.code = 0 => connected
       /\ cmd.step = "shut" => ~connected /\ (mode.own => opened # 0)
       /\ Steady => cmd.step \in {"ask", "answer", "shut"}
  /\ ~running /\ mode.own /\ ~mode.outages /\ ~mode.interrupts => NobodyOnline

(* The listeners of a calm user: only the one of the last session is alive, *)
(* and where it can be follows from where the shell is.                     *)
Ended(l) == thread[l] \in {"none", "dead"}
Fresh == kernel[opened] = "bound" /\ opened \notin closed
Patient ==
  Calm /\ running =>
    /\ \A l \in Sock : l # opened => Ended(l)
    /\ cmd.op = "connect" => Fresh /\ thread[opened] = "none"
    /\ connected =>
         /\ \/ thread[opened] = "listen" /\ Fresh
            \/ /\ thread[opened] \in {"clear", "test", "accept", "waiting", "serve"}
               /\ kernel[opened] = "listening" /\ opened \notin closed
            \/ ~mode.polite /\ thread[opened] = "close" /\ opened \notin closed
               /\ kernel[opened] = "listening"
            \/ ~mode.polite /\ thread[opened] = "dead"
         /\ thread[opened] \in {"test", "accept", "waiting", "serve"} => ~flag
         /\ cmd.op # Nil => thread[opened] \notin {"listen", "clear"}
    /\ ~connected /\ cmd.op # "connect" /\ opened # 0 =>
         \/ Ended(opened)
         \/ /\ thread[opened] \in {"test", "accept", "waiting", "serve", "close"}
            /\ opened \notin closed
            /\ kernel[opened] = IF cmd.op # Nil /\ cmd.step = "shut" THEN "listening" ELSE "shut"
    /\ opened # 0 /\ thread[opened] = "waiting" => on[opened] = opened

CInv == ShellTypes /\ ListenerTypes /\ Session /\ Patient

-----------------------------------------------------------------------------
(* The steps keep them.                                                    *)

\* What the server answers, and what it does.
LEMMA ServerConnectsDoes ==
  ASSUME ShellTypes, ServerConnects
  PROVE  /\ running /\ cmd.op = "connect" /\ cmd.step = "ask" /\ cmd.user \in Name
         /\ current \in Sock
         /\ UNCHANGED <<mode, running, connected, user, flag, sockets, listeners>>
         /\ \/ Answered(0) /\ entry' = [entry EXCEPT ![cmd.user] = current]
            \/ (Answered(1) \/ Answered(2)) /\ entry' = entry
<1>1. cmd.user \in Name /\ current \in Sock
  BY ClientAssumption DEF ShellTypes, ServerConnects, Sock
<1>. QED BY <1>1, Zenon DEF ServerConnects

\* The same of DISCONNECT.
LEMMA ServerDisconnectsDoes ==
  ASSUME ShellTypes, ServerDisconnects
  PROVE  /\ running /\ cmd.op \in {"disconnect", "quit"} /\ cmd.step = "ask" /\ cmd.user \in Name
         /\ UNCHANGED <<mode, running, connected, user, flag, sockets, listeners>>
         /\ \/ Answered(0) /\ Online(cmd.user) /\ entry' = [entry EXCEPT ![cmd.user] = Offline]
            \/ (Answered(1) \/ Answered(2)) /\ ~Online(cmd.user) /\ entry' = entry
<1>1. cmd.user \in Name
  BY ClientAssumption DEF ShellTypes, ServerDisconnects, Disconnecting
<1>2. entry[cmd.user] \in {Absent, Offline} => ~Online(cmd.user)
  BY ClientAssumption DEF Online
<1>. QED BY <1>1, <1>2, Zenon DEF ServerDisconnects, Disconnecting

\* An answer is the next step of the same command.
LEMMA AnsweredIs ==
  ASSUME ShellTypes, cmd.op # Nil, NEW c \in {0, 1, 2}, Answered(c)
  PROVE  /\ cmd' \in CommandSet
         /\ cmd'.op = cmd.op /\ cmd'.user = cmd.user /\ cmd'.step = "answer" /\ cmd'.code = c
BY DEF ShellTypes, Answered, CommandSet

\* Every step keeps the types.
LEMMA ShellTypesInductive ==
  ASSUME ShellTypes, [Next]_vars
  PROVE  ShellTypes'
<1>. USE ClientAssumption DEF ShellTypes, Sock, Prompt, shell, sockets, listeners, CommandSet, Places
<1>1. ASSUME NEW u \in Name, Register(u) PROVE ShellTypes'
  BY <1>1 DEF Register, AtPrompt, Idle, Prompt
<1>2. ASSUME NEW u \in Name, Unregister(u) PROVE ShellTypes'
  BY <1>2 DEF Unregister, AtPrompt, Idle, Prompt
<1>3. ASSUME NEW u \in Name, Connect(u) PROVE ShellTypes'
  BY <1>3 DEF Connect, AtPrompt, Idle, Prompt
<1>4. ASSUME NEW u \in Name, Disconnect(u) PROVE ShellTypes'
  BY <1>4 DEF Disconnect, AtPrompt, Idle, Prompt
<1>5. CASE Quit
  <2>1. CASE connected
    BY <1>5, <2>1 DEF Quit, AtPrompt, Idle, Prompt
  <2>2. CASE ~connected
    BY <1>5, <2>2 DEF Quit, AtPrompt, Idle, Prompt
  <2>. QED BY <2>1, <2>2
<1>6. CASE Interrupt
  <2>1. CASE connected
    BY <1>6, <2>1 DEF Interrupt, Prompt
  <2>2. CASE ~connected
    BY <1>6, <2>2 DEF Interrupt, Prompt
  <2>. QED BY <2>1, <2>2
<1>7. CASE ServerConnects
  <2>1. /\ cmd.op = "connect" /\ cmd.user \in Name
        /\ UNCHANGED <<mode, running, connected, user, current, opened>>
    BY <1>7, ServerConnectsDoes
  <2>2. entry' \in [Name -> Sock \cup {Absent, Offline}]
    BY <1>7, ServerConnectsDoes
  <2>3. /\ cmd' \in CommandSet
        /\ cmd'.op = cmd.op /\ cmd'.user = cmd.user
    BY <1>7, <2>1, ServerConnectsDoes, AnsweredIs
  <2>. QED BY <2>1, <2>2, <2>3
<1>8. CASE ConnectOk
  BY <1>8 DEF ConnectOk, Prompt
<1>9. CASE ConnectFails
  BY <1>9 DEF ConnectFails, Prompt
<1>10. CASE ServerDisconnects
  <2>1. CASE entry[cmd.user] = Absent
    BY <1>10, <2>1, ZenonT(30) DEF ServerDisconnects, Answered, Disconnecting
  <2>2. CASE entry[cmd.user] = Offline
    BY <1>10, <2>2, ZenonT(30) DEF ServerDisconnects, Answered, Disconnecting
  <2>3. CASE Online(cmd.user)
    BY <1>10, <2>3, ZenonT(30) DEF ServerDisconnects, Answered, Disconnecting
  <2>. QED BY <1>10, <2>1, <2>2, <2>3 DEF ServerDisconnects
<1>11. CASE Forget
  <2>1. UNCHANGED <<mode, opened, current, entry>> /\ connected' = FALSE /\ user' = Nil
    BY <1>11 DEF Forget
  <2>2. CASE cmd.code = 0
    BY <1>11, <2>1, <2>2, ZenonT(30) DEF Forget, Disconnecting
  <2>3. CASE cmd.code # 0
    <3>1. running' \in BOOLEAN
      BY <1>11, <2>3 DEF Forget, Returns
    <3>2. CASE cmd' = cmd
      BY <1>11, <2>1, <3>1, <3>2 DEF Forget, Disconnecting
    <3>3. CASE cmd' = Prompt
      BY <2>1, <3>1, <3>3
    <3>. QED BY <1>11, <2>3, <3>2, <3>3 DEF Forget, Returns
  <2>. QED BY <2>2, <2>3
<1>12. CASE Shutdown
  <2>1. CASE cmd.op = "quit"
    BY <1>12, <2>1 DEF Shutdown, Disconnecting, Returns, Prompt
  <2>2. CASE cmd.op # "quit"
    BY <1>12, <2>2 DEF Shutdown, Disconnecting, Returns, Prompt
  <2>. QED BY <2>1, <2>2
<1>13. CASE DisconnectFails
  <2>1. CASE cmd.op = "quit"
    BY <1>13, <2>1 DEF DisconnectFails, Disconnecting, Returns, Prompt
  <2>2. CASE cmd.op # "quit"
    BY <1>13, <2>2 DEF DisconnectFails, Disconnecting, Returns, Prompt
  <2>. QED BY <2>1, <2>2
<1>14. ASSUME NEW l \in Sock, Listen(l) PROVE ShellTypes'
  BY <1>14 DEF Listen, At, Goto
<1>15. ASSUME NEW l \in Sock, Clear(l) PROVE ShellTypes'
  BY <1>15 DEF Clear, At, Goto
<1>16. ASSUME NEW l \in Sock, Test(l) PROVE ShellTypes'
  BY <1>16 DEF Test, At, Goto
<1>17. ASSUME NEW l \in Sock, Accept(l) PROVE ShellTypes'
  BY <1>17 DEF Accept, At, Goto
<1>18. ASSUME NEW l \in Sock, WakeShut(l) PROVE ShellTypes'
  BY <1>18 DEF WakeShut, At, Goto
<1>19. ASSUME NEW l \in Sock, Serve(l) PROVE ShellTypes'
  BY <1>19 DEF Serve, At, Goto
<1>20. ASSUME NEW l \in Sock, Close(l) PROVE ShellTypes'
  BY <1>20 DEF Close, At, Goto
<1>21. ASSUME NEW l \in Sock, PeerComes(l) PROVE ShellTypes'
  BY <1>21 DEF PeerComes, At, Goto
<1>22. CASE ServerExits
  <2>1. CASE cmd' = cmd
    BY <1>22, <2>1 DEF ServerExits
  <2>2. ASSUME NEW x \in {"lost", "hung"}, cmd' = [cmd EXCEPT !.step = x, !.code = Nil],
               cmd.step \in {"ask", "answer"}
        PROVE  ShellTypes'
    <3>1. cmd'.op = cmd.op /\ cmd'.user = cmd.user
      BY <2>2
    <3>2. cmd' \in CommandSet
      BY <2>2
    <3>3. cmd.op # Nil
      BY <2>2
    <3>4. entry' \in [Name -> Sock \cup {Absent, Offline}]
      BY <1>22 DEF ServerExits
    <3>. QED BY <1>22, <3>1, <3>2, <3>3, <3>4 DEF ServerExits
  <2>. QED BY <1>22, <2>1, <2>2 DEF ServerExits
<1>23. CASE UNCHANGED vars
  BY <1>23 DEF vars
<1>. QED BY <1>1, <1>2, <1>3, <1>4, <1>5, <1>6, <1>7, <1>8, <1>9, <1>10, <1>11, <1>12, <1>13, <1>14, <1>15, <1>16, <1>17, <1>18, <1>19, <1>20, <1>21, <1>22, <1>23
            DEF Next, Command, Shell, Listener

\* No listener is at work on a session that was not opened.
LEMMA ListenerTypesInductive ==
  ASSUME ShellTypes, ListenerTypes, [Next]_vars
  PROVE  ListenerTypes'
<1>. USE ClientAssumption DEF ShellTypes, ListenerTypes, Sock, Prompt, shell, sockets, listeners, CommandSet, Places
<1>1. ASSUME NEW u \in Name, Register(u) PROVE ListenerTypes'
  BY <1>1 DEF Register, AtPrompt, Idle, Prompt
<1>2. ASSUME NEW u \in Name, Unregister(u) PROVE ListenerTypes'
  BY <1>2 DEF Unregister, AtPrompt, Idle, Prompt
<1>3. ASSUME NEW u \in Name, Connect(u) PROVE ListenerTypes'
  BY <1>3 DEF Connect, AtPrompt, Idle, Prompt
<1>4. ASSUME NEW u \in Name, Disconnect(u) PROVE ListenerTypes'
  BY <1>4 DEF Disconnect, AtPrompt, Idle, Prompt
<1>5. CASE Quit
  <2>1. CASE connected
    BY <1>5, <2>1 DEF Quit, AtPrompt, Idle, Prompt
  <2>2. CASE ~connected
    BY <1>5, <2>2 DEF Quit, AtPrompt, Idle, Prompt
  <2>. QED BY <2>1, <2>2
<1>6. CASE Interrupt
  <2>1. CASE connected
    BY <1>6, <2>1 DEF Interrupt, Prompt
  <2>2. CASE ~connected
    BY <1>6, <2>2 DEF Interrupt, Prompt
  <2>. QED BY <2>1, <2>2
<1>7. CASE ServerConnects
  <2>1. CASE entry[cmd.user] = Absent
    BY <1>7, <2>1 DEF ServerConnects, Answered
  <2>2. CASE entry[cmd.user] = Offline
    BY <1>7, <2>2 DEF ServerConnects, Answered
  <2>3. CASE Online(cmd.user)
    BY <1>7, <2>3 DEF ServerConnects, Answered
  <2>. QED BY <1>7, <2>1, <2>2, <2>3 DEF ServerConnects
<1>8. CASE ConnectOk
  BY <1>8 DEF ConnectOk, Prompt
<1>9. CASE ConnectFails
  BY <1>9 DEF ConnectFails, Prompt
<1>10. CASE ServerDisconnects
  <2>1. CASE entry[cmd.user] = Absent
    BY <1>10, <2>1 DEF ServerDisconnects, Answered, Disconnecting
  <2>2. CASE entry[cmd.user] = Offline
    BY <1>10, <2>2 DEF ServerDisconnects, Answered, Disconnecting
  <2>3. CASE Online(cmd.user)
    BY <1>10, <2>3 DEF ServerDisconnects, Answered, Disconnecting
  <2>. QED BY <1>10, <2>1, <2>2, <2>3 DEF ServerDisconnects
<1>11. CASE Forget
  <2>1. CASE cmd.code = 0
    BY <1>11, <2>1 DEF Forget, Disconnecting, Returns, Prompt
  <2>2. CASE cmd.code # 0 /\ cmd.op = "quit"
    BY <1>11, <2>2 DEF Forget, Disconnecting, Returns, Prompt
  <2>3. CASE cmd.code # 0 /\ cmd.op # "quit"
    BY <1>11, <2>3 DEF Forget, Disconnecting, Returns, Prompt
  <2>. QED BY <2>1, <2>2, <2>3
<1>12. CASE Shutdown
  <2>1. CASE cmd.op = "quit"
    BY <1>12, <2>1 DEF Shutdown, Disconnecting, Returns, Prompt
  <2>2. CASE cmd.op # "quit"
    BY <1>12, <2>2 DEF Shutdown, Disconnecting, Returns, Prompt
  <2>. QED BY <2>1, <2>2
<1>13. CASE DisconnectFails
  <2>1. CASE cmd.op = "quit"
    BY <1>13, <2>1 DEF DisconnectFails, Disconnecting, Returns, Prompt
  <2>2. CASE cmd.op # "quit"
    BY <1>13, <2>2 DEF DisconnectFails, Disconnecting, Returns, Prompt
  <2>. QED BY <2>1, <2>2
<1>14. ASSUME NEW l \in Sock, Listen(l) PROVE ListenerTypes'
  BY <1>14 DEF Listen, At, Goto
<1>15. ASSUME NEW l \in Sock, Clear(l) PROVE ListenerTypes'
  BY <1>15 DEF Clear, At, Goto
<1>16. ASSUME NEW l \in Sock, Test(l) PROVE ListenerTypes'
  BY <1>16 DEF Test, At, Goto
<1>17. ASSUME NEW l \in Sock, Accept(l) PROVE ListenerTypes'
  <2>1. current \in Sock
    BY <1>17 DEF Accept, At
  <2>2. thread' \in [Sock -> Places] /\ on' \in [Sock -> Sock \cup {Nil}]
    <3>1. CASE current \notin closed /\ kernel[current] = "listening"
      <4>1. on' \in [Sock -> Sock \cup {Nil}]
        BY <1>17, <2>1, <3>1 DEF Accept
      <4>. QED BY <1>17, <3>1, <4>1 DEF Accept, Goto
    <3>2. CASE ~(current \notin closed /\ kernel[current] = "listening")
      BY <1>17, <2>1, <3>2 DEF Accept, Goto
    <3>. QED BY <3>1, <3>2
  <2>3. \A k \in Sock : thread'[k] # "none" => k <= opened
    BY <1>17 DEF Accept, At, Goto
  <2>. QED BY <1>17, <2>2, <2>3 DEF Accept
<1>18. ASSUME NEW l \in Sock, WakeShut(l) PROVE ListenerTypes'
  BY <1>18 DEF WakeShut, At, Goto
<1>19. ASSUME NEW l \in Sock, Serve(l) PROVE ListenerTypes'
  BY <1>19 DEF Serve, At, Goto
<1>20. ASSUME NEW l \in Sock, Close(l) PROVE ListenerTypes'
  <2>1. current \in 1 .. opened
    BY <1>20 DEF Close, At
  <2>2. thread' \in [Sock -> Places] /\ on' \in [Sock -> Sock \cup {Nil}]
    BY <1>20 DEF Close, Goto
  <2>3. \A k \in Sock : thread'[k] # "none" => k <= opened
    BY <1>20 DEF Close, At, Goto
  <2>. QED BY <1>20, <2>1, <2>2, <2>3 DEF Close
<1>21. ASSUME NEW l \in Sock, PeerComes(l) PROVE ListenerTypes'
  BY <1>21 DEF PeerComes, At, Goto
<1>22. CASE ServerExits
  BY <1>22 DEF ServerExits
<1>23. CASE UNCHANGED vars
  BY <1>23 DEF vars
<1>. QED BY <1>1, <1>2, <1>3, <1>4, <1>5, <1>6, <1>7, <1>8, <1>9, <1>10, <1>11, <1>12, <1>13, <1>14, <1>15, <1>16, <1>17, <1>18, <1>19, <1>20, <1>21, <1>22, <1>23
            DEF Next, Command, Shell, Listener

\* Every step keeps what client and server know of each other.
LEMMA SessionInductive ==
  ASSUME ShellTypes, Session, [Next]_vars
  PROVE  Session'
<1>. USE ClientAssumption DEF ShellTypes, Session, NobodyOnline, Known, OnlyOnline, Steady, Online, Sock, shell, sockets, listeners, CommandSet, Places
<1>1. ASSUME NEW u \in Name, Register(u) PROVE Session'
  BY <1>1 DEF Register, AtPrompt, Idle, Prompt
<1>2. ASSUME NEW u \in Name, Unregister(u) PROVE Session'
  BY <1>2 DEF Unregister, AtPrompt, Idle, Prompt
<1>3. ASSUME NEW u \in Name, Connect(u) PROVE Session'
  BY <1>3 DEF Connect, AtPrompt, Idle, Prompt
<1>4. ASSUME NEW u \in Name, Disconnect(u) PROVE Session'
  BY <1>4 DEF Disconnect, AtPrompt, Idle, Prompt
<1>5. CASE Quit
  <2>1. CASE connected
    BY <1>5, <2>1 DEF Quit, AtPrompt, Idle, Prompt
  <2>2. CASE ~connected
    BY <1>5, <2>2 DEF Quit, AtPrompt, Idle, Prompt
  <2>. QED BY <2>1, <2>2
<1>6. CASE Interrupt
  <2>1. CASE connected
    BY <1>6, <2>1 DEF Interrupt, Prompt
  <2>2. CASE ~connected
    BY <1>6, <2>2 DEF Interrupt, Prompt
  <2>. QED BY <2>1, <2>2
<1>7. CASE ServerConnects
  <2>1. /\ cmd.op = "connect" /\ cmd.user \in Name /\ current \in Sock
        /\ UNCHANGED <<mode, running, connected, user, current, opened>>
        /\ running /\ cmd.step = "ask"
    BY <1>7, ServerConnectsDoes
  <2>2. CASE Answered(0) /\ entry' = [entry EXCEPT ![cmd.user] = current]
    BY <2>1, <2>2, AnsweredIs
  <2>3. ASSUME NEW c \in {1, 2}, Answered(c), entry' = entry PROVE Session'
    BY <2>1, <2>3, AnsweredIs
  <2>. QED BY <1>7, <2>2, <2>3, ServerConnectsDoes
<1>8. CASE ConnectOk
  BY <1>8 DEF ConnectOk, Prompt
<1>9. CASE ConnectFails
  BY <1>9 DEF ConnectFails, Prompt
<1>10. CASE ServerDisconnects
  <2>1. /\ cmd.op \in {"disconnect", "quit"} /\ cmd.user \in Name
        /\ UNCHANGED <<mode, running, connected, user, current, opened>>
        /\ running /\ cmd.step = "ask"
    BY <1>10, ServerDisconnectsDoes
  <2>2. CASE Answered(0) /\ Online(cmd.user) /\ entry' = [entry EXCEPT ![cmd.user] = Offline]
    BY <2>1, <2>2, AnsweredIs
  <2>3. ASSUME NEW c \in {1, 2}, Answered(c), ~Online(cmd.user), entry' = entry PROVE Session'
    BY <2>1, <2>3, AnsweredIs
  <2>. QED BY <1>10, <2>2, <2>3, ServerDisconnectsDoes
<1>11. CASE Forget
  <2>1. CASE cmd.code = 0
    BY <1>11, <2>1 DEF Forget, Disconnecting, Returns, Prompt
  <2>2. CASE cmd.code # 0 /\ cmd.op = "quit"
    BY <1>11, <2>2 DEF Forget, Disconnecting, Returns, Prompt
  <2>3. CASE cmd.code # 0 /\ cmd.op # "quit"
    BY <1>11, <2>3 DEF Forget, Disconnecting, Returns, Prompt
  <2>. QED BY <2>1, <2>2, <2>3
<1>12. CASE Shutdown
  <2>1. CASE cmd.op = "quit"
    BY <1>12, <2>1 DEF Shutdown, Disconnecting, Returns, Prompt
  <2>2. CASE cmd.op # "quit"
    BY <1>12, <2>2 DEF Shutdown, Disconnecting, Returns, Prompt
  <2>. QED BY <2>1, <2>2
<1>13. CASE DisconnectFails
  <2>1. CASE cmd.op = "quit"
    BY <1>13, <2>1 DEF DisconnectFails, Disconnecting, Returns, Prompt
  <2>2. CASE cmd.op # "quit"
    BY <1>13, <2>2 DEF DisconnectFails, Disconnecting, Returns, Prompt
  <2>. QED BY <2>1, <2>2
<1>14. ASSUME NEW l \in Sock, Listen(l) PROVE Session'
  BY <1>14 DEF Listen, At, Goto
<1>15. ASSUME NEW l \in Sock, Clear(l) PROVE Session'
  BY <1>15 DEF Clear, At, Goto
<1>16. ASSUME NEW l \in Sock, Test(l) PROVE Session'
  BY <1>16 DEF Test, At, Goto
<1>17. ASSUME NEW l \in Sock, Accept(l) PROVE Session'
  BY <1>17 DEF Accept, At, Goto
<1>18. ASSUME NEW l \in Sock, WakeShut(l) PROVE Session'
  BY <1>18 DEF WakeShut, At, Goto
<1>19. ASSUME NEW l \in Sock, Serve(l) PROVE Session'
  BY <1>19 DEF Serve, At, Goto
<1>20. ASSUME NEW l \in Sock, Close(l) PROVE Session'
  BY <1>20 DEF Close, At, Goto
<1>21. ASSUME NEW l \in Sock, PeerComes(l) PROVE Session'
  BY <1>21 DEF PeerComes, At, Goto
<1>22. CASE ServerExits
  BY <1>22 DEF ServerExits
<1>23. CASE UNCHANGED vars
  BY <1>23 DEF vars
<1>. QED BY <1>1, <1>2, <1>3, <1>4, <1>5, <1>6, <1>7, <1>8, <1>9, <1>10, <1>11, <1>12, <1>13, <1>14, <1>15, <1>16, <1>17, <1>18, <1>19, <1>20, <1>21, <1>22, <1>23
            DEF Next, Command, Shell, Listener

\* Every step keeps a patient user's listeners where they should be.
LEMMA PatientInductive ==
  ASSUME CInv, [Next]_vars
  PROVE  Patient'
<1>. USE ClientAssumption DEF CInv, ShellTypes, ListenerTypes, Session, NobodyOnline, Known, OnlyOnline, Steady, Calm, Patient, Ended, Fresh, Online, Settled, Sock, shell, sockets, listeners, CommandSet, Places
<1>1. ASSUME NEW u \in Name, Register(u) PROVE Patient'
  BY <1>1 DEF Register, AtPrompt, Idle, Prompt
<1>2. ASSUME NEW u \in Name, Unregister(u) PROVE Patient'
  BY <1>2 DEF Unregister, AtPrompt, Idle, Prompt
<1>3. ASSUME NEW u \in Name, Connect(u) PROVE Patient'
  <2>1. SUFFICES ASSUME Calm, running PROVE Patient'
    BY <1>3 DEF Connect
  <2>2. /\ opened \in Nat /\ opened' = opened + 1 /\ opened' \in Sock
        /\ ~connected /\ connected' = connected /\ cmd.op = Nil /\ cmd'.op = "connect"
        /\ UNCHANGED <<thread, on, closed>> /\ kernel' = [kernel EXCEPT ![opened'] = "bound"]
    BY <1>3 DEF Connect, AtPrompt, Idle, Prompt
  <2>3. \A l \in Sock : Ended(l)
    <3>1. \A l \in Sock : l # opened => Ended(l)
      BY <2>1
    <3>2. CASE opened # 0
      BY <1>3, <2>1, <2>2, <3>2 DEF Connect, AtPrompt
    <3>. QED BY <3>1, <3>2, <2>2
  <2>4. thread[opened'] = "none" /\ kernel'[opened'] = "bound" /\ opened' \notin closed
    BY <2>2
  <2>. QED BY <2>2, <2>3, <2>4
<1>4. ASSUME NEW u \in Name, Disconnect(u) PROVE Patient'
  BY <1>4, SMTT(30) DEF Disconnect, AtPrompt, Idle, Prompt
<1>5. CASE Quit
  <2>1. CASE connected
    BY <1>5, <2>1 DEF Quit, AtPrompt, Idle, Prompt
  <2>2. CASE ~connected
    BY <1>5, <2>2 DEF Quit, AtPrompt, Idle, Prompt
  <2>. QED BY <2>1, <2>2
<1>6. CASE Interrupt
  <2>1. CASE connected
    BY <1>6, <2>1 DEF Interrupt, Prompt
  <2>2. CASE ~connected
    BY <1>6, <2>2 DEF Interrupt, Prompt
  <2>. QED BY <2>1, <2>2
<1>7. CASE ServerConnects
  <2>1. CASE entry[cmd.user] = Absent
    BY <1>7, <2>1 DEF ServerConnects, Answered
  <2>2. CASE entry[cmd.user] = Offline
    BY <1>7, <2>2 DEF ServerConnects, Answered
  <2>3. CASE Online(cmd.user)
    BY <1>7, <2>3 DEF ServerConnects, Answered
  <2>. QED BY <1>7, <2>1, <2>2, <2>3 DEF ServerConnects
<1>8. CASE ConnectOk
  BY <1>8 DEF ConnectOk, Prompt
<1>9. CASE ConnectFails
  BY <1>9 DEF ConnectFails, Prompt
<1>10. CASE ServerDisconnects
  <2>1. CASE entry[cmd.user] = Absent
    BY <1>10, <2>1, ZenonT(30) DEF ServerDisconnects, Answered, Disconnecting
  <2>2. CASE entry[cmd.user] = Offline
    BY <1>10, <2>2, ZenonT(30) DEF ServerDisconnects, Answered, Disconnecting
  <2>3. CASE Online(cmd.user)
    BY <1>10, <2>3 DEF ServerDisconnects, Answered, Disconnecting
  <2>. QED BY <1>10, <2>1, <2>2, <2>3 DEF ServerDisconnects
<1>11. CASE Forget
  <2>1. CASE cmd.code = 0
    BY <1>11, <2>1 DEF Forget, Disconnecting, Returns, Prompt
  <2>2. CASE cmd.code # 0 /\ cmd.op = "quit"
    BY <1>11, <2>2 DEF Forget, Disconnecting, Returns, Prompt
  <2>3. CASE cmd.code # 0 /\ cmd.op # "quit"
    BY <1>11, <2>3 DEF Forget, Disconnecting, Returns, Prompt
  <2>. QED BY <2>1, <2>2, <2>3
<1>12. CASE Shutdown
  <2>1. CASE cmd.op = "quit"
    BY <1>12, <2>1 DEF Shutdown, Disconnecting, Returns, Prompt
  <2>2. CASE cmd.op # "quit"
    BY <1>12, <2>2 DEF Shutdown, Disconnecting, Returns, Prompt
  <2>. QED BY <2>1, <2>2
<1>13. CASE DisconnectFails
  <2>1. CASE cmd.op = "quit"
    BY <1>13, <2>1 DEF DisconnectFails, Disconnecting, Returns, Prompt
  <2>2. CASE cmd.op # "quit"
    BY <1>13, <2>2 DEF DisconnectFails, Disconnecting, Returns, Prompt
  <2>. QED BY <2>1, <2>2
<1>14. ASSUME NEW l \in Sock, Listen(l) PROVE Patient'
  BY <1>14 DEF Listen, At, Goto
<1>15. ASSUME NEW l \in Sock, Clear(l) PROVE Patient'
  BY <1>15 DEF Clear, At, Goto
<1>16. ASSUME NEW l \in Sock, Test(l) PROVE Patient'
  BY <1>16 DEF Test, At, Goto
<1>17. ASSUME NEW l \in Sock, Accept(l) PROVE Patient'
  BY <1>17 DEF Accept, At, Goto
<1>18. ASSUME NEW l \in Sock, WakeShut(l) PROVE Patient'
  BY <1>18 DEF WakeShut, At, Goto
<1>19. ASSUME NEW l \in Sock, Serve(l) PROVE Patient'
  BY <1>19 DEF Serve, At, Goto
<1>20. ASSUME NEW l \in Sock, Close(l) PROVE Patient'
  BY <1>20 DEF Close, At, Goto
<1>21. ASSUME NEW l \in Sock, PeerComes(l) PROVE Patient'
  BY <1>21 DEF PeerComes, At, Goto
<1>22. CASE ServerExits
  BY <1>22 DEF ServerExits
<1>23. CASE UNCHANGED vars
  BY <1>23 DEF vars
<1>. QED BY <1>1, <1>2, <1>3, <1>4, <1>5, <1>6, <1>7, <1>8, <1>9, <1>10, <1>11, <1>12, <1>13, <1>14, <1>15, <1>16, <1>17, <1>18, <1>19, <1>20, <1>21, <1>22, <1>23
            DEF Next, Command, Shell, Listener

-----------------------------------------------------------------------------
(* The theorems.                                                           *)

\* The conjunction is an inductive invariant.
LEMMA Inductive == Spec => []CInv
<1>1. Init => CInv
  <2>. SUFFICES ASSUME Init PROVE CInv
    OBVIOUS
  <2>. USE ClientAssumption DEF Init, CommandSet, Places
  <2>1. ShellTypes
    <3>1. cmd = Prompt /\ cmd \in CommandSet
      BY DEF Prompt, CommandSet
    <3>2. cmd.op = Nil /\ opened = 0 /\ current = Nil /\ 0 \in 0 .. MaxSock
      BY DEF Prompt
    <3>. QED BY <3>1, <3>2 DEF ShellTypes
  <2>2. ListenerTypes
    BY DEF ListenerTypes, Places
  <2>3. \A u \in Name : ~Online(u)
    BY DEF Online
  <2>4. Session
    BY <2>3 DEF Session, Known, OnlyOnline, NobodyOnline, Prompt
  <2>5. Patient
    BY DEF Patient, Ended, Prompt
  <2>. QED BY <2>1, <2>2, <2>4, <2>5 DEF CInv
<1>2. CInv /\ [Next]_vars => CInv'
  BY ShellTypesInductive, ListenerTypesInductive, SessionInductive, PatientInductive DEF CInv
<1>. QED BY <1>1, <1>2, PTL DEF Spec

\* Between commands, whatever failed, whatever was interrupted and whatever the
\* listeners do: as long as the server stays and unregisters nobody it has on line,
\* it publishes the user of the session on the session's socket; and, if the user
\* disconnects nobody else, it has nobody else on line, not even after an exit.
THEOREM ClientAgrees == Spec => []Agree
<1>1. CInv => Agree
  BY ClientAssumption DEF CInv, ShellTypes, Session, Known, OnlyOnline, Agree, Idle, Prompt
<1>. QED BY <1>1, Inductive, PTL

\* A client is reachable while it is connected, for a user who lets the listeners
\* settle and disconnects nobody else, polite peers, and a server that keeps what
\* it was told: one listener, and only one, waits on the published address.
THEOREM PatientIsReachable == Spec => []Reachable
<1>1. CInv => Reachable
  <2>. SUFFICES ASSUME CInv, Calm, mode.polite, Idle, connected, Settled
                PROVE  /\ kernel[current] = "listening"
                       /\ Cardinality({l \in Sock : thread[l] = "waiting" /\ on[l] = current}) = 1
    BY DEF Reachable
  <2>1. opened \in Sock /\ current = opened
    BY DEF CInv, ShellTypes, Sock
  <2>2. thread[opened] = "waiting" /\ on[opened] = opened /\ kernel[opened] = "listening"
    <3>1. running /\ cmd.op = Nil /\ thread[opened] # "none" /\ thread[opened] # "dead"
      BY <2>1 DEF CInv, Patient, Idle, Prompt
    <3>2. thread[opened] = "waiting" /\ kernel[on[opened]] = "listening"
      BY <2>1, <3>1 DEF Settled
    <3>3. on[opened] = opened
      BY <2>1, <3>1, <3>2 DEF CInv, Patient, Sock
    <3>. QED BY <3>2, <3>3
  <2>3. \A l \in Sock : l # opened => thread[l] # "waiting"
    BY DEF CInv, Patient, Ended, Idle
  <2>4. {l \in Sock : thread[l] = "waiting" /\ on[l] = current} = {opened}
    BY <2>1, <2>2, <2>3
  <2>. QED BY <2>1, <2>2, <2>4, FS_Singleton
<1>. QED BY <1>1, Inductive, PTL

\* A client that exits leaves nobody connected, unless its user disconnected
\* others, the time service was down or Ctrl-C came in the middle of a command.
THEOREM NobodyLeftBehind == Spec => []ExitDisconnects
<1>1. CInv => ExitDisconnects
  BY DEF CInv, Session, NobodyOnline, ExitDisconnects
<1>. QED BY <1>1, Inductive, PTL

\* The listener of such a user, whose peers may do anything, never closes the
\* socket of a later session.
THEOREM ListenersCloseTheirOwn == Spec => ClosesItsOwn
<1>1. CInv /\ [Next]_vars =>
        [Calm => \A l \in Sock : Alive(l) /\ thread'[l] = "dead" =>
           \A s \in closed' \ closed : s <= l]_vars
  <2>. SUFFICES ASSUME CInv, Next, Calm, NEW l \in Sock, Alive(l), thread'[l] = "dead",
                       NEW s \in closed' \ closed
                PROVE  s <= l
    OBVIOUS
  <2>1. \E k \in Sock : Close(k)
    <3>1. thread[l] # thread'[l] /\ closed' # closed
      BY DEF Alive
    <3>. QED BY <3>1 DEF Next, Command, Shell, Listener, Register, Unregister, Connect, Disconnect,
           Quit, Interrupt, ServerConnects, ConnectOk, ConnectFails, ServerDisconnects, Forget, Shutdown,
           DisconnectFails, ServerExits, Listen, Clear, Test, Accept, WakeShut, Serve, PeerComes, sockets, listeners
  <2>2. s = opened /\ running
    <3>1. PICK k \in Sock : Close(k)
      BY <2>1
    <3>2. k <= opened /\ closed' = closed \cup {current} /\ running
      BY <3>1 DEF CInv, ListenerTypes, Close, At
    <3>. QED BY <3>2 DEF CInv, ShellTypes, Sock
  <2>3. l = opened
    BY <2>2 DEF CInv, Patient, Ended, Alive
  <2>. QED BY <2>2, <2>3 DEF Sock
<1>. QED BY <1>1, Inductive, PTL DEF Spec, ClosesItsOwn
=============================================================================
