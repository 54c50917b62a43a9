------------------------------- MODULE Server -------------------------------
(***************************************************************************)
(* src/server/servidor.c, treat_request: one detached thread per           *)
(* connection reads the request field by field into the global `buffer',   *)
(* copies each field to a local, calls list.c (module UserList), logs the  *)
(* operation by RPC and answers.  buffer has no lock: every thread reads   *)
(* into it, copies from it and clears it, and register_user and            *)
(* unregister_user are passed the buffer itself.                           *)
(*                                                                         *)
(* A request is the sequence of fields the client writes, as readLine      *)
(* (module Lines) cuts them: operation, date, user name, then what the     *)
(* operation needs.  A client may stop after any of them, or in the middle *)
(* of one, and then vanish, so that the server sees the end of the stream  *)
(* or a read error, or stay silent, so that it sees nothing.  That a       *)
(* thread gets its own connection is module Handoff.                       *)
(***************************************************************************)
EXTENDS UserList

CONSTANTS Requests,   \* the requests clients send, sequences of strings
          Vanishing,  \* whether clients may vanish, or stop in the middle of one
          MaxConn     \* bound: connections accepted by one server process

Empty == ""
Torn == "torn"        \* a string that is no request's field: a mixture of two

\* What a thread can read: a field of a request, nothing, or a mixture.
Text == {Empty, Torn} \cup UNION {{r[i] : i \in DOMAIN r} : r \in Requests}

ASSUME ServerAssumption == /\ Requests \subseteq Seq(Text)
                           /\ Vanishing \in BOOLEAN /\ MaxConn \in Nat

VARIABLES alive,      \* the server process runs
          accepted,   \* connections so far
          buffer,     \* its content, and the thread that is half way through
                      \* writing one, or Nil
          sent,       \* what the client of each thread wrote before it stopped
          cut,        \* the last of these strings lacks its terminator
          gone,       \* that client has closed its end
          phase,      \* where each thread is in treat_request
          branch,     \* the operation it took its request for, or Nil
          args,       \* the fields copied to locals so far
          reply       \* what was sent back, or Nil

conn == <<accepted, sent, cut, gone>>
list == <<mutex, inited, messages, pc, req, cur, ans>>
svars == <<alive, accepted, buffer, sent, cut, gone, phase, branch, args, reply>>
allvars == <<list, svars>>

\* The process runs and no connection has been accepted.
ConnInit == /\ alive = TRUE
            /\ accepted = 0
            /\ buffer = [val |-> Empty, by |-> Nil]
            /\ sent = [t \in Thread |-> << >>]
            /\ cut = [t \in Thread |-> FALSE]
            /\ gone = [t \in Thread |-> FALSE]
            /\ phase = [t \in Thread |-> "idle"]
            /\ branch = [t \in Thread |-> Nil]
            /\ args = [t \in Thread |-> << >>]
            /\ reply = [t \in Thread |-> Nil]

ServerInit == Init /\ ConnInit

Enter(t, p) == phase' = [phase EXCEPT ![t] = p]

\* The number of fields each branch reads, its operation's name included.
Fields == [REGISTER |-> 3, UNREGISTER |-> 3, CONNECT |-> 4, PUBLISH |-> 5,
           DELETE |-> 4, DISCONNECT |-> 3, LIST_USERS |-> 3, LIST_CONTENT |-> 4]

\* The call each branch makes of list.c, from the strings it has read.
RegisterCall(a)    == [op |-> "REGISTER", user |-> a[3]]
UnregisterCall(a)  == [op |-> "UNREGISTER", user |-> a[3]]
ConnectCall(a)     == [op |-> "CONNECT", user |-> a[3], addr |-> a[4]]
PublishCall(a)     == [op |-> "PUBLISH", user |-> a[3], file |-> a[4], desc |-> a[5]]
DeleteCall(a)      == [op |-> "DELETE", user |-> a[3], file |-> a[4]]
DisconnectCall(a)  == [op |-> "DISCONNECT", user |-> a[3]]
ListUsersCall(a)   == [op |-> "LIST_USERS", user |-> a[3]]
ListContentCall(a) == [op |-> "LIST_CONTENT", user |-> a[3], other |-> a[4]]

CallOf(op, a) == CASE op = "REGISTER"     -> RegisterCall(a)
                   [] op = "UNREGISTER"   -> UnregisterCall(a)
                   [] op = "CONNECT"      -> ConnectCall(a)
                   [] op = "PUBLISH"      -> PublishCall(a)
                   [] op = "DELETE"       -> DeleteCall(a)
                   [] op = "DISCONNECT"   -> DisconnectCall(a)
                   [] op = "LIST_USERS"   -> ListUsersCall(a)
                   [] op = "LIST_CONTENT" -> ListContentCall(a)

-----------------------------------------------------------------------------
(* Reading the request.                                                    *)

\* What can have been written of a string whose terminator is missing.
Half(s) == IF s = Empty THEN {} ELSE {s, Torn}

\* A client connects and writes request r, or only its first n fields and maybe
\* some of the next one.
Accept(t, r, n) ==
  /\ alive /\ phase[t] = "idle" /\ accepted < MaxConn
  /\ accepted' = accepted + 1
  /\ \/ n = Len(r) /\ sent' = [sent EXCEPT ![t] = r] /\ UNCHANGED cut
     \/ /\ Vanishing /\ n < Len(r)
        /\ \E last \in {<< >>} \cup {<<h>> : h \in Half(r[n + 1])} :
             /\ sent' = [sent EXCEPT ![t] = SubSeq(r, 1, n) \o last]
             /\ cut' = [cut EXCEPT ![t] = last # << >>]
  /\ \/ UNCHANGED gone
     \/ Vanishing /\ gone' = [gone EXCEPT ![t] = TRUE]
  /\ Enter(t, "start")
  /\ UNCHANGED <<list, alive, buffer, branch, args, reply>>

\* The thread allocates its locals.
Allocate(t) == /\ phase[t] = "start"
               /\ Enter(t, "read")
               /\ UNCHANGED <<list, alive, conn, buffer, branch, args, reply>>

\* The field a thread reads next, and where it goes when it has it.
Field(t) == Len(args[t]) + 1
AfterRead(t) == Enter(t, IF Field(t) = 1 THEN "test" ELSE "copy")

\* The client stopped before the end of the field the thread reads next.
Unfinished(t) == Field(t) > Len(sent[t]) \/ (cut[t] /\ Field(t) = Len(sent[t]))

\* readLine has written some of the field's bytes over what the shared buffer
\* held, with no terminator after them: of a field that will not be finished
\* they may be the whole string, and under them the old one may show.
Fill(t) ==
  /\ phase[t] = "read" /\ Field(t) <= Len(sent[t])
  /\ \E v \in {Torn} \cup IF Unfinished(t) THEN {sent[t][Field(t)], buffer.val} ELSE {} :
       buffer' = [val |-> v, by |-> t]
  /\ Enter(t, "fill")
  /\ UNCHANGED <<list, alive, conn, branch, args, reply>>

\* It has written the last byte and the terminator, at the field's own or at the
\* end of the stream.  If another thread wrote to the buffer meanwhile, what it
\* holds may be a mixture.
Filled(t) == /\ phase[t] = "fill" /\ (Unfinished(t) => gone[t])
             /\ \/ buffer' = [val |-> sent[t][Field(t)], by |-> Nil]
                \/ buffer.by # t /\ buffer' = [val |-> Torn, by |-> Nil]
             /\ AfterRead(t)
             /\ UNCHANGED <<list, alive, conn, branch, args, reply>>

\* End of the stream before any byte: readLine returns 0 and leaves the buffer
\* as it was, and the caller, which tests for < 0, goes on.
EndOfStream(t) == /\ phase[t] = "read" /\ Field(t) > Len(sent[t]) /\ gone[t]
                  /\ AfterRead(t)
                  /\ UNCHANGED <<list, alive, conn, buffer, branch, args, reply>>

\* A read error, before the field or inside it: the thread ends and clears
\* nothing, so that what it has read of the field stays in the buffer.
ReadError(t) == /\ gone[t] /\ Unfinished(t)
                /\ \/ phase[t] = "read" /\ Field(t) > Len(sent[t]) /\ UNCHANGED buffer
                   \/ /\ phase[t] = "fill"
                      /\ buffer' = [buffer EXCEPT !.by = IF @ = t THEN Nil ELSE @]
                /\ Enter(t, "close")
                /\ UNCHANGED <<list, alive, conn, branch, args, reply>>

\* Some other connection is being handled.
Contended(t) == \E s \in Thread \ {t} : phase[s] # "idle"

\* Mutant: a string that is no operation sends the thread back to reading.
TestOperationAgain(t) ==
  /\ phase[t] = "test"
  /\ \/ \E op \in DOMAIN Fields : /\ buffer.val = op
                                 /\ branch' = [branch EXCEPT ![t] = op]
                                 /\ Enter(t, "copy")
     \/ /\ buffer.val \notin DOMAIN Fields
        /\ Enter(t, "read")
        /\ UNCHANGED branch
  /\ UNCHANGED <<list, alive, conn, buffer, args, reply>>

\* The chain of strcmp that selects the branch.  It reads the buffer once per
\* operation, so that while another thread uses it all of them can fail.
TestOperation(t) ==
  /\ phase[t] = "test"
  /\ \/ \E op \in DOMAIN Fields : /\ buffer.val = op
                                 /\ branch' = [branch EXCEPT ![t] = op]
                                 /\ Enter(t, "copy")
     \/ /\ buffer.val \notin DOMAIN Fields \/ Contended(t)
        /\ Enter(t, "close")
        /\ UNCHANGED branch
  /\ UNCHANGED <<list, alive, conn, buffer, args, reply>>

\* What a thread keeps of a field: the operation and the date, which only the
\* log line shows, are left out.
Kept(t) == IF Field(t) <= 2 THEN Empty ELSE buffer.val

\* Mutant: every branch reads one field too many.
CopyOneMore(t) == /\ phase[t] = "copy"
                  /\ args' = [args EXCEPT ![t] = Append(@, Kept(t))]
                  /\ Enter(t, IF Field(t) > Fields[branch[t]] THEN "call" ELSE "clear")
                  /\ UNCHANGED <<list, alive, conn, buffer, branch, reply>>

\* sprintf of the buffer to the local of the field just read.
Copy(t) == /\ phase[t] = "copy"
           /\ args' = [args EXCEPT ![t] = Append(@, Kept(t))]
           /\ Enter(t, IF Field(t) = Fields[branch[t]] THEN "call" ELSE "clear")
           /\ UNCHANGED <<list, alive, conn, buffer, branch, reply>>

\* Mutant: the buffer is not cleared between fields.
NoClear(t) == /\ phase[t] = "clear"
              /\ Enter(t, "read")
              /\ UNCHANGED <<list, alive, conn, buffer, branch, args, reply>>

\* memset of the buffer between two fields.
Clear(t) == /\ phase[t] = "clear"
            /\ buffer' = [val |-> Empty, by |-> Nil]
            /\ Enter(t, "read")
            /\ UNCHANGED <<list, alive, conn, branch, args, reply>>

-----------------------------------------------------------------------------
(* Calling list.c.                                                         *)

CallList(t) == /\ phase[t] = "call"
               /\ Call(t, CallOf(branch[t], args[t]))
               /\ Enter(t, "list")
               /\ UNCHANGED <<alive, conn, buffer, branch, args, reply>>

\* The string list.c sees when it looks through its username pointer.
Username(t) == IF branch[t] \in {"REGISTER", "UNREGISTER"} THEN buffer.val ELSE args[t][3]

InList(t) == /\ phase[t] = "list" /\ Working(t)
             /\ Step(t, Username(t))
             /\ UNCHANGED svars

\* The call has returned; every branch but LIST_CONTENT clears the buffer.
Wipe(t) == /\ phase[t] = "list" /\ pc[t] = "return"
           /\ IF branch[t] = "LIST_CONTENT"
                THEN UNCHANGED buffer
                ELSE buffer' = [val |-> Empty, by |-> Nil]
           /\ Enter(t, "log")
           /\ UNCHANGED <<list, alive, conn, branch, args, reply>>

-----------------------------------------------------------------------------
(* Logging, answering, ending.                                             *)

\* The RPC succeeds, or fails and is only reported.
Log(t) == /\ phase[t] = "log"
          /\ Enter(t, "reply")
          /\ UNCHANGED <<list, alive, conn, buffer, branch, args, reply>>

\* The process ends, with all its threads and its memory.
Die == /\ alive' = FALSE
       /\ accepted' = accepted
       /\ mutex' = Nil /\ inited' = FALSE /\ messages' = << >>
       /\ pc' = [s \in Thread |-> "idle"]
       /\ req' = [s \in Thread |-> Nil]
       /\ cur' = [s \in Thread |-> 1]
       /\ ans' = [s \in Thread |-> Nil]
       /\ buffer' = [val |-> Empty, by |-> Nil]
       /\ sent' = [s \in Thread |-> << >>]
       /\ cut' = [s \in Thread |-> FALSE]
       /\ gone' = [s \in Thread |-> FALSE]
       /\ phase' = [s \in Thread |-> "idle"]
       /\ branch' = [s \in Thread |-> Nil]
       /\ args' = [s \in Thread |-> << >>]
       /\ reply' = [s \in Thread |-> Nil]

\* create_client cannot reach the RPC server: exit(1).
LogExits(t) == phase[t] = "log" /\ Die

\* The count LIST_USERS and LIST_CONTENT announce before their entries: all
\* connected users, and the files whose name is not empty.
Announced(t) == IF branch[t] = "LIST_CONTENT"
                  THEN {e \in ans[t].out : e.name # Empty}
                  ELSE ans[t].out

\* The code, and for a listing that succeeded the count and the entries.
Reply(t) == /\ phase[t] = "reply"
            /\ reply' = [reply EXCEPT ![t] = [code |-> ans[t].code,
                                              announced |-> Announced(t),
                                              entries |-> ans[t].out]]
            /\ Enter(t, "close")
            /\ UNCHANGED <<list, alive, conn, buffer, branch, args>>

\* write to a connection the client has reset raises SIGPIPE, not handled.
ReplyKills(t) == phase[t] = "reply" /\ gone[t] /\ Die

\* The thread ends, and its locals with it.
End(t, p) == /\ \/ Return(t)
                \/ pc[t] = "idle" /\ UNCHANGED list
             /\ sent' = [sent EXCEPT ![t] = << >>]
             /\ cut' = [cut EXCEPT ![t] = FALSE]
             /\ gone' = [gone EXCEPT ![t] = FALSE]
             /\ Enter(t, p)
             /\ branch' = [branch EXCEPT ![t] = Nil]
             /\ args' = [args EXCEPT ![t] = << >>]
             /\ reply' = [reply EXCEPT ![t] = Nil]
             /\ UNCHANGED <<alive, accepted, buffer>>

\* close(sc), pthread_exit.
Close(t) == phase[t] = "close" /\ End(t, "idle")

\* The locals cannot be allocated: pthread_exit without close(sc), and the
\* connection stays open until the process ends, with nobody to serve it.
NoMemory(t) == phase[t] = "start" /\ End(t, "leaked")

\* accept returns -1 to main, which returns, and the process with it.
AcceptFails == alive /\ Die

\* The operator starts the server again.
Restart == /\ ~alive
           /\ alive' = TRUE /\ accepted' = 0
           /\ UNCHANGED <<list, buffer, sent, cut, gone, phase, branch, args, reply>>

-----------------------------------------------------------------------------
Handle(t) == \/ Allocate(t) \/ NoMemory(t)
             \/ Fill(t) \/ Filled(t) \/ EndOfStream(t) \/ ReadError(t)
             \/ TestOperation(t) \/ Copy(t) \/ Clear(t)
             \/ CallList(t) \/ InList(t) \/ Wipe(t)
             \/ Log(t) \/ LogExits(t) \/ Reply(t) \/ ReplyKills(t) \/ Close(t)

ServerNext == \/ \E t \in Thread, r \in Requests : \E n \in 0 .. Len(r) : Accept(t, r, n)
              \/ \E t \in Thread : Handle(t)
              \/ AcceptFails \/ Restart

ServerSpec == ServerInit /\ [][ServerNext]_allvars

\* A thread that can run does.
FairServerSpec == ServerSpec /\ \A t \in Thread : WF_allvars(Handle(t))

-----------------------------------------------------------------------------
(* Properties.                                                             *)

\* The type invariant of the request path.
ServerTypeOK ==
  /\ alive \in BOOLEAN
  /\ accepted \in 0 .. MaxConn
  /\ buffer.by \in Thread \cup {Nil}
  /\ \A t \in Thread :
       /\ phase[t] \in {"idle", "start", "read", "fill", "test", "copy", "clear",
                        "call", "list", "log", "reply", "close", "leaked"}
       /\ branch[t] \in DOMAIN Fields \cup {Nil}
       /\ Len(args[t]) \in 0 .. 5

\* The operation on a connection: the one its client wrote, or, if its client
\* wrote nothing, the one the thread found in the buffer and took for it.
OperationOf(t) == IF sent[t] = << >> THEN branch[t] ELSE sent[t][1]

\* The request on a connection, a field the client did not write standing for
\* the empty string; Nil when it is no operation's.
Requested(t) ==
  LET op == OperationOf(t)
  IN  IF op \in DOMAIN Fields
        THEN CallOf(op, [k \in 1 .. Fields[op] |->
                           IF k <= Len(sent[t]) THEN sent[t][k] ELSE Empty])
        ELSE Nil

\* One connection at a time, the server is the registry: each request takes
\* effect at one instant while its connection is open, with the operation, the
\* user and the arguments its client wrote, and a process that stops forgets
\* everything.  A request its client did not finish may take effect too, with
\* empty strings for the rest.  On a connection that brings nothing the server
\* may do what an earlier one left in the buffer as its operation (LIST_CONTENT
\* clears nothing, nor does a read error), but only for the empty user.
Service == INSTANCE Registry WITH db <- Db, req <- [t \in Thread |-> Requested(t)]
ServesRegistry == Service!ServiceSpec

\* The thread waits for a client that stays connected and writes no more: no
\* read has a timeout.
Waits(t) == phase[t] \in {"read", "fill"} /\ Unfinished(t) /\ ~gone[t]

\* Every connection is closed, with an answer, without one, or by the end of
\* the process, wherever its client stops, unless the client itself keeps it
\* waiting or the thread had no memory for its locals.
EveryConnectionEnds ==
  \A t \in Thread : phase[t] # "idle" ~> phase[t] \in {"idle", "leaked"} \/ Waits(t)

\* The count a listing announces is the number of entries that follow, so that
\* the client reads all of them and nothing else.
CountMatchesEntries ==
  \A t \in Thread : reply[t] # Nil => reply[t].announced = reply[t].entries

\* register_user never lets a name in twice.
UniqueUsers == Distinct(messages)

\* Whatever the race on the buffer does to names, no thread uses a node that is
\* not in the list, the section is never shared, and no user's files carry one
\* name twice: files reach list.c in locals.
SectionSurvives ==
  /\ \A t \in Thread : InSection(t) <=> mutex = t
  /\ \A t \in Thread : pc[t] = "found" => cur[t] \in 1 .. Len(messages)
FilesStayDistinct == \A k \in 1 .. Len(messages) : Distinct(messages[k].files)

\* And whatever word it takes for its operation, a thread calls list.c with the
\* fields of that operation, none missing and none too many.
CallsComplete ==
  \A t \in Thread : phase[t] = "list" =>
    /\ branch[t] \in DOMAIN Fields
    /\ Len(args[t]) = Fields[branch[t]]
    /\ req[t] = CallOf(branch[t], args[t])
=============================================================================
