------------------------------- MODULE RpcLog -------------------------------
(***************************************************************************)
(* The log: rpc_llamada and create_client in src/server/servidor.c, the    *)
(* stubs in mensaje_clnt.c and mensaje_svc.c, and print_1_svc in           *)
(* server_rpc.c.  Every handler thread creates an RPC handle, calls the    *)
(* log server over UDP and destroys the handle, but the handle is kept in  *)
(* the global clnt, which every one of these steps reads again.            *)
(*                                                                         *)
(* Handles are numbered as they are made, and a call has the number of the *)
(* handle its thread made.  Of a request only the file matters, and        *)
(* whether there is one.  What the RPC library does with a handle and with *)
(* datagrams is external: a call holds the handle until it is answered or  *)
(* given up, a destruction waits for the call in progress, calls are       *)
(* matched with replies by number, and the library sends a call again.     *)
(***************************************************************************)
EXTENDS Integers, FiniteSets

CONSTANTS Thread,    \* handler threads
          Nil,       \* no handle, no call
          MaxSends,  \* datagrams the library sends for one call
          Modes      \* the situations: who calls, how often (a bound), on files or
                     \* not, and whether datagrams are lost or late and calls fail

ASSUME LogAssumption == /\ Nil \notin Nat /\ Nil \notin {"success", "failure"}
                        /\ MaxSends \in Nat \ {0} /\ IsFiniteSet(Thread)
                        /\ \A m \in Modes : /\ m.callers \subseteq Thread /\ m.calls \in Nat
                                            /\ m.files \subseteq BOOLEAN /\ m.faults \in BOOLEAN

VARIABLES mode,     \* the situation, which does not change
          alive,    \* the server process runs
          clnt,     \* the global handle
          made,     \* handles made so far
          live,     \* those not destroyed
          stage,    \* where each thread is in rpc_llamada
          file,     \* whether its operation is on a file
          mine,     \* the number of its call
          using,    \* the handle it passed to print_1
          sends,    \* datagrams sent for it
          outcome,  \* what print_1 returned
          calls,    \* datagrams on their way to the log server
          replies,  \* and from it
          serving,  \* the call the log server works on, or Nil
          printed   \* the lines it printed

threads == <<stage, file, mine, using, sends, outcome>>
handles == <<clnt, made, live>>
server == <<alive, handles, threads>>
network == <<calls, replies>>
vars == <<mode, server, network, serving, printed>>

Init == /\ mode \in Modes
        /\ alive = TRUE
        /\ clnt = Nil /\ made = 0 /\ live = {}
        /\ stage = [t \in Thread |-> "idle"]
        /\ file = [t \in Thread |-> FALSE]
        /\ mine = [t \in Thread |-> 0]
        /\ using = [t \in Thread |-> Nil]
        /\ sends = [t \in Thread |-> 0]
        /\ outcome = [t \in Thread |-> Nil]
        /\ calls = {} /\ replies = {}
        /\ serving = Nil /\ printed = {}

At(t, s) == alive /\ stage[t] = s
Goto(t, s) == stage' = [stage EXCEPT ![t] = s]

\* A call in progress holds its handle.
Busy(h) == \E t \in Thread : stage[t] = "wait" /\ using[t] = h

\* The process ends; what it sent is still on its way.
Die == /\ alive' = FALSE
       /\ UNCHANGED <<mode, handles, threads, network, serving, printed>>

\* The library is passed clnt.  A destroyed handle is freed memory: the process
\* ends, or the function returns without having done anything.
GoesOn(t, next) == \/ Goto(t, next) /\ UNCHANGED alive
                   \/ clnt \notin live /\ alive' = FALSE /\ UNCHANGED stage

-----------------------------------------------------------------------------
(* The handler threads.                                                    *)

Enter(t, f) == /\ At(t, "idle") /\ t \in mode.callers /\ f \in mode.files
               /\ made + Cardinality({s \in Thread : stage[s] = "create"}) < mode.calls
               /\ file' = [file EXCEPT ![t] = f]
               /\ Goto(t, "create")
               /\ UNCHANGED <<mode, alive, handles, mine, using, sends, outcome, network, serving, printed>>

CreateClient(t) == /\ At(t, "create")
                   /\ made' = made + 1
                   /\ clnt' = made'
                   /\ live' = live \cup {made'}
                   /\ mine' = [mine EXCEPT ![t] = made']
                   /\ Goto(t, "pass")
                   /\ UNCHANGED <<mode, alive, file, using, sends, outcome, network, serving, printed>>

\* The log server is not there: exit(1).
CreateFails(t) == mode.faults /\ At(t, "create") /\ Die

\* print_1(..., clnt): the argument is read once, then clnt_call waits for it.
PassHandle(t) == /\ At(t, "pass")
                 /\ using' = [using EXCEPT ![t] = clnt]
                 /\ Goto(t, "lock")
                 /\ UNCHANGED <<mode, alive, handles, file, mine, sends, outcome, network, serving, printed>>

Transmit(t) == /\ sends' = [sends EXCEPT ![t] = @ + 1]
               /\ calls' = calls \cup {[xid |-> mine[t], file |-> file[t]]}

Send(t) == /\ At(t, "lock") /\ using[t] \in live /\ ~Busy(using[t])
           /\ Transmit(t)
           /\ Goto(t, "wait")
           /\ UNCHANGED <<mode, alive, handles, file, mine, using, outcome, replies, serving, printed>>

Retransmit(t) == /\ At(t, "wait") /\ sends[t] < MaxSends
                 /\ Transmit(t)
                 /\ UNCHANGED <<mode, alive, handles, stage, file, mine, using, outcome, replies, serving, printed>>

CallDestroyed(t) == /\ At(t, "lock") /\ using[t] \notin live
                    /\ \/ Die
                       \/ /\ outcome' = [outcome EXCEPT ![t] = "failure"]
                          /\ Goto(t, "report")
                          /\ UNCHANGED <<mode, alive, handles, file, mine, using, sends, network, serving, printed>>

Returned(t, result) ==
  /\ outcome' = [outcome EXCEPT ![t] = result]
  /\ Goto(t, IF result = "success" THEN "destroy" ELSE "report")
  /\ UNCHANGED <<mode, alive, handles, file, mine, using, sends, calls, serving, printed>>

Receive(t) == /\ At(t, "wait")
              /\ \E r \in replies : /\ r.xid = mine[t]
                                    /\ replies' = replies \ {r}
                                    /\ Returned(t, IF r.ok THEN "success" ELSE "failure")

\* Mutant: the total timeout is 25 microseconds.
TimedOutAtOnce(t) == /\ At(t, "wait")
                     /\ Returned(t, "failure")
                     /\ UNCHANGED replies

\* Mutant: the call is sent again for ever.
TimedOutNever(t) == /\ At(t, "wait") /\ sends[t] > MaxSends
                    /\ Returned(t, "failure")
                    /\ UNCHANGED replies

\* 25 seconds without a reply.
TimedOut(t) == /\ mode.faults /\ At(t, "wait") /\ sends[t] = MaxSends
               /\ Returned(t, "failure")
               /\ UNCHANGED replies

\* clnt_perror of whatever clnt is now.
Report(t) == /\ At(t, "report")
             /\ GoesOn(t, "destroy")
             /\ UNCHANGED <<mode, handles, file, mine, using, sends, outcome, network, serving, printed>>

\* clnt_destroy of whatever clnt is now; it waits for a call in progress.
Destroy(t) == /\ At(t, "destroy")
              /\ ~Busy(clnt)
              /\ live' = live \ {clnt}
              /\ GoesOn(t, "done")
              /\ UNCHANGED <<mode, clnt, made, file, mine, using, sends, outcome, network, serving, printed>>

\* rpc_llamada returns, and the thread answers its client.  Nobody reads the
\* late replies to its call.
Leave(t) == /\ At(t, "done")
            /\ Goto(t, "idle")
            /\ file' = [file EXCEPT ![t] = FALSE]
            /\ mine' = [mine EXCEPT ![t] = 0]
            /\ using' = [using EXCEPT ![t] = Nil]
            /\ sends' = [sends EXCEPT ![t] = 0]
            /\ outcome' = [outcome EXCEPT ![t] = Nil]
            /\ replies' = {r \in replies : r.xid # mine[t]}
            /\ UNCHANGED <<mode, alive, handles, calls, serving, printed>>

-----------------------------------------------------------------------------
(* The network and the log server, which serves one call at a time.        *)

Lose == /\ mode.faults
        /\ \/ \E c \in calls : calls' = calls \ {c} /\ UNCHANGED replies
           \/ \E r \in replies : replies' = replies \ {r} /\ UNCHANGED calls
        /\ UNCHANGED <<mode, server, serving, printed>>

TakeCall == /\ serving = Nil
            /\ \E c \in calls : /\ calls' = calls \ {c}
                                /\ serving' = [call |-> c, result |-> Nil]
            /\ UNCHANGED <<mode, server, replies, printed>>

\* svc_getargs has no memory for the strings: an error is the reply.
DecodeFails == /\ mode.faults /\ serving # Nil /\ serving.result = Nil
               /\ replies' = replies \cup {[xid |-> serving.call.xid, ok |-> FALSE]}
               /\ serving' = Nil
               /\ UNCHANGED <<mode, server, calls, printed>>

\* Mutant: an `if' without its else, operations on no file are not printed.
PrintIfFile == /\ serving # Nil /\ serving.result = Nil
               /\ serving' = [serving EXCEPT !.result = 1]
               /\ printed' = IF serving.call.file THEN printed \cup {serving.call.xid} ELSE printed
               /\ UNCHANGED <<mode, server, network>>

\* print_1_svc: one format for an empty file name, one for any other, and a
\* result that tells which and that rpc_llamada does not look at.
PrintLine == /\ serving # Nil /\ serving.result = Nil
             /\ serving' = [serving EXCEPT !.result = IF serving.call.file THEN 0 ELSE 1]
             /\ printed' = printed \cup {serving.call.xid}
             /\ UNCHANGED <<mode, server, network>>

SendReply == /\ serving # Nil /\ serving.result # Nil
             /\ replies' = replies \cup {[xid |-> serving.call.xid, ok |-> TRUE]}
             /\ serving' = Nil
             /\ UNCHANGED <<mode, server, calls, printed>>

-----------------------------------------------------------------------------
ThreadStep(t) == \/ CreateClient(t) \/ CreateFails(t) \/ PassHandle(t)
                 \/ Send(t) \/ Retransmit(t) \/ CallDestroyed(t)
                 \/ Receive(t) \/ TimedOut(t) \/ Report(t) \/ Destroy(t) \/ Leave(t)
LogServer == TakeCall \/ DecodeFails \/ PrintLine \/ SendReply

Next == \/ \E t \in Thread : ThreadStep(t) \/ \E f \in BOOLEAN : Enter(t, f)
        \/ Lose \/ LogServer

\* Threads that can run do, and the log server serves.
Fairness == WF_vars(LogServer) /\ \A t \in Thread : WF_vars(ThreadStep(t))

Spec == Init /\ [][Next]_vars
FairSpec == Spec /\ Fairness

-----------------------------------------------------------------------------
(* Properties.                                                             *)

\* A thread whose call succeeded has had its own line printed, whatever other
\* threads do to its handle and whatever the network loses or delays
\* (mensaje_svc.c:48-49, server_rpc.c:13-22).
SuccessMeansPrinted == \A t \in Thread : outcome[t] = "success" => mine[t] \in printed

\* One thread calls at a time, which is the only use of clnt that works.
Alone == Cardinality(mode.callers) = 1

\* On a network without faults the request of a thread that is alone is printed
\* before its client is answered: `Aqui se imprimiran todas las peticiones que
\* lleguen al servidor' (README.md:22).  Two threads break it (servidor.c:58).
EveryRequestPrinted ==
  Alone /\ ~mode.faults => \A t \in Thread : At(t, "done") => mine[t] \in printed

\* A thread that is alone leaves no handle behind, whichever way its call ends
\* (servidor.c:59-63).
HandlesReturned == Alone /\ (\A t \in Thread : stage[t] = "idle") => live = {}

\* rpc_llamada always comes back, or the process is gone: two threads that
\* share a handle never wait for each other for ever.
CallsEnd == \A t \in Thread : stage[t] # "idle" ~> stage[t] = "idle" \/ ~alive
=============================================================================
