--------------------------- MODULE RpcLog_proofs ---------------------------
(***************************************************************************)
(* Theorems about RpcLog for any number of threads, calls and datagrams.   *)
(***************************************************************************)
EXTENDS RpcLog, FiniteSetTheorems, TLAPS

(* What the variables hold; a call that has not come back has no outcome.  *)
Stages == {"idle", "create", "pass", "lock", "wait", "report", "destroy", "done"}
Calls == [xid : Nat, file : BOOLEAN]
Replies == [xid : Nat, ok : BOOLEAN]

LogTypes ==
  /\ mode \in Modes
  /\ made \in Nat /\ clnt \in Nat \cup {Nil}
  /\ live \subseteq 1 .. made
  /\ stage \in [Thread -> Stages]
  /\ file \in [Thread -> BOOLEAN]
  /\ mine \in [Thread -> Nat]
  /\ using \in [Thread -> Nat \cup {Nil}]
  /\ outcome \in [Thread -> {Nil, "success", "failure"}]
  /\ \A t \in Thread : outcome[t] # Nil => stage[t] \in {"report", "destroy", "done"}
  /\ calls \subseteq Calls
  /\ replies \subseteq Replies
  /\ serving \in [call : Calls, result : {Nil, 0, 1}] \cup {Nil}

(* A line is printed before its call is replied to, and a reply keeps the   *)
(* number of its call.                                                      *)
Printed ==
  /\ \A r \in replies : r.ok => r.xid \in printed
  /\ serving # Nil /\ serving.result # Nil => serving.call.xid \in printed
  /\ \A t \in Thread : outcome[t] = "success" => mine[t] \in printed

(* The thread that is alone has at most the handle it is about to destroy,  *)
(* which is the one in clnt, and only faults make its call fail.            *)
Owner ==
  Alone =>
    \A t \in mode.callers :
      /\ \A s \in Thread : s # t => stage[s] = "idle"
      /\ stage[t] \in {"idle", "create", "done"} => live = {}
      /\ stage[t] \in {"pass", "lock", "wait", "report", "destroy"} => live = {clnt}
      /\ stage[t] \in {"lock", "wait"} => using[t] = clnt
      /\ ~mode.faults => /\ \A r \in replies : r.ok
                         /\ stage[t] # "report"
                         /\ stage[t] \in {"destroy", "done"} => outcome[t] = "success"

LInv == LogTypes /\ Printed /\ Owner

-----------------------------------------------------------------------------
(* The steps keep them.                                                    *)

\* The caller of a situation with one caller.
LEMMA TheCaller ==
  ASSUME LogTypes, Alone
  PROVE  \E t \in Thread : mode.callers = {t}
<1>1. mode.callers \subseteq Thread /\ IsFiniteSet(mode.callers)
  BY LogAssumption, FS_Subset DEF LogTypes
<1>. QED BY <1>1, FS_Singleton DEF Alone

\* Every step keeps the types.
LEMMA LogTypesInductive ==
  ASSUME LogTypes, [Next]_vars
  PROVE  LogTypes'
<1>. USE LogAssumption DEF LogTypes, Stages, Calls, Replies, threads, handles, server, network
<1>1. ASSUME NEW t \in Thread, CreateClient(t) PROVE LogTypes'
  BY <1>1 DEF CreateClient, At, Goto
<1>2. ASSUME NEW t \in Thread, CreateFails(t) PROVE LogTypes'
  BY <1>2 DEF CreateFails, Die, At, Goto
<1>3. ASSUME NEW t \in Thread, PassHandle(t) PROVE LogTypes'
  BY <1>3 DEF PassHandle, At, Goto
<1>4. ASSUME NEW t \in Thread, Send(t) PROVE LogTypes'
  BY <1>4 DEF Send, Transmit, At, Goto
<1>5. ASSUME NEW t \in Thread, Retransmit(t) PROVE LogTypes'
  BY <1>5 DEF Retransmit, Transmit, At, Goto
<1>6. ASSUME NEW t \in Thread, CallDestroyed(t) PROVE LogTypes'
  <2>1. CASE Die
    BY <2>1 DEF Die
  <2>2. CASE /\ outcome' = [outcome EXCEPT ![t] = "failure"] /\ Goto(t, "report")
             /\ UNCHANGED <<mode, handles, file, mine, using, network, serving>>
    BY <2>2 DEF Goto
  <2>. QED BY <1>6, <2>1, <2>2 DEF CallDestroyed
<1>7. ASSUME NEW t \in Thread, Receive(t) PROVE LogTypes'
  BY <1>7 DEF Receive, Returned, At, Goto
<1>8. ASSUME NEW t \in Thread, TimedOut(t) PROVE LogTypes'
  BY <1>8 DEF TimedOut, Returned, At, Goto
<1>9. ASSUME NEW t \in Thread, Report(t) PROVE LogTypes'
  BY <1>9, ZenonT(30) DEF Report, GoesOn, At, Goto
<1>10. ASSUME NEW t \in Thread, Destroy(t) PROVE LogTypes'
  BY <1>10, ZenonT(30) DEF Destroy, GoesOn, At, Goto
<1>11. ASSUME NEW t \in Thread, Leave(t) PROVE LogTypes'
  BY <1>11 DEF Leave, At, Goto
<1>12. ASSUME NEW t \in Thread, NEW f \in BOOLEAN, Enter(t, f) PROVE LogTypes'
  BY <1>12 DEF Enter, At, Goto
<1>13. CASE Lose
  BY <1>13 DEF Lose
<1>14. CASE TakeCall
  BY <1>14 DEF TakeCall
<1>15. CASE DecodeFails
  <2>1. serving.call \in Calls
    BY <1>15 DEF DecodeFails
  <2>2. [xid |-> serving.call.xid, ok |-> FALSE] \in Replies
    BY <2>1
  <2>3. replies' \subseteq Replies /\ serving' = Nil
    BY <1>15, <2>2 DEF DecodeFails
  <2>4. UNCHANGED <<mode, made, clnt, live, stage, file, mine, using, outcome, calls>>
    BY <1>15 DEF DecodeFails
  <2>. QED BY <2>3, <2>4
<1>16. CASE PrintLine
  BY <1>16 DEF PrintLine
<1>17. CASE SendReply
  <2>1. serving.call \in Calls
    BY <1>17 DEF SendReply
  <2>2. [xid |-> serving.call.xid, ok |-> TRUE] \in Replies
    BY <2>1
  <2>3. replies' \subseteq Replies /\ serving' = Nil
    BY <1>17, <2>2 DEF SendReply
  <2>4. UNCHANGED <<mode, made, clnt, live, stage, file, mine, using, outcome, calls>>
    BY <1>17 DEF SendReply
  <2>. QED BY <2>3, <2>4
<1>18. CASE UNCHANGED vars
  BY <1>18 DEF vars
<1>. QED BY <1>1, <1>2, <1>3, <1>4, <1>5, <1>6, <1>7, <1>8, <1>9, <1>10, <1>11, <1>12, <1>13, <1>14, <1>15, <1>16, <1>17, <1>18
            DEF Next, ThreadStep, LogServer

\* Every step keeps a success a printed line.
LEMMA PrintedInductive ==
  ASSUME LogTypes, Printed, [Next]_vars
  PROVE  Printed'
<1>. USE LogAssumption DEF LogTypes, Printed, Stages, Calls, Replies, threads, handles, server, network
<1>1. ASSUME NEW t \in Thread, CreateClient(t) PROVE Printed'
  BY <1>1 DEF CreateClient, At, Goto
<1>2. ASSUME NEW t \in Thread, CreateFails(t) PROVE Printed'
  BY <1>2 DEF CreateFails, Die, At, Goto
<1>3. ASSUME NEW t \in Thread, PassHandle(t) PROVE Printed'
  BY <1>3 DEF PassHandle, At, Goto
<1>4. ASSUME NEW t \in Thread, Send(t) PROVE Printed'
  BY <1>4 DEF Send, Transmit, At, Goto
<1>5. ASSUME NEW t \in Thread, Retransmit(t) PROVE Printed'
  BY <1>5 DEF Retransmit, Transmit, At, Goto
<1>6. ASSUME NEW t \in Thread, CallDestroyed(t) PROVE Printed'
  BY <1>6, ZenonT(30) DEF CallDestroyed, Die, At, Goto
<1>7. ASSUME NEW t \in Thread, Receive(t) PROVE Printed'
  BY <1>7 DEF Receive, Returned, At, Goto
<1>8. ASSUME NEW t \in Thread, TimedOut(t) PROVE Printed'
  BY <1>8 DEF TimedOut, Returned, At, Goto
<1>9. ASSUME NEW t \in Thread, Report(t) PROVE Printed'
  BY <1>9 DEF Report, GoesOn, At, Goto
<1>10. ASSUME NEW t \in Thread, Destroy(t) PROVE Printed'
  BY <1>10 DEF Destroy, GoesOn, At, Goto
<1>11. ASSUME NEW t \in Thread, Leave(t) PROVE Printed'
  BY <1>11 DEF Leave, At, Goto
<1>12. ASSUME NEW t \in Thread, NEW f \in BOOLEAN, Enter(t, f) PROVE Printed'
  BY <1>12 DEF Enter, At, Goto
<1>13. CASE Lose
  BY <1>13 DEF Lose
<1>14. CASE TakeCall
  BY <1>14 DEF TakeCall
<1>15. CASE DecodeFails
  BY <1>15 DEF DecodeFails
<1>16. CASE PrintLine
  BY <1>16 DEF PrintLine
<1>17. CASE SendReply
  BY <1>17 DEF SendReply
<1>18. CASE UNCHANGED vars
  BY <1>18 DEF vars
<1>. QED BY <1>1, <1>2, <1>3, <1>4, <1>5, <1>6, <1>7, <1>8, <1>9, <1>10, <1>11, <1>12, <1>13, <1>14, <1>15, <1>16, <1>17, <1>18
            DEF Next, ThreadStep, LogServer

\* Every step of a thread that is alone keeps its handle its own.
LEMMA OwnerInductive ==
  ASSUME LogTypes, Printed, Owner, [Next]_vars
  PROVE  Owner'
<1>. USE LogAssumption DEF LogTypes, Printed, Stages, Calls, Replies, Owner, Alone, Busy, threads, handles, server, network
<1>1. ASSUME NEW t \in Thread, CreateClient(t) PROVE Owner'
  BY <1>1 DEF CreateClient, At, Goto
<1>2. ASSUME NEW t \in Thread, CreateFails(t) PROVE Owner'
  BY <1>2 DEF CreateFails, Die, At, Goto
<1>3. ASSUME NEW t \in Thread, PassHandle(t) PROVE Owner'
  BY <1>3 DEF PassHandle, At, Goto
<1>4. ASSUME NEW t \in Thread, Send(t) PROVE Owner'
  BY <1>4 DEF Send, Transmit, At, Goto
<1>5. ASSUME NEW t \in Thread, Retransmit(t) PROVE Owner'
  BY <1>5 DEF Retransmit, Transmit, At, Goto
<1>6. ASSUME NEW t \in Thread, CallDestroyed(t) PROVE Owner'
  <2>1. ASSUME Alone, NEW c \in mode.callers PROVE FALSE
    <3>1. PICK d \in Thread : mode.callers = {d}
      BY <2>1, TheCaller
    <3>2. t = d
      BY <1>6, <2>1, <3>1 DEF CallDestroyed, At
    <3>. QED BY <1>6, <2>1, <3>1, <3>2 DEF CallDestroyed, At
  <2>2. mode' = mode
    BY <1>6 DEF CallDestroyed, Die
  <2>. QED BY <2>1, <2>2
<1>7. ASSUME NEW t \in Thread, Receive(t) PROVE Owner'
  BY <1>7 DEF Receive, Returned, At, Goto
<1>8. ASSUME NEW t \in Thread, TimedOut(t) PROVE Owner'
  BY <1>8 DEF TimedOut, Returned, At, Goto
<1>9. ASSUME NEW t \in Thread, Report(t) PROVE Owner'
  <2>0. mode' = mode
    BY <1>9 DEF Report
  <2>1. SUFFICES ASSUME Alone, mode.callers = {t} PROVE Owner'
    <3>1. CASE ~Alone
      BY <2>0, <3>1
    <3>2. CASE Alone
      <4>1. PICK d \in Thread : mode.callers = {d}
        BY <3>2, TheCaller
      <4>2. t = d
        BY <1>9, <3>2, <4>1 DEF Report, At
      <4>. QED BY <3>2, <4>1, <4>2
    <3>. QED BY <3>1, <3>2
  <2>2. clnt \in live /\ live = {clnt} /\ \A s \in Thread : s # t => stage[s] = "idle"
    BY <1>9, <2>1 DEF Report, At
  <2>3. Goto(t, "destroy")
    BY <1>9, <2>2 DEF Report, GoesOn
  <2>. QED BY <1>9, <2>0, <2>1, <2>2, <2>3 DEF Report, At, Goto
<1>10. ASSUME NEW t \in Thread, Destroy(t) PROVE Owner'
  <2>0. mode' = mode
    BY <1>10 DEF Destroy
  <2>1. SUFFICES ASSUME Alone, mode.callers = {t} PROVE Owner'
    <3>1. CASE ~Alone
      BY <2>0, <3>1
    <3>2. CASE Alone
      <4>1. PICK d \in Thread : mode.callers = {d}
        BY <3>2, TheCaller
      <4>2. t = d
        BY <1>10, <3>2, <4>1 DEF Destroy, At
      <4>. QED BY <3>2, <4>1, <4>2
    <3>. QED BY <3>1, <3>2
  <2>2. clnt \in live /\ live = {clnt} /\ \A s \in Thread : s # t => stage[s] = "idle"
    BY <1>10, <2>1 DEF Destroy, At
  <2>3. Goto(t, "done")
    BY <1>10, <2>2 DEF Destroy, GoesOn
  <2>. QED BY <1>10, <2>0, <2>1, <2>2, <2>3 DEF Destroy, At, Goto
<1>11. ASSUME NEW t \in Thread, Leave(t) PROVE Owner'
  BY <1>11 DEF Leave, At, Goto
<1>12. ASSUME NEW t \in Thread, NEW f \in BOOLEAN, Enter(t, f) PROVE Owner'
  <2>0. mode' = mode
    BY <1>12 DEF Enter
  <2>1. SUFFICES ASSUME Alone, mode.callers = {t} PROVE Owner'
    <3>1. CASE ~Alone
      BY <2>0, <3>1
    <3>2. CASE Alone
      <4>1. PICK d \in Thread : mode.callers = {d}
        BY <3>2, TheCaller
      <4>2. t = d
        BY <1>12, <3>2, <4>1 DEF Enter, At
      <4>. QED BY <3>2, <4>1, <4>2
    <3>. QED BY <3>1, <3>2
  <2>. QED BY <1>12, <2>0, <2>1 DEF Enter, At, Goto
<1>13. CASE Lose
  BY <1>13 DEF Lose
<1>14. CASE TakeCall
  BY <1>14 DEF TakeCall
<1>15. CASE DecodeFails
  BY <1>15 DEF DecodeFails
<1>16. CASE PrintLine
  BY <1>16 DEF PrintLine
<1>17. CASE SendReply
  BY <1>17 DEF SendReply
<1>18. CASE UNCHANGED vars
  BY <1>18 DEF vars
<1>. QED BY <1>1, <1>2, <1>3, <1>4, <1>5, <1>6, <1>7, <1>8, <1>9, <1>10, <1>11, <1>12, <1>13, <1>14, <1>15, <1>16, <1>17, <1>18
            DEF Next, ThreadStep, LogServer

-----------------------------------------------------------------------------
(* The theorems.                                                           *)

\* The conjunction is an inductive invariant.
LEMMA Inductive == Spec => []LInv
<1>1. Init => LInv
  <2>. SUFFICES ASSUME Init PROVE LInv
    OBVIOUS
  <2>. USE LogAssumption DEF Init
  <2>1. LogTypes
    BY DEF LogTypes, Stages
  <2>2. Printed /\ Owner
    BY DEF Printed, Owner
  <2>. QED BY <2>1, <2>2 DEF LInv
<1>2. LInv /\ [Next]_vars => LInv'
  BY LogTypesInductive, PrintedInductive, OwnerInductive DEF LInv
<1>. QED BY <1>1, <1>2, PTL DEF Spec

\* A thread whose call succeeded has had its line printed, however many threads
\* share clnt and whatever the network does.
THEOREM SuccessIsPrinted == Spec => []SuccessMeansPrinted
<1>1. LInv => SuccessMeansPrinted
  BY DEF LInv, Printed, SuccessMeansPrinted
<1>. QED BY <1>1, Inductive, PTL

\* A thread that is alone, on a network without faults, has its request printed
\* before it answers its client.
THEOREM AloneIsPrinted == Spec => []EveryRequestPrinted
<1>1. LInv => EveryRequestPrinted
  <2>. SUFFICES ASSUME LInv, Alone, ~mode.faults, NEW t \in Thread, At(t, "done")
                PROVE  mine[t] \in printed
    BY DEF EveryRequestPrinted
  <2>1. PICK c \in Thread : mode.callers = {c}
    BY TheCaller DEF LInv
  <2>2. t = c
    BY <2>1 DEF LInv, Owner, At
  <2>. QED BY <2>1, <2>2 DEF LInv, Owner, Printed, At
<1>. QED BY <1>1, Inductive, PTL

\* A thread that is alone destroys every handle it makes.
THEOREM AloneLeavesNone == Spec => []HandlesReturned
<1>1. LInv => HandlesReturned
  <2>. SUFFICES ASSUME LInv, Alone, \A t \in Thread : stage[t] = "idle"
                PROVE  live = {}
    BY DEF HandlesReturned
  <2>1. PICK c \in Thread : mode.callers = {c}
    BY TheCaller DEF LInv
  <2>. QED BY <2>1 DEF LInv, Owner
<1>. QED BY <1>1, Inductive, PTL
=============================================================================
