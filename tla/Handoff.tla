------------------------------- MODULE Handoff -------------------------------
(***************************************************************************)
(* src/server/servidor.c, the accept loop of main and the first lines of   *)
(* treat_request.  main passes every handler thread the address of its one *)
(* local sc, which the next accept overwrites without a lock, so it waits  *)
(* on a condition variable until the new thread has copied the descriptor. *)
(* Connections are numbered in the order accept returns them; given[w] is  *)
(* the connection thread w was created for, a history variable.            *)
(***************************************************************************)
EXTENDS Integers

CONSTANTS Worker,        \* handler threads, each one pthread_create
          Nobody,        \* the owner of a free mutex, the result of no copy
          Main,          \* the thread that runs main
          MaxConn,       \* bound: connections accepted in a run
          MaxSpurious    \* bound: spurious wakeups of pthread_cond_wait in a run

ASSUME ThreadAssumption == Main \notin Worker /\ Nobody \notin Worker \cup {Main}
ASSUME BoundAssumption == MaxConn \in Nat /\ MaxSpurious \in Nat
ASSUME NobodyAssumption == Nobody \notin Nat

VARIABLES mutex_mensaje,   \* its owner
          not_finished,
          waiting,         \* main is blocked on cond_mensaje
          sc,              \* main's local: the descriptor accept returned last
          mpc,             \* where main is
          wpc,             \* where each thread is
          got,             \* each thread's own copy of the descriptor
          given,           \* the connection each thread was created for
          spurious         \* spurious wakeups so far

vars == <<mutex_mensaje, not_finished, waiting, sc, mpc, wpc, got, given, spurious>>
threads == <<wpc, got, given>>

Init == /\ mutex_mensaje = Nobody
        /\ not_finished = TRUE
        /\ waiting = FALSE
        /\ sc = 0
        /\ mpc = "accept"
        /\ wpc = [w \in Worker |-> "none"]
        /\ got = [w \in Worker |-> Nobody]
        /\ given = [w \in Worker |-> Nobody]
        /\ spurious = 0

-----------------------------------------------------------------------------
(* main                                                                    *)

Accept == /\ mpc = "accept" /\ sc < MaxConn
          /\ sc' = sc + 1
          /\ mpc' = "create"
          /\ UNCHANGED <<mutex_mensaje, not_finished, waiting, threads, spurious>>

\* Mutant: the result of accept is not tested.
AcceptUnchecked == /\ mpc = "accept"
                   /\ sc' = -1
                   /\ mpc' = "create"
                   /\ UNCHANGED <<mutex_mensaje, not_finished, waiting, threads, spurious>>

\* A process that ends takes its detached threads with it, wherever they are.
KillThreads == wpc' = [w \in Worker |-> "killed"]

\* accept returns -1: main returns, which ends the process.
AcceptFails == /\ mpc = "accept"
               /\ mpc' = "exited"
               /\ KillThreads
               /\ UNCHANGED <<mutex_mensaje, not_finished, waiting, sc, got, given, spurious>>

CreateThread(w) == /\ mpc = "create" /\ wpc[w] = "none"
                   /\ wpc' = [wpc EXCEPT ![w] = "lock"]
                   /\ given' = [given EXCEPT ![w] = sc]
                   /\ mpc' = "lock"
                   /\ UNCHANGED <<mutex_mensaje, not_finished, waiting, sc, got, spurious>>

\* The connection stays open and nobody handles it.
CreateFails == /\ mpc = "create"
               /\ mpc' = "accept"
               /\ UNCHANGED <<mutex_mensaje, not_finished, waiting, sc, threads, spurious>>

MainLock == /\ mpc = "lock" /\ mutex_mensaje = Nobody
            /\ mutex_mensaje' = Main
            /\ mpc' = "test"
            /\ UNCHANGED <<not_finished, waiting, sc, threads, spurious>>

\* pthread_cond_wait blocks and gives the mutex back in one step.
Test == /\ mpc = "test"
        /\ \/ /\ not_finished
              /\ waiting' = TRUE /\ mutex_mensaje' = Nobody /\ mpc' = "wait"
           \/ /\ ~not_finished
              /\ mpc' = "reset" /\ UNCHANGED <<waiting, mutex_mensaje>>
        /\ UNCHANGED <<not_finished, sc, threads, spurious>>

SpuriousWakeup == /\ waiting /\ spurious < MaxSpurious
                  /\ waiting' = FALSE
                  /\ spurious' = spurious + 1
                  /\ UNCHANGED <<mutex_mensaje, not_finished, sc, mpc, threads>>

\* Mutant: `if (not_finished)', a wakeup is taken for the thread's answer.
WakeUpTrusting == /\ mpc = "wait" /\ ~waiting /\ mutex_mensaje = Nobody
                  /\ mutex_mensaje' = Main
                  /\ mpc' = "reset"
                  /\ UNCHANGED <<not_finished, waiting, sc, threads, spurious>>

\* A wait returns with the mutex held, and the loop tests the flag again.
WakeUp == /\ mpc = "wait" /\ ~waiting /\ mutex_mensaje = Nobody
          /\ mutex_mensaje' = Main
          /\ mpc' = "test"
          /\ UNCHANGED <<not_finished, waiting, sc, threads, spurious>>

\* Mutant: not_finished is not set for the next connection.
NoReset == /\ mpc = "reset"
           /\ mutex_mensaje' = Nobody
           /\ mpc' = "accept"
           /\ UNCHANGED <<not_finished, waiting, sc, threads, spurious>>

Reset == /\ mpc = "reset"
         /\ not_finished' = TRUE
         /\ mutex_mensaje' = Nobody
         /\ mpc' = "accept"
         /\ UNCHANGED <<waiting, sc, threads, spurious>>

-----------------------------------------------------------------------------
(* treat_request                                                           *)

WorkerLock(w) == /\ wpc[w] = "lock" /\ mutex_mensaje = Nobody
                 /\ mutex_mensaje' = w
                 /\ wpc' = [wpc EXCEPT ![w] = "copy"]
                 /\ UNCHANGED <<not_finished, waiting, sc, mpc, got, given, spurious>>

Copy(w) == /\ wpc[w] = "copy"
           /\ got' = [got EXCEPT ![w] = sc]
           /\ wpc' = [wpc EXCEPT ![w] = "tell"]
           /\ UNCHANGED <<mutex_mensaje, not_finished, waiting, sc, mpc, given, spurious>>

Tell(w) == /\ wpc[w] = "tell"
           /\ not_finished' = FALSE
           /\ wpc' = [wpc EXCEPT ![w] = "signal"]
           /\ UNCHANGED <<mutex_mensaje, waiting, sc, mpc, got, given, spurious>>

\* Mutant: the thread unlocks without signalling.
NoSignal(w) == /\ wpc[w] = "signal"
               /\ mutex_mensaje' = Nobody
               /\ wpc' = [wpc EXCEPT ![w] = "serve"]
               /\ UNCHANGED <<not_finished, waiting, sc, mpc, got, given, spurious>>

\* pthread_cond_signal wakes main if it waits; then the mutex is unlocked.
Signal(w) == /\ wpc[w] = "signal"
             /\ waiting' = FALSE
             /\ mutex_mensaje' = Nobody
             /\ wpc' = [wpc EXCEPT ![w] = "serve"]
             /\ UNCHANGED <<not_finished, sc, mpc, got, given, spurious>>

\* A request ends the whole process: exit(1) when no RPC client can be created,
\* SIGPIPE on an answer to a client that has gone.
RequestEndsProcess(w) == /\ wpc[w] = "serve"
                         /\ mpc' = "ended"
                         /\ KillThreads
                         /\ UNCHANGED <<mutex_mensaje, not_finished, waiting, sc, got, given, spurious>>

-----------------------------------------------------------------------------
MainStep == MainLock \/ Test \/ WakeUp \/ Reset
Creation == CreateFails \/ \E w \in Worker : CreateThread(w)
WorkerStep(w) == WorkerLock(w) \/ Copy(w) \/ Tell(w) \/ Signal(w)

Next == Accept \/ AcceptFails \/ Creation \/ MainStep \/ SpuriousWakeup
        \/ \E w \in Worker : WorkerStep(w) \/ RequestEndsProcess(w)

\* Threads that can run do; nothing obliges a client to connect, and wakeups
\* without a cause stop sooner or later.
Fairness == /\ WF_vars(Creation) /\ WF_vars(MainStep)
            /\ \A w \in Worker : WF_vars(WorkerStep(w))

Spec == Init /\ [][Next]_vars
FairSpec == Spec /\ Fairness

-----------------------------------------------------------------------------
(* Properties.                                                             *)

\* The type invariant.
TypeOK == /\ mutex_mensaje \in Worker \cup {Main, Nobody}
          /\ not_finished \in BOOLEAN
          /\ waiting \in BOOLEAN
          /\ sc \in Nat
          /\ mpc \in {"accept", "create", "lock", "test", "wait", "reset", "exited", "ended"}
          /\ wpc \in [Worker -> {"none", "lock", "copy", "tell", "signal", "serve", "killed"}]
          /\ got \in [Worker -> Nat \cup {Nobody}]
          /\ given \in [Worker -> Nat \cup {Nobody}]
          /\ spurious \in Nat

\* A thread handles the connection it was created for, though all threads read
\* it through one address that main overwrites (servidor.c 605, 611, 81).
OwnDescriptor ==
  \A w \in Worker : wpc[w] \in {"tell", "signal", "serve"} => got[w] = given[w]

\* main overwrites sc only when no thread has still to read it.
NoPendingCopy == [][sc' # sc => \A w \in Worker : wpc[w] \notin {"lock", "copy"}]_vars

\* The accept loop never hangs on the handshake: the signal cannot be lost. Only
\* a request that ends the process keeps main from its next accept.
BackToAccept == mpc \notin {"accept", "exited", "ended"} ~> mpc \in {"accept", "ended"}

\* Every created thread gets past the handshake to its request: a failed accept,
\* which kills every thread there is, finds none that has still to read sc. What
\* can keep it from its request is another request that ends the process.
EveryoneServes == \A w \in Worker : wpc[w] = "lock" ~> wpc[w] = "serve" \/ mpc = "ended"
=============================================================================
