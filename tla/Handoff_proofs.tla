--------------------------- MODULE Handoff_proofs ---------------------------
(***************************************************************************)
(* Theorems about the handshake between main and its threads, for any      *)
(* number of threads, connections and spurious wakeups.                    *)
(***************************************************************************)
EXTENDS Handoff, TLAPS

\* A thread that has not yet told main that it has its descriptor.
Pending(w) == wpc[w] \in {"lock", "copy", "tell"}

(* While a thread is pending, main is in its wait loop and sc still holds   *)
(* the connection the thread was created for; main leaves the loop, and     *)
(* the flag is set again, only when no thread is pending.                   *)
Handshake ==
  /\ \A w \in Worker : Pending(w) => /\ not_finished
                                     /\ mpc \in {"lock", "test", "wait"}
                                     /\ given[w] = sc
  /\ \A v, w \in Worker : Pending(v) /\ Pending(w) => v = w
  /\ mpc = "reset" => ~not_finished
  /\ mpc \in {"accept", "create"} => not_finished

HInv == TypeOK /\ Handshake /\ OwnDescriptor

\* Every step keeps every variable in its type.
LEMMA TypeInductive == TypeOK /\ [Next]_vars => TypeOK'
<1>. SUFFICES ASSUME TypeOK, [Next]_vars PROVE TypeOK'
  OBVIOUS
<1>. USE BoundAssumption DEF TypeOK, threads
<1>1. CASE Accept \/ AcceptFails
  BY <1>1 DEF Accept, AcceptFails, KillThreads
<1>2. CASE Creation
  BY <1>2 DEF Creation, CreateFails, CreateThread
<1>3. CASE MainStep
  BY <1>3 DEF MainStep, MainLock, Test, WakeUp, Reset
<1>4. CASE SpuriousWakeup
  <2>1. spurious' \in Nat
    BY <1>4 DEF SpuriousWakeup
  <2>2. waiting' \in BOOLEAN
    BY <1>4 DEF SpuriousWakeup
  <2>3. UNCHANGED <<mutex_mensaje, not_finished, sc, mpc, wpc, got, given>>
    BY <1>4, Zenon DEF SpuriousWakeup
  <2>. QED BY <2>1, <2>2, <2>3
<1>5. ASSUME NEW w \in Worker, WorkerStep(w) \/ RequestEndsProcess(w) PROVE TypeOK'
  BY <1>5 DEF WorkerStep, WorkerLock, Copy, Tell, Signal, RequestEndsProcess, KillThreads
<1>6. CASE UNCHANGED vars
  BY <1>6 DEF vars
<1>. QED BY <1>1, <1>2, <1>3, <1>4, <1>5, <1>6 DEF Next

\* Every step keeps the handshake of main and the thread it has just created.
LEMMA HandshakeInductive == HInv /\ [Next]_vars => Handshake' /\ OwnDescriptor'
<1>. SUFFICES ASSUME HInv, [Next]_vars PROVE Handshake' /\ OwnDescriptor'
  OBVIOUS
<1>. USE DEF HInv, TypeOK, Handshake, OwnDescriptor, Pending, threads
<1>1. CASE Accept \/ AcceptFails
  BY <1>1 DEF Accept, AcceptFails, KillThreads
<1>2. CASE CreateFails
  BY <1>2 DEF CreateFails
<1>3. ASSUME NEW w \in Worker, CreateThread(w) PROVE Handshake' /\ OwnDescriptor'
  BY <1>3 DEF CreateThread
<1>4. CASE MainStep
  BY <1>4 DEF MainStep, MainLock, Test, WakeUp, Reset
<1>5. CASE SpuriousWakeup
  BY <1>5 DEF SpuriousWakeup
<1>6. ASSUME NEW w \in Worker, WorkerLock(w) \/ Tell(w) \/ Signal(w)
      PROVE  Handshake' /\ OwnDescriptor'
  BY <1>6 DEF WorkerLock, Tell, Signal
<1>7. ASSUME NEW w \in Worker, Copy(w) PROVE Handshake' /\ OwnDescriptor'
  BY <1>7 DEF Copy
<1>8. ASSUME NEW w \in Worker, RequestEndsProcess(w) PROVE Handshake' /\ OwnDescriptor'
  BY <1>8 DEF RequestEndsProcess, KillThreads
<1>9. CASE UNCHANGED vars
  BY <1>9 DEF vars
<1>. QED BY <1>1, <1>2, <1>3, <1>4, <1>5, <1>6, <1>7, <1>8, <1>9 DEF Next, Creation, WorkerStep

\* HInv holds in every state.
LEMMA Inductive == Spec => []HInv
<1>1. Init => HInv
  <2>. SUFFICES ASSUME Init PROVE HInv
    OBVIOUS
  <2>1. TypeOK
    BY DEF Init, TypeOK
  <2>2. Handshake /\ OwnDescriptor
    BY DEF Init, Handshake, OwnDescriptor, Pending
  <2>. QED BY <2>1, <2>2 DEF HInv
<1>2. HInv /\ [Next]_vars => HInv'
  BY TypeInductive, HandshakeInductive DEF HInv
<1>. QED BY <1>1, <1>2, PTL DEF Spec

\* The accept loop's variables and the threads' keep their types.
THEOREM TypeCorrect == Spec => []TypeOK
BY Inductive, PTL DEF HInv

\* Each thread handles the connection it was created for, whatever the order in
\* which threads start, main is woken, and connections come in.
THEOREM ThreadsKeepTheirOwn == Spec => []OwnDescriptor
BY Inductive, PTL DEF HInv

\* main never overwrites the descriptor a thread has still to read.
THEOREM NoOverwrite == Spec => NoPendingCopy
<1>1. HInv /\ [Next]_vars => [sc' # sc => \A w \in Worker : wpc[w] \notin {"lock", "copy"}]_vars
  <2>. SUFFICES ASSUME HInv, Next, sc' # sc
                PROVE  \A w \in Worker : wpc[w] \notin {"lock", "copy"}
    OBVIOUS
  <2>1. Accept
    BY DEF Next, AcceptFails, Creation, CreateFails, CreateThread, MainStep, MainLock, Test, WakeUp, Reset,
           SpuriousWakeup, WorkerStep, WorkerLock, Copy, Tell, Signal, RequestEndsProcess
  <2>. QED BY <2>1 DEF Accept, HInv, Handshake, Pending
<1>. QED BY Inductive, <1>1, PTL DEF Spec, NoPendingCopy
=============================================================================
