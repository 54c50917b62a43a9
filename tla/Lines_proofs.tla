---------------------------- MODULE Lines_proofs ----------------------------
(***************************************************************************)
(* What the race on the global buffer cannot break: whatever threads write *)
(* to it at the same time, every string in it ends within it, and what     *)
(* treat_request copies from it fits; and what one client at a time can    *)
(* rely on: fields without a newline arrive as it sent them.  For any      *)
(* number of threads and fields, any buffer size and any strings; the two  *)
(* theorems on what arrives for strings without newlines.                  *)
(***************************************************************************)
EXTENDS Lines, TLAPS

\* No byte beyond the n-th string was read; without newlines, none of those
\* before it is still to come, unless the client is gone.
AtField(t, n) == /\ next[t].field <= n
                 /\ Plain(mode) /\ ~gone[t] => next[t].field = n

\* A thread reads no further than the field it is at.
Aligned ==
  /\ mode \in Modes
  /\ sent \in [Thread -> Seq(String)]
  /\ gone \in [Thread -> BOOLEAN]
  /\ next \in [Thread -> [field : Nat \ {0}, place : Nat \ {0}]]
  /\ \A t \in Thread :
       /\ phase[t] = "idle" => /\ next[t] = Start /\ got[t] = <<>> /\ ~gone[t]
       /\ phase[t] # "idle" => sent[t] \in mode.requests
       /\ phase[t] \in {"read", "clear"} => AtField(t, Len(got[t]) + 1)
       /\ phase[t] \in {"measure", "copy"} => AtField(t, Len(got[t]) + 2)
       /\ phase[t] \in {"read", "measure", "copy"} => Len(got[t]) < Len(sent[t])

\* The inductive invariant.
LInv == TypeOK /\ Terminated /\ CopyFits /\ Aligned

USE LineAssumption

\* The empty buffer and idle threads satisfy it.
LEMMA InitLInv == Init => LInv
  BY DEF Init, LInv, TypeOK, Terminated, CopyFits, Aligned, Clean, Index, Start, String

\* The thread's end leaves the buffer alone.
LEMMA EndKeeps ==
  ASSUME LInv, NEW t \in Thread, End(t) PROVE LInv'
  BY DEF LInv, TypeOK, Terminated, CopyFits, Aligned, AtField, End, Goto, Index, Start, String

\* A request sets the fields and nothing else the invariant speaks of.
LEMMA RequestKeeps ==
  ASSUME LInv, NEW t \in Thread, Request(t) PROVE LInv'
<1>0. PICK f \in mode.requests :
         /\ sent' = [sent EXCEPT ![t] = f]
         /\ unsent' = [unsent EXCEPT ![t] = mode.answer]
         /\ phase' = [phase EXCEPT ![t] = "read"]
         /\ phase[t] = "idle"
         /\ UNCHANGED <<mode, buffer, next, gone, tot, at, got>>
  BY DEF Request, Goto
<1>a. mode.answer \in Seq(String) /\ f \in Seq(String) /\ f # <<>>
  BY DEF LInv, Aligned
<1>b. Len(f) > 0
  BY <1>a
<1>1. TypeOK'
  BY <1>0, <1>a DEF LInv, TypeOK
<1>2. Terminated' /\ CopyFits'
  BY DEF LInv, TypeOK, Terminated, CopyFits, Request, Goto, Index
<1>3. Aligned'
  <2>1. /\ next'[t] = Start /\ got'[t] = <<>> /\ phase'[t] = "read"
        /\ sent'[t] = f /\ mode' = mode /\ gone' = gone
    BY <1>0 DEF LInv, TypeOK, Aligned
  <2>2. AtField(t, Len(got[t]) + 1)'
    <3>1. Len(got'[t]) + 1 = 1
      BY <2>1
    <3>. QED BY <2>1, <3>1 DEF AtField, Start
  <2>3. Len(got'[t]) < Len(sent'[t])
    BY <1>b, <2>1
  <2>. QED BY <1>0, <1>a, <2>1, <2>2, <2>3 DEF LInv, TypeOK, Aligned, AtField
<1> QED BY <1>1, <1>2, <1>3 DEF LInv

\* So does the client that vanishes.
LEMMA VanishKeeps ==
  ASSUME LInv, NEW t \in Thread, Vanish(t) PROVE LInv'
  BY DEF LInv, TypeOK, Terminated, CopyFits, Aligned, AtField, Vanish, answer, Index, Start, String

\* A byte goes where the last one is not.
LEMMA ReadByteKeeps ==
  ASSUME LInv, NEW t \in Thread, ReadByte(t) PROVE LInv'
<1>1. /\ phase[t] = "read" /\ ~gone[t] /\ UNCHANGED <<mode, sent, gone, got, answer>>
      /\ next' = [next EXCEPT ![t] = After(t)]
  BY DEF ReadByte
<1>2. /\ next[t].field \in DOMAIN sent[t] /\ sent[t][next[t].field] \in Seq(Byte)
      /\ next[t].field \in Nat \ {0} /\ next[t].place \in Nat \ {0}
      /\ next[t] \in [field : Nat \ {0}, place : Nat \ {0}]
  BY <1>1 DEF LInv, TypeOK, Aligned, AtField, String
<1>3. /\ Incoming(t) \in Byte \cup {NUL}
      /\ Plain(mode) => Incoming(t) # LF
  <2>1. sent[t] \in mode.requests
    BY <1>1 DEF LInv, Aligned
  <2>2. NUL # LF
    BY LineAssumption
  <2>3. CASE next[t].place > Len(sent[t][next[t].field])
    BY <2>2, <2>3 DEF Incoming
  <2>4. CASE ~(next[t].place > Len(sent[t][next[t].field]))
    <3>1. /\ next[t].place \in DOMAIN sent[t][next[t].field]
          /\ Incoming(t) = sent[t][next[t].field][next[t].place]
      BY <1>2, <2>4 DEF Incoming
    <3>2. Incoming(t) \in Byte
      BY <1>2, <3>1
    <3>. QED BY <1>2, <2>1, <3>1, <3>2 DEF Plain
  <2>. QED BY <2>3, <2>4
<1>4. After(t) \in [field : Nat \ {0}, place : Nat \ {0}]
  BY <1>2 DEF After
<1>5. After(t).field = next[t].field + (IF Incoming(t) = NUL THEN 1 ELSE 0)
  BY <1>2 DEF After
<1>6. next' \in [Thread -> [field : Nat \ {0}, place : Nat \ {0}]]
  BY <1>1, <1>4 DEF LInv, Aligned
<1>7. next'[t] = After(t) /\ \A u \in Thread : u # t => next'[u] = next[u]
  BY <1>1 DEF LInv, Aligned
<1>8. CASE Incoming(t) \in {NUL, LF}
  <2>1. /\ buffer' = [buffer EXCEPT ![tot[t]] = NUL]
        /\ at' = [at EXCEPT ![t] = 0]
        /\ phase' = [phase EXCEPT ![t] = "measure"] /\ tot' = tot
    BY <1>8 DEF ReadByte, Terminate, Goto
  <2>2. TypeOK' /\ Terminated' /\ CopyFits'
    BY <1>1, <2>1 DEF LInv, TypeOK, Terminated, CopyFits, answer, Index
  <2>3. next'[t].field <= next[t].field + 1 /\ (Plain(mode) => next'[t].field = next[t].field + 1)
    BY <1>2, <1>3, <1>5, <1>7, <1>8
  <2>4. AtField(t, Len(got[t]) + 1) /\ UNCHANGED <<mode, gone, got>>
    BY <1>1 DEF LInv, TypeOK, Aligned
  <2>5. AtField(t, Len(got[t]) + 2)'
    <3>1. PICK l, n, m : l = Len(got[t]) /\ n = next[t].field /\ m = next'[t].field
      OBVIOUS
    <3>2. l \in Nat /\ n \in Nat /\ m \in Nat
      BY <1>2, <1>4, <1>7, <3>1 DEF LInv, TypeOK
    <3>3. m <= n + 1 /\ n <= l + 1
      BY <2>3, <2>4, <3>1 DEF AtField
    <3>4. Plain(mode) => m = n + 1 /\ n = l + 1
      BY <1>1, <2>3, <2>4, <3>1 DEF AtField
    <3>5. m <= l + 2 /\ (Plain(mode) => m = l + 2)
      BY <3>2, <3>3, <3>4
    <3>. QED BY <2>4, <3>1, <3>5 DEF AtField
  <2>6. Aligned'
    BY <1>1, <1>6, <1>7, <2>1, <2>5 DEF AtField, LInv, TypeOK, Aligned
  <2>. QED BY <2>2, <2>6 DEF LInv
<1>9. CASE ~(Incoming(t) \in {NUL, LF})
  <2>. DEFINE b == Incoming(t)
  <2>1. b \in Byte /\ next'[t].field = next[t].field
    BY <1>2, <1>3, <1>5, <1>7, <1>9
  <2>2. Store(t, b) /\ UNCHANGED <<phase, at>>
    BY <1>9 DEF ReadByte
  <2>. HIDE DEF b
  <2>3. TypeOK' /\ Terminated' /\ CopyFits'
    <3>1. CASE tot[t] < N - 1
      <4>1. tot[t] \in 0 .. N - 1 /\ tot[t] + 1 \in 0 .. N - 1 /\ N - 1 \in 0 .. N - 1
        BY <3>1 DEF LInv, TypeOK, Index
      <4>2. tot' = [tot EXCEPT ![t] = @ + 1] /\ buffer' = [buffer EXCEPT ![tot[t]] = b]
        BY <2>2, <3>1 DEF Store
      <4>3. TypeOK'
        BY <1>1, <2>1, <2>2, <4>1, <4>2 DEF LInv, TypeOK, answer, Index
      <4>4. Terminated' /\ CopyFits'
        BY <1>1, <2>2, <3>1, <4>1, <4>2 DEF LInv, TypeOK, Terminated, CopyFits, Index
      <4>. QED BY <4>3, <4>4
    <3>2. CASE ~(tot[t] < N - 1)
      <4>1. UNCHANGED <<buffer, phase, tot, at, got, unsent>>
        BY <1>1, <2>2, <3>2 DEF Store, answer
      <4>. QED BY <4>1 DEF LInv, TypeOK, Terminated, CopyFits
    <3>. QED BY <3>1, <3>2
  <2>4. \A u \in Thread : next'[u].field = next[u].field /\ (u # t => next'[u] = next[u])
    BY <1>7, <2>1
  <2>5. Aligned'
    BY <1>1, <1>6, <2>2, <2>4 DEF AtField, LInv, TypeOK, Aligned
  <2>. QED BY <2>3, <2>5 DEF LInv
<1>. QED BY <1>8, <1>9

\* The end of the stream writes a NUL or nothing.
LEMMA EndOfStreamKeeps ==
  ASSUME LInv, NEW t \in Thread, EndOfStream(t) PROVE LInv'
<1>1. /\ phase[t] = "read" /\ at' = [at EXCEPT ![t] = 0]
      /\ phase' = [phase EXCEPT ![t] = "measure"]
      /\ buffer' = buffer \/ buffer' = [buffer EXCEPT ![tot[t]] = NUL]
      /\ UNCHANGED <<tot, got, unsent>>
  BY DEF EndOfStream, Terminate, Goto, answer
<1>2. TypeOK'
  BY <1>1 DEF LInv, TypeOK
<1>3. Terminated' /\ CopyFits'
  BY <1>1 DEF LInv, TypeOK, Terminated, CopyFits, Index
<1>4. Aligned'
  BY DEF LInv, TypeOK, Aligned, AtField, EndOfStream, Terminate, Goto, request, answer, Start
<1> QED BY <1>2, <1>3, <1>4 DEF LInv

\* The scan stops at the last byte, which is NUL.
LEMMA MeasureKeeps ==
  ASSUME LInv, NEW t \in Thread, Measure(t) PROVE LInv'
<1>1. at[t] \in Nat /\ at[t] < N /\ N \in Nat
  BY DEF LInv, TypeOK, CopyFits, Measure
<1>2. phase[t] = "measure" /\ UNCHANGED <<mode, buffer, request, tot, got, answer>>
  BY DEF Measure
<1>3. CASE buffer[at[t]] = NUL
  <2>1. phase' = [phase EXCEPT ![t] = "copy"] /\ at' = at
    BY <1>3 DEF Measure, Goto
  <2> QED BY <1>2, <2>1 DEF LInv, TypeOK, Terminated, CopyFits, Aligned, AtField, request, answer
<1>4. CASE buffer[at[t]] # NUL
  <2>1. phase' = phase /\ at' = [at EXCEPT ![t] = @ + 1]
    BY <1>4 DEF Measure
  <2>2. at[t] + 1 \in Nat /\ at[t] + 1 < N
    BY <1>1, <1>4 DEF LInv, Terminated
  <2> QED BY <1>2, <2>1, <2>2 DEF LInv, TypeOK, Terminated, CopyFits, Aligned, AtField, request, answer
<1> QED BY <1>3, <1>4

\* A copy is as long as the scan found.
LEMMA CopyKeeps ==
  ASSUME LInv, NEW t \in Thread, Copy(t) PROVE LInv'
<1>1. PICK end \in 0 .. at[t] :
        /\ \A i \in 0 .. end - 1 : buffer[i] # NUL
        /\ got' = [got EXCEPT ![t] = Append(@, [i \in 1 .. end |-> buffer[i - 1]])]
  BY DEF Copy
<1> DEFINE s == [i \in 1 .. end |-> buffer[i - 1]]
<1>2. at[t] \in Nat /\ at[t] < N /\ end \in Nat /\ end < N
  BY DEF LInv, TypeOK, CopyFits, Copy
<1>3. s \in Seq(Byte) /\ Len(s) = end
  BY <1>1, <1>2 DEF LInv, TypeOK, Index
<1> HIDE DEF s
<1>4. got[t] \in Seq(String) /\ got' = [got EXCEPT ![t] = Append(got[t], s)]
  BY <1>1 DEF LInv, TypeOK, s
<1>5. /\ Append(got[t], s) \in Seq(String)
      /\ Len(Append(got[t], s)) = Len(got[t]) + 1
      /\ \A k \in 1 .. Len(got[t]) + 1 :
           Append(got[t], s)[k] = IF k <= Len(got[t]) THEN got[t][k] ELSE s
  BY <1>3, <1>4 DEF String
<1>6. /\ phase[t] = "copy" /\ phase' = [phase EXCEPT ![t] = "clear"]
      /\ at' = [at EXCEPT ![t] = 0]
      /\ UNCHANGED <<mode, buffer, request, tot, answer>>
  BY DEF Copy, Goto
<1>7. TypeOK' /\ Terminated'
  BY <1>4, <1>5, <1>6 DEF LInv, TypeOK, Terminated, answer
<1>8. CopyFits'
  <2>1. ASSUME NEW u \in Thread PROVE \A k \in DOMAIN got'[u] : Len(got'[u][k]) < N
    <3>1. CASE u = t
      <4>1. got'[u] = Append(got[t], s)
        BY <3>1, <1>4 DEF LInv, TypeOK
      <4>2. DOMAIN got'[u] = 1 .. Len(got[t]) + 1
        BY <4>1, <1>4, <1>5
      <4>3. \A k \in 1 .. Len(got[t]) : Len(got[t][k]) < N
        BY <1>4 DEF LInv, CopyFits
      <4> QED BY <4>1, <4>2, <4>3, <1>5, <1>3, <1>2, <1>4
    <3>2. CASE u # t
      BY <3>2, <1>4 DEF LInv, TypeOK, CopyFits
    <3> QED BY <3>1, <3>2
  <2>2. \A u \in Thread : phase'[u] \in {"measure", "copy", "clear"} => at'[u] < N
    BY <1>6 DEF LInv, TypeOK, CopyFits
  <2> QED BY <2>1, <2>2 DEF CopyFits
<1>9. Aligned'
  BY <1>4, <1>5, <1>6 DEF LInv, TypeOK, Aligned, AtField, request, Start
<1> QED BY <1>7, <1>8, <1>9 DEF LInv

\* memset writes NULs inside the buffer.
LEMMA ClearKeeps ==
  ASSUME LInv, NEW t \in Thread, Clear(t) PROVE LInv'
<1>1. at[t] \in 0 .. N - 1 /\ phase[t] = "clear"
  BY DEF LInv, TypeOK, CopyFits, Clear
<1>2. /\ buffer' = [buffer EXCEPT ![at[t]] = NUL]
      /\ UNCHANGED <<mode, sent, next, gone, got, unsent>>
  BY DEF Clear, request, answer
<1>3. buffer' \in [Index -> Byte \cup {NUL}] /\ Terminated'
  BY <1>1, <1>2 DEF LInv, TypeOK, Terminated, Index
<1>4. CASE at[t] < N - 1
  <2>1. UNCHANGED <<phase, tot>> /\ at' = [at EXCEPT ![t] = @ + 1] /\ at[t] + 1 \in Nat /\ at[t] + 1 < N
    BY <1>1, <1>4 DEF Clear
  <2> QED BY <1>2, <1>3, <2>1 DEF LInv, TypeOK, CopyFits, Aligned, AtField
<1>5. CASE ~(at[t] < N - 1)
  <2>1. /\ at' = [at EXCEPT ![t] = 0] /\ tot' = [tot EXCEPT ![t] = 0]
        /\ phase' = [phase EXCEPT ![t] = IF Len(got[t]) < Len(sent[t]) THEN "read" ELSE "answer"]
    BY <1>5 DEF Clear, Goto
  <2>2. TypeOK' /\ CopyFits'
    BY <1>2, <1>3, <2>1 DEF LInv, TypeOK, CopyFits, Index
  <2>3. Aligned'
    BY <1>1, <1>2, <2>1 DEF LInv, TypeOK, Aligned, AtField
  <2> QED BY <1>3, <2>2, <2>3 DEF LInv
<1> QED BY <1>4, <1>5

\* An answer does not touch the buffer.
LEMMA WriteKeeps ==
  ASSUME LInv, NEW t \in Thread, Write(t) PROVE LInv'
<1>1. unsent[t] \in Seq(String) /\ unsent[t] # <<>>
  BY DEF LInv, TypeOK, Write
<1>2. Head(unsent[t]) \in Seq(Byte) /\ Tail(unsent[t]) \in Seq(String)
  BY <1>1 DEF String
<1>3. Len(Message(t)) \in Nat
  BY <1>2 DEF Message, Encoded
<1>4. PICK n \in 1 .. Len(Message(t)) - at[t] :
        at' = [at EXCEPT ![t] = 0] \/ at' = [at EXCEPT ![t] = at[t] + n]
  BY DEF Write
<1>5. at[t] \in Nat /\ at[t] + n \in Nat
  BY <1>3 DEF LInv, TypeOK
<1>6. at' \in [Thread -> Nat] /\ (\A u \in Thread : u # t => at'[u] = at[u])
  <2>1. CASE at' = [at EXCEPT ![t] = 0]
    BY <2>1 DEF LInv, TypeOK
  <2>2. CASE at' = [at EXCEPT ![t] = at[t] + n]
    <3> DEFINE m == at[t] + n
    <3>1. m \in Nat /\ at' = [at EXCEPT ![t] = m]
      BY <1>5, <2>2
    <3> HIDE DEF m
    <3> QED BY <3>1 DEF LInv, TypeOK
  <2> QED BY <1>4, <2>1, <2>2
<1>7. unsent' \in [Thread -> Seq(String)]
  BY <1>2 DEF LInv, TypeOK, Write
<1>8. phase[t] = "answer" /\ UNCHANGED <<mode, buffer, phase, request, tot, got>>
  BY DEF Write
<1> QED BY <1>6, <1>7, <1>8 DEF LInv, TypeOK, Terminated, CopyFits, Aligned, AtField, request

\* Nor does the client that reads it.
LEMMA ReadResponseKeeps ==
  ASSUME LInv, NEW t \in Thread, ReadResponse(t) PROVE LInv'
<1>1. TypeOK'
  BY DEF LInv, TypeOK, Terminated, CopyFits, ReadResponse, request, Index, String
<1>2. Terminated' /\ CopyFits'
  BY DEF LInv, TypeOK, Terminated, CopyFits, ReadResponse, request, Index
<1>3. Aligned'
  BY DEF LInv, TypeOK, Aligned, AtField, ReadResponse, request, Start
<1> QED BY <1>1, <1>2, <1>3 DEF LInv

\* Every step keeps the invariant.
LEMMA NextLInv == LInv /\ [Next]_vars => LInv'
<1> SUFFICES ASSUME LInv, [Next]_vars PROVE LInv'
  OBVIOUS
<1>1. ASSUME NEW t \in Thread, Request(t) PROVE LInv'
  BY <1>1, RequestKeeps
<1>2. ASSUME NEW t \in Thread, Vanish(t) PROVE LInv'
  BY <1>2, VanishKeeps
<1>3. ASSUME NEW t \in Thread, Handle(t) PROVE LInv'
  <2>1. CASE ReadByte(t) BY <2>1, ReadByteKeeps
  <2>2. CASE EndOfStream(t) BY <2>2, EndOfStreamKeeps
  <2>3. CASE Measure(t) BY <2>3, MeasureKeeps
  <2>4. CASE Copy(t) BY <2>4, CopyKeeps
  <2>5. CASE Clear(t) BY <2>5, ClearKeeps
  <2>6. CASE Write(t) BY <2>6, WriteKeeps
  <2>7. CASE Close(t) BY <2>7, EndKeeps DEF Close
  <2> QED BY <1>3, <2>1, <2>2, <2>3, <2>4, <2>5, <2>6, <2>7 DEF Handle
<1>4. ASSUME NEW t \in Thread, ReadResponse(t) PROVE LInv'
  BY <1>4, ReadResponseKeeps
<1>5. ASSUME NEW t \in Thread, ReadError(t) \/ WriteFails(t) PROVE LInv'
  BY <1>5, EndKeeps DEF ReadError, WriteFails
<1>6. CASE UNCHANGED vars
  BY <1>6 DEF LInv, TypeOK, Terminated, CopyFits, Aligned, AtField, vars, request, answer
<1> QED BY <1>1, <1>2, <1>3, <1>4, <1>5, <1>6 DEF Next

\* LInv holds in every state.
LEMMA AlwaysLInv == Spec => []LInv
  BY InitLInv, NextLInv, PTL DEF Spec

\* Type correctness.
THEOREM TypeCorrect == Spec => []TypeOK
  BY AlwaysLInv, PTL DEF LInv

\* The last byte of the shared buffer stays NUL under any interleaving of the
\* threads that read requests into it (lines.c:69).
THEOREM BufferStaysTerminated == Spec => []Terminated
  BY AlwaysLInv, PTL DEF LInv

\* Scans of the shared buffer stop inside it, and what is copied from it fits
\* in a local of the same size, with its NUL (servidor.c:111-457).
THEOREM CopiesAlwaysFit == Spec => []CopyFits
  BY AlwaysLInv, PTL DEF LInv

-----------------------------------------------------------------------------
(* One client at a time: what arrives of a request.                        *)

\* The field a thread is at, what it keeps of the k-th one, and whether the
\* first n bytes of the buffer are the field's.
Current(t) == Len(got[t]) + 1
Kept(t, k) == IF Came(t, k) < N THEN Came(t, k) ELSE N - 1
Cut(t, k) == SubSeq(sent[t][k], 1, Kept(t, k))
Holds(t, n) == \A i \in 0 .. n - 1 : buffer[i] = sent[t][Current(t)][i + 1]

\* Where the next byte can be, whoever else is served.
Place(t) ==
  /\ next[t].field \in DOMAIN sent[t] => next[t].place <= Len(sent[t][next[t].field]) + 1
  /\ phase[t] \in {"read", "clear"} => next[t].field <= Current(t)
  /\ phase[t] \in {"measure", "copy"} => next[t].field <= Current(t) + 1
  /\ phase[t] = "clear" /\ next[t].field = Current(t) => next[t].place = 1
  /\ phase[t] \in {"measure", "copy"} /\ next[t].field = Current(t) + 1 => next[t].place = 1
  /\ phase[t] = "clear" => Len(got[t]) <= Len(sent[t])
  /\ phase[t] = "answer" => Len(got[t]) = Len(sent[t])
  /\ phase[t] = "idle" => tot[t] = 0
  /\ phase[t] # "idle" => t \in mode.threads
  /\ \A k \in Checked \cap DOMAIN sent[t] : Len(sent[t][k]) < N
Places == \A t \in Thread : Place(t)

\* The fields already copied; the one being read, which follows a buffer that
\* was cleared unless it is the first; the one being copied; the buffer being
\* cleared.
Past(t) == next[t] # Start => \A k \in 1 .. Len(got[t]) : got[t][k] = Cut(t, k)
Reading(t) == phase[t] = "read" =>
                /\ tot[t] = Kept(t, Current(t))
                /\ Holds(t, tot[t])
                /\ got[t] # <<>> => \A i \in tot[t] .. N - 1 : buffer[i] = NUL
Copying(t) == phase[t] \in {"measure", "copy"} /\ next[t] # Start =>
                /\ Holds(t, Kept(t, Current(t)))
                /\ buffer[Kept(t, Current(t))] = NUL
                /\ at[t] <= Kept(t, Current(t))
                /\ phase[t] = "copy" => at[t] = Kept(t, Current(t))
Clearing(t) == phase[t] = "clear" => \A i \in 0 .. at[t] - 1 : buffer[i] = NUL
Arriving(t) == Past(t) /\ Reading(t) /\ Copying(t) /\ Clearing(t)
Arrived == Alone /\ Plain(mode) => \A t \in Thread : Arriving(t)

\* What the invariant says of one thread's position, in a form that is easy to use.
LEMMA Types ==
  ASSUME LInv, NEW t \in Thread
  PROVE  /\ N \in Nat \ {0}
         /\ sent[t] \in Seq(String) /\ got[t] \in Seq(String)
         /\ Len(sent[t]) \in Nat /\ Len(got[t]) \in Nat /\ DOMAIN sent[t] = 1 .. Len(sent[t])
         /\ \A k \in DOMAIN sent[t] : sent[t][k] \in Seq(Byte) /\ Len(sent[t][k]) \in Nat
         /\ next[t] \in [field : Nat \ {0}, place : Nat \ {0}]
         /\ next[t].field \in Nat \ {0} /\ next[t].place \in Nat \ {0}
         /\ tot[t] \in 0 .. N - 1 /\ at[t] \in Nat
         /\ next[t] = Start <=> next[t].field = 1 /\ next[t].place = 1
<1>1. /\ sent[t] \in Seq(String) /\ got[t] \in Seq(String)
      /\ next[t] \in [field : Nat \ {0}, place : Nat \ {0}]
      /\ tot[t] \in 0 .. N - 1 /\ at[t] \in Nat
  BY DEF LInv, TypeOK, Aligned, Index
<1>2. \A k \in DOMAIN sent[t] : sent[t][k] \in Seq(Byte) /\ Len(sent[t][k]) \in Nat
  BY <1>1 DEF String
<1>3. next[t] = Start <=> next[t].field = 1 /\ next[t].place = 1
  BY <1>1 DEF Start
<1>. QED BY <1>1, <1>2, <1>3

\* A thread keeps less than a buffer of a field, and no more than was sent.
LEMMA KeptFits ==
  ASSUME LInv, Places, NEW t \in Thread, NEW k \in DOMAIN sent[t]
  PROVE  Kept(t, k) \in 0 .. N - 1 /\ Kept(t, k) <= Len(sent[t][k])
<1>1. Came(t, k) \in Nat /\ Came(t, k) <= Len(sent[t][k])
  <2>1. CASE k = next[t].field
    BY <2>1, Types, SMTT(30) DEF Came, Places, Place
  <2>2. CASE k # next[t].field
    BY <2>2, Types DEF Came
  <2>. QED BY <2>1, <2>2
<1>. QED BY <1>1, Types DEF Kept

\* What the others do: they wait.
LEMMA OthersWait ==
  ASSUME LInv, Places, Alone, NEW t \in Thread, t \in mode.threads,
         NEW s \in Thread, s # t,
         phase'[s] = phase[s], next'[s] = next[s]
  PROVE  Arriving(s)'
<1>1. phase[s] = "idle" /\ next[s] = Start
  BY DEF Places, Place, Alone, LInv, Aligned
<1>. QED BY <1>1 DEF Arriving, Past, Reading, Copying, Clearing

\* What a thread keeps stays what it was while next and sent do.
LEMMA KeptStays ==
  ASSUME NEW t \in Thread, next'[t] = next[t], sent'[t] = sent[t]
  PROVE  \A k : Kept(t, k)' = Kept(t, k) /\ Cut(t, k)' = Cut(t, k)
BY DEF Kept, Came, Cut

\* A thread's place depends on nobody else.
LEMMA PlaceApart ==
  ASSUME Places, NEW t \in Thread, Place(t)', mode' = mode,
         \A s \in Thread : s # t => /\ phase'[s] = phase[s] /\ next'[s] = next[s]
                                    /\ sent'[s] = sent[s] /\ got'[s] = got[s] /\ tot'[s] = tot[s]
  PROVE  Places'
<1>1. ASSUME NEW s \in Thread, s # t PROVE Place(s)'
  BY <1>1, ZenonT(30) DEF Places, Place, Current
<1>. QED BY <1>1 DEF Places

\* A request starts at its first byte.
LEMMA PlaceRequest == ASSUME LInv, Places, NEW t \in Thread, Request(t) PROVE Places'
<1>1. PICK f \in mode.requests :
        /\ sent' = [sent EXCEPT ![t] = f] /\ phase' = [phase EXCEPT ![t] = "read"]
        /\ phase[t] = "idle" /\ t \in mode.threads
        /\ \A k \in Checked \cap DOMAIN f : ~(Len(f[k]) > N - 1)
        /\ UNCHANGED <<mode, next, got, tot>>
  BY DEF Request, Goto, ExcedeTamano
<1>2. next[t] = Start /\ got[t] = <<>> /\ sent'[t] = f /\ phase'[t] = "read"
  BY <1>1 DEF LInv, TypeOK, Aligned
<1>3. f \in Seq(String)
  BY <1>1 DEF LInv, Aligned
<1>4. \A k \in DOMAIN f : Len(f[k]) \in Nat /\ f[k] \in Seq(Byte)
  BY <1>3 DEF String
<1>5. \A k \in Checked \cap DOMAIN f : Len(f[k]) < N
  BY <1>1, <1>4
<1>6. Place(t)'
  BY <1>1, <1>2, <1>4, <1>5 DEF Place, Current, Start
<1>. QED BY <1>1, <1>6, PlaceApart DEF LInv, TypeOK, Aligned

\* The end of a connection resets the thread.
LEMMA PlaceEnd == ASSUME LInv, Places, NEW t \in Thread, End(t) PROVE Places'
<1>1. Place(t)'
  <2>1. phase'[t] = "idle" /\ next'[t] = Start /\ got'[t] = <<>> /\ sent'[t] = <<>> /\ tot'[t] = 0
    BY DEF End, Goto, LInv, TypeOK, Aligned
  <2>. QED BY <2>1 DEF Place, Current, Start
<1>. QED BY <1>1, PlaceApart DEF End, Goto, LInv, TypeOK, Aligned

\* A byte moves its thread one place, or to the next field.
LEMMA PlaceReadByte == ASSUME LInv, Places, NEW t \in Thread, ReadByte(t) PROVE Places'
<1>1. /\ phase[t] = "read" /\ UNCHANGED <<mode, sent, got>>
      /\ next' = [next EXCEPT ![t] = After(t)]
  BY DEF ReadByte
<1>2. Place(t) /\ next[t].field \in DOMAIN sent[t]
  BY <1>1, Types DEF LInv, Aligned, Places, Place, Current
<1>3. next'[t] = After(t) /\ \A s \in Thread : s # t => next'[s] = next[s]
  BY <1>1 DEF LInv, Aligned
<1>4. /\ phase'[t] \in {"read", "measure"}
      /\ Incoming(t) = NUL => phase'[t] = "measure"
      /\ \A s \in Thread : s # t => phase'[s] = phase[s] /\ tot'[s] = tot[s]
  <2>1. CASE Incoming(t) \in {NUL, LF}
    BY <2>1 DEF ReadByte, Terminate, Goto, LInv, TypeOK
  <2>2. CASE ~(Incoming(t) \in {NUL, LF})
    BY <1>1, <2>2 DEF ReadByte, Store, LInv, TypeOK
  <2>. QED BY <2>1, <2>2
<1>5. PICK j, l, p : j = next[t].field /\ p = next[t].place /\ l = Current(t)
  OBVIOUS
<1>6. j \in Nat /\ p \in Nat /\ l \in Nat /\ j <= l /\ p > 0
  BY <1>1, <1>2, <1>5, Types DEF Place, Current
<1>7. /\ Current(t)' = l /\ sent'[t] = sent[t] /\ mode' = mode /\ t \in mode.threads
      /\ \A k \in Checked \cap DOMAIN sent[t] : Len(sent[t][k]) < N
  BY <1>1, <1>2, <1>5 DEF Place, Current
<1>8. CASE Incoming(t) = NUL
  <2>1. next'[t].field = j + 1 /\ next'[t].place = 1 /\ phase'[t] = "measure"
    BY <1>3, <1>4, <1>5, <1>8 DEF After
  <2>2. Place(t)'
    BY <1>6, <1>7, <2>1, Types DEF Place
  <2>. QED BY <1>1, <1>3, <1>4, <2>2, PlaceApart
<1>9. CASE Incoming(t) # NUL
  <2>1. next'[t].field = j /\ next'[t].place = p + 1
    BY <1>3, <1>5, <1>9, Types DEF After
  <2>2. p + 1 <= Len(sent[t][j]) + 1
    BY <1>2, <1>5, <1>6, <1>9, Types DEF Incoming
  <2>3. Place(t)'
    BY <1>4, <1>6, <1>7, <2>1, <2>2 DEF Place
  <2>. QED BY <1>1, <1>3, <1>4, <2>3, PlaceApart
<1>. QED BY <1>8, <1>9

\* The steps that read nothing and copy nothing keep the place.
LEMMA PlaceOther ==
  ASSUME LInv, Places, NEW t \in Thread,
         Vanish(t) \/ EndOfStream(t) \/ Measure(t) \/ Write(t)
  PROVE  Places'
<1>1. UNCHANGED <<mode, sent, next, got, tot>>
  BY DEF Vanish, EndOfStream, Measure, Write, request, answer
<1>2. \A s \in Thread : s # t => phase'[s] = phase[s]
  BY DEF Vanish, EndOfStream, Terminate, Measure, Write, Goto, LInv, TypeOK
<1>3. \/ phase'[t] = phase[t]
      \/ phase[t] = "read" /\ phase'[t] = "measure"
      \/ phase[t] = "measure" /\ phase'[t] = "copy"
  BY DEF Vanish, EndOfStream, Terminate, Measure, Write, Goto, LInv, TypeOK
<1>4. Place(t)'
  <2>1. Place(t) /\ (phase[t] = "read" => next[t].field <= Current(t))
    BY DEF Places, Place
  <2>2. Current(t) \in Nat /\ next[t].field \in Nat
    BY Types DEF Current
  <2>3. Current(t)' = Current(t)
    BY <1>1 DEF Current
  <2>4. phase[t] = "read" => next[t].field <= Current(t) + 1 /\ next[t].field # Current(t) + 1
    BY <2>1, <2>2
  <2>. QED BY <1>1, <1>3, <2>1, <2>3, <2>4 DEF Place
<1>. QED BY <1>1, <1>2, <1>4, PlaceApart

\* A copied field is one more behind the thread.
LEMMA PlaceCopy == ASSUME LInv, Places, NEW t \in Thread, Copy(t) PROVE Places'
<1>1. PICK s : got' = [got EXCEPT ![t] = Append(@, s)]
  BY DEF Copy
<1>2. /\ phase[t] = "copy" /\ phase' = [phase EXCEPT ![t] = "clear"]
      /\ UNCHANGED <<mode, sent, next, tot>>
  BY DEF Copy, Goto, request
<1>3. got'[t] = Append(got[t], s) /\ phase'[t] = "clear"
  BY <1>1, <1>2 DEF LInv, TypeOK
<1>4. Len(got'[t]) = Len(got[t]) + 1
  BY <1>3, Types
<1>5. Place(t) /\ Len(got[t]) < Len(sent[t]) /\ Len(got[t]) \in Nat /\ Len(sent[t]) \in Nat
  BY <1>2, Types DEF Places, LInv, Aligned
<1>6. Place(t)'
  BY <1>2, <1>3, <1>4, <1>5, Types DEF Place, Current
<1>. QED BY <1>1, <1>2, <1>6, PlaceApart DEF LInv, TypeOK

\* After the last byte cleared, the thread goes on to a field that was sent.
LEMMA PlaceClear == ASSUME LInv, Places, NEW t \in Thread, Clear(t) PROVE Places'
<1>1. phase[t] = "clear" /\ UNCHANGED <<mode, sent, next, got>>
  BY DEF Clear, request, answer
<1>2. \A s \in Thread : s # t => phase'[s] = phase[s] /\ tot'[s] = tot[s]
  BY DEF Clear, Goto, LInv, TypeOK
<1>3. phase'[t] = IF at[t] < N - 1 THEN "clear"
                  ELSE IF Len(got[t]) < Len(sent[t]) THEN "read" ELSE "answer"
  BY <1>1 DEF Clear, Goto, LInv, TypeOK
<1>4. Place(t)'
  BY <1>1, <1>3, Types DEF Places, Place, Current
<1>. QED BY <1>1, <1>2, <1>4, PlaceApart

\* Every step keeps every thread's place.
LEMMA PlacesInductive == LInv /\ Places /\ [Next]_vars => Places'
<1>. SUFFICES ASSUME LInv, Places, [Next]_vars PROVE Places'
  OBVIOUS
<1>1. ASSUME NEW t \in Thread, ReadResponse(t) PROVE Places'
  BY <1>1 DEF ReadResponse, request, Places, Place, Current
<1>2. CASE UNCHANGED vars
  BY <1>2 DEF vars, request, Places, Place, Current
<1>. QED BY <1>1, <1>2, PlaceRequest, PlaceEnd, PlaceReadByte, PlaceOther, PlaceCopy, PlaceClear
         DEF Next, Handle, ReadError, WriteFails, Close

\* A request arrives at a thread that has read nothing.
LEMMA ArrivingRequest == ASSUME LInv, Places, NEW t \in Thread, Request(t) PROVE Arriving(t)'
<1>1. PICK f : sent' = [sent EXCEPT ![t] = f]
  BY DEF Request
<1>2. /\ phase[t] = "idle" /\ phase' = [phase EXCEPT ![t] = "read"]
      /\ UNCHANGED <<next, got, tot>>
  BY DEF Request, Goto
<1>3. next'[t] = Start /\ got'[t] = <<>> /\ phase'[t] = "read" /\ tot'[t] = 0
  BY <1>2 DEF LInv, TypeOK, Aligned, Places, Place
<1>4. Current(t)' = 1
  BY <1>3 DEF Current
<1>5. Kept(t, 1)' = 0
  BY <1>3, Types DEF Kept, Came, Start
<1>6. Holds(t, 0)'
  BY DEF Holds
<1>7. Reading(t)'
  BY <1>3, <1>4, <1>5, <1>6 DEF Reading
<1>. QED BY <1>3, <1>7 DEF Arriving, Past, Copying, Clearing

\* The end of a connection leaves nothing to say.
LEMMA ArrivingEnd == ASSUME LInv, NEW t \in Thread, End(t) PROVE Arriving(t)'
<1>1. phase'[t] = "idle" /\ next'[t] = Start
  BY DEF End, Goto, LInv, TypeOK, Aligned
<1>. QED BY <1>1 DEF Arriving, Past, Reading, Copying, Clearing

\* Reading of the next state, from the field's number, its bytes and how many of
\* them are kept.
LEMMA ReadingNext ==
  ASSUME NEW t \in Thread, NEW j, NEW n, NEW f,
         Current(t)' = j, sent'[t][j] = f, tot'[t] = n, Kept(t, j)' = n,
         \A i \in 0 .. n - 1 : buffer'[i] = f[i + 1],
         got'[t] # <<>> => \A i \in n .. N - 1 : buffer'[i] = NUL
  PROVE  Reading(t)'
BY DEF Reading, Holds

\* The same of Copying.
LEMMA CopyingNext ==
  ASSUME NEW t \in Thread, NEW j, NEW n, NEW f,
         Current(t)' = j, sent'[t][j] = f, Kept(t, j)' = n,
         \A i \in 0 .. n - 1 : buffer'[i] = f[i + 1], buffer'[n] = NUL,
         at'[t] <= n, phase'[t] = "copy" => at'[t] = n
  PROVE  Copying(t)'
BY DEF Copying, Holds

\* The same of Clearing.
LEMMA ClearingNext ==
  ASSUME NEW t \in Thread, NEW m, at'[t] = m, \A i \in 0 .. m - 1 : buffer'[i] = NUL
  PROVE  Clearing(t)'
BY DEF Clearing

\* The first n bytes of a string.
LEMMA SubSeqIs ==
  ASSUME NEW s \in Seq(Byte), NEW n \in Nat, n <= Len(s)
  PROVE  SubSeq(s, 1, n) = [i \in 1 .. n |-> s[i]]
OBVIOUS

\* A byte of the field, which is no newline, follows the ones before it; the NUL
\* ends the field where it was sent to end, or where the buffer does.
LEMMA ArrivingReadByte ==
  ASSUME LInv, Places, NEW t \in Thread, Arriving(t), ReadByte(t), Plain(mode)
  PROVE  Arriving(t)'
<1>0. PICK j, f, p, n : j = Current(t) /\ f = sent[t][j] /\ p = next[t].place /\ n = tot[t]
  OBVIOUS
<1>1. phase[t] = "read" /\ ~gone[t] /\ UNCHANGED <<mode, sent, gone, got, answer>>
  BY DEF ReadByte
<1>2. next[t].field = j /\ j \in DOMAIN sent[t] /\ j \in Nat /\ j > 0
  BY <1>0, <1>1, Types DEF LInv, Aligned, AtField, Current
<1>3. p \in Nat /\ p > 0 /\ f \in Seq(Byte) /\ Len(f) \in Nat /\ p <= Len(f) + 1
  <2>1. Place(t)
    BY DEF Places
  <2>. QED BY <1>0, <1>2, <2>1, Types DEF Place
<1>4. Current(t)' = j /\ sent'[t][j] = f
  BY <1>0, <1>1 DEF Current
<1>5. /\ n = IF p - 1 < N THEN p - 1 ELSE N - 1
      /\ Holds(t, n)
      /\ got[t] # <<>> => \A i \in n .. N - 1 : buffer[i] = NUL
  BY <1>0, <1>1, <1>2 DEF Arriving, Reading, Kept, Came
<1>6. n \in 0 .. N - 1 /\ buffer \in [0 .. N - 1 -> Byte \cup {NUL}]
  BY <1>0, Types DEF LInv, TypeOK, Index
<1>7. \A i \in 0 .. n - 1 : buffer[i] = f[i + 1]
  BY <1>0, <1>5 DEF Holds
<1>8. next[t] = Start => Len(got[t]) = 0
  BY <1>0, <1>2, Types DEF Start, Current
<1>9. CASE p > Len(f)
  <2>0. Incoming(t) = NUL
    BY <1>0, <1>2, <1>9 DEF Incoming
  <2>1. /\ next' = [next EXCEPT ![t] = [field |-> j + 1, place |-> 1]]
        /\ buffer' = [buffer EXCEPT ![n] = NUL] /\ at' = [at EXCEPT ![t] = 0]
        /\ phase' = [phase EXCEPT ![t] = "measure"]
    BY <1>0, <1>2, <2>0 DEF ReadByte, After, Terminate, Goto
  <2>2. next'[t] = [field |-> j + 1, place |-> 1] /\ phase'[t] = "measure" /\ at'[t] = 0
    BY <1>2, <2>1 DEF LInv, Aligned, TypeOK
  <2>3. buffer'[n] = NUL /\ \A i \in 0 .. n - 1 : buffer'[i] = f[i + 1]
    BY <1>6, <1>7, <2>1
  <2>4. Kept(t, j)' = n
    <3>1. Came(t, j)' = Len(f)
      BY <1>0, <1>1, <1>2, <2>2 DEF Came
    <3>2. Len(f) = p - 1
      BY <1>3, <1>9
    <3>. QED BY <1>5, <3>1, <3>2 DEF Kept
  <2>5. Copying(t)'
    BY <1>4, <1>6, <2>2, <2>3, <2>4, CopyingNext
  <2>6. Past(t)'
    <3>1. ASSUME NEW k \in 1 .. Len(got[t]) PROVE got[t][k] = Cut(t, k)'
      <4>1. k < j /\ k < j + 1 /\ Len(got[t]) # 0
        BY <1>0, Types DEF Current
      <4>2. got[t][k] = Cut(t, k)
        BY <1>8, <4>1 DEF Arriving, Past
      <4>3. Came(t, k)' = Came(t, k)
        BY <1>1, <1>2, <2>2, <4>1 DEF Came
      <4>. QED BY <1>1, <4>2, <4>3 DEF Cut, Kept
    <3>. QED BY <1>1, <3>1 DEF Past
  <2>. QED BY <2>2, <2>5, <2>6 DEF Arriving, Reading, Clearing
<1>10. CASE ~(p > Len(f))
  <2>. DEFINE r == [next[t] EXCEPT !.place = @ + 1]
  <2>0. r.field = j /\ r.place = p + 1
    BY <1>0, <1>2, <1>3, Types
  <2>1. next' = [next EXCEPT ![t] = r] /\ phase' = phase /\ at' = at /\ Store(t, f[p])
    <3>1. Incoming(t) = f[p] /\ p \in DOMAIN f
      BY <1>0, <1>2, <1>3, <1>10 DEF Incoming
    <3>2. f[p] # NUL
      BY <1>3, <3>1, LineAssumption
    <3>3. f[p] # LF
      <4>1. sent[t] \in mode.requests
        BY <1>1 DEF LInv, Aligned
      <4>. QED BY <1>0, <1>2, <3>1, <4>1 DEF Plain
    <3>. QED BY <3>1, <3>2, <3>3 DEF ReadByte, After
  <2>2. next'[t].field = j /\ next'[t].place = p + 1
    <3>. HIDE DEF r
    <3>. QED BY <2>0, <2>1 DEF LInv, Aligned
  <2>3. Kept(t, j)' = IF p < N THEN p ELSE N - 1
    <3>1. Came(t, j)' = p
      <4>1. ~(j < j) /\ p + 1 - 1 = p
        BY <1>2, <1>3
      <4>2. Came(t, j)' = IF j < j THEN Len(sent'[t][j])
                          ELSE IF j = j THEN next'[t].place - 1 ELSE 0
        BY <2>2, Zenon DEF Came
      <4>3. next'[t].place - 1 = p
        BY <1>3, <2>2
      <4>. QED BY <4>1, <4>2, <4>3, Zenon
    <3>. QED BY <3>1 DEF Kept
  <2>4. Reading(t)'
    <3>1. CASE n < N - 1
      <4>1. n = p - 1 /\ p < N
        BY <1>3, <1>5, <3>1, LineAssumption
      <4>2. tot' = [tot EXCEPT ![t] = @ + 1] /\ buffer' = [buffer EXCEPT ![n] = f[p]]
        BY <1>0, <2>1, <3>1 DEF Store
      <4>3. tot'[t] = p
        <5>1. tot'[t] = n + 1
          BY <1>0, <4>2 DEF LInv, TypeOK
        <5>. QED BY <1>3, <4>1, <5>1
      <4>4. \A i \in 0 .. p - 1 : buffer'[i] = f[i + 1]
        <5>1. \A i \in 0 .. p - 1 : i = p - 1 \/ i \in 0 .. n - 1
          BY <1>3, <4>1
        <5>2. buffer'[p - 1] = f[p - 1 + 1]
          BY <1>3, <1>6, <4>1, <4>2
        <5>3. \A i \in 0 .. n - 1 : buffer'[i] = f[i + 1]
          BY <1>6, <1>7, <4>2
        <5>. QED BY <5>1, <5>2, <5>3
      <4>5. ASSUME got'[t] # <<>> PROVE \A i \in p .. N - 1 : buffer'[i] = NUL
        <5>1. \A i \in p .. N - 1 : i \in n .. N - 1 /\ i # n /\ i \in 0 .. N - 1
          BY <1>3, <4>1
        <5>. QED BY <1>1, <1>5, <1>6, <4>2, <4>5, <5>1
      <4>. QED BY <1>4, <2>3, <4>1, <4>3, <4>4, <4>5, ReadingNext
    <3>2. CASE ~(n < N - 1)
      <4>1. n = N - 1 /\ ~(p < N)
        BY <1>3, <1>5, <1>6, <3>2, LineAssumption
      <4>2. tot'[t] = n /\ buffer' = buffer
        BY <1>0, <2>1, <3>2 DEF Store
      <4>3. Kept(t, j)' = n
        BY <2>3, <4>1
      <4>. QED BY <1>1, <1>4, <1>5, <1>7, <4>2, <4>3, ReadingNext
    <3>. QED BY <3>1, <3>2
  <2>5. Past(t)'
    <3>1. ASSUME NEW k \in 1 .. Len(got[t]) PROVE got[t][k] = Cut(t, k)'
      <4>1. k < j /\ Len(got[t]) # 0
        BY <1>0, Types DEF Current
      <4>2. got[t][k] = Cut(t, k)
        BY <1>8, <4>1 DEF Arriving, Past
      <4>3. Came(t, k)' = Came(t, k)
        BY <1>1, <1>2, <2>2, <4>1 DEF Came
      <4>. QED BY <1>1, <4>2, <4>3 DEF Cut, Kept
    <3>. QED BY <1>1, <3>1 DEF Past
  <2>6. phase'[t] = "read"
    BY <1>1, <2>1
  <2>. QED BY <2>4, <2>5, <2>6 DEF Arriving, Copying, Clearing
<1>. QED BY <1>9, <1>10

\* A field cut short by the end of the stream is the bytes that came; a field
\* none of whose bytes came finds the buffer clear.
LEMMA ArrivingEndOfStream ==
  ASSUME LInv, Places, NEW t \in Thread, Arriving(t), EndOfStream(t)
  PROVE  Arriving(t)'
<1>0. PICK j, f, n : j = Current(t) /\ f = sent[t][j] /\ n = tot[t]
  OBVIOUS
<1>1. /\ phase[t] = "read" /\ phase' = [phase EXCEPT ![t] = "measure"]
      /\ at' = [at EXCEPT ![t] = 0]
      /\ UNCHANGED <<mode, sent, next, got>>
  BY DEF EndOfStream, Terminate, Goto, request
<1>2. phase'[t] = "measure" /\ at'[t] = 0
  BY <1>1 DEF LInv, TypeOK
<1>3. \A k : Kept(t, k)' = Kept(t, k) /\ Cut(t, k)' = Cut(t, k)
  BY <1>1, KeptStays
<1>4. Current(t)' = j /\ sent'[t][j] = f /\ j \in Nat
  BY <1>0, <1>1, Types DEF Current
<1>5. n = Kept(t, j) /\ n \in 0 .. N - 1 /\ (n = 0 => tot[t] = 0) /\ (n # 0 => tot[t] # 0)
  BY <1>0, <1>1, Types DEF Arriving, Reading
<1>6. \A i \in 0 .. n - 1 : buffer[i] = f[i + 1]
  BY <1>0, <1>1 DEF Arriving, Reading, Holds
<1>7. buffer \in [0 .. N - 1 -> Byte \cup {NUL}]
  BY DEF LInv, TypeOK, Index
<1>8. ASSUME next[t] # Start
      PROVE  buffer'[n] = NUL /\ \A i \in 0 .. n - 1 : buffer'[i] = f[i + 1]
  <2>1. CASE n # 0
    <3>1. buffer' = [buffer EXCEPT ![n] = NUL]
      BY <1>0, <1>5, <2>1 DEF EndOfStream, Terminate
    <3>. QED BY <1>5, <1>6, <1>7, <3>1
  <2>2. CASE n = 0
    <3>1. buffer' = buffer
      BY <1>0, <2>2 DEF EndOfStream
    <3>2. buffer[0] = NUL
      <4>1. CASE got[t] # <<>>
        <5>1. 0 \in n .. N - 1
          BY <1>5, <2>2
        <5>. QED BY <1>0, <1>1, <4>1, <5>1 DEF Arriving, Reading
      <4>2. CASE got[t] = <<>>
        <5>1. j = 1 /\ next[t].field = 1
          BY <1>0, <1>1, <4>2, Types, SMTT(30) DEF Places, Place, Current
        <5>2. next[t].place # 1 /\ next[t].place \in Nat \ {0}
          BY <1>8, <5>1, Types
        <5>3. Kept(t, j) = IF next[t].place - 1 < N THEN next[t].place - 1 ELSE N - 1
          BY <5>1 DEF Kept, Came
        <5>4. N = 1
          <6>1. \A q \in Nat \ {0} :
                  q # 1 /\ (IF q - 1 < N THEN q - 1 ELSE N - 1) = 0 => N = 1
            BY LineAssumption
          <6>2. (IF next[t].place - 1 < N THEN next[t].place - 1 ELSE N - 1) = 0
            BY <1>5, <2>2, <5>1, <5>3
          <6>. QED BY <5>2, <6>1, <6>2
        <5>5. N - 1 = 0
          BY <5>4
        <5>. QED BY <5>5 DEF LInv, Terminated
      <4>. QED BY <4>1, <4>2
    <3>3. \A i : ~(i \in 0 .. n - 1)
      BY <2>2
    <3>. QED BY <2>2, <3>1, <3>2, <3>3
  <2>. QED BY <2>1, <2>2
<1>9. Copying(t)'
  <2>1. CASE next[t] = Start
    BY <1>1, <2>1 DEF Copying
  <2>2. CASE next[t] # Start
    <3>1. Kept(t, j)' = n /\ 0 <= n
      BY <1>3, <1>5
    <3>. QED BY <1>2, <1>4, <1>8, <2>2, <3>1, CopyingNext
  <2>. QED BY <2>1, <2>2
<1>10. Past(t)'
  BY <1>1, <1>3 DEF Arriving, Past
<1>. QED BY <1>2, <1>9, <1>10 DEF Arriving, Reading, Clearing

\* The scan passes the field's bytes, which are no NULs, and stops behind them.
LEMMA ArrivingMeasure ==
  ASSUME LInv, Places, NEW t \in Thread, Arriving(t), Measure(t)
  PROVE  Arriving(t)'
<1>0. PICK j, f, n, a : j = Current(t) /\ f = sent[t][j] /\ n = Kept(t, j) /\ a = at[t]
  OBVIOUS
<1>1. phase[t] = "measure" /\ UNCHANGED <<mode, buffer, sent, next, got>>
  BY DEF Measure, request
<1>2. \A k : Kept(t, k)' = Kept(t, k) /\ Cut(t, k)' = Cut(t, k)
  BY <1>1, KeptStays
<1>3. Current(t)' = j /\ sent'[t][j] = f /\ j \in DOMAIN sent[t]
  BY <1>0, <1>1, Types DEF Current, LInv, Aligned
<1>4. n \in 0 .. N - 1 /\ n <= Len(f) /\ f \in Seq(Byte) /\ Len(f) \in Nat /\ a \in Nat
  BY <1>0, <1>3, KeptFits, Types
<1>5. ASSUME next[t] # Start
      PROVE  buffer[n] = NUL /\ a <= n /\ \A i \in 0 .. n - 1 : buffer[i] = f[i + 1]
  BY <1>0, <1>1, <1>5 DEF Arriving, Copying, Holds
<1>6. \A i \in 0 .. n - 1 : f[i + 1] # NUL
  BY <1>4, LineAssumption
<1>7. \/ buffer[a] = NUL /\ at' = at /\ phase'[t] = "copy"
      \/ buffer[a] # NUL /\ at'[t] = a + 1 /\ phase'[t] = "measure"
  BY <1>0, <1>1 DEF Measure, Goto, LInv, TypeOK
<1>8. ASSUME next[t] # Start PROVE at'[t] <= n /\ (phase'[t] = "copy" => at'[t] = n)
  <2>1. CASE buffer[a] = NUL
    <3>1. ~(a \in 0 .. n - 1)
      BY <1>5, <1>6, <1>8, <2>1
    <3>2. a = n
      BY <1>4, <1>5, <1>8, <3>1
    <3>3. at'[t] = n
      BY <1>0, <1>7, <2>1, <3>2, Zenon
    <3>4. n <= n
      BY <1>4
    <3>. QED BY <3>3, <3>4, Zenon
  <2>2. CASE buffer[a] # NUL
    <3>1. a # n
      BY <1>5, <1>8, <2>2
    <3>2. a + 1 <= n
      BY <1>4, <1>5, <1>8, <3>1
    <3>. QED BY <1>7, <2>2, <3>2
  <2>. QED BY <2>1, <2>2
<1>9. Copying(t)'
  <2>1. CASE next[t] = Start
    BY <1>1, <2>1 DEF Copying
  <2>2. CASE next[t] # Start
    BY <1>0, <1>1, <1>2, <1>3, <1>5, <1>8, <2>2, CopyingNext
  <2>. QED BY <2>1, <2>2
<1>10. Past(t)'
  BY <1>1, <1>2 DEF Arriving, Past
<1>. QED BY <1>7, <1>9, <1>10 DEF Arriving, Reading, Clearing

\* The copy is the field, as far as it was kept.
LEMMA ArrivingCopy ==
  ASSUME LInv, Places, NEW t \in Thread, Arriving(t), Copy(t)
  PROVE  Arriving(t)'
<1>0. PICK j, f, n, a : j = Current(t) /\ f = sent[t][j] /\ n = Kept(t, j) /\ a = at[t]
  OBVIOUS
<1>1. /\ phase[t] = "copy" /\ phase' = [phase EXCEPT ![t] = "clear"]
      /\ at' = [at EXCEPT ![t] = 0] /\ UNCHANGED <<mode, buffer, sent, next>>
  BY DEF Copy, Goto, request
<1>2. phase'[t] = "clear" /\ at'[t] = 0
  BY <1>1 DEF LInv, TypeOK
<1>3. \A k : Kept(t, k)' = Kept(t, k) /\ Cut(t, k)' = Cut(t, k)
  BY <1>1, KeptStays
<1>4. j \in DOMAIN sent[t] /\ j \in Nat /\ j = Len(got[t]) + 1 /\ got[t] \in Seq(String)
  BY <1>0, <1>1, Types DEF Current, LInv, Aligned
<1>5. n \in 0 .. N - 1 /\ n <= Len(f) /\ f \in Seq(Byte) /\ Len(f) \in Nat
  BY <1>0, <1>4, KeptFits, Types
<1>6. PICK end \in 0 .. a :
        /\ \A i \in 0 .. end - 1 : buffer[i] # NUL
        /\ end = a \/ buffer[end] = NUL
        /\ got' = [got EXCEPT ![t] = Append(@, [i \in 1 .. end |-> buffer[i - 1]])]
  BY <1>0 DEF Copy
<1>7. PICK s : s = [i \in 1 .. end |-> buffer[i - 1]]
  OBVIOUS
<1>8. got'[t] = Append(got[t], s)
  BY <1>6, <1>7 DEF LInv, TypeOK
<1>9. /\ Len(got'[t]) = j
      /\ got'[t][j] = s
      /\ \A k \in 1 .. j - 1 : got'[t][k] = got[t][k]
  BY <1>4, <1>8
<1>10. ASSUME next[t] # Start PROVE s = Cut(t, j)
  <2>1. a = n /\ \A i \in 0 .. n - 1 : buffer[i] = f[i + 1]
    BY <1>0, <1>1, <1>10 DEF Arriving, Copying, Holds
  <2>2. \A i \in 0 .. n - 1 : buffer[i] # NUL
    BY <1>5, <2>1, LineAssumption
  <2>3. end = n
    <3>1. end \in 0 .. n /\ (end = n \/ buffer[end] = NUL)
      BY <1>6, <2>1
    <3>2. end # n => end \in 0 .. n - 1
      BY <1>5, <3>1
    <3>. QED BY <2>2, <3>1, <3>2
  <2>4. \A i \in 1 .. n : i - 1 \in 0 .. n - 1 /\ i - 1 + 1 = i
    BY <1>5
  <2>5. \A i \in 1 .. n : buffer[i - 1] = f[i]
    BY <2>1, <2>4
  <2>6. s = [i \in 1 .. n |-> f[i]]
    BY <1>7, <2>3, <2>5
  <2>7. SubSeq(f, 1, n) = [i \in 1 .. n |-> f[i]]
    BY <1>5, SubSeqIs
  <2>. QED BY <1>0, <2>6, <2>7 DEF Cut
<1>11. Past(t)'
  <2>1. ASSUME next'[t] # Start, NEW k \in 1 .. Len(got'[t]) PROVE got'[t][k] = Cut(t, k)'
    <3>1. next[t] # Start /\ k \in 1 .. j
      BY <1>1, <1>9, <2>1
    <3>2. CASE k = j
      BY <1>3, <1>9, <1>10, <3>1, <3>2
    <3>3. CASE k # j
      <4>1. k \in 1 .. j - 1 /\ k \in 1 .. Len(got[t])
        BY <1>4, <3>1, <3>3
      <4>2. got[t][k] = Cut(t, k)
        BY <3>1, <4>1 DEF Arriving, Past
      <4>. QED BY <1>3, <1>9, <4>1, <4>2
    <3>. QED BY <3>2, <3>3
  <2>. QED BY <2>1 DEF Past
<1>12. Clearing(t)'
  <2>1. \A i : ~(i \in 0 .. 0 - 1)
    OBVIOUS
  <2>. QED BY <1>2, <2>1 DEF Clearing
<1>. QED BY <1>2, <1>11, <1>12 DEF Arriving, Reading, Copying

\* memset clears the buffer byte by byte, and leaves it clear to the next field,
\* of which no byte has come yet.
LEMMA ArrivingClear ==
  ASSUME LInv, Places, NEW t \in Thread, Arriving(t), Clear(t)
  PROVE  Arriving(t)'
<1>0. PICK j, f, a : j = Current(t) /\ f = sent[t][j] /\ a = at[t]
  OBVIOUS
<1>1. /\ phase[t] = "clear" /\ buffer' = [buffer EXCEPT ![a] = NUL]
      /\ UNCHANGED <<mode, sent, next, got>>
  BY <1>0 DEF Clear, request, answer
<1>2. Past(t)'
  BY <1>1, KeptStays DEF Arriving, Past
<1>3. Current(t)' = j /\ sent'[t][j] = f /\ j \in Nat
  BY <1>0, <1>1, Types DEF Current
<1>4. a \in 0 .. N - 1 /\ buffer \in [0 .. N - 1 -> Byte \cup {NUL}]
  BY <1>0, <1>1, Types DEF LInv, TypeOK, CopyFits, Index
<1>5. \A i \in 0 .. a - 1 : buffer[i] = NUL
  BY <1>0, <1>1 DEF Arriving, Clearing
<1>6. \A i \in 0 .. a : buffer'[i] = NUL
  <2>1. \A i \in 0 .. a : i \in 0 .. N - 1 /\ (i = a \/ i \in 0 .. a - 1)
    BY <1>4, LineAssumption
  <2>. QED BY <1>1, <1>4, <1>5, <2>1
<1>7. CASE a < N - 1
  <2>1. phase'[t] = "clear" /\ at'[t] = a + 1
    BY <1>0, <1>1, <1>7 DEF Clear, LInv, TypeOK
  <2>2. Clearing(t)'
    <3>1. PICK m : m = a + 1
      OBVIOUS
    <3>2. \A i \in 0 .. m - 1 : buffer'[i] = NUL
      <4>1. \A i \in 0 .. m - 1 : i \in 0 .. a
        BY <1>4, <3>1
      <4>. QED BY <1>6, <4>1
    <3>3. at'[t] = m
      BY <2>1, <3>1
    <3>. QED BY <3>2, <3>3, ClearingNext
  <2>. QED BY <1>2, <2>1, <2>2 DEF Arriving, Reading, Copying
<1>8. CASE ~(a < N - 1)
  <2>1. phase'[t] \in {"read", "answer"} /\ tot'[t] = 0
    BY <1>0, <1>8 DEF Clear, Goto, LInv, TypeOK
  <2>2. \A i \in 0 .. N - 1 : buffer'[i] = NUL
    <3>1. a = N - 1
      BY <1>4, <1>8, LineAssumption
    <3>. QED BY <1>6, <3>1
  <2>3. Kept(t, j)' = 0
    <3>1. Place(t)
      BY DEF Places
    <3>2. next[t].field <= j /\ (next[t].field = j => next[t].place = 1)
      BY <1>0, <1>1, <3>1 DEF Place
    <3>3. Came(t, j) = 0
      BY <1>3, <3>2, Types DEF Came
    <3>4. Kept(t, j) = 0
      BY <3>3, LineAssumption DEF Kept
    <3>. QED BY <1>1, <3>4, KeptStays
  <2>4. \A i : ~(i \in 0 .. 0 - 1)
    OBVIOUS
  <2>5. Reading(t)'
    BY <1>3, <2>1, <2>2, <2>3, <2>4, ReadingNext
  <2>. QED BY <1>2, <2>1, <2>5 DEF Arriving, Copying, Clearing
<1>. QED BY <1>7, <1>8

\* The client that vanishes, and the answer, leave all this alone.
LEMMA ArrivingOther ==
  ASSUME LInv, Places, NEW t \in Thread, Arriving(t), Vanish(t) \/ Write(t)
  PROVE  Arriving(t)'
<1>1. UNCHANGED <<buffer, phase, sent, next, got, tot>>
  BY DEF Vanish, Write, request, answer
<1>2. UNCHANGED at \/ phase[t] = "answer"
  BY DEF Vanish, Write
<1>3. \A k : Kept(t, k)' = Kept(t, k) /\ Cut(t, k)' = Cut(t, k)
  BY <1>1, KeptStays
<1>4. Current(t)' = Current(t) /\ \A n : Holds(t, n)' = Holds(t, n)
  BY <1>1 DEF Current, Holds
<1>. QED BY <1>1, <1>2, <1>3, <1>4 DEF Arriving, Past, Reading, Copying, Clearing

\* Every step keeps what has arrived.
LEMMA ArrivedInductive == LInv /\ Places /\ Arrived /\ [Next]_vars => Arrived'
<1>. SUFFICES ASSUME LInv, Places, Arrived, [Next]_vars, Alone', Plain(mode)'
                PROVE  \A t \in Thread : Arriving(t)'
  BY DEF Arrived
<1>0. mode' = mode /\ Alone /\ Plain(mode)
  <2>1. mode' = mode
    BY DEF Next, vars, Request, Vanish, Handle, ReadByte, Store, EndOfStream, Measure, Copy, Clear,
           Write, Close, ReadResponse, ReadError, WriteFails, End
  <2>. QED BY <2>1 DEF Alone, Plain
<1>1. \A t \in Thread : Arriving(t)
  BY <1>0 DEF Arrived
<1>2. ASSUME NEW t \in Thread, Arriving(t)', t \in mode.threads,
             \A s \in Thread : s # t => phase'[s] = phase[s] /\ next'[s] = next[s]
      PROVE  \A s \in Thread : Arriving(s)'
  BY <1>0, <1>2, OthersWait
<1>3. \A t \in Thread : phase[t] # "idle" => t \in mode.threads
  BY DEF Places, Place
<1>4. ASSUME NEW t \in Thread, Request(t) PROVE \A s \in Thread : Arriving(s)'
  <2>1. Arriving(t)'
    BY <1>4, ArrivingRequest
  <2>2. t \in mode.threads /\ \A s \in Thread : s # t => phase'[s] = phase[s] /\ next'[s] = next[s]
    BY <1>4 DEF Request, Goto, LInv, TypeOK
  <2>. QED BY <1>2, <2>1, <2>2
<1>5. ASSUME NEW t \in Thread, End(t), phase[t] # "idle" PROVE \A s \in Thread : Arriving(s)'
  <2>1. Arriving(t)'
    BY <1>5, ArrivingEnd
  <2>2. \A s \in Thread : s # t => phase'[s] = phase[s] /\ next'[s] = next[s]
    BY <1>5 DEF End, Goto, LInv, TypeOK, Aligned
  <2>. QED BY <1>2, <1>3, <1>5, <2>1, <2>2
<1>6. ASSUME NEW t \in Thread, ReadByte(t) PROVE \A s \in Thread : Arriving(s)'
  <2>1. Arriving(t)'
    BY <1>0, <1>1, <1>6, ArrivingReadByte
  <2>2. phase[t] = "read"
    BY <1>6 DEF ReadByte
  <2>3. \A s \in Thread : s # t => phase'[s] = phase[s] /\ next'[s] = next[s]
    BY <1>6 DEF ReadByte, Terminate, Goto, LInv, TypeOK, Aligned
  <2>. QED BY <1>2, <1>3, <2>1, <2>2, <2>3
<1>7. ASSUME NEW t \in Thread, EndOfStream(t) \/ Measure(t) \/ Copy(t) \/ Clear(t)
      PROVE  \A s \in Thread : Arriving(s)'
  <2>1. Arriving(t)'
    BY <1>1, <1>7, ArrivingEndOfStream, ArrivingMeasure, ArrivingCopy, ArrivingClear
  <2>2. phase[t] # "idle" /\ next' = next
    BY <1>7 DEF EndOfStream, Measure, Copy, Clear, request
  <2>3. \A s \in Thread : s # t => phase'[s] = phase[s]
    BY <1>7 DEF EndOfStream, Terminate, Measure, Copy, Clear, Goto, LInv, TypeOK
  <2>. QED BY <1>2, <1>3, <2>1, <2>2, <2>3
<1>8. ASSUME NEW t \in Thread, Vanish(t) \/ Write(t) PROVE \A s \in Thread : Arriving(s)'
  <2>1. Arriving(t)'
    BY <1>1, <1>8, ArrivingOther
  <2>2. phase[t] # "idle" /\ UNCHANGED <<phase, next>>
    BY <1>8 DEF Vanish, Write, request
  <2>. QED BY <1>2, <1>3, <2>1, <2>2
<1>9. ASSUME UNCHANGED <<buffer, phase, sent, next, got, tot, at>>
      PROVE  \A s \in Thread : Arriving(s)'
  <2>. SUFFICES ASSUME NEW s \in Thread PROVE Arriving(s)'
    OBVIOUS
  <2>1. \A k : Kept(s, k)' = Kept(s, k) /\ Cut(s, k)' = Cut(s, k)
    BY <1>9, KeptStays
  <2>2. Current(s)' = Current(s) /\ \A n : Holds(s, n)' = Holds(s, n)
    BY <1>9 DEF Current, Holds
  <2>. QED BY <1>1, <1>9, <2>1, <2>2 DEF Arriving, Past, Reading, Copying, Clearing
<1>10. ASSUME NEW t \in Thread, ReadResponse(t) PROVE \A s \in Thread : Arriving(s)'
  BY <1>9, <1>10 DEF ReadResponse, request
<1>11. CASE UNCHANGED vars
  BY <1>9, <1>11 DEF vars, request
<1>12. ASSUME NEW t \in Thread, ReadError(t) \/ WriteFails(t) \/ Close(t)
       PROVE  \A s \in Thread : Arriving(s)'
  BY <1>5, <1>12 DEF ReadError, WriteFails, Close
<1>. QED BY <1>4, <1>6, <1>7, <1>8, <1>10, <1>11, <1>12 DEF Next, Handle

\* The three hold in every state.
LEMMA AlwaysArrived == Spec => [](LInv /\ Places /\ Arrived)
<1>1. Init => Places /\ Arrived
  <2>. SUFFICES ASSUME Init PROVE Places /\ Arrived
    OBVIOUS
  <2>1. \A t \in Thread : phase[t] = "idle" /\ next[t] = Start /\ got[t] = <<>> /\ sent[t] = <<>>
                          /\ tot[t] = 0
    BY DEF Init
  <2>2. Places
    BY <2>1 DEF Places, Place, Current
  <2>3. Arrived
    BY <2>1 DEF Arrived, Arriving, Past, Reading, Copying, Clearing
  <2>. QED BY <2>2, <2>3
<1>. QED BY <1>1, InitLInv, NextLInv, PlacesInductive, ArrivedInductive, PTL DEF Spec

\* One client at a time, none of whose strings has a newline: every field a
\* thread answers to is the field its client sent, cut to what the buffer holds,
\* or as far as it came (lines.c:59-63); the memset after each field is what keeps
\* a vanished client's out of the next one.
THEOREM FieldsArriveAsSent == Spec => []FieldsAsSent
<1>1. LInv /\ Places /\ Arrived => FieldsAsSent
  <2>. SUFFICES ASSUME LInv, Places, Arrived, Alone, Plain(mode), NEW t \in Thread, phase[t] = "answer",
                       next[t] # Start, NEW k \in DOMAIN sent[t]
                PROVE  got[t][k] = SubSeq(sent[t][k], 1,
                                          IF Came(t, k) < N THEN Came(t, k) ELSE N - 1)
    BY DEF FieldsAsSent
  <2>1. k \in 1 .. Len(got[t])
    BY Types DEF Places, Place
  <2>. QED BY <2>1 DEF Arrived, Arriving, Past, Cut, Kept
<1>. QED BY <1>1, AlwaysArrived, PTL

\* A name without newlines that excede_tamano lets through arrives whole
\* (client.py:63-67).
THEOREM CheckedNamesAreWhole == Spec => []CheckedArriveWhole
<1>1. LInv /\ Places /\ Arrived => CheckedArriveWhole
  <2>. SUFFICES ASSUME LInv, Places, Arrived, Alone, Plain(mode), NEW t \in Thread, phase[t] = "answer",
                       next[t].field > Len(sent[t]), NEW k \in Checked \cap DOMAIN sent[t]
                PROVE  got[t][k] = sent[t][k]
    BY DEF CheckedArriveWhole
  <2>1. k \in 1 .. Len(sent[t]) /\ Len(sent[t]) \in Nat /\ Len(got[t]) = Len(sent[t])
    BY Types DEF Places, Place
  <2>2. k < next[t].field /\ next[t] # Start
    BY <2>1, Types
  <2>3. Came(t, k) = Len(sent[t][k]) /\ Len(sent[t][k]) < N
    BY <2>2 DEF Came, Places, Place
  <2>4. Kept(t, k) = Len(sent[t][k])
    BY <2>3 DEF Kept
  <2>5. got[t][k] = SubSeq(sent[t][k], 1, Len(sent[t][k]))
    BY <2>1, <2>2, <2>4 DEF Arrived, Arriving, Past, Cut
  <2>6. sent[t][k] \in Seq(Byte)
    BY Types
  <2>. QED BY <2>5, <2>6
<1>. QED BY <1>1, AlwaysArrived, PTL
=============================================================================
