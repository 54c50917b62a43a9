------------------------------- MODULE Lines -------------------------------
(***************************************************************************)
(* One request and its answer, byte by byte: the strings a client sends    *)
(* (excede_tamano and the messages of client.py), readLine of              *)
(* src/server/lines.c into the global buffer, the sprintf and memset that  *)
(* follow every readLine in treat_request, sendMessage with its short      *)
(* writes, and read_response of client.py.                                 *)
(*                                                                         *)
(* buffer has N bytes and every thread writes it: each of its bytes is a   *)
(* memory access of its own.  So has the local a field is copied to.  A    *)
(* thread serves one connection and then the next.  Requests have any      *)
(* number of fields.                                                       *)
(***************************************************************************)
EXTENDS Integers, Sequences, SequencesExt

CONSTANTS Thread,   \* handler threads
          Byte,     \* the bytes that strings are made of
          NUL,      \* the separator
          LF,       \* the newline, which ends a field too
          N,        \* MAX_VALUE_LENGTH, 256 in the code
          Checked,  \* the fields a client passes to excede_tamano
          Modes     \* the situations: the threads that serve, the requests users
                    \* may type, and the strings of the answer, the code first

String == Seq(Byte)

ASSUME LineAssumption ==
  /\ N \in Nat \ {0} /\ NUL \notin Byte /\ LF \in Byte
  /\ \A m \in Modes : /\ m.threads \subseteq Thread
                      /\ m.requests \subseteq Seq(String) \ {<<>>}
                      /\ m.answer \in Seq(String)

VARIABLES mode,     \* the situation, which does not change
          buffer,   \* the global buffer, NUL where nothing was written
          phase,    \* what each thread is doing
          sent,     \* the fields its client meant to send
          next,     \* the byte that comes next, by string and place
          gone,     \* whether it vanished: no more bytes come
          tot,      \* totRead in readLine
          at,       \* the index sprintf or memset has reached
          got,      \* the fields copied to locals
          unsent,   \* strings of the answer not yet passed to write in full
          back,     \* bytes on their way to the client
          heard     \* bytes its read_response has read

request == <<sent, next, gone>>
answer == <<unsent, back, heard>>
vars == <<mode, buffer, phase, request, tot, at, got, answer>>

Index == 0 .. N - 1
Clean == [i \in Index |-> NUL]
Start == [field |-> 1, place |-> 1]

Init == /\ mode \in Modes
        /\ buffer = Clean
        /\ phase = [t \in Thread |-> "idle"]
        /\ sent = [t \in Thread |-> <<>>]
        /\ next = [t \in Thread |-> Start]
        /\ gone = [t \in Thread |-> FALSE]
        /\ tot = [t \in Thread |-> 0] /\ at = [t \in Thread |-> 0]
        /\ got = [t \in Thread |-> <<>>]
        /\ unsent = [t \in Thread |-> <<>>]
        /\ back = [t \in Thread |-> <<>>] /\ heard = [t \in Thread |-> <<>>]

Goto(t, p) == phase' = [phase EXCEPT ![t] = p]

\* A string on the wire.
Encoded(s) == Append(s, NUL)

\* A message: its strings, one after the other.
Bytes(strings) == FlattenSeq([k \in DOMAIN strings |-> Encoded(strings[k])])

-----------------------------------------------------------------------------
(* The client.                                                             *)

\* Mutant: the NUL is not counted.
ExcedeNoNul(s) == Len(s) > N

\* The client refuses names of more than 255 bytes.
ExcedeTamano(s) == Len(s) > N - 1

\* A client connects and sends a request.
Request(t) == /\ phase[t] = "idle" /\ t \in mode.threads
              /\ \E f \in mode.requests :
                   /\ \A k \in Checked \cap DOMAIN f : ~ExcedeTamano(f[k])
                   /\ sent' = [sent EXCEPT ![t] = f]
              /\ unsent' = [unsent EXCEPT ![t] = mode.answer]
              /\ Goto(t, "read")
              /\ UNCHANGED <<mode, buffer, next, gone, tot, at, got, back, heard>>

\* It vanishes, before, within or after any field.
Vanish(t) == /\ phase[t] # "idle" /\ ~gone[t]
             /\ gone' = [gone EXCEPT ![t] = TRUE]
             /\ UNCHANGED <<mode, buffer, phase, sent, next, tot, at, got, answer>>

\* read_response takes a byte.  It reads on at the end of the stream, for ever.
ReadResponse(t) == /\ back[t] # <<>>
                   /\ heard' = [heard EXCEPT ![t] = Append(@, Head(back[t]))]
                   /\ back' = [back EXCEPT ![t] = Tail(@)]
                   /\ UNCHANGED <<mode, buffer, phase, request, tot, at, got, unsent>>

-----------------------------------------------------------------------------
\* The thread ends and its connection is closed.
End(t) == /\ sent' = [sent EXCEPT ![t] = <<>>] /\ next' = [next EXCEPT ![t] = Start]
          /\ gone' = [gone EXCEPT ![t] = FALSE]
          /\ tot' = [tot EXCEPT ![t] = 0] /\ at' = [at EXCEPT ![t] = 0]
          /\ got' = [got EXCEPT ![t] = <<>>]
          /\ unsent' = [unsent EXCEPT ![t] = <<>>]
          /\ back' = [back EXCEPT ![t] = <<>>] /\ heard' = [heard EXCEPT ![t] = <<>>]
          /\ Goto(t, "idle")
          /\ UNCHANGED <<mode, buffer>>

(* readLine.                                                               *)

\* The terminator, where buf has got to; the field is then copied.
Terminate(t) == /\ buffer' = [buffer EXCEPT ![tot[t]] = NUL]
                /\ at' = [at EXCEPT ![t] = 0]
                /\ Goto(t, "measure")

\* Mutant: room for the terminator is not kept.
StoreNoRoom(t, b) == IF tot[t] < N
                       THEN /\ tot' = [tot EXCEPT ![t] = @ + 1]
                            /\ buffer' = [buffer EXCEPT ![tot[t]] = b]
                       ELSE UNCHANGED <<mode, tot, buffer>>

\* What does not fit is dropped.
Store(t, b) == IF tot[t] < N - 1
                 THEN /\ tot' = [tot EXCEPT ![t] = @ + 1]
                      /\ buffer' = [buffer EXCEPT ![tot[t]] = b]
                 ELSE UNCHANGED <<mode, tot, buffer>>

\* The byte that comes next, the NUL behind each string included, and what is
\* next after it.
Incoming(t) == LET f == sent[t][next[t].field]
               IN  IF next[t].place > Len(f) THEN NUL ELSE f[next[t].place]
After(t) == IF Incoming(t) = NUL THEN [field |-> next[t].field + 1, place |-> 1]
                                 ELSE [next[t] EXCEPT !.place = @ + 1]

\* Mutant: a newline is a byte like any other.
ReadByteNulOnly(t) ==
  /\ phase[t] = "read" /\ ~gone[t]
  /\ next' = [next EXCEPT ![t] = After(t)]
  /\ IF Incoming(t) = NUL
       THEN Terminate(t) /\ UNCHANGED tot
       ELSE Store(t, Incoming(t)) /\ UNCHANGED <<phase, at>>
  /\ UNCHANGED <<mode, sent, gone, got, answer>>

\* A byte is read; a newline or a NUL ends the field.
ReadByte(t) ==
  /\ phase[t] = "read" /\ ~gone[t]
  /\ next' = [next EXCEPT ![t] = After(t)]
  /\ IF Incoming(t) \in {NUL, LF}
       THEN Terminate(t) /\ UNCHANGED tot
       ELSE Store(t, Incoming(t)) /\ UNCHANGED <<phase, at>>
  /\ UNCHANGED <<mode, sent, gone, got, answer>>

\* Mutant: a field that was cut short is treated like one that never came.
EndOfStreamReturns(t) == /\ phase[t] = "read" /\ gone[t]
                         /\ at' = [at EXCEPT ![t] = 0]
                         /\ Goto(t, "measure")
                         /\ UNCHANGED <<mode, buffer, request, tot, got, answer>>

\* End of the stream: 0 and the buffer as it was when nothing was read, else
\* the bytes read are the field.
EndOfStream(t) == /\ phase[t] = "read" /\ gone[t]
                  /\ IF tot[t] = 0 THEN /\ at' = [at EXCEPT ![t] = 0]
                                        /\ Goto(t, "measure")
                                        /\ UNCHANGED buffer
                                   ELSE Terminate(t)
                  /\ UNCHANGED <<mode, request, tot, got, answer>>

\* Any other error: the thread ends and leaves what it wrote without its NUL.
ReadError(t) == phase[t] = "read" /\ gone[t] /\ End(t)

-----------------------------------------------------------------------------
(* What treat_request does with the field.                                 *)

\* sprintf looks for the end of the string ...
Measure(t) == /\ phase[t] = "measure"
              /\ IF buffer[at[t]] = NUL THEN Goto(t, "copy") /\ UNCHANGED at
                                        ELSE at' = [at EXCEPT ![t] = @ + 1] /\ UNCHANGED phase
              /\ UNCHANGED <<mode, buffer, request, tot, got, answer>>

\* ... and copies that many bytes, which another thread may have changed; the
\* copy ends at its first NUL.
Copy(t) == /\ phase[t] = "copy"
           /\ \E end \in 0 .. at[t] :
                /\ \A i \in 0 .. end - 1 : buffer[i] # NUL
                /\ end = at[t] \/ buffer[end] = NUL
                /\ got' = [got EXCEPT ![t] = Append(@, [i \in 1 .. end |-> buffer[i - 1]])]
           /\ at' = [at EXCEPT ![t] = 0]
           /\ Goto(t, "clear")
           /\ UNCHANGED <<mode, buffer, request, tot, answer>>

\* memset; then the next field, or the operation and its answer.
Clear(t) == /\ phase[t] = "clear"
            /\ buffer' = [buffer EXCEPT ![at[t]] = NUL]
            /\ IF at[t] < N - 1
                 THEN at' = [at EXCEPT ![t] = @ + 1] /\ UNCHANGED <<phase, tot>>
                 ELSE /\ at' = [at EXCEPT ![t] = 0]
                      /\ tot' = [tot EXCEPT ![t] = 0]
                      /\ Goto(t, IF Len(got[t]) < Len(sent[t]) THEN "read" ELSE "answer")
            /\ UNCHANGED <<mode, request, got, answer>>

-----------------------------------------------------------------------------
(* sendMessage, once per string of the answer; at is what it has sent.     *)

Message(t) == Encoded(Head(unsent[t]))

\* Mutant: the return value of write is not looked at.
WriteOnce(t) == /\ phase[t] = "answer" /\ unsent[t] # <<>>
                /\ \E n \in 1 .. Len(Message(t)) :
                     back' = [back EXCEPT ![t] = @ \o SubSeq(Message(t), 1, n)]
                /\ unsent' = [unsent EXCEPT ![t] = Tail(@)]
                /\ UNCHANGED <<mode, buffer, phase, request, tot, at, got, heard>>

\* write takes some of what is left, and the loop goes on with the rest.
Write(t) == /\ phase[t] = "answer" /\ unsent[t] # <<>>
            /\ \E n \in 1 .. Len(Message(t)) - at[t] :
                 /\ back' = [back EXCEPT ![t] = @ \o SubSeq(Message(t), at[t] + 1, at[t] + n)]
                 /\ IF at[t] + n = Len(Message(t))
                      THEN at' = [at EXCEPT ![t] = 0] /\ unsent' = [unsent EXCEPT ![t] = Tail(@)]
                      ELSE at' = [at EXCEPT ![t] = @ + n] /\ UNCHANGED unsent
            /\ UNCHANGED <<mode, buffer, phase, request, tot, got, heard>>

\* The client has gone.
WriteFails(t) == phase[t] = "answer" /\ gone[t] /\ End(t)

\* close, once the client has read what it was sent or is gone.  (If bytes of a
\* request with a newline are still unread, close may reset the connection
\* before that; this is left out.)
Close(t) == /\ phase[t] = "answer" /\ unsent[t] = <<>>
            /\ gone[t] \/ back[t] = <<>>
            /\ End(t)

-----------------------------------------------------------------------------
Handle(t) == \/ ReadByte(t) \/ EndOfStream(t) \/ Measure(t) \/ Copy(t) \/ Clear(t)
             \/ Write(t) \/ Close(t)

Next == \E t \in Thread : \/ Request(t) \/ Vanish(t) \/ Handle(t) \/ ReadResponse(t)
                          \/ ReadError(t) \/ WriteFails(t)

\* Threads run and clients read; a client need not come.
Fairness == \A t \in Thread : WF_vars(Handle(t)) /\ WF_vars(ReadResponse(t))

Spec == Init /\ [][Next]_vars
FairSpec == Spec /\ Fairness

-----------------------------------------------------------------------------
(* Properties.                                                             *)

\* The type invariant.
TypeOK ==
  /\ buffer \in [Index -> Byte \cup {NUL}]
  /\ phase \in [Thread -> {"idle", "read", "measure", "copy", "clear", "answer"}]
  /\ tot \in [Thread -> Index] /\ at \in [Thread -> Nat]
  /\ got \in [Thread -> Seq(String)] /\ unsent \in [Thread -> Seq(String)]

\* The last byte of buffer is always NUL, whatever threads write to it at the
\* same time (lines.c:69): every string in it ends within it.
Terminated == buffer[N - 1] = NUL

\* What sprintf copies from a buffer other threads write to fits in a local of
\* the same size (servidor.c:111-457).
CopyFits == /\ \A t \in Thread : phase[t] \in {"measure", "copy", "clear"} => at[t] < N
            /\ \A t \in Thread : \A k \in DOMAIN got[t] : Len(got[t][k]) < N

\* How many bytes of the k-th string came.
Came(t, k) == IF k < next[t].field THEN Len(sent[t][k])
              ELSE IF k = next[t].field THEN next[t].place - 1 ELSE 0

\* One thread serves, which is the only use of buffer that works.
Alone == \A t, u \in mode.threads : t = u

\* No request of the situation has a newline, as none that is typed at the
\* prompt of client.py has.
Plain(m) == \A f \in m.requests : \A k \in DOMAIN f : \A i \in DOMAIN f[k] : f[k][i] # LF

\* One client at a time, none of whose strings has a newline: each field arrives
\* as it was sent, cut to N - 1 bytes, or as far as it was written when its
\* client vanished (lines.c:59-63), and nothing is left in it of the field
\* before.  Of a client that sent nothing the first field may be what a read
\* error left in the buffer.
FieldsAsSent ==
  Alone /\ Plain(mode) => \A t \in Thread : phase[t] = "answer" /\ next[t] # Start =>
    \A k \in DOMAIN sent[t] :
      got[t][k] = SubSeq(sent[t][k], 1, IF Came(t, k) < N THEN Came(t, k) ELSE N - 1)

\* The bytes that came, and the k-th of the pieces that newlines and NULs cut
\* them into: what follows the last of these is a piece too, and there are
\* empty ones behind it.
Stream(t) ==
  FlattenSeq([k \in DOMAIN sent[t] |->
    IF k < next[t].field THEN Encoded(sent[t][k]) ELSE SubSeq(sent[t][k], 1, Came(t, k))])
Piece(bytes, k) ==
  LET ends == SetToSortSeq({i \in DOMAIN bytes : bytes[i] \in {NUL, LF}}, <)
      Stop(i) == IF i = 0 THEN 0 ELSE IF i <= Len(ends) THEN ends[i] ELSE Len(bytes) + 1
  IN  SubSeq(bytes, Stop(k - 1) + 1, Stop(k) - 1)

\* One client at a time, whatever it sends: the fields are the pieces of its
\* bytes, each cut to N - 1.  A newline in a string therefore ends the field
\* there, makes the rest of the string the next field, and leaves the last
\* strings of the request unread (lines.c:65).
FieldsArePieces ==
  Alone => \A t \in Thread : phase[t] = "answer" /\ next[t] # Start =>
    \A k \in DOMAIN sent[t] :
      LET p == Piece(Stream(t), k)
      IN  got[t][k] = SubSeq(p, 1, IF Len(p) < N THEN Len(p) ELSE N - 1)

\* A name without newlines that excede_tamano lets through is not cut
\* (client.py:63-67).
CheckedArriveWhole ==
  Alone /\ Plain(mode) => \A t \in Thread :
    phase[t] = "answer" /\ next[t].field > Len(sent[t]) =>
      \A k \in Checked \cap DOMAIN sent[t] : got[t][k] = sent[t][k]

\* A client that does not vanish reads the whole answer, however write cuts it
\* (lines.c:7-11, client.py:39-43).
AnswerArrives ==
  \A t \in Thread : phase[t] = "answer" ~> gone[t] \/ heard[t] = Bytes(mode.answer)
=============================================================================
