------------------------------ MODULE MCLines ------------------------------
(* Lines with strings over two bytes, served by one thread and by two. *)
EXTENDS Lines

CONSTANTS a, b, t1, t2

\* The byte c, n times.
Times(c, n) == [i \in 1 .. n |-> c]

\* From the empty string to one byte more than fits, with its NUL.
Lengths == 0 .. N + 1

\* Two fields of every length from one client; two with newlines anywhere; an
\* answer of two strings; and two threads that share the buffer, whose clients
\* send more than fits or, when they vanish, any shorter string.
Situations ==
  {[threads |-> {t1}, answer |-> << <<a>> >>,
    requests |-> {<<Times(a, i), Times(b, j)>> : i \in Lengths, j \in Lengths}],
   [threads |-> {t1}, answer |-> << <<a>> >>,
    requests |-> {<<f, g>> : f \in BoundedSeq({a, LF}, N), g \in BoundedSeq({b, LF}, 2)}],
   [threads |-> {t1}, answer |-> << <<a>>, <<b, a>> >>, requests |-> {<<Times(a, 1)>>}],
   [threads |-> {t1, t2}, answer |-> << <<a>> >>, requests |-> {<<Times(a, 1) \o Times(b, N)>>}]}
=============================================================================
