--------------------------- MODULE MCPeerTransfer ---------------------------
(* PeerTransfer with the files of two users. *)
EXTENDS PeerTransfer, TLC

CONSTANTS u1, u2, a, m, f1, f2, p1, p2

\* A file of one byte and a line end that text mode changes, and one of a single
\* character of two bytes.
TwoFiles == u1 :> <<a, CRLF>> @@ u2 :> <<m, m>>

Situation(fs, leaving, mortal, ports, reuse, backlog) ==
  [fetchers |-> fs, leaving |-> leaving, mortal |-> mortal, ports |-> ports, reuse |-> reuse,
   backlog |-> backlog]

\* Two fetchers in each other's way; one fetcher and clients that are killed,
\* with a single port that is used again and with two that are not; and two
\* fetchers of which one is killed, on a socket that holds one connection.
Situations == {Situation({f1, f2}, TRUE, {}, {p1}, TRUE, 2),
               Situation({f1}, TRUE, Name \cup {f1}, {p1}, TRUE, 1),
               Situation({f1}, TRUE, Name \cup {f1}, {p1, p2}, FALSE, 1),
               Situation({f1, f2}, FALSE, {f1}, {p1}, FALSE, 1)}
=============================================================================
