------------------------------ MODULE MCClient ------------------------------
(* Client with a user that waits for its listeners and users that do not. *)
EXTENDS Client

\* A user that waits, at a server that lasts, with polite peers.
Quiet == [patient |-> TRUE, own |-> TRUE, stays |-> TRUE, interrupts |-> FALSE,
          outages |-> FALSE, lasting |-> TRUE, polite |-> TRUE, sessions |-> 3]

\* One that does not.
Restless == [Quiet EXCEPT !.patient = FALSE, !.sessions = 2]

\* Peers that are not polite; users that are unregistered while connected; a
\* server that exits; users that disconnect others; and all of it at once.
Situations ==
  {Quiet, [Quiet EXCEPT !.outages = TRUE], [Quiet EXCEPT !.polite = FALSE],
   [Restless EXCEPT !.outages = TRUE], [Restless EXCEPT !.interrupts = TRUE],
   [Restless EXCEPT !.stays = FALSE], [Restless EXCEPT !.lasting = FALSE],
   [Restless EXCEPT !.own = FALSE],
   [Restless EXCEPT !.stays = FALSE, !.lasting = FALSE, !.interrupts = TRUE, !.outages = TRUE]}

Hasty == {Restless}
=============================================================================
