------------------------------ MODULE MCServer ------------------------------
(***************************************************************************)
(* Requests for Server, and an initial state for the runs on concurrent    *)
(* clients: the registry as earlier clients left it.                       *)
(***************************************************************************)
EXTENDS Server, TLC

\* One user and every operation, with an empty file name among the files
\* (client.py sends one for `PUBLISH' followed by two blanks) and the listing of
\* a user whose name is an operation's: LIST_CONTENT leaves it in the buffer.
AllRequests ==
       { <<op, "d", "u1">> : op \in {"REGISTER", "UNREGISTER", "DISCONNECT", "LIST_USERS"} }
  \cup { <<"CONNECT", "d", "u1", "p">>, <<"LIST_CONTENT", "d", "u1", "u1">>,
         <<"LIST_CONTENT", "d", "u1", "REGISTER">> }
  \cup { <<"PUBLISH", "d", "u1", f, Empty>> : f \in {"f", Empty} }
  \cup { <<"DELETE", "d", "u1", "f">> }

\* Two clients that register, each its own name.
Registrations == { <<"REGISTER", "d", u>> : u \in {"u1", "u2"} }

\* Clients that change one user's files, that user, and the list around it.
Rivals == { <<"REGISTER", "d", "u2">>, <<"UNREGISTER", "d", "u1">>,
            <<"PUBLISH", "d", "u1", "g", "x">>, <<"DELETE", "d", "u1", "f">> }

\* A list four earlier clients leave: u1 registered, connected, publishing f.
Seed == << [name |-> "u1", addr |-> "p", files |-> << [name |-> "f", desc |-> "x"] >>] >>
SeedInit == inited = TRUE /\ messages = Seed /\ ThreadsInit /\ ConnInit
SeedSpec == SeedInit /\ [][ServerNext]_allvars

\* Every string a racing thread may take for a name.
Strings == {"u1", "u2", "p", "f", "g", "d", "x", Empty, Torn} \cup DOMAIN Fields

Symmetry == Permutations(Thread)
=============================================================================
