------------------------------ MODULE Registry ------------------------------
(***************************************************************************)
(* What the user registry promises its callers, without locks, lists or    *)
(* lazy initialisation: a map from user names to an address and a set of   *)
(* published files, on which every call takes effect at one instant        *)
(* between the call and its return.  UserList, the model of list.c, and    *)
(* Server, the model of the whole request path, are checked against it.    *)
(***************************************************************************)
EXTENDS Protocol

VARIABLES db,    \* registered user -> [addr, files], files: name -> description
          req,   \* thread -> the call it has in progress, or Nil
          ans    \* thread -> the answer decided for that call, or Nil

vars == <<db, req, ans>>

Init == /\ db = << >>
        /\ req = [t \in Thread |-> Nil]
        /\ ans = [t \in Thread |-> Nil]

\* The map f with v at x, and without x.
With(f, x, v) == [y \in DOMAIN f \cup {x} |-> IF y = x THEN v ELSE f[y]]
Without(f, x) == [y \in DOMAIN f \ {x} |-> f[y]]

Known(u) == u \in DOMAIN db
Online(u) == Known(u) /\ db[u].addr # Nil

Answered(t, code, out) == ans' = [ans EXCEPT ![t] = [code |-> code, out |-> out]]
Refused(t, code) == Answered(t, code, {}) /\ UNCHANGED db

\* A call that only an online user may make: 1 unknown user, 2 not online.
OnlineOnly(t, u) ==
  \/ ~Known(u) /\ Refused(t, 1)
  \/ Known(u) /\ ~Online(u) /\ Refused(t, 2)

Register(t, u) ==
  \/ Known(u) /\ Refused(t, 1)
  \/ ~Known(u) /\ Refused(t, -1)                       \* out of memory
  \/ /\ ~Known(u)
     /\ db' = With(db, u, [addr |-> Nil, files |-> << >>])
     /\ Answered(t, 0, {})

Unregister(t, u) ==
  \/ ~Known(u) /\ Refused(t, 1)
  \/ /\ Known(u)
     /\ db' = Without(db, u)
     /\ Answered(t, 0, {})

Connect(t, u, a) ==
  \/ ~Known(u) /\ Refused(t, 1)
  \/ Online(u) /\ Refused(t, 2)
  \/ Known(u) /\ ~Online(u) /\ Refused(t, 3)           \* peer address unknown
  \/ /\ Known(u) /\ ~Online(u)
     /\ db' = [db EXCEPT ![u].addr = a]
     /\ Answered(t, 0, {})

Disconnect(t, u) ==
  \/ OnlineOnly(t, u)
  \/ Online(u) /\ db' = [db EXCEPT ![u].addr = Nil] /\ Answered(t, 0, {})

Publish(t, u, f, d) ==
  \/ OnlineOnly(t, u)
  \/ Online(u) /\ f \in DOMAIN db[u].files /\ Refused(t, 3)
  \/ Online(u) /\ f \notin DOMAIN db[u].files /\ Refused(t, 4)   \* out of memory
  \/ /\ Online(u) /\ f \notin DOMAIN db[u].files
     /\ db' = [db EXCEPT ![u].files = With(@, f, d)]
     /\ Answered(t, 0, {})

Delete(t, u, f) ==
  \/ OnlineOnly(t, u)
  \/ Online(u) /\ f \notin DOMAIN db[u].files /\ Refused(t, 3)
  \/ /\ Online(u) /\ f \in DOMAIN db[u].files
     /\ db' = [db EXCEPT ![u].files = Without(@, f)]
     /\ Answered(t, 0, {})

ListUsers(t, u) ==
  \/ OnlineOnly(t, u)
  \/ /\ Online(u)
     /\ Answered(t, 0, {[name |-> v, addr |-> db[v].addr] : v \in {w \in DOMAIN db : Online(w)}})
     /\ UNCHANGED db

ListContent(t, u, v) ==
  \/ OnlineOnly(t, u)
  \/ Online(u) /\ ~Known(v) /\ Refused(t, 3)
  \/ /\ Online(u) /\ Known(v)
     /\ LET files == db[v].files
        IN  Answered(t, 0, {[name |-> f, desc |-> files[f]] : f \in DOMAIN files})
     /\ UNCHANGED db

-----------------------------------------------------------------------------
Call(t) == /\ req[t] = Nil
           /\ \E r \in Request : req' = [req EXCEPT ![t] = r]
           /\ UNCHANGED <<db, ans>>

\* The instant at which a call takes effect.
Do(t) == /\ req[t] # Nil /\ ans[t] = Nil
         /\ LET r == req[t] IN
              \/ r.op = "REGISTER"     /\ Register(t, r.user)
              \/ r.op = "UNREGISTER"   /\ Unregister(t, r.user)
              \/ r.op = "CONNECT"      /\ Connect(t, r.user, r.addr)
              \/ r.op = "DISCONNECT"   /\ Disconnect(t, r.user)
              \/ r.op = "PUBLISH"      /\ Publish(t, r.user, r.file, r.desc)
              \/ r.op = "DELETE"       /\ Delete(t, r.user, r.file)
              \/ r.op = "LIST_USERS"   /\ ListUsers(t, r.user)
              \/ r.op = "LIST_CONTENT" /\ ListContent(t, r.user, r.other)
         /\ UNCHANGED req

Return(t) == /\ ans[t] # Nil
             /\ req' = [req EXCEPT ![t] = Nil]
             /\ ans' = [ans EXCEPT ![t] = Nil]
             /\ UNCHANGED db

Next == \E t \in Thread : Call(t) \/ Do(t) \/ Return(t)

Spec == Init /\ [][Next]_vars

-----------------------------------------------------------------------------
(* The registry as a service: a call can be given up before it takes       *)
(* effect, because its client went away, and the process can stop, which   *)
(* loses every user and every call.                                        *)

Abandon(t) == /\ req[t] # Nil /\ ans[t] = Nil
              /\ req' = [req EXCEPT ![t] = Nil]
              /\ UNCHANGED <<db, ans>>

Stop == /\ db' = << >>
        /\ req' = [t \in Thread |-> Nil]
        /\ ans' = [t \in Thread |-> Nil]

ServiceSpec == Init /\ [][Next \/ Stop \/ \E t \in Thread : Abandon(t)]_vars
=============================================================================
