------------------------------ MODULE Protocol ------------------------------
(***************************************************************************)
(* The requests a handler thread makes of the user registry (list.c) and   *)
(* the answers it gets.  Strings are data: the only thing the registry     *)
(* does with a name is compare it, so names, addresses and descriptions    *)
(* are members of constant sets.  An address is the pair ip/port of a      *)
(* node; Nil stands for the empty ip, by which list.c tells a user who is  *)
(* not connected (strlen(current->ip) == 0).                               *)
(***************************************************************************)
EXTENDS Integers, Sequences

CONSTANTS Thread,   \* handler threads: one detached thread per connection
          User,     \* user names
          Addr,     \* addresses a connected user listens on
          File,     \* file names
          Desc,     \* file descriptions
          Nil       \* no thread, no address, no request, no answer

ASSUME NilAssumption == Nil \notin Thread /\ Nil \notin Addr

Request ==
       [op : {"REGISTER", "UNREGISTER", "DISCONNECT", "LIST_USERS"}, user : User]
  \cup [op : {"CONNECT"}, user : User, addr : Addr]
  \cup [op : {"PUBLISH"}, user : User, file : File, desc : Desc]
  \cup [op : {"DELETE"}, user : User, file : File]
  \cup [op : {"LIST_CONTENT"}, user : User, other : User]

ASSUME RequestAssumption == Nil \notin Request

UserEntry == [name : User, addr : Addr]     \* t_response_user
FileEntry == [name : File, desc : Desc]     \* t_response_list, filelist_t

\* The value a registry function returns and the listing it fills in.
Answer == [code : -1 .. 4, out : (SUBSET UserEntry) \cup (SUBSET FileEntry)]

ASSUME AnswerAssumption == Nil \notin Answer
=============================================================================
