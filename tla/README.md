# A TLA+ verification project for the P2P file index server

The repository is a small peer-to-peer file sharing system. Clients
(`client.py`) register with a central server (`server/`), publish the names of
files they hold, ask who is connected and what they publish, and fetch files
from one another directly. The server keeps everything in memory, runs one
detached thread per connection, and sends a line to a log server
(`server_rpc/`) by ONC RPC for every request. This directory holds the models
of that system, the TLC runs that check them, and the TLAPS proofs.

## 1. Inventory

| Component | Code | State | Operations |
|---|---|---|---|
| User registry | `server/list.c`, `list.h` | linked list `messages` of users, each with address, port and a list of files; `mutex`; `inited_list` | `init_list`, `register_user`, `unregister_user`, `connect_user`, `disconnect_user`, `register_file`, `unregister_file`, `list_users`, `list_content`; `destroy_list` (no caller) |
| Accept loop and handoff | `server/servidor.c` `main`, `treat_request` 80-84 | `sc`, `mutex_mensaje`, `cond_mensaje`, `not_finished` | accept, `pthread_create`, wait until the thread has copied the descriptor |
| Request handling | `servidor.c` `treat_request`, `send_error`, `rpc_llamada` | global `buffer`, global `clnt`, seven heap strings per thread | read fields, dispatch, call the registry, log, answer, close |
| Line protocol | `server/lines.c` | none | `readLine`, `sendMessage`, (`recvMessage`, no caller) |
| RPC log | `server_rpc/server_rpc.c`, `mensaje_clnt.c`, `mensaje.x` | none at the server, the global `clnt` at its caller | `print_1` |
| Generated stubs | `mensaje_svc.c`, `mensaje_xdr.c`, `mensaje.h` | none | rpcgen output |
| Client session | `client.py` | user, server socket, stop flag, listener thread, list of users | the eight commands, `getfile`, `quit` |
| Peer transfer | `client.py` `getfile`, `listen_requests` | a file at each end | request, status byte, content |
| Time service | `ws-time-service.py` | none | the current time as a string |
| Tests, build, documents | `tests/`, `Makefile`, `README.md`, `memoria.pdf` | - | - |

**Interaction.** A command of the client opens a TCP connection, writes its
fields as NUL-terminated strings and waits for a code (and a listing). `main`
accepts it and passes the *address* of its only local `sc` to a new thread,
under the handshake of `mutex_mensaje`. The thread reads the fields one by one
through the *global* `buffer`, copies each to a local, calls `list.c`, which has
its own mutex, logs by RPC, answers and closes. A file transfer does not pass
through the server: the requester asks for `LIST_USERS` and connects to the
address it finds there.

**What is hard.** Threads share `buffer` and `clnt` without a lock; the
mutating operations of `list.c` drop their mutex to initialise the list; the
handshake relies on a condition variable and a flag; clients vanish in the
middle of a request, and the end of a stream is not an error to the code; three
different failures end the whole process, which forgets every user; the log call goes over
UDP; the client's shell and its listener threads share class attributes without
a lock, and peers disconnect or are killed in the middle of a transfer. `"hazards"`
in `PROJECT.json` lists each of these at its line.

**What makes each part correct.** The registry: every call takes effect at one
instant, names are unique, nothing uses a node that has left the list, every
exit unlocks. The handoff: each thread serves its own connection, no signal is
lost. Request handling: a request acts on what its client sent, its answer is
the registry's and well formed, its connection ends. The client: it and the
server agree on who is connected; its listener stops when told to and not later
ones. Transfer: a file that was reported as fetched is complete.

## 2. Modules

| Module | Models | Uses |
|---|---|---|
| `Protocol` | the requests and what a listing returns, after `list.h` | - |
| `Registry` | abstract specification: a map from users to address and files; each call takes effect at one instant between call and return | `Protocol` |
| `UserList` | `list.c`: the mutex, the lazy initialisation, the operations | `Protocol`; instantiates `Registry` |
| `ListHeap` | `list.c` again, with nodes, files and listings as memory cells, and the loops that send a listing | `Protocol` |
| `ListHeapRegistry` | `ListHeap` beside the registry its cells stand for | extends `ListHeap`; instantiates `Registry` |
| `Handoff` | `main`'s loop and `treat_request` 80-84 | - |
| `Server` | `treat_request` from line 86 on, composed with `list.c` | extends `UserList`; instantiates `Registry` again |
| `Lines` | `lines.c` byte by byte on the shared buffer, the copies `treat_request` makes, `read_response` | - |
| `RpcLog` | `create_client`, `rpc_llamada`, the stubs, `print_1_svc`, UDP | - |
| `Client` | `client.py`'s session and its listener threads | - |
| `PeerTransfer` | `getfile` against `listen_requests` | - |
| `MCListHeap`, `MCServer`, `MCLines`, `MCRpcLog`, `MCClient`, `MCPeerTransfer` | what TLC needs: situations, request sets, seeded list | |
| `UserList_proofs`, `ListHeap_proofs`, `Handoff_proofs`, `Server_proofs`, `Lines_proofs`, `RpcLog_proofs`, `Client_proofs`, `PeerTransfer_proofs` | theorems | each extends its module; `Server_proofs` also `UserList_proofs` |

Each module keeps the code's names. A definition that begins with the comment
`Mutant:` is not part of the model: it is the code with one plausible bug, kept
beside the original so that the property that would catch it is known to do so.

`Lines`, `RpcLog`, `Client` and `PeerTransfer` have a constant `Modes` and a
variable `mode` that `Init` chooses from it and no action changes. A mode is a
situation, such as who takes part and which faults may come, so that one run
explores several. A property that the code only keeps in some of them says so
in its first conjunct; where it fails in the others is in section 3.

### Registry

`db` maps a registered user to its address (`Nil` when offline) and its files.
`Do(t)` is the instant a call takes effect, one operator per operation, with
every code the C function can return: out of memory (`-1` in `REGISTER`, 4 in
`PUBLISH`) and a failed `getpeername` (3 in `CONNECT`) are nondeterministic.
`Spec` is the registry as a library. `ServiceSpec` is the registry as clients
of the process see it: a call may be abandoned before it takes effect, and the
process may stop, which loses users and calls together. `With` and `Without` are
a map with one user set and with one user gone.

### UserList

`messages` is the list as a sequence, head first; `cur[t]` is the position of
`current`; `pc[t]` is where thread `t` is:

    lock -> check -> (init -> relock) -> walk -> found | absent -> return

`list_users` and `list_content` go from `lock` to `walk`; `list_content` walks
twice. The mutex is given back at `check` when the list is not initialised
(list.c:59-63 and its six copies); `init_list` locks, tests the flag again and
unlocks as one step (`InitList`), because nothing else it does can be seen
while it holds the mutex. `Walk` compares one node per step with the name `u`
it is handed: the request's own name in this module, the content of the shared
buffer in `Server`. What follows the walk, up to the unlock, is one step
per operation and outcome, since the mutex is held. The prefix search of files
inside that step is stated with quantifiers over `node.files`.

Abstracted: nodes are positions of a sequence, so `malloc`/`free` of nodes is
not visible, only their failure; an address stands for IP and port; a listing is
the set of its entries (their order carries no meaning to a client).

### Handoff

`mpc` follows `main` through accept, create, lock, test, wait, reset; `wpc[w]`
follows a thread through lock, copy, tell, signal, serve. Connections are
numbered by `accept`, so `sc` is both the descriptor and the connection, and
`given[w]` remembers which one a thread was made for. `pthread_cond_wait` is
three steps: `Test` blocks and unlocks at once, `Signal` or `SpuriousWakeup`
ends the wait, `WakeUp` takes the mutex again. A failed `pthread_create` and a
failed `accept` (which ends the process) are actions. The store to
`not_finished` and the signal are separate steps under the mutex. The process
ends when `accept` fails (`AcceptFails`: `main` returns) or a request ends it
(`RequestEndsProcess`: `exit(1)`, `SIGPIPE`), and `KillThreads` takes all its
detached threads with it, wherever they are.

### Server

`phase[t]` is where a thread is in `treat_request`:

    start -> read -> fill -> test -> copy -> clear -> read ... -> call -> list
          -> log -> reply -> close

* `Fill`/`Filled`: `readLine` writes the global `buffer` byte by byte, so that
  writing is two steps; a thread that finds another's writing in between may
  end with the string `Torn`, which stands for any mixture. `buffer.by` is the
  thread that is half way through. A string is a member of `Text`, and a request
  of `Requests` a sequence of them.
* A client may write its whole request, stop after any field, or stop inside one:
  `cut` says that the last string of `sent` has no terminator, and is `Half` of
  the field. It then closes or resets its end (`gone`), or stays and says no more.
* `EndOfStream`: before the first byte of a field `readLine` returns 0, which the
  code does not take for an error, and the field is whatever the buffer held. After
  it, what came is the field (`Filled`).
* `ReadError`: the thread closes and clears nothing. What it had read of the field
  stays in the buffer, without a terminator: a part, all of it, or a mixture with
  what was there (`Fill`).
* `TestOperation` is the chain of `strcmp`: one branch, or none. A thread alone
  falls through only when the string is no operation; with another connection
  in progress it may fall through anyway, since each `strcmp` reads the buffer
  again.
* `Copy` and `Clear` are the `sprintf` and `memset` between fields. The
  operation's text and the date, which reach only the log, are not kept.
* `CallList`, `InList` enter and run `UserList`'s steps. `Username(t)` is the
  name the list walk sees: `register_user` and `unregister_user` are passed
  `buffer` itself (servidor.c:132, 164), the others a local copy.
* `Wipe` is the `memset` after the call, which `LIST_CONTENT` does not make.
* `Log`, `LogExits`: the RPC succeeds or fails with a message, or the server
  cannot be reached and `create_client` calls `exit(1)`.
* `Reply` is the code and, for a listing, the count announced and the entries
  sent; a failed write only ends the thread, as `Close` does. `ReplyKills` is
  `SIGPIPE`. `AcceptFails` ends `main`. `Die` loses all
  memory; `Restart` starts the process again.
* `NoMemory`: a `malloc` of the locals fails and the thread ends without
  `close(sc)`: phase `leaked`, which nothing leaves but the end of the process.

### ListHeap

A cell is what `malloc` returns: free, raw, a node, a file, an entry of a
listing, or `Lost` once nothing points to it. There are finitely many (`Cell`), as
many as memory holds. `UserList` shows that one thread at
a time is between `lock` and `unlock`, so the locals of `list.c` (`current`,
`previous`, `file_current`, `response_current`) are single variables here, and
one step is one iteration of a loop: `Find`, `FreeFile`, `FindFile`, `Skip`,
`Fill`. What `treat_request` does after the unlock, `Send` and `SendEnd`, reads
cells while the other thread changes the list. `malloc` fails whenever it likes
and must when no cell is free. `Fill` does not test it, so `FillNothing` writes
through `NULL` and the process is gone (`Crash`): `list.h:116` and `list.h:137`
promise a code for this case that `list.c` never returns. A listing is not freed
(`Return`).

`Db` reads the registry off the cells, and `ListHeapRegistry` states that the whole
implements `Registry!ServiceSpec`. To save TLC from computing `Db` for each
property, `Follow` keeps it in a variable, `db`, which no step of `ListHeap` reads.

### Lines

`phase[t]`: idle, read, measure, copy, clear (for each field), answer. Each byte
of `buffer` is a memory access of its own, also those of `sprintf`, which looks
for the NUL (`Measure`) before it copies (`Copy`), and of `memset` (`Clear`).
A client sends strings, each followed by a NUL (`Incoming` is the byte that comes
next); it may vanish at any byte, and then `EndOfStream` ends the field where it
is. `ReadByte` ends a field at a NUL and at a newline, as lines.c:65-68 does, so
that a newline makes two fields of one string. `Store` drops what does not fit.
`Write` sends any part of what is left, and `ReadResponse` is `read_response`.

### RpcLog

`stage[t]`: create, pass, lock, wait, report, destroy, done. `clnt` is read again
by every step that the C code reads it in: `PassHandle`, `Report`, `Destroy`.
The library is external and modelled as its users see it: a call holds the
handle until it is answered or given up, a destruction waits for that, a
destroyed handle is freed memory (the step does nothing or ends the process),
a datagram is sent again with the same number, datagrams are lost and late.
`printed` is the set of calls whose line has been printed.

### Client

`cmd` is the command the shell is at and its step: `ask` (the server has not
answered), `answer`, `shut`. Listeners go through listen, clear, test, accept,
waiting, serve, close, dead; each of these is a statement of `listen_requests`
that reads or writes `_server_socket` or `_stop_flag`, which the shell and other
listeners write. The server is a map from users to the socket they are at. A
listener is numbered like the socket its `CONNECT` opened, but works on whatever
`_server_socket` is.

The server answers a command at one instant. It may also exit at any moment
(`ServerExits`: for a failed `create_client`, a `SIGPIPE` or a failed `accept`) and
start again with no users; a command that waits for its answer then gets an
exception (`lost`), or hangs in `read_response` (`hung`), which only Ctrl-C ends.
`Unregister` takes any registered user, also the one that is connected: neither
client.py nor list.c refuses it. `Disconnect` takes any name. `Serve` ends with the
peer answered, or with the exception of a peer whose bytes do not decode or that
has reset the connection, which ends the listener.

What may happen is chosen by the mode: `patient`, `own` (the user disconnects nobody
else), `stays` (nobody unregisters a connected user), `interrupts`, `outages` (of the
time service), `lasting` (the server does not exit), `polite` (no peer makes a
listener raise). The properties say in their first conjunct which they need.

A user is *patient* when it waits for its listeners to reach `accept` before the
next command. `Ctrl-C` in the middle of a command is one step that ends it.

### PeerTransfer

Users publish a port (`Publish`), listen later (`Listen`), leave (`Leave`), or
are killed and leave their entry behind (`Vanish`, then `Recover`). Fetchers
take the port from `LIST_USERS` (`Ask`), connect to whoever listens on it now,
unless its queue is `Full` (`mode.backlog` connections wait to be accepted), and
read status and content from `pipe`; `ended` is whether the connection ended in
order or with a reset. What is sent is `Text(u)`, the file as a Python text file is
read: every line end, `CR` or `CRLF` too, becomes a newline. `RequestRaises` is the
request whose bytes the listener cannot decode, which ends it. `ReadReset` has no case for the end of the stream,
because `read_response` has none: such a fetch reads for ever. What `Finally`
does with a `socketC` that was never assigned is in `result`.

`Handoff` justifies giving each thread its own connection in `Server`; the two
are not composed, so that each stays small.

## 3. Runs

| Run | Checks | Shows |
|---|---|---|
| `list` | `TypeOK`, `UniqueNames`, `CursorValid`, `Progress`, `Linearizable`, `FilesChangeOnline` | no interleaving of initialisation and walks lets a name in twice, shares the section, or acts on a node that is not there; `UserList` implements `Registry!Spec`; a user's files change only while it is online; no exit path keeps the mutex or locks it twice |
| `heap` | `ListSound`, `NothingLost`, `SentAsListed`, `Linearizable` | pointers stay sound while cells are unlinked and freed, nothing but listings leaks, a listing sent after the unlock is what the registry answered, and the whole implements `Registry!ServiceSpec` with `malloc` failing anywhere |
| `handoff` | `TypeOK`, `OwnDescriptor`, `NoPendingCopy`, `BackToAccept`, `EveryoneServes` | each thread gets its own descriptor, no wakeup is lost, spurious ones are harmless, and an `accept` that fails finds no thread that has yet to read its descriptor |
| `server_serial` | `ServerTypeOK`, `ServesRegistry`, `EveryConnectionEnds` | one connection at a time, the whole path implements `Registry!ServiceSpec` for all eight operations, with clients that stop or vanish anywhere, failures, process exits and restarts; every connection is closed or ends with the process, unless its client stays silent or its thread had no memory |
| `server_race` | `SectionSurvives`, `FilesStayDistinct`, `CallsComplete` | what the race on `buffer` cannot break: `list.c`'s section, cursors and file names, and the fields each call is made with |
| `lines` | `TypeOK`, `CopyFits`, `FieldsAsSent`, `FieldsArePieces`, `CheckedArriveWhole`, `AnswerArrives` | with two threads on the buffer no read or copy leaves it; with one, the fields are the pieces NULs and newlines cut the bytes into, so that one without newlines is what was sent, cut to size; short writes lose nothing |
| `log` | `SuccessMeansPrinted`, `EveryRequestPrinted`, `CallsEnd` | with two threads on one handle and every fault, a success is never reported for a line that was not printed, and every call ends; a thread that is alone on a faultless network loses no line |
| `client` | `Agree`, `Reachable`, `ExitDisconnects`, `PatientStops`, `ClosesItsOwn` | client and server agree between commands, as far as the server keeps what it was told, whatever failed; a patient user is reachable while connected, and its listener stops and closes its own socket |
| `transfer` | `TypeOK`, `OkMeansCopied`, `FromAskedUser`, `EveryFetchEnds`, `PortGivenBack` | no partial text is reported or written, whoever leaves or is killed; nobody waits for ever on a user that disconnects |
| `server_duplicates` | `UniqueUsers`, **violated** | finding 1 |
| `server_count` | `CountMatchesEntries`, **violated** | finding 2 |
| `client_hasty` | `StopsWhenTold`, **violated** | finding 3 |

### Findings

1. **Duplicate names** (servidor.c:132). `register_user(buffer)` compares and
   later copies through a pointer to the buffer other threads read into. With
   two concurrent `REGISTER` the name the walk looked for is not the name the
   node gets, and two nodes carry one name.
   The same race lets a thread answer its client for someone else's request.
2. **Wrong count** (servidor.c:473). `LIST_CONTENT` counts the files whose name
   is not empty and sends all of them. A file with an empty name, which
   `client.py` sends for `PUBLISH` followed by two blanks, makes the announced
   number too small.
3. **A listener that does not stop** (client.py:161). The listener clears the
   stop flag after it has started and `connect` does not wait for it. A
   `DISCONNECT` that comes first sets a flag that is then cleared and shuts down
   a socket that does not listen yet, which raises; the listener goes on
   accepting for a client that is disconnected.

### Other disagreements met

Each of these is a behaviour of the code that the models have. Where a property
is named, it excludes the case in its first conjunct, and dropping that makes
TLC show it.

* *Log lines lost without a network fault* (servidor.c:25, 58): with two threads
  a call can be passed another thread's handle, or one already destroyed, and
  fails (`EveryRequestPrinted` without `Alone`), and a handle can be left behind
  (`HandlesReturned` without `Alone`).
* *`print_1_svc`'s result* (server_rpc.c:12-22, `PrintLine`): the comment says 1 when the date
  is printed and 0 when not. Both branches print it, and the result tells
  whether the file name was empty.
* *The buffer `LIST_CONTENT` leaves* (servidor.c:456): it is the one branch without
  the `memset` that its comment announces (`luego memset para vaciar`, servidor.c:455),
  so the name of the user asked about stays in the global `buffer`. A connection
  that closes without a byte is served with it as its operation, and if the name is
  `REGISTER` the empty user is registered (`ServesRegistry` with `Nil` in the first
  branch of `OperationOf`).
* *A listener that is told and not woken* (client.py:281): neither side refuses
  `UNREGISTER` of a connected user. The `DISCONNECT` after it is answered 1, for
  which `disconnect` sets the flag and makes no `shutdown`: the listener waits in
  `accept` for ever and keeps its port (`PatientStops` without `mode.stays`).
* *A stale listener closes the new socket* (client.py:190): after `DISCONNECT`
  and `CONNECT` in quick succession (`ClosesItsOwn`, `Reachable` without
  `mode.patient`); and for a patient user after that `UNREGISTER`, or
  when the server has exited in between (without `mode.stays`, `mode.lasting`).
* *Connected to nothing*: after `UNREGISTER`, or an exit of the server, a client goes
  on believing that it is connected while nobody publishes its address (`Agree`,
  second conjunct, without `Steady`). `DISCONNECT` of another user's name forgets
  the client's own session and leaves its entry at the server (third conjunct,
  without `mode.own`).
* *Ctrl-C during `CONNECT`* (client.py:686): between the server's answer and
  `_connected = True` the shell leaves without disconnecting
  (`ExitDisconnects` without `~mode.interrupts`). The time service being down
  at `QUIT` has the same effect (without `~mode.outages`).
* *Another user's file* (client.py:565): a port that was given back and taken by
  another user answers, and `GET_FILE` says OK (`FromAskedUser` without
  `~mode.reuse`).
* *Published before listening* (client.py:223, 158): a peer that fetches at once
  is refused (`Connect` with nobody in `Listening`).
* *`getfile` raises* (client.py:600): when there was no connection to the other
  client, `socketC.close()` in the `finally` replaces the code being returned
  (`Finally`).
* *The end of a listener* (client.py:185): `sendall` to a fetcher that gave up,
  for instance on a character of several bytes (client.py:43), raises and ends
  the listener, while the server goes on publishing its address (`SendFails`). So
  does a request that does not decode (`RequestRaises`; `Reachable` without
  `mode.polite`).
* *A file that changes on its way* (client.py:143): `leer_archivo` reads text, so a
  file with `\r\n` or `\r` line ends arrives with newlines and `GET_FILE` says OK.
  `OkMeansCopied` compares the text.
* *A newline in a field* (lines.c:65): it ends the field there, the rest of the
  string is the next field, and all later ones are read in the wrong place.
  `FieldsAsSent` and `CheckedArriveWhole` without `Plain`; `FieldsArePieces` says what
  is received instead. The shell cannot type one, the tests and other callers of
  the methods can.

What the server does with a request that was not finished is stated by
`ServesRegistry`: it may execute it, with the empty string for each field that did
not come, or with the part that came of the last one. On a connection that brings
nothing at all it may execute the operation an earlier connection left in the buffer
(`LIST_CONTENT`, or a read error in the middle of a field), with empty fields. It does
nothing else.

### Bounds

Every bound is a constant of its module and is given in the `.cfg`.

* `UserList`: two threads (every race in `list.c` is between the thread that
  left the mutex and one other), two users (first node, later node, absent
  name), one file: users with several files are `ListHeap`'s, and the theorems
  are for any number. Nothing counts calls: threads call for ever, and the state
  space is finite because names are. One address and one description suffice,
  because the code never compares them.
* `ListHeap`: four cells, so that two users with a file each, a user with two
  files, or two users and a listing of both fit, and `malloc` runs out at every
  place; a listing of two files beside its two users would need five. One thread
  changes the list and one lists it, for ever, since that is the only
  interleaving left when operations exclude each other.
* `Handoff`: `MaxConn` 4 with three threads, so that a creation fails and the
  descriptor is overwritten after a success and after a failure; two spurious
  wakeups.
* `Server`: `MaxConn` bounds the connections one process accepts; a restart
  sets it back. Four in a row let a user register, connect, publish, and list or
  delete, or a connection come that brings nothing; `LIST_CONTENT` may ask for a
  user named `REGISTER`, so that what it leaves is an operation. Six let
  `server_count` publish under an empty name after the rest. With two threads two
  connections are enough to race, and the race run starts from a list that earlier
  clients left (`SeedSpec`).
* `server_serial` and `server_count` use one handler thread: they ask what
  happens *without* the race. Concurrency below the buffer is `UserList`'s.

* `Lines`: a buffer of 3 bytes, strings of 0 to 4, which is every relation a
  length can have to the buffer (empty, shorter, longest that fits, exactly one
  too long, more). Two fields of every pair of lengths for one thread, and two with
  newlines at every place of a string as long as the buffer; for two
  threads a string longer than the buffer, which vanishing clients cut to
  every shorter one. The theorems are for every size.
* `RpcLog`: `MaxSends` 2 (the library's 25 seconds in intervals of 15). One
  thread makes three calls, two threads two calls in all: the handle of each may
  be replaced or destroyed by the other at every step.
* `Client`: three sockets for a patient user, so that two sessions end and a
  third can suffer from both, with polite peers and with others; two for the hasty
  ones: for each of the other situations by itself, and all of them at once.
* `PeerTransfer`: two users, one with a file of a byte and a line end that text mode
  changes, and one with a character of two bytes; two fetchers that do not die in one queue; one fetcher
  with everybody mortal, with one port that is used again and with two that are
  not; two fetchers of which one dies. Each fetches once.

`CHECK_DEADLOCK FALSE` is set where a bound on connections, calls or sessions,
or the end of the process, makes the system stop. `list` and `lines` check
deadlock.

### Fairness

* `UserList!FairSpec`: weak fairness of each thread's steps *inside* an
  operation. Nobody is obliged to call. A POSIX mutex promises no order, so
  starvation-freedom of one thread is not claimed: `Progress` says that some
  thread returns.
* `Handoff`: weak fairness of thread creation, `main`'s and each thread's own
  steps, not of `accept`. With finitely many competitors for `mutex_mensaje`,
  each of which takes it a bounded number of times per connection, this is
  enough for `EveryoneServes`. Spurious wakeups are finite, without which `main`
  could be woken for ever.
* `Lines!FairSpec`: weak fairness of each thread's steps and of each client's
  reading, so `AnswerArrives` needs a client that reads. No client need come.
* `RpcLog!FairSpec`: weak fairness of each thread and of the log server; the
  network promises nothing, and the library's timeout is what ends a call.
* `Client!FairSpec`: weak fairness of the shell *inside* a command and of each
  listener; neither commands nor peers need come. A peer that has connected
  is answered (`Serve`) in the modes with polite peers: one that stays silent would keep the
  listener for ever (client.py:166), and the liveness properties do not ask for it.
* `PeerTransfer!FairSpec`: weak fairness of each listener and each fetcher once
  it has begun. The liveness properties are claimed only when nobody is killed:
  `read_response` on a stream that ended never returns (client.py:40), and
  neither does the listener of a fetcher that died before it sent its request.
* `Server!FairServerSpec`: weak fairness of each thread's `Handle`. Nobody obliges a
  client to write or to close: one that stays connected and silent keeps its
  thread for as long as it likes, since the code has no timeout, and
  `EveryConnectionEnds` names that case (`Waits`).

## 4. Proofs

All are for any number of threads, names, files, connections, cells and calls;
where a constant must be finite or non-zero it is said. Every proof has the same
form: an inductive invariant `IInv`, lemmas for `Init => IInv` and for each
action, one lemma `IInv /\ [Next]_vars => IInv'`, and theorems that combine them
with `PTL`. The assumptions are those the modules state of their constants, and
TLC evaluates them in the runs: `Nil` is none of the values it stands beside, a
bound is a number, a mode has the fields it is asked for. Only what goes beyond
that is named below.

**`UserList_proofs`.** The inductive invariant of the safety properties is

    IInv == TypeOK /\ Pending /\ CursorValid /\ UniqueNames

`Pending` says that a thread inside an operation has a request, and that the
cursor is at the head of the list until the walk begins. `CursorValid` (a thread is
in the section iff it owns the mutex; every node it has passed carries another
name; at `found` the cursor is at the first node of the name) is what
makes insertion of a new name safe: at `absent` no node has it, and nobody
else may change the list. Without `Pending` the induction fails: a thread that
enters the walk with a cursor further on has nothing to say about the nodes it
never compared. Theorems: `TypeCorrect`, `WalkIsStable`, `NamesStayUnique`.

`ListImplementsRegistry` is the refinement `Spec => Linearizable`, from

    RInv == IInv /\ Outstanding /\ Initialised

`Outstanding` (an answer is there exactly from the end of the work to the return)
makes each call take effect once. `Initialised` (the list is empty until the flag
is set, and whoever is past `relock` finds it set) makes `init_list` a stutter. The
registry's `db` is `UserMap(messages)`. The lemmas on `UserMap` say what inserting
at the head, removing a node and replacing one in place do to it when names are
distinct: they are the registry's `With`, `Without` and `EXCEPT`. The walk's end,
with the mutex held, is the instant of `Do(t)`; calls and returns are the
registry's; every other step is a stutter. `FilesOutliveSessions`
(`FilesChangeOnline`) needs `UniqueNames`, because the property speaks of names
and the code changes nodes.

**`ListHeap_proofs`** is about the same list with pointers. What `Chain` reaches is
defined by recursion over the heap, which cannot be unfolded for every length. So
the invariant is stated without it:

    HeapInv == HeapTypes /\ Controls /\ AtRest
               /\ \E o \in Owner, r \in Rank : Shape(o, r)

`o` gives each file its user and each cell of a listing its thread; `r` gives each
cell a number that goes down along the pointers. A set of cells is a list
(`IsList`) when its numbers differ, the head has the highest, and the pointer of
each cell leads to the next lower one. `Shape` says that the nodes are
one list from `messages` with distinct names, the files of each node one list from
it with distinct names, the cells of a listing one list from `reply`, and that
each of the locals `current`, `previous`, `scan`, `before` and `tail` is where its
walk should be: what the walk is looking for is still ahead of it. `Doomed` is the
node `unregister_user` frees the files of, which is in no list any more. For a
listing, `Filling` says that its entries show what the walk has passed, and
`Sending` that what was sent and what is to come is the answer, which is the
reason why reading entries after the unlock is harmless: no pointer of the
thread's cells leads to a cell another thread changes. Each step is shown to
have an `o` and an `r` after it; insertion gives the new head a rank one above the
old head's. `ChainIsList` leads from a list by ranks back to what `Chain` reaches;
it needs memory to be finite (`CellAssumption`), since `Chain` takes as many steps
as there are cells. Theorems:
`HeapStays` (`[]HeapInv`), `ListIsSound`, `NothingIsLost`, `ListingsArrive`
(`SentAsListed`). Before it was proved, the invariant was checked by TLC with `o`
and `r` computed from the heap.

`HeapImplementsRegistry` is the refinement `SpecDb => Linearizable`, from `HeapInv`
and `db = Db`. `Db` chooses a cell for each name and collects cells with `Chain`;
`IsUsers` says instead of a map that it has the names, addresses and files of given
nodes. `DbReads` shows that `Db` is such a map of the nodes in the list, and
`OneUsers` that there is only one. So it is enough to show that the registry's next
value describes the cells after the step (`DbAfter`): `UsersAdd`, `UsersDrop` and
`UsersWrite` do that for `With`, `Without` and `EXCEPT`. A call takes effect

* at the end of the walk for a refusal (`Absent`, `Offline`, `UnregisterFile`
  without the file), in the step that writes the node for `CONNECT` and `DISCONNECT`,
  and in the step that links or unlinks the cell for the others that change the list;
* for `UNREGISTER`, at `Unlink`: the files of the node are freed one by one after
  it, but the node is in no list any more, so that nobody sees them go;
* for a listing, at `FillEnd`, where `Filling` says that the entries show the whole
  list, or at `Target` when the user asked about is unknown or has no files;
* when an entry cannot be allocated, at the crash, which is the registry's `Stop`.

Every other step leaves `Db` alone (`DbStays`): it changes no cell of a user or file in
the list.

**`Handoff_proofs`.** The inductive invariant is

    HInv == TypeOK /\ Handshake /\ OwnDescriptor

`Handshake` says that at most one thread has yet to clear the flag, that while
there is one the flag is set, `main` is in its wait loop and `sc` still holds
that thread's connection, and that `main` leaves the loop only with the flag
clear. `OwnDescriptor` alone is not inductive: it says nothing of the moment
before the copy. Theorems: `TypeCorrect`, `ThreadsKeepTheirOwn`
(`[]OwnDescriptor`) and `NoOverwrite` (`NoPendingCopy`).

**`Server_proofs`.** The inductive invariant is

    SInv == RequestTypes /\ ListTypes /\ Paths /\ SectionSurvives /\ FilesStayDistinct

Under the race the name a walk compares may change at every node, so neither
`CursorValid` nor `UniqueNames` holds, and a node may carry any string of `Text`.
`SectionSurvives` is what remains of the cursor. `Paths` follows a thread through
its fields: a branch calls `list.c` with exactly the fields it needs, also when a
`strcmp` read another thread's string and when the client stopped, and nobody is
in `list.c` outside `phase` `list`. Without it a call could lack the field `Apply`
reads. Theorems: `RequestPathTypes` (`[]ServerTypeOK`), `RaceSparesTheSection`,
`RaceSparesTheFiles`, `CallsAreComplete` (`[]CallsComplete`).

**`Lines_proofs`.** For any number of threads on the buffer the inductive
invariant is

    LInv == TypeOK /\ Terminated /\ CopyFits /\ Aligned

`Aligned` says that a thread whose client is there reads the field that follows
those it has copied, and that there is one: without it the type of the byte
`ReadByte` stores is not known. `CopyFits` needs `Terminated` (the scan stops at
the last byte at the latest) and the bound on `at` it carries itself.
Theorems: `TypeCorrect`, `BufferStaysTerminated`, `CopiesAlwaysFit`.

`FieldsArriveAsSent` and `CheckedNamesAreWhole` are about one client at a time whose
strings have no newline, and add `Places` (where the next byte of the client's can be in each phase) and
`Arrived`: of the field being read the buffer holds exactly what came, cut to
what it can keep, and NULs after it; what is being copied is that; what has been
cleared is NUL. The NULs matter: `readLine` writes none when the stream ends, and
the field would run on into what an earlier one left.

**`RpcLog_proofs`.** The inductive invariant is

    LInv == LogTypes /\ Printed /\ Owner

`Printed` follows a line from `print_1_svc` to the answer: what serves, has replied,
or was taken for a success has been printed. It needs no assumption on the handle
or the network. `Owner` says where the one handle of a lone caller is at each
stage. The number of threads is finite (`LogAssumption`). Theorems:
`SuccessIsPrinted`, `AloneIsPrinted`, `AloneLeavesNone`.

**`Client_proofs`.** The inductive invariant is

    CInv == ShellTypes /\ ListenerTypes /\ Session /\ Patient

`Session` says what the server's map holds at every step of a command, also between
the server's change and the client's learning of it; `Agree` speaks only of
the moments between commands. `Patient`, about calm users only, says that all
listeners but the last are dead and where the last can be, which depends on where
the shell is. Theorems:
`ClientAgrees`, `PatientIsReachable`, `NobodyLeftBehind` (`ExitDisconnects`),
`ListenersCloseTheirOwn` (`ClosesItsOwn`).

**`PeerTransfer_proofs`.** The inductive invariant is

    PInv == UserTypes /\ FetcherTypes /\ Connections /\ Streams /\ Ports

`Connections` says that a fetcher is once in the queue of its peer, or served by
it, and that what waits has been sent nothing: without it two streams could mix.
`Streams` says that what a fetcher has, what is in the pipe and what its
listener still has to send are consecutive stretches of one reply (`Within`).
`Ports` says, where no port is used again, that nobody else has the port that a
fetcher was given. The proof needs a backlog of at least one, and that no file is
`Nil`. Theorems: `TypeCorrect`, `CopiesAreWhole` (`OkMeansCopied`),
`AskedUserAnswers` (`FromAskedUser`).

**Only proved.** `Terminated` (`BufferStaysTerminated`), `HandlesReturned`
(`AloneLeavesNone`) and the invariant of the memory (`HeapStays`) are theorems that
no run checks beside them.

**Only model-checked.**

* Everything under fairness, which the prover does not do: `Progress`,
  `BackToAccept`, `EveryoneServes`, `EveryConnectionEnds`, `AnswerArrives`,
  `CallsEnd`, `PatientStops`, `EveryFetchEnds`, `PortGivenBack`.
* The refinement of `Registry!ServiceSpec` by the whole request path,
  `ServesRegistry` of `MCServer`.

## 5. Not modelled, and why

* `destroy_list` and `recvMessage`: nothing calls them. (`destroy_list` would
  lock a mutex it holds, list.c:29.)
* `getifaddrs`, argument parsing and signal setup in `main`, and the
  registration of the log server in `mensaje_svc.c`: run once before anything
  else.
* The wording of what is printed, and the date string of the time service,
  which is stateless.
* Commands of the client that leave no state in it (`PUBLISH`, `DELETE`, the
  listings) beyond what they send: they are the environment of `Server` and
  `Lines`. `REGISTER` and `UNREGISTER` are in `Client` only as what they do to the
  server.
* A command whose handler thread ends without an answer while the server goes on
  (`NoMemory`): in `Client` a command hangs only when the server exits.
* How often a line is printed by the log server: `printed` is a set, and a call
  that is sent again may print its line twice.
* What a local file holds when writing it fails half way (client.py:523-528),
  what text mode does when it writes (on Windows it would change line ends again),
  and files that contain a NUL, which the format of the answer cannot carry
  (client.py:578): the fetch would report OK for the part before it.
* XDR code beyond its failure to decode (`DecodeFails`), the build and the tests.

## 6. Plan

What is left is one proof, `ServesRegistry` with one handler thread: that what a lone
thread reads is what its client sent, with `UserList`'s refinement for the call itself.
The lemmas of `UserList_proofs` on `UserMap` serve it as they are.
