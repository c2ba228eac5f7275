# A TLA+ model of AgFS

AgFS aggregates directories of several machines into one FUSE file system. On
every server machine `agfsd` exports directories; on the client machine `agfs`
mounts them all in one place. This directory holds TLA+ modules of that system,
TLC configurations that check them on small instances, and proofs that TLAPS
checks for every instance. Line numbers refer to the files under `src/src`.

## 1. The system

| component | state | operations | talks to |
|---|---|---|---|
| `ServerConnection` (`serverconnection.cpp`), one object per server in an `agfs` process | `socket_`, `closed_`, `monitor_` | `connect`, `getattr`, `access`, `readdir`, `readFile`, `writeFile`, `open`, `heartbeat`, `stop` | one server, over TCP |
| threads of `agfs` (`agfs.cpp`) | the map `connections`, `heartbeatThreads` | FUSE handlers, `heartbeatThread`, `agfs_destroy` | the `ServerConnection` objects, which they share |
| `ClientConnection` (`agfs-server.cpp`), one process per client | `socket_`, `beatsMissed_`, `mountPoint_` | the constructor (authentication), `processCommands` and a `process...` handler for each command | one client; the server's file system |
| `agfsd` (`agfsd.cpp`) | the listening socket, the connection it has accepted | accept, fork, close | its children |
| READ and WRITE (`agfs-server.cpp:283-403`, `serverconnection.cpp:280-307`) | the loop counters, the file, the session's descriptors | `processRead`, `processWrite`, `writeFile` | a file and a socket, each of which may take or give a part |
| typed I/O (`agfsio.cpp`, `constants.hpp`) | none | `agfs_read_...`, `agfs_write_...` | sockets |
| FUSE namespace (`agfs.cpp`) and `Disambiguater` | file handles; `filemap_`, `directorymap_` | `agfs_getattr`, `agfs_access`, `agfs_readdir`, `agfs_open`, `agfs_read`, `agfs_write`, `agfs_release`; `addFilepath`, `disambiguatedFilepaths`, `ambiguate` | all `ServerConnection`s |
| keys (`agfs-keygen.cpp`, `agfs-server.cpp:28-82`) | the list `authkeys`, the key files | add a key; look a key up | the file system, which agfs-keygen and the children of `agfsd` share without a lock |

What is hard about it:

- **Framing without frames.** No message carries a length, a number or a
  delimiter. Each side reads the fields it expects from whatever comes next, so
  both must agree, for every command and every error, on what follows.
- **Timeouts that nobody looks at.** The sockets have receive timeouts (1 s on
  the client, 10 s on the server). Most callers ignore that a read returned
  nothing and go on with what their variable held, and `agfsio.cpp` exchanges
  the bytes of that variable all the same. The answer still comes, later.
- **One socket, several threads.** The FUSE threads, the heartbeat thread and the
  thread that unmounts use `socket_`. All methods but `connected()`, `closed()`
  and `connect()` take `monitor_`; `connect()` changes `socket_` too.
- **Reconnection** and **shutdown** race: `agfs_destroy` stops the connections
  and joins threads that may be about to dial.
- **Parts that fail**: a short `read()`, a full disk, a directory that changes
  while it is listed, a `fork()` that fails, an agfs-keygen that is interrupted.
- **Names that are made up.** A file that several servers have is shown as
  `name{:server:}`. `readdir` decides who gets a suffix from one round of questions
  to the servers, `open` from another, and every handler takes the suffix off by
  itself; servers come, go and change between the questions.

What makes each component correct:

- a session: every call returns, with the outcome of its own execution; each
  side consumes exactly what the other sends it; the server process ends;
- a `ServerConnection` object: threads do not mix their bytes on a socket; a
  descriptor is closed once and never forgotten; a lost server is noticed and
  got back to; destruction terminates, and a closed connection stays closed;
- the namespace: a name that readdir returns can be looked up and opened, and
  leads to the server it came from; no file is lost or shown twice; a path that
  names a server is never answered by another;
- keys: a key gives the mount and the user it was made for, also while keys are
  added; a key that is in the list is found;
- `agfsd`: every client is answered or turned away, and its connection is closed
  when its process ends;
- READ and WRITE: the right bytes of the file, and no others, however the transfers
  are cut, and a count that says how many.

## 2. The modules

| module | what it is |
|---|---|
| `AgfsIO` | commands, byte order, what a read that stores nothing leaves behind |
| `RemoteCall` | abstract: what a connection promises its callers, and what is left of that once the server has ended |
| `Session` | one client/server session over one TCP connection; EXTENDS `AgfsIO`, shown to implement `RemoteCall` |
| `Connection` | one `ServerConnection` object and its threads, over any number of successive TCP connections; EXTENDS `AgfsIO` |
| `Disambiguater` | pure: suffixes, the entries of a directory, `ambiguate` |
| `Namespace` | the FUSE handlers over the map of connections; EXTENDS `Disambiguater` |
| `Agfsd` | agfs-keygen, the accept loop, and the children up to ACCEPT; EXTENDS `AgfsIO` |
| `Transfer` | the bytes of READ and WRITE |
| `MCSession`, `MCConnection`, `MCNamespace`, `MCAgfsd`, `MCTransfer` | instances for TLC |
| `Session_proofs`, `Connection_proofs`, `Namespace_proofs`, `Agfsd_proofs`, `Transfer_proofs` | theorems about one module each |
| `SessionCalls_proofs` | the calls of a session while every read is whole and in time; EXTENDS `Session_proofs` |
| `RemoteCall_proofs` | that such a session implements `RemoteCall`; EXTENDS `SessionCalls_proofs` |

`Session` and `Connection` look at the same code from two sides and are kept
apart. `Session` takes for granted that the monitor lets one call at a time use
the socket, and models every field of every request and reply, on one TCP
connection. `Connection` models the monitor, `socket_` and the threads, and of
the bytes keeps only whether the server's next read meets what it expects.

The other modules meet these two at named places. `Namespace` stands on the far
side of `ServerConnection`: a method called on a server that does not answer
returns there (`Silent`) what `Session` finds that it returns. `Agfsd` ends where
`Session` begins, with the ACCEPT of `processCommands` and `EndSession`; what a
client that is refused goes on to do is in `Session`. `Transfer` takes
the framing of READ and WRITE from `Session` (every field arrives, none times out)
and adds the bytes, which `Session` leaves out.

### AgfsIO

`ReadCmd(stored, wire, cmd)` is `agfs_read_cmd` as its caller sees it: `be16toh`
is applied to the caller's variable whether `read()` stored something there or
not. On a little-endian machine a variable that starts at `NONE` (11) holds 2816
after a read that timed out. `Be64Signs` is the same for errors and sizes, of
which only the sign is kept. `BigEndian` is the byte order of the reading
machine; as the wire carries network order, what the writer's order is does not
matter.

### Session

| in the model | in the code |
|---|---|
| `Invoke`, `Stop` | the writes at the start of a `ServerConnection` method; `stop()` |
| `ReceiveField`, `ReceiveNothing`, `ReceivePart`, `ReceiveTorn` | one `agfs_read_...` of a method: the field arrives; the read times out or meets the end of the stream; `read()` returns a part; the value is made of bytes of something else |
| `AfterError`, `SendParams`, `AfterCmd`, `AfterSize` | what the method does next, its early returns included |
| `Authenticate`, `ForkFails` | the constructor of `ClientConnection` and the first line of `processCommands`; agfsd's fork error |
| `ServeStop`, `ServeHeartbeat`, `ServeCall` | `processCommands` takes a command; `processHeartbeat`; a handler up to the write of its first error |
| `ServeBody`, `ServeParams`, `ParamsExpire` | the rest of a handler |
| `Unread`, in `ServeCall` and `ServeParams`; `HandlerThrows` | a read inside a request that nobody looks at: the handler goes on, and the rest of the request stays in the stream; a handler that throws: READ's size is made of bytes of its path, or the directory is gone |
| `MissBeat` | the command read fails: `beatsMissed_` |
| `ServerMisread` | bytes of something else where a command or parameters are expected |
| `KilledByPipe` | SIGPIPE: agfsd neither handles nor ignores it (libfuse makes agfs ignore it) |

A request is one unit, because the client writes it without reading, and its
handler answers only when it is done with its reads; `WRITE`, which has two parts,
is two units. Of a unit a handler may leave a part (`rest`): `agfs_read_string`
makes one `read()` for the path, and no handler looks at its result or at that of
the reads that follow. Replies are kept field by field. `id` numbers calls: it is
history, no guard reads it. `agfs_read_error` and `agfs_read_size` have the same
width, so each can take the other's field (`Fits`). A read of the client that meets
a field of another width takes bytes of it for its value, and the method goes on
with whatever value that is (`ReceiveTorn`): the eight bytes that `agfs_read_error`
takes of data or names that a previous call has left are the error it returns.

A side stops in `misread` where this model stops: the server with bytes that are no
command where it reads one, the client with a count or a length that is none, over
which it would loop or for which it cannot allocate memory. What the program makes
of the stream from there on is not modelled.

The environment is the constant `Faults`: `timeout` (an answer later than the
client's second), `silence` (no command within the server's ten seconds, more than
five times), `shortRead` (the client's `read()` of data or of a name), `tornRequest`
(the server's reads inside a request: a part, or nothing within ten seconds),
`dirChange`, `diskFull`. Integers (eight bytes or less) are read whole or not at
all. Without `timeout` a read fails only if nothing can come.

### Connection

The process counter of each thread (`pc`) stops at every I/O call on `socket_`
and at every acquisition of `monitor_`:

- a FUSE thread: `Call`, `Enter` (takes the monitor, writes the command),
  `SendArgs`, `Return`;
- the heartbeat thread: `BeatTop` (`closed()`), `BeatLook` (`connected()`),
  `Beat`, `Hear`, `Drop`, `Dropped` (`heartbeat()`), `Dial` or `DialFails`,
  `SendKey`, `Accepted` or `Refused`, `CloseRefused`, `ForgetRefused` (`connect()`);
- the thread of `main`: `Unmount`, `EnterStop`, `SendStop`, `CloseStopped`,
  `ForgetStopped`, `SetClosed` (`stop()`), `JoinAndExit` (`agfs_destroy`).

`Greet`, `Lapse`, `Crash` and `Restart` are the server's side; `Greet` refuses no
key that arrives whole (a key whose account or mount point has gone since is in
`Agfsd`), which `Reconnects` needs. A descriptor whose
`::connect` failed is in `leaked` for good (`dnsLookup` closes nothing). `Daemon`
says that agfs runs without `-f`: `fuse_main` forks after `main` created the
threads, and the child, which serves the mount, has no heartbeat thread.
`Slow` says that what one side sends can arrive after the other's timeout.

### Disambiguater

A path is a sequence of words, and each brace is a word of its own. `Positions` and
`Find` are `std::string::find`; `Ambiguate` is `ambiguate` with both calls of
`substr`, the wrapped count of a closing brace before the opening one included.
`filemap_` and `directorymap_` become the set `found` of what the servers answered
(`addFilepaths`), from which `disambiguatedFilepathsWithStats` makes the listing:
a file gets a suffix if its map entry has more than one server, directories are
merged into one. The vectors of `filemap_` are sets here: their order shows
nowhere but in the order of the entries that FUSE is given.

### Namespace

| in the model | in the code |
|---|---|
| `connections`, `link` | the map; for each server whether `connected()`, and whether it answers |
| `getattr`, `access`, `readdir`, `open`, `transfer`, `release` | the start of an `agfs_...` handler: which servers it will ask for what |
| `Look` | `connected()` of the next server (`agfs_getattr`, `agfs_open`, `agfs_read`, `agfs_write`) |
| `Ask` | one call of a `ServerConnection` method, with what the handler does with its result: the early exit of getattr and access, the entries of readdir, the servers checkExistance counts |
| `Choose` | `agfs_open` after `checkExistance`: exactly one server, or none |
| `Return` | the rest of a handler: the listing, the new `file_handle_t` |
| `ChangeDisk`, `ChangeLink` | between any two of these steps a file appears, goes or changes its kind; a server falls silent, is given up or is reached again |

`calm` says that neither of the last two has happened since the handler began, and
`listed` is the last listing of the root that nothing has happened since: both are
history that only properties read. `Clash` is a name that is a file on one server
and a directory on another: Disambiguater keeps files and directories apart, so
that readdir lists both entries under that one bare name, getattr answers with the
stat of the first server that has either, and `agfs_open`, which counts both in
`checkExistance`, fails with ENOENT. Errors are signs. The servers' directories are
flat. Permissions are left out, except that a mask, or a directory that is to
be opened, may be denied. One handler runs at a time: handlers share only the
connections, which `Session` and `Connection` are about, and what another handler
does to a server is one of the changes above.

### Agfsd

| in the model | in the code |
|---|---|
| `StartKeygen`, `DrawKey`, `ListKey`, `KillKeygen` | agfs-keygen: opens both files, draws and stores the key, appends its line; is interrupted anywhere |
| `Connect` | a client connects and sends its key, or none |
| `Accept`, `Fork`, `ForkFails`, `Close` | the loop in `main` of `agfsd.cpp` |
| `OpenList`, `ReadWord`, `Compare` | the loop of the constructor over `authkeys`, one `operator>>` at a time; without a list it never ends, unless the client's key is empty |
| `CheckUser`, `CheckMount` | `getpwnam`; the first lines of `processCommands` |
| `EndSession` | the session, which `Session` models, ends |

The list is a sequence of words, since `operator>>` skips white space: lines
mean nothing to the reader. A line of the list is less than the buffer of an
`fstream`, so it reaches the file in one `write()`, at `endl`. `holders` says which
processes have a connection open: a child that is forked inherits all that the
parent has open at that moment, and gives up what it has when it exits. `fork()`
may fail at any time; it will in the end, since the parent waits for no child.

### Transfer

`ReadSome`, `ReadFails` and `ReadDone` are the loop of `processRead`, `ReceiveData`
the one `read()` with which `readFile` takes what it sent; `SendSome` is the loop of
`writeFile`; `WriteSome`, `WriteFails` and `WriteDone` that of `processWrite`; each
may move any part of what it could. Byte `i` of the buffer of call `k` is `<<k, i>>`,
so that a byte in the wrong place is seen, and `Zero` is a byte that was never
written. An offset may lie behind the end of the file: a WRITE there leaves a hole.
`fds` counts the descriptors of the session's process: READ never closes its own,
nor does a WRITE that fails. A `write()` on the file may take a part of a chunk at
any time, and the loop goes on with the next chunk where that one stopped
(`agfs-server.cpp:381`): then `gap` is true, and the file lacks a part of the
buffer between the two. With data left in the stream, by a `write()` that fails or
by a short read of the client, the call ends in `torn` (what follows is in
`Session`). `result` is what `readFile` and `writeFile` return, and `received` the
vector of `readFile`, which has the announced size however little was read;
`agfs_read` (`agfs.cpp:406-414`) gives FUSE all of it, which is the finding of
`MCSession_short_read`. Left out: another session that writes to the same file,
offsets that are negative, and a short `write()` of the data on the server's socket,
which blocks until it has taken all.

## 3. The runs

Runs that pass:

| run | instance | properties | shows |
|---|---|---|---|
| `MCSession_session` | all calls, 3 in a row, `silence`, little-endian (big-endian passes as well) | `ReturnsOwnOutcome`, `QuietWhenIdle`, `StreamsFramed`, `ParamsOnlyIfOpened`, `NoStaleAnswer`, `ImplementsRemoteCall`, `CallsReturn` | when every read is whole and in time a call is executed once, while its caller waits, and returns the outcome of that execution; a server that gives the client up leaves no bytes and hangs no caller |
| `MCSession_faults` | all calls, 2 in a row, all faults | `TypeOK`, `OnlyWriteMisreads`, `ServerEnds` | whatever the client gives up waiting for, the server misreads its stream only if a WRITE is involved or the last handler left a part of its own request, and its process ends (or stops at bytes that are no command) |
| `MCConnection_little` | little-endian, 2 FUSE threads, 3 calls, 3 descriptors, `Slow` | `TypeOK`, `StreamsWhole`, `CloseOnce`, `NoOrphan`, `DestroyTerminates` | threads do not interfere, `agfs_destroy` returns |
| `MCConnection_big` | big-endian, 1 FUSE thread, 2 calls, 3 descriptors | `NeverReplaced`, `LostServerNoticed`, `Reconnects` | a lost server is noticed, and got back to |
| `MCNamespace_namespace` | 2 servers, 1 name, 1 open file, 2 changes | `TypeOK`, `ListedIsFound`, `ListedOpens`, `ListingIsExact`, `FoundIffThere`, `OpensTheOnlyOne`, `NamedServerAnswers` | the handlers agree about names: what readdir lists is found and opened where it was listed, except for a file whose name is a directory elsewhere; no file is lost or doubled; no server stands in for another |
| `MCAgfsd_agfsd` | 2 clients, 2 keys for 1 user and 2 mount points | `TypeOK`, `KeyOpensItsMount`, `ListedKeyIsKnown`, `EveryClientAnswered`, `ConnectionsEnd` | keys can be added while children read the list; the accept loop serves or turns away everybody; no child that comes later keeps an earlier connection open |
| `MCTransfer_transfer` | 3 calls on a file of 1 byte, buffers of 0 to 3, offsets of 0 to 3, 2 descriptors, a disk that is full now and then, failing reads, short reads of the client | `TypeOK`, `ReadIsFile`, `WrittenIsThere`, `OnlyItsRange`, `TransfersEnd` | partial reads and writes put every byte where it belongs, and the count returned says how many are there |

Runs that TLC finds violated; each states what the repository says of the program:

| run | property | what happens |
|---|---|---|
| `MCSession_stale_answer` | `NoStaleAnswer` | a late answer is returned by the next call |
| `MCSession_short_read` | `SuccessIsWhole` | READ returns a buffer of which only the first part was read |
| `MCConnection_unnoticed` | `LostServerNoticed` | on a little-endian machine `heartbeat()` never takes a timeout for one |
| `MCConnection_reopened` | `ClosedMeansEnded` | the heartbeat thread dials after `stop()` |
| `MCNamespace_named_server` | `OnlyNamedServer` | `agfs_getattr` answers for `name{:server:}` with another server's file when that server is not connected; the other handlers do not (TLC's shortest trace has the root, `{:server:}`, for which it is the same) |

The findings in `PROJECT.json` quote the line each one contradicts. Other
instances, for which there is no configuration here, show more:

- `Session` with one fault at a time, and all calls, two in a row. With `"diskFull"`
  `StreamsFramed` fails, as `processWrite` returns in the middle of the data and the
  rest is taken for commands; with `"tornRequest"` it fails without a WRITE. With
  `"timeout"` `ParamsOnlyIfOpened` fails (`writeFile` takes a first error that timed
  out for success), and with `"shortRead"` too (it takes bytes of the last READ's data
  for one), as does `NoStaleAnswer`. `SuccessIsWhole` fails with
  every fault: with `"silence"` a call to a server that has closed the session
  returns what its variable started with, with `"dirChange"` `processReaddir` counts
  the entries in one pass and sends them in another.
- `Connection` with `Daemon = TRUE` (big-endian): `LostServerNoticed` fails, as the
  process in the background has no heartbeat thread (no run has `Daemon`). With `BigEndian = TRUE` and
  more than one call `StreamsWhole` fails (a FUSE thread writes its command into the
  handshake of `connect()`), and `CloseOnce` and `NoOrphan` do: `stop()` and
  `connect()` can both close the descriptor that both have read, and one that
  `connect()` has just been given can be overwritten by `stop()`.
- `Namespace`: `FoundSomewhere` fails. With no server connected `agfs_getattr` returns
  success and a stat of zeroes, because its variable starts at 0.
- `Agfsd` with `SpacedMounts`: `KeyOpensItsMount` fails. A mount point with spaces is
  more words than the reader of the list takes; it is misaligned from there on.

One error hides another here. On a little-endian machine the heartbeat never
drops a connection, so the heartbeat thread dials only after `stop()`, when no
FUSE thread is left: that is why `MCConnection_little` passes. Repairing
`agfs_read_cmd` alone (the mutant `ReadCmdIfStored`) brings the races of
`connect()` to every machine.

### Bounds

- `MaxCalls`: all that one call leaves to the next is in the two streams, and a
  leftover is met by the very next read, so two calls in a row show every
  interference of two, and a third one the effect of that on a healthy call.
- In `Session` a directory has one entry or none, a file's data is one field or none: the
  loops over entries and data read the same fields again, and the cases that
  differ are none, one and a count that does not match.
- Errors are kept as signs: no code of the two components compares them with
  anything but 0 (`min(read(), error)` in `readFile` is modelled case by case).
- `MaxFds`: one descriptor in use, one leaked or about to be used, and one more.
- Two FUSE threads, because any number of them queue for one monitor. No symmetry
  is used: liveness is checked on the same instances.
- `beatsMissed` is not scaled down: its limit is the code's.
- `Namespace`: a suffix is about a name that one server or more than one has, so two
  servers give every case, and names do not interact. Two changes are enough for a
  server to be lost and come back within a handler, or for a file to move from
  one server to the other. (`Namespace_proofs` has no bounds.)
- `Agfsd`: a client whose key is being listed while another's is read; a child that
  is forked when an earlier one has ended or still serves; a `fork()` that fails for
  either. The keys differ in their mount points.
- `Transfer`: three bytes have every division into parts, with a first, a middle
  and a last one; with a file of one byte every offset occurs: before its end, at
  it, and behind it by one and by two, so that a hole is left and read by the
  next call; the third call finds no descriptor left.

### Fairness

`Session`: weak fairness of the client's reads and of the server as a whole. A
thread inside a method and a server process keep running; nobody has to make
another call. `Connection`: weak fairness of every step of a thread that waits
for nobody, and strong fairness of `Enter`, `Beat` and `EnterStop`, which wait for
the monitor. `std::mutex` promises no fairness, but its holders leave it alone
between calls: the heartbeat thread sleeps for five seconds between two beats, and
the kernel sends a bounded number of requests. No fairness of calls, `Unmount`,
`Crash`, `Restart` or `Lapse`. `Agfsd`: weak fairness of `agfsd`'s loop (`Main`, of
whichever connection comes next) and of each child (`Constructor`), which are
processes that run; none of agfs-keygen, of clients, or of the end of a session. `Transfer`: weak fairness of the transfer as a whole; no
error has to occur and nobody has to make room. `Namespace` has no
liveness property and no fairness: that every method returns is `CallsReturn`.
`Reconnects` assumes that the server stays up and has the client's key, and
that failed attempts have not used up the descriptors of the process.

## 4. The proofs

Proved for every value of the constants that the named assumptions allow
(`BigEndianAssumption`, `SessionAssumption`, `ConnectionAssumption`,
`HostAssumption`, `NamesAssumption`, `AgfsdAssumption`, `TransferAssumption`): any
number of calls, any set of faults, any number of FUSE threads, descriptors,
servers, names, keys, clients and changes, files and buffers of any size. Where a
theorem needs more, its hypothesis is named here.

- `Session_proofs!TypeCorrect`: `Spec => []TypeOK`. `TypeOK` is not inductive:
  that a method that reads expects a field, and that the server is closed for good
  once `beatsMissed_` has passed its limit, are further conjuncts of `TypeInv`.
- `Session_proofs!OnlyWriteIsMisread`: `Spec => []OnlyWriteMisreads`. The inductive
  invariant `FramedInv` says that before the key is checked the client is inside
  `connect()` or has given up, that afterwards every unit on its way to the server
  is a request, a STOP or belongs to a WRITE, except that the first may be what the
  last handler left of its own request, and that the server waits for parameters
  only in `processWrite`. It does not mention the replies: a client may be as far
  behind as it likes, and may take any bytes for its answer.
- `SessionCalls_proofs`: what a call gets while every read and every write is whole
  and in time. The hypothesis of all five theorems is `Calm`, that `silence` is the
  only fault: the server may give its client up, and may end. The inductive
  invariant `PhaseInv` lists the phases of a call, each with all that the two
  streams hold in it: `connect()` under way; between calls; the request not yet
  taken; the first part of the reply sent (`InBody`, `InParams`); the rest of the
  reply there, from the field the method reads next (`Answered`, seven cases); and a
  server that was gone before. The invariants of the run are too weak to be
  inductive, since each speaks of one moment. One lemma for each phase (`FromIdle`,
  `FromInBody`, ...) shows where a step can lead.

  | theorem | property |
  |---|---|
  | `NoneIsStale` | `NoStaleAnswer` |
  | `ParamsAskedFor` | `ParamsOnlyIfOpened` |
  | `OwnOutcomes` | `ReturnsOwnOutcome` |
  | `QuietBetweenCalls` | `QuietWhenIdle` |
  | `BothStreamsFramed` | `StreamsFramed` |

  The hypothesis cannot be weakened: under each of the other five faults alone TLC
  finds each of these properties violated, with two calls of any kind. The one
  exception is `NoStaleAnswer` with `tornRequest` or `diskFull`, for which TLC finds
  no violation: what these spoil is the server's stream, and a server in `misread`
  answers no more in this model.
- `RemoteCall_proofs!CallsAreRemote`: `Spec => Abstract!RSafety` under the same
  hypothesis (with any other fault alone TLC finds it violated). `RSafety` is
  `RemoteCall` without its fairness. A step of the server that changes `answered` is `Execute`, one that
  closes the session is `Perish`, and the return of a method is `Connect`, `Respond`
  or `Fail`; all other steps stutter. Which of them it is follows from `PhaseInv`
  before and after the step: the server executes only a call it owes an answer
  (`BusyOwes`), does not end while it owes one (`OwingServerLives`), and a heartbeat
  that was answered never hangs up (`AnsweredStays`).
- `Connection_proofs!TypeCorrect`: `Spec => []TypeOK`.
- `Connection_proofs!LittleStreamsWhole`, `LittleCloseOnce`, `LittleNoOrphan`: on a
  little-endian machine, `Spec => []StreamsWhole` and so on. The invariant
  `LittleInv` has four parts: who may hold the monitor (`MonitorInv`), that the
  first socket stays in place until `stop()` has it (`FirstInv`, which rests on
  `NoneIsNeverHeard`: the NONE a heartbeat starts from cannot come out of a read),
  what a dialling heartbeat thread knows (`DialInv`), and what the server's next
  read meets (`StreamInv`). On a big-endian machine all three fail (section 3).
- `Connection_proofs!ConnectionKept`: `Spec => NeverReplaced`, in either byte order.
  Only `Dial` puts a descriptor into `socket_` (`SocketSteps`), and from
  `connected()` to `::connect` no other thread can have made a connection
  (`DownInv`).
- `Namespace_proofs`: `TypeCorrect` and all six invariants of the run. They rest on
  two lemmas about names (`PlainAmbiguate`, `SuffixedAmbiguate`: `ambiguate` takes
  off what `disambiguatedFilepaths` appends, and nothing else) and on five
  inductive invariants, one for each thing a handler builds up:
  `NamedInv` (what is left to ask, what was answered and what handles remember
  belong to the server the path names) gives `NamedServerAlone`; `GetInv` (while
  nothing changes no server that has been asked has the file, or the search is over)
  gives `GetattrFinds`; `ListInv` (`found` is what the servers asked so far have, and
  `listed` the disambiguation of what all have) gives `ListingExact` and, with
  `GetInv`, `ListedFound`; `OpenInv` (`checkExistance` collects exactly the servers
  that have the file, and an open file is one of `Target`) gives `OpensOnlyOne` and,
  with `ListInv`, `ListedOpen`. Both `ListedFound` and `ListedOpen` also say what
  happens to a name that clashes (section 2): it gets no suffix, so that its path
  names no server (`SuffixedNoClash`) and the answer is that of the first server in
  the map, or of none.
- `Agfsd_proofs`: `TypeCorrect`; `KeysOpenTheirMounts` and `ListedKeysAreKnown`, both
  under the hypothesis `OneWord` that no mount point has a space in it (with one that
  has, the run shows the first to fail). `LinesInv` says that the list
  consists of lines of three words, each what its key was made for; `ReaderInv` that a
  child starts every round at a line and meets the end of the list only there, so
  that what it compares is a whole line; `KnownInv` that the client's key lies
  ahead of the child until it has been read. `EndedAreClosed` needs no hypothesis:
  by `HoldInv` the parent has at most one connection open, the one it is dealing
  with, so that a child inherits that one and no other, and has it only while it
  runs. (The mutant `CloseWhenIdle` of the parent's `close()` shows what happens
  otherwise: a later child keeps the connection of an earlier one open.)
- `Transfer_proofs`: `TypeCorrect`, `ReadsTheFile`, `WritesItsBytes` and
  `KeepsToItsRange` are the four invariants of the run. `TransferInv` adds the loop
  invariants: `Reading` (`buf` is the part of the file between the offset and the
  position), `Writing` (`Placed`: the bytes counted are in the file from the offset
  on, in order, and are the first ones unless a short `write()` was followed by
  another) and `Holding` (a handler has a descriptor). The lemmas are about parts
  of sequences: two reads in a row are one (`PartGrows`), and what a `write()` at any
  position leaves of a file, hole included (`OverwriteIs`, `WriteSomeIs`).

Model-checked only: the liveness properties (`CallsReturn`, `ServerEnds`,
`LostServerNoticed`, `Reconnects`, `DestroyTerminates`, `EveryClientAnswered`,
`TransfersEnd`) and the liveness half of `ImplementsRemoteCall`:
TLAPS has no rules for `ENABLED`, on which fairness rests. Every safety property
of a passing run is a theorem.

## 5. What is not modelled

- The bytes of stats, strings and masks. What the server makes of bytes that are no
  command, and the client of a count or a length that is none, is the end of
  `Session` (`misread`), and `ServerEnds` counts it as one. A handler that has read a
  part of a path answers for another path; that it does is not looked at further.
- Permissions of the server's file system, and `setuid` in the constructor. (That
  `directory_iterator` throws, `agfs-server.cpp:241`, is modelled for a directory that
  is gone, with `dirChange`; a directory that may not be opened does the same.)
- A server that refuses a client that reconnects with an intact key (`Connection`):
  an account or a mount point that has been removed meanwhile.
- File names on a server that contain `{:` or `:}`: `ambiguate` takes them for a
  suffix, so that such a file is listed and not found. Directories inside the root: they are
  asked for by the same handlers with a longer path.
- Two key files with one host name (`agfs.cpp:615`): the second connection is made
  and dropped by `map::insert`, and no handler ever sees it.
- The local handlers of agfs (readlink, mknod, mkdir, ...): each passes its path to
  one system call on the client's own machine.
- `openPort` of `agfsd.cpp`, which runs once before the accept loop.
- That a key is random: `DrawKey` takes one that has not been drawn.
- `agfs-client.cpp`, which the Makefile does not build, and the option processing,
  which is commented out.

## 6. Plan

1. Done: all the modules of section 2, their runs and the theorems of section 4.
2. Done: the invariants of a session, the refinement of `RemoteCall` up to its
   liveness, `NeverReplaced`, and the loops of `Transfer`.
   Done as well: torn requests and torn replies in `Session`, the client's read,
   holes and gaps in `Transfer`, what later children inherit in `Agfsd`.
3. Next: what the liveness properties rest on and can be stated without fairness:
   that every step of the loops of `Transfer`, of `Agfsd`'s children and of a
   ServerConnection method in progress makes something smaller, as action properties.
4. Then: what is left of `Connection` on big-endian machines, where the races of
   `connect()` are, for a client with one FUSE thread that makes no second call.
