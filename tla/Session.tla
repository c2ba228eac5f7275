------------------------------ MODULE Session ------------------------------
(***************************************************************************)
(* One AgFS session: a client-side ServerConnection, whose monitor lets    *)
(* one call at a time use the socket, and the agfsd child process that     *)
(* serves it (ClientConnection), over one TCP connection.                  *)
(*                                                                         *)
(* No message carries its length, a request number or a delimiter: each    *)
(* side reads the fields it expects, of the widths it expects, from        *)
(* whatever comes next.  `up' holds what the client wrote and the server   *)
(* has not read, `down' the reverse.  A request is written without reading *)
(* anything in between, so it is one unit of `up', of which a handler may  *)
(* leave a part unread; replies are kept field by field because the        *)
(* client's read of each may time out on its own.                          *)
(* Every field is tagged with the number of the call it answers.  The tag  *)
(* is a history variable: no guard reads it.                               *)
(*                                                                         *)
(* A read of the client that meets a field of another width takes bytes of *)
(* it, and of the fields behind it, for the value it expects, and the      *)
(* method goes on with that value.  "misread" is where this model stops:   *)
(* the server with bytes that are no command (or no parameters) where it   *)
(* reads one, the client with a length or a count that is none, for which  *)
(* it cannot allocate memory or over which it loops.                       *)
(*                                                                         *)
(* The integers of a request or a reply (at most eight bytes) are read     *)
(* whole or not at all.                                                    *)
(***************************************************************************)
EXTENDS AgfsIO, Sequences

CONSTANTS
  Calls,     \* the FUSE calls made through this connection
  MaxCalls,  \* how many calls are made in all, heartbeats included
  Faults     \* what the environment may do, a subset of FaultKinds

FuseCalls == {"GETATTR", "ACCESS", "READDIR", "READ", "WRITE", "OPEN"}

FaultKinds ==
  { "timeout",    \* an answer takes longer than CLIENT_BLOCK_SEC to arrive
    "silence",    \* no command comes for SERVER_BLOCK_SEC, more than five times
    "shortRead",  \* the client's read() returns a first part of what it asks for
    "tornRequest",\* the server's read() inside a request returns a first part of
                  \* what it asks for, or nothing within SERVER_BLOCK_SEC
    "dirChange",  \* a directory changes while the server is listing it
    "diskFull" }  \* write() on the server's file fails

ASSUME SessionAssumption ==
  /\ Calls \subseteq FuseCalls
  /\ MaxCalls \in Nat
  /\ Faults \subseteq FaultKinds

VARIABLES
  up,         \* units in flight from the client to the server
  down,       \* fields in flight from the server to the client
  cliPc,      \* the client: "reading" a reply, "idle", "closed" or "misread"
  call,       \* the call in progress, or the last one
  callId,     \* its number; 0 is the handshake of connect()
  expect,     \* the kinds of the fields the call has still to read
  error,      \* the sign of its variable error
  sources,    \* the calls whose fields it has read, 0 for a read of nothing
  returned,   \* the last call that returned, and what it was built from
  srvPc,      \* the server: "auth", "loop", "body", "params", "closed", "misread"
  srvCall,    \* the command in progress in a handler, or the last one
  srvId,      \* its number
  srvError,   \* the sign of the handler's variable error
  answered,   \* the last command whose outcome the server has sent
  beatsMissed \* beatsMissed_

cliVars == <<cliPc, call, callId, expect, error, sources, returned>>
srvVars == <<srvPc, srvCall, srvId, srvError, answered, beatsMissed>>
vars    == <<up, down, cliVars, srvVars>>

Commands == FuseCalls \cup {"HEARTBEAT", "CONNECT", "STOP"}
Units    == {"key", "request", "params", "rest", "stop"}
Kinds    == {"cmd", "err", "size", "stat", "data", "entry", "bytes"}

Messages == [unit : Units, call : Commands, id : Nat]
Fields   == [kind : {"cmd"}, val : Nat, id : Nat]
              \cup [kind : Kinds \ {"cmd"}, val : Signs, id : Nat]

Unit(u, c, i)  == [unit |-> u, call |-> c, id |-> i]
Field(k, v, i) == [kind |-> k, val |-> v, id |-> i]

\* beatsMissed_ > 5 closes the session.
MaxMissed == 5

TypeOK ==
  /\ up \in Seq(Messages)
  /\ down \in Seq(Fields)
  /\ cliPc \in {"reading", "idle", "closed", "misread"}
  /\ call \in Commands
  /\ callId \in 0..MaxCalls
  /\ expect \in Seq(Kinds)
  /\ error \in Signs
  /\ sources \subseteq Nat
  /\ returned \in [id : Nat, call : Commands, val : Signs, src : SUBSET Nat]
  /\ srvPc \in {"auth", "loop", "body", "params", "closed", "misread"}
  /\ srvCall \in Commands
  /\ srvId \in Nat
  /\ srvError \in Signs
  /\ answered \in [id : Nat, val : Signs]
  /\ beatsMissed \in 0..(MaxMissed + 1)

-----------------------------------------------------------------------------
(* What both ends know of a command.                                       *)

Replies == [READ |-> <<"size", "data">>, READDIR |-> <<"size", "entry">>,
            WRITE |-> <<"err", "size">>, GETATTR |-> <<"stat">>]

\* Mutant of Body: getattr() does not read the stat.
BodyWithoutStat(c) ==
  IF c \in DOMAIN Replies \ {"GETATTR"} THEN Replies[c] ELSE <<>>

\* The fields that follow a non-negative error.
Body(c) == IF c \in DOMAIN Replies THEN Replies[c] ELSE <<>>

\* Errors and sizes are both eight bytes, so one can be read as the other.
Fits(kind, f) == kind = f.kind \/ {kind, f.kind} = {"err", "size"}

\* What a read that stopped inside field f leaves of it.
Bytes(f) == Field("bytes", 0, f.id)

\* What the handler leaves of a request, or of WRITE's parameters, when one of
\* its reads stopped inside.
Unread == <<[Head(up) EXCEPT !.unit = "rest"]>> \o Tail(up)

\* A client that writes to a connection the server has closed loses the bytes,
\* and so does the server in the other direction.
ToServer(units)  == up'   = IF srvPc = "closed" THEN up   ELSE up \o units
ToClient(fields) == down' = IF cliPc = "closed" THEN down ELSE down \o fields

Init ==
  /\ up = <<Unit("key", "CONNECT", 0)>>
  /\ down = <<>>
  /\ cliPc = "reading" /\ call = "CONNECT" /\ callId = 0
  /\ expect = <<"cmd">> /\ error = 0 /\ sources = {}
  /\ returned = [id |-> 0, call |-> "CONNECT", val |-> 0, src |-> {0}]
  /\ srvPc = "auth" /\ srvCall = "CONNECT" /\ srvId = 0 /\ srvError = 0
  /\ answered = [id |-> 0, val |-> 0]
  /\ beatsMissed = 0

-----------------------------------------------------------------------------
(* The client.                                                             *)

\* A ServerConnection method sends its command and its parameters.
Invoke(c) ==
  /\ cliPc = "idle"
  /\ callId < MaxCalls
  /\ call' = c
  /\ callId' = callId + 1
  /\ ToServer(<<Unit("request", c, callId')>>)
  /\ expect' = IF c = "HEARTBEAT" THEN <<"cmd">> ELSE <<"err">>
  /\ error' = 0
  /\ sources' = {}
  /\ cliPc' = "reading"
  /\ UNCHANGED <<down, returned, srvVars>>

\* stop(): the command, then close().
Stop ==
  /\ cliPc = "idle"
  /\ ToServer(<<Unit("stop", "STOP", callId)>>)
  /\ cliPc' = "closed"
  /\ UNCHANGED <<down, call, callId, expect, error, sources, returned, srvVars>>

\* The call returns: value v, last field from `from'.
Return(v, from) ==
  /\ cliPc' = "idle"
  /\ expect' = <<>>
  /\ error' = v
  /\ sources' = sources \cup {from}
  /\ returned' = [id |-> callId, call |-> call, val |-> v,
                  src |-> sources \cup {from}]

\* A length or a count that is none.
Misread ==
  /\ cliPc' = "misread"
  /\ UNCHANGED <<expect, error, sources, returned>>

\* The call goes on to read `rest'.
ReadOn(rest, v, from) ==
  /\ cliPc' = "reading"
  /\ expect' = rest
  /\ error' = v
  /\ sources' = sources \cup {from}
  /\ UNCHANGED returned

\* close(socket_), socket_ = -1.
HangUp ==
  /\ cliPc' = "closed"
  /\ UNCHANGED <<expect, error, sources, returned>>

\* In writeFile the second error is read after the parameters were sent.
ParamsSent == call = "WRITE" /\ Len(expect) > 1

\* What is left of the reply after an error that is not negative.
Rest == IF ParamsSent THEN Tail(expect) ELSE Body(call)

\* writeFile sends SIZE, OFFSET and DATA; write() on the socket can fail once
\* the server has closed its end.
SendParams(v, from) ==
  \/ ReadOn(Rest, v, from) /\ ToServer(<<Unit("params", call, callId)>>)
  \/ srvPc = "closed" /\ Return(-1, from) /\ UNCHANGED up

\* Mutant of AfterError: writeFile does not look at its first error.
AfterErrorUnchecked(v, from) ==
  IF call = "WRITE" /\ ~ ParamsSent THEN SendParams(v, from)
  ELSE IF v < 0 \/ Rest = <<>> THEN Return(v, from) /\ UNCHANGED up
  ELSE ReadOn(Rest, v, from) /\ UNCHANGED up

\* An error has been read, or left as it was: return it, send WRITE's
\* parameters, or read the rest of the reply.
AfterError(v, from) ==
  IF v < 0 \/ Rest = <<>> THEN Return(v, from) /\ UNCHANGED up
  ELSE IF call = "WRITE" /\ ~ ParamsSent THEN SendParams(v, from)
  ELSE ReadOn(Rest, v, from) /\ UNCHANGED up

\* The commands after which connect() and heartbeat() close the socket.
Refused(cmd) == IF call = "CONNECT" THEN cmd # ACCEPT ELSE cmd = NONE

AfterCmd(cmd, from) ==
  /\ IF Refused(cmd) THEN HangUp ELSE Return(0, from)
  /\ UNCHANGED up

\* readFile returns min(read(), error), here of a read of no bytes.
NoData == IF call = "READ" THEN 0 ELSE error

\* A size has been read.  Only WRITE's is the last field: a count that the call
\* returns.  READ resizes its buffer to it, READDIR reads as many entries.
AfterSize(v, from) ==
  /\ IF v = 0 \/ Len(expect) = 1 THEN Return(NoData, from)
     ELSE IF v < 0 THEN Misread
     ELSE ReadOn(Tail(expect), error, from)
  /\ UNCHANGED up

\* The last field of a reply.
Last == {"stat", "data", "entry"}

ReceiveField ==
  /\ cliPc = "reading" /\ down # <<>>
  /\ LET f    == Head(down)
         kind == Head(expect)
     IN /\ Fits(kind, f)
        /\ \/ /\ kind = "cmd" /\ down' = Tail(down)
              /\ AfterCmd(ReadCmd(TRUE, f.val, NONE), f.id)
           \/ /\ kind = "err" /\ down' = Tail(down)
              /\ AfterError(f.val, f.id)
           \/ /\ kind = "size" /\ down' = Tail(down)
              /\ AfterSize(f.val, f.id)
           \/ /\ kind \in Last /\ down' = Tail(down)
              /\ Return(error, f.id)
              /\ UNCHANGED up
  /\ UNCHANGED <<call, callId, srvVars>>

\* readFile makes one read() for the data, sizes its buffer by the size field
\* and returns it whole; agfs_read_string makes one read() for a name, whatever
\* that returns; agfs_read_stat stops at the first of its six that fails.  What
\* was not read stays in the socket, and the length of the next name, read from
\* there, is none.
ReceivePart ==
  /\ cliPc = "reading" /\ down # <<>>
  /\ LET kind == Head(expect)
     IN /\ Head(down).kind = kind
        /\ \/ "shortRead" \in Faults /\ kind \in {"data", "entry"}
           \/ "timeout" \in Faults /\ kind \in {"stat", "entry"}
        /\ \/ Return(error, 0)
           \/ kind = "entry" /\ Misread
  /\ down' = <<Bytes(Head(down))>> \o Tail(down)
  /\ UNCHANGED <<up, call, callId, srvVars>>

\* What is left behind a read that took bytes of the first n fields, or also of
\* the one after them.
SkipBytes ==
  \E n \in 0..Len(down) :
    LET rest == SubSeq(down, n + 1, Len(down))
    IN \/ n > 0 /\ down' = rest
       \/ rest # <<>> /\ down' = <<Bytes(Head(rest))>> \o Tail(rest)

\* A read that meets a field of another width: the value it stores is made of
\* that field's bytes.
ReceiveTorn ==
  /\ cliPc = "reading" /\ down # <<>>
  /\ LET kind == Head(expect)
         from == Head(down).id
     IN /\ ~ Fits(kind, Head(down))
        /\ \/ kind = "cmd" /\ \E cmd \in {NONE, ACCEPT} : AfterCmd(cmd, from)
           \/ kind = "err" /\ \E v \in Signs : AfterError(v, from)
           \/ kind = "size" /\ \E v \in Signs : AfterSize(v, from)
           \/ kind \in Last /\ Return(error, from) /\ UNCHANGED up
           \/ kind = "entry" /\ Misread /\ UNCHANGED up
  /\ SkipBytes
  /\ UNCHANGED <<call, callId, srvVars>>

\* The server will write nothing more before the client does.
NothingComing ==
  \/ srvPc \in {"closed", "misread"}
  \/ srvPc \in {"loop", "params"} /\ up = <<>>

\* The values of `error' that a call goes on with when agfs_read_error stored
\* nothing: ACCESS reads into an uninitialised variable; writeFile reads its
\* second error into the count of the last write(); all others start at 0.
ErrorsLeft ==
  IF call = "ACCESS" THEN Signs
  ELSE IF ParamsSent THEN UNION {Be64Signs(s) : s \in {0, 1}}
  ELSE Be64Signs(0)

\* A read() that returns 0 or -1.  Every caller but connect() and heartbeat()
\* ignores it and goes on with what its variable holds.
ReceiveNothing ==
  /\ cliPc = "reading" /\ down = <<>>
  /\ "timeout" \in Faults \/ NothingComing
  /\ LET kind == Head(expect)
     IN \/ /\ kind = "cmd"
           /\ AfterCmd(ReadCmd(FALSE, NONE, NONE), 0)
        \/ /\ kind = "err"
           /\ \E v \in ErrorsLeft : AfterError(v, 0)
        \/ /\ kind = "size"
           /\ Return(NoData, 0)
           /\ UNCHANGED up
        \/ /\ kind \in {"stat", "entry"}
           /\ Return(error, 0)
           /\ UNCHANGED up
        \/ \* min(read(), error): -1 on a timeout, also 0 once the server closed
           /\ kind = "data"
           /\ \E v \in {-1} \cup (IF srvPc = "closed" THEN {0} ELSE {}) : Return(v, 0)
           /\ UNCHANGED up
  /\ UNCHANGED <<down, call, callId, srvVars>>

ClientRead == ReceiveField \/ ReceivePart \/ ReceiveTorn \/ ReceiveNothing

ClientStep ==
  \/ \E c \in Calls \cup {"HEARTBEAT"} : Invoke(c)
  \/ Stop
  \/ ClientRead

-----------------------------------------------------------------------------
(* The server.                                                             *)

\* The constructor checks the key and processCommands sends ACCEPT; or the
\* constructor refuses and closes.
Authenticate ==
  /\ srvPc = "auth" /\ up # <<>>
  /\ up' = Tail(up)
  /\ \E cmd \in {ACCEPT, INVALID_KEY, USER_NOT_FOUND, MOUNT_NOT_FOUND} :
       /\ ToClient(<<Field("cmd", WriteCmd(cmd), 0)>>)
       /\ srvPc' = IF cmd = ACCEPT THEN "loop" ELSE "closed"
  /\ UNCHANGED <<cliVars, srvCall, srvId, srvError, answered, beatsMissed>>

\* fork() fails in agfsd and the parent closes the connection.
ForkFails ==
  /\ srvPc = "auth"
  /\ srvPc' = "closed"
  /\ UNCHANGED <<up, down, cliVars, srvCall, srvId, srvError, answered, beatsMissed>>

Receives(unit) == up # <<>> /\ Head(up).unit = unit

ServeStop ==
  /\ srvPc = "loop" /\ Receives("stop")
  /\ up' = Tail(up)
  /\ srvPc' = "closed"
  /\ UNCHANGED <<down, cliVars, srvCall, srvId, srvError, answered, beatsMissed>>

\* processHeartbeat
ServeHeartbeat ==
  /\ srvPc = "loop" /\ Receives("request") /\ Head(up).call = "HEARTBEAT"
  /\ up' = Tail(up)
  /\ srvCall' = "HEARTBEAT" /\ srvId' = Head(up).id /\ srvError' = 0
  /\ answered' = [id |-> srvId', val |-> 0]
  /\ ToClient(<<Field("cmd", WriteCmd(HEARTBEAT), srvId')>>)
  /\ UNCHANGED <<cliVars, srvPc, beatsMissed>>

\* READ sends the count of bytes read as its error, the others send 0.
Outcomes(c) == IF c = "READ" THEN Signs ELSE {-1, 0}

\* Mutant of AfterFirstError: processWrite does not return after an error.
AfterFirstErrorUnchecked(c, v) ==
  IF c = "WRITE" THEN "params"
  ELSE IF v < 0 \/ c \in {"ACCESS", "OPEN"} THEN "loop" ELSE "body"

\* Mutant of AfterFirstError: processRead reads SIZE and OFFSET after its error,
\* as processWrite does.
AfterFirstErrorLikeWrite(c, v) ==
  IF v < 0 \/ c \in {"ACCESS", "OPEN"} THEN "loop"
  ELSE IF c \in {"WRITE", "READ"} THEN "params" ELSE "body"

\* Where a handler goes once it has written its first error.
AfterFirstError(c, v) ==
  IF v < 0 \/ c \in {"ACCESS", "OPEN"} THEN "loop"
  ELSE IF c = "WRITE" THEN "params" ELSE "body"

\* processGetAttr, processAccess, processReaddir, processRead, processWrite and
\* processOpen up to the write of their first error.  Their reads of the path and
\* of what follows it are not checked: after one that stopped inside the path the
\* handler answers for another path, and the last bytes of the request are left.
ServeCall ==
  /\ srvPc = "loop" /\ Receives("request") /\ Head(up).call \in FuseCalls
  /\ \/ up' = Tail(up)
     \/ "tornRequest" \in Faults /\ up' = Unread
  /\ srvCall' = Head(up).call /\ srvId' = Head(up).id
  /\ srvError' \in Outcomes(srvCall')
  /\ ToClient(<<Field("err", srvError', srvId')>>)
  /\ srvPc' = AfterFirstError(srvCall', srvError')
  /\ answered' = IF srvPc' = "params" THEN answered
                 ELSE [id |-> srvId', val |-> srvError']
  /\ UNCHANGED <<cliVars, beatsMissed>>

\* A count, and the one item that follows it unless there is none.
Counted(count, kind, items) ==
  IF items = 0 THEN <<Field("size", count, srvId)>>
  ELSE <<Field("size", count, srvId), Field(kind, 0, srvId)>>

\* A handler throws what nobody catches: buf.resize() in processRead, whose SIZE was
\* read from the bytes of the path; directory_iterator in processReaddir, if the
\* directory is gone before its first pass over it, or between the two.
HandlerThrows ==
  /\ \/ /\ "tornRequest" \in Faults
        /\ srvPc = "loop" /\ Receives("request") /\ Head(up).call = "READ"
        /\ UNCHANGED down
     \/ /\ "dirChange" \in Faults
        /\ srvPc = "body" /\ srvCall = "READDIR"
        /\ UNCHANGED down \/ \E count \in {0, 1} : ToClient(Counted(count, "entry", 0))
  /\ srvPc' = "closed"
  /\ UNCHANGED <<up, cliVars, srvCall, srvId, srvError, answered, beatsMissed>>

\* The second part of processGetAttr, processRead and processReaddir, which
\* counts the entries in one pass and sends them in another.
ServeBody ==
  /\ srvPc = "body"
  /\ \/ srvCall = "GETATTR" /\ ToClient(<<Field("stat", 0, srvId)>>)
     \/ srvCall = "READ" /\ ToClient(Counted(srvError, "data", srvError))
     \/ /\ srvCall = "READDIR"
        /\ \E count, items \in {0, 1} :
             /\ count = items \/ "dirChange" \in Faults
             /\ ToClient(Counted(count, "entry", items))
  /\ srvPc' = "loop"
  /\ UNCHANGED <<up, cliVars, srvCall, srvId, srvError, answered, beatsMissed>>

\* What processWrite sends at the end: its error and, unless that is negative,
\* the count of bytes written.
WriteOutcome(v) ==
  /\ srvError' = v
  /\ answered' = [id |-> srvId, val |-> v]
  /\ ToClient(IF v < 0 THEN <<Field("err", v, srvId)>>
              ELSE <<Field("err", v, srvId), Field("size", v, srvId)>>)

\* processWrite reads SIZE, OFFSET and DATA and writes the data as it comes.
ServeParams ==
  /\ srvPc = "params" /\ Receives("params")
  /\ srvPc' = "loop"
  /\ \/ \* all of it written; 0 is a write of no bytes
        /\ \E v \in {0, 1} : WriteOutcome(v)
        /\ up' = Tail(up)
     \/ \* write() fails: return at once, whatever data is still to come
        /\ "diskFull" \in Faults
        /\ WriteOutcome(-1)
        /\ up' = Tail(up) \/ up' = Unread
     \/ \* a read() times out before the last of the data has come
        /\ "tornRequest" \in Faults
        /\ \E v \in Signs : WriteOutcome(v)
        /\ up' = Unread
  /\ UNCHANGED <<cliVars, srvCall, srvId, beatsMissed>>

\* The client gave WRITE up: both sizes are left at 0 after SERVER_BLOCK_SEC
\* each, which is longer than any client in the middle of a WRITE waits.
ParamsExpire ==
  /\ srvPc = "params" /\ up = <<>>
  /\ ~ (cliPc = "reading" /\ call = "WRITE" /\ callId = srvId)
  /\ srvPc' = "loop"
  /\ WriteOutcome(0)
  /\ UNCHANGED <<up, cliVars, srvCall, srvId, beatsMissed>>

\* The bytes of another unit where a command or parameters are expected.
ServerMisread ==
  /\ up # <<>>
  /\ \/ srvPc = "loop" /\ Head(up).unit \in {"params", "rest", "key"}
     \/ srvPc = "params" /\ Head(up).unit # "params"
  /\ srvPc' = "misread"
  /\ UNCHANGED <<up, down, cliVars, srvCall, srvId, srvError, answered, beatsMissed>>

\* Mutant of MissBeat: the limit is off by one.
MissBeatLate ==
  /\ srvPc = "loop" /\ up = <<>>
  /\ cliPc = "closed" \/ "silence" \in Faults \/ beatsMissed < MaxMissed
  /\ beatsMissed' = beatsMissed + 1
  /\ srvPc' = IF beatsMissed > MaxMissed THEN "closed" ELSE srvPc
  /\ UNCHANGED <<up, down, cliVars, srvCall, srvId, srvError, answered>>

\* Mutant of MissBeat: the end of the stream is not counted.
MissBeatUncounted ==
  /\ srvPc = "loop" /\ up = <<>>
  /\ cliPc = "closed" \/ "silence" \in Faults \/ beatsMissed < MaxMissed
  /\ beatsMissed' = IF cliPc = "closed" THEN beatsMissed ELSE beatsMissed + 1
  /\ srvPc' = IF beatsMissed' > MaxMissed THEN "closed" ELSE srvPc
  /\ UNCHANGED <<up, down, cliVars, srvCall, srvId, srvError, answered>>

\* The command read returns nothing: a timeout, or the end of the stream.
MissBeat ==
  /\ srvPc = "loop" /\ up = <<>>
  /\ cliPc = "closed" \/ "silence" \in Faults \/ beatsMissed < MaxMissed
  /\ beatsMissed' = beatsMissed + 1
  /\ srvPc' = IF beatsMissed' > MaxMissed THEN "closed" ELSE srvPc
  /\ UNCHANGED <<up, down, cliVars, srvCall, srvId, srvError, answered>>

\* A write to a connection the client has closed raises SIGPIPE, which agfsd
\* neither handles nor ignores.
KilledByPipe ==
  /\ cliPc = "closed"
  /\ \/ srvPc = "loop" /\ Receives("request")
     \/ srvPc \in {"body", "params"}
  /\ srvPc' = "closed"
  /\ UNCHANGED <<up, down, cliVars, srvCall, srvId, srvError, answered, beatsMissed>>

ServerStep ==
  \/ Authenticate \/ ForkFails \/ ServeStop \/ ServeHeartbeat \/ ServeCall
  \/ HandlerThrows \/ ServeBody \/ ServeParams \/ ParamsExpire \/ ServerMisread \/ MissBeat
  \/ KilledByPipe

\* Both ends have stopped, or one of them is where this model stops.
Finished ==
  /\ \/ cliPc = "closed" /\ srvPc = "closed"
     \/ cliPc = "misread"
     \/ srvPc = "misread"
  /\ UNCHANGED vars

Next == ClientStep \/ ServerStep \/ Finished

\* A thread inside a ServerConnection method keeps running, and so does the
\* server process; nobody has to start another call.
Fairness == WF_vars(ClientRead) /\ WF_vars(ServerStep)

Spec == Init /\ [][Next]_vars /\ Fairness
-----------------------------------------------------------------------------
(* Properties.                                                             *)

\* Unless the server has ended, a call that returns has read its own reply and
\* nothing else, and what it returns is the outcome the server sent for that very
\* command: the pairing of the ServerConnection methods with the ClientConnection
\* handlers.
ReturnsOwnOutcome ==
  cliPc = "idle" /\ srvPc # "closed" =>
    /\ returned.id = callId /\ returned.src = {callId}
    /\ answered = [id |-> callId, val |-> returned.val]

\* Between two calls nothing is left over in the connection: every handler
\* consumes the whole request and every method the whole reply.
QuietWhenIdle == cliPc = "idle" => up = <<>> /\ down = <<>>

\* Both ends agree on the framing: what lies first in the connection is the field
\* that the method reads next, and the server finds a command where it reads one
\* and parameters where it reads parameters.
StreamsFramed ==
  /\ cliPc = "reading" /\ down # <<>> => Head(down).kind = Head(expect)
  /\ cliPc # "misread" /\ srvPc # "misread"

\* Whatever answers the client has given up, processCommands finds a command
\* where it reads one, unless a WRITE is involved (only processWrite asks for
\* parameters, and only writeFile sends them apart from their command), or the
\* bytes it meets are what its own last handler left of its request: the reads of
\* agfs_read_string are not checked.
OnlyWriteMisreads ==
  srvPc = "misread" =>
    \/ srvCall = "WRITE" \/ Head(up).call = "WRITE"
    \/ Head(up).unit = "rest" /\ Head(up).id = srvId

\* agfs-server.cpp:330: "The incoming stack will only contain parameters if the
\* first error we return indicates that that the file is on our machine."
ParamsOnlyIfOpened ==
  \A i \in 1..Len(up) :
    up[i].unit = "params" => srvPc = "params" /\ srvId = up[i].id

\* serverconnection.hpp:35: access() returns "The error code generated" for the
\* path it is given, so no method may return an answer that the server made for
\* an earlier call.
NoStaleAnswer == returned.src \subseteq {0, returned.id}

\* serverconnection.hpp:59: readFile() returns "the data that the server read
\* from the file", and serverconnection.hpp:49 readdir() "the children": a call
\* that returns success was answered, and has read the whole answer.
SuccessIsWhole == returned.val >= 0 => returned.src = {returned.id}

\* Every call returns: the methods and the handlers never wait for each other.
CallsReturn == cliPc = "reading" ~> cliPc \in {"idle", "closed"}

\* When the client is gone the server process ends, whatever answers the client
\* gave up (processCommands, beatsMissed_ > 5), or stumbles over bytes that are no
\* command: "misread" counts as ended here, because this model goes no further.
ServerEnds == cliPc = "closed" ~> srvPc \in {"closed", "misread"}

\* The abstract view of a session.
Phase ==
  CASE cliPc = "closed"                     -> "closed"
    [] cliPc = "idle"                       -> "idle"
    [] cliPc \notin {"closed", "idle"} /\ callId = 0 -> "connecting"
    [] OTHER -> IF answered.id = callId THEN "executed" ELSE "called"

Abstract ==
  INSTANCE RemoteCall WITH
    RemoteCommands <- FuseCalls \cup {"HEARTBEAT"},
    phase <- Phase, command <- call, alive <- srvPc # "closed",
    outcome <- answered.val, delivered <- returned.val

\* A session implements remote calls: the server executes each command once,
\* while its caller waits, and the caller gets that execution's outcome; a call
\* that finds the server gone returns too, and is never executed.
ImplementsRemoteCall == Abstract!RSpec
=============================================================================
