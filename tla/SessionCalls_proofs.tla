-------------------------- MODULE SessionCalls_proofs --------------------------
(***************************************************************************)
(* Theorems about the calls of a Session in which every answer comes whole *)
(* and in time: all that may go wrong is that the server ends, refuses the *)
(* client or gives it up.  The phases a call goes through, with what the   *)
(* connection holds in each of them, are the inductive invariant.          *)
(***************************************************************************)
EXTENDS Session_proofs

\* The faults that leave every read and every write whole.
Calm == Faults \subseteq {"silence"}

LEMMA CalmFaults ==
  ASSUME Calm
  PROVE  Faults \cap {"timeout", "shortRead", "tornRequest", "dirChange", "diskFull"} = {}
  BY DEF Calm

Served == FuseCalls \cup {"HEARTBEAT"}

\* The calls whose reply goes on after an error that is not negative.
Bodied == {"GETATTR", "READ", "READDIR"}

\* The field a call reads first.
First(c) == IF c = "HEARTBEAT" THEN <<"cmd">> ELSE <<"err">>

\* What this call's handler sends.
Mine(kind, v) == Field(kind, v, callId)

MyCount(count, kind, items) ==
  IF items = 0 THEN <<Mine("size", count)>>
  ELSE <<Mine("size", count), Mine(kind, 0)>>

\* The server will never answer anything again.
Gone == srvPc = "closed" /\ up = <<>>

\* The server waits for a command, or is gone.
Settled == up = <<>> /\ srvPc \in {"loop", "closed"}

Key == <<Unit("key", "CONNECT", 0)>>

-----------------------------------------------------------------------------
(* The phases.                                                             *)

\* connect() has sent its key.
Connecting ==
  /\ cliPc = "reading" /\ call = "CONNECT" /\ callId = 0 /\ expect = <<"cmd">>
  /\ sources = {} /\ answered = [id |-> 0, val |-> 0] /\ returned.val = 0
  /\ \/ srvPc = "auth" /\ up = Key /\ down = <<>>
     \/ srvPc = "closed" /\ up = Key /\ down = <<>>
     \/ /\ srvPc \in {"loop", "closed"} /\ up = <<>>
        /\ down = <<Field("cmd", WriteCmd(ACCEPT), 0)>>
     \/ /\ srvPc = "closed" /\ up = <<>>
        /\ \E cmd \in {INVALID_KEY, USER_NOT_FOUND, MOUNT_NOT_FOUND} :
             down = <<Field("cmd", WriteCmd(cmd), 0)>>

\* The call that returned last gave what the server has sent for it, and has read
\* nothing but its own answer.
OwnOutcome ==
  /\ answered = [id |-> callId, val |-> returned.val]
  /\ returned.src = {callId}

\* Between two calls.
Idle ==
  /\ cliPc = "idle"
  /\ returned.id = callId /\ answered.id <= callId
  /\ Settled /\ down = <<>>
  /\ OwnOutcome \/ (Gone /\ answered.id < callId)

\* The client is gone.
Ended ==
  /\ cliPc = "closed"
  /\ \/ srvPc = "closed" /\ up \in {<<>>, Key}
     \/ srvPc = "loop" /\ up = <<Unit("stop", "STOP", callId)>>

\* A method reads; connect() has returned before.
InCall == cliPc = "reading" /\ call \in Served /\ callId > 0

\* The server has not taken the command yet.
Requested ==
  /\ InCall
  /\ expect = First(call) /\ error = 0 /\ sources = {}
  /\ srvPc = "loop" /\ up = <<Unit("request", call, callId)>> /\ down = <<>>
  /\ answered.id < callId

\* The handler has still to send the second part of its reply.
InBody ==
  /\ InCall /\ call \in Bodied
  /\ srvPc = "body" /\ up = <<>> /\ srvCall = call /\ srvId = callId
  /\ srvError \in {0, 1} /\ answered = [id |-> callId, val |-> srvError]
  /\ \/ sources = {} /\ expect = <<"err">> /\ down = <<Mine("err", srvError)>>
     \/ sources = {callId} /\ expect = Body(call) /\ error = srvError /\ down = <<>>

\* processWrite waits for its parameters.
InParams ==
  /\ InCall /\ call = "WRITE"
  /\ srvPc = "params" /\ srvCall = call /\ srvId = callId /\ answered.id < callId
  /\ \/ sources = {} /\ expect = <<"err">> /\ down = <<Mine("err", 0)>> /\ up = <<>>
     \/ /\ sources = {callId} /\ expect = <<"err", "size">> /\ down = <<>>
        /\ up = <<Unit("params", "WRITE", callId)>>

\* What follows the error o in the reply.
Following(o, fs) ==
  \/ call = "GETATTR" /\ fs = <<Mine("stat", 0)>>
  \/ call = "READ" /\ fs = MyCount(o, "data", o)
  \/ /\ call = "READDIR"
     /\ \E count \in {0, 1} : fs = MyCount(count, "entry", count)

\* The rest of the reply is there, from where the method is reading.
AwaitCmd ==
  /\ call = "HEARTBEAT" /\ answered.val = 0 /\ sources = {}
  /\ expect = <<"cmd">> /\ down = <<Mine("cmd", WriteCmd(HEARTBEAT))>>

AwaitOnlyErr ==
  /\ call \in FuseCalls /\ sources = {}
  /\ answered.val = -1 \/ call \in {"ACCESS", "OPEN"}
  /\ expect = <<"err">> /\ down = <<Mine("err", answered.val)>>

AwaitErr ==
  /\ call \in Bodied /\ answered.val \in {0, 1} /\ sources = {}
  /\ expect = <<"err">>
  /\ down # <<>> /\ Head(down) = Mine("err", answered.val)
  /\ Following(answered.val, Tail(down))

AwaitBody ==
  /\ call \in Bodied /\ answered.val \in {0, 1} /\ sources = {callId}
  /\ expect = Body(call) /\ error = answered.val
  /\ Following(answered.val, down)

AwaitData ==
  /\ call = "READ" /\ sources = {callId} /\ error = answered.val
  /\ expect = <<"data">> /\ down = <<Mine("data", 0)>>

AwaitEntry ==
  /\ call = "READDIR" /\ sources = {callId} /\ error = answered.val
  /\ expect = <<"entry">> /\ down = <<Mine("entry", 0)>>

AwaitWritten ==
  /\ call = "WRITE" /\ sources = {callId}
  /\ \/ /\ expect = <<"err", "size">> /\ answered.val \in {0, 1}
        /\ down = <<Mine("err", answered.val), Mine("size", answered.val)>>
     \/ /\ expect = <<"size">> /\ error = answered.val
        /\ down = <<Mine("size", answered.val)>>

Answered ==
  /\ InCall /\ Settled /\ answered.id = callId
  /\ \/ AwaitCmd \/ AwaitOnlyErr \/ AwaitErr \/ AwaitBody
     \/ AwaitData \/ AwaitEntry \/ AwaitWritten

\* The server was gone before the call was made.
Deserted ==
  /\ InCall /\ Gone /\ down = <<>>
  /\ sources \subseteq {0, callId} /\ answered.id < callId

Phased ==
  \/ Connecting \/ Idle \/ Ended \/ Requested \/ InBody \/ InParams
  \/ Answered \/ Deserted

PhaseInv == Phased /\ NoStaleAnswer /\ (call = "CONNECT" <=> callId = 0)


-----------------------------------------------------------------------------
(* Sequences of one and two, and what is read off the front.               *)

LEMMA One ==
  ASSUME NEW x
  PROVE  <<x>> # <<>> /\ Head(<<x>>) = x /\ Tail(<<x>>) = <<>> /\ Len(<<x>>) = 1
  OBVIOUS

LEMMA Two ==
  ASSUME NEW x, NEW y
  PROVE  /\ <<x, y>> # <<>> /\ Head(<<x, y>>) = x /\ Tail(<<x, y>>) = <<y>>
         /\ Len(<<x, y>>) = 2
  OBVIOUS

LEMMA Behind ==
  ASSUME NEW S, NEW x \in S, NEW s \in Seq(S)
  PROVE  <<x>> \o s # <<>> /\ Head(<<x>> \o s) = x /\ Tail(<<x>> \o s) = s
  OBVIOUS

LEMMA InFront ==
  ASSUME NEW S, NEW s \in Seq(S), s # <<>>, NEW t \in Seq(S)
  PROVE  s \o t # <<>> /\ Head(s \o t) = Head(s)
  OBVIOUS

LEMMA FirstOne ==
  ASSUME NEW S, NEW s \in Seq(S)
  PROVE  <<>> \o s = s
  OBVIOUS

\* What a command is once it has been written and read (agfsio.cpp).
LEMMA Heard ==
  ASSUME NEW cmd \in {HEARTBEAT, ACCEPT, INVALID_KEY, USER_NOT_FOUND, MOUNT_NOT_FOUND}
  PROVE  ReadCmd(TRUE, WriteCmd(cmd), NONE) = cmd
  BY BigEndianAssumption
     DEF ReadCmd, WriteCmd, Be16, Swap16, HEARTBEAT, ACCEPT, INVALID_KEY,
         USER_NOT_FOUND, MOUNT_NOT_FOUND

-----------------------------------------------------------------------------
(* Which steps can be taken.                                               *)

LEMMA Sides ==
  /\ ClientStep => UNCHANGED srvVars
  /\ ServerStep => UNCHANGED cliVars
  <1>1. ClientStep => UNCHANGED srvVars
    BY DEF ClientStep, Invoke, Stop, ClientRead, ReceiveField, ReceivePart,
           ReceiveTorn, ReceiveNothing
  <1>2. ServerStep => UNCHANGED cliVars
    BY DEF ServerStep, HandlerThrows, Authenticate, ForkFails, ServeStop, ServeHeartbeat, ServeCall,
           ServeBody, ServeParams, ParamsExpire, ServerMisread, MissBeat, KilledByPipe
  <1>3. QED
    BY <1>1, <1>2

\* While a method reads, no other can begin.
LEMMA ReadingSteps ==
  ASSUME cliPc = "reading", [Next]_vars
  PROVE  ClientRead \/ ServerStep \/ UNCHANGED vars
  BY DEF Next, ClientStep, Invoke, Stop, Finished

LEMMA IdleSteps ==
  ASSUME cliPc = "idle", [Next]_vars
  PROVE  \/ \E c \in Calls \cup {"HEARTBEAT"} : Invoke(c)
         \/ Stop \/ ServerStep \/ UNCHANGED vars
  BY DEF Next, ClientStep, ClientRead, ReceiveField, ReceivePart, ReceiveTorn,
         ReceiveNothing, Finished

LEMMA StoppedSteps ==
  ASSUME cliPc \in {"closed", "misread"}, [Next]_vars
  PROVE  ServerStep \/ UNCHANGED vars
  BY DEF Next, ClientStep, Invoke, Stop, ClientRead, ReceiveField, ReceivePart,
         ReceiveTorn, ReceiveNothing, Finished

\* A read of nothing.
LEMMA ReadsNothing ==
  ASSUME ClientRead, Calm, down = <<>>
  PROVE  NothingComing /\ ReceiveNothing
  BY CalmFaults DEF ClientRead, ReceiveField, ReceivePart, ReceiveTorn, ReceiveNothing

\* A read of the field that is expected.
LEMMA ReadsField ==
  ASSUME ClientRead, Calm, down # <<>>, Head(expect) = Head(down).kind
  PROVE  ReceiveField
  BY CalmFaults DEF ClientRead, ReceivePart, ReceiveTorn, ReceiveNothing, Fits

LEMMA TakesCmd ==
  ASSUME ReceiveField, Head(expect) = "cmd"
  PROVE  /\ down' = Tail(down) /\ UNCHANGED <<call, callId, srvVars>>
         /\ AfterCmd(ReadCmd(TRUE, Head(down).val, NONE), Head(down).id)
  BY DEF ReceiveField, Last

LEMMA TakesErr ==
  ASSUME ReceiveField, Head(expect) = "err"
  PROVE  /\ down' = Tail(down) /\ UNCHANGED <<call, callId, srvVars>>
         /\ AfterError(Head(down).val, Head(down).id)
  BY DEF ReceiveField, Last

LEMMA TakesSize ==
  ASSUME ReceiveField, Head(expect) = "size"
  PROVE  /\ down' = Tail(down) /\ UNCHANGED <<call, callId, srvVars>>
         /\ AfterSize(Head(down).val, Head(down).id)
  BY DEF ReceiveField, Last

LEMMA TakesItem ==
  ASSUME ReceiveField, Head(expect) \in Last
  PROVE  /\ down' = Tail(down) /\ UNCHANGED <<up, call, callId, srvVars>>
         /\ Return(error, Head(down).id)
  BY DEF ReceiveField, Last

\* A server that is gone does nothing, and nothing the client sends wakes it up.
LEMMA GoneSilent == Gone => ~ ServerStep
  BY DEF Gone, ServerStep, Authenticate, ForkFails, ServeStop, ServeHeartbeat, ServeCall,
         HandlerThrows, ServeBody, ServeParams, ParamsExpire, ServerMisread, MissBeat,
         KilledByPipe

LEMMA GoneStays ==
  ASSUME Gone, UNCHANGED srvVars, UNCHANGED up \/ \E u : ToServer(<<u>>)
  PROVE  Gone'
  BY DEF Gone, srvVars, ToServer

\* A server that waits for a command can only give the client up.
LEMMA SettledSilent ==
  ASSUME Settled, cliPc # "closed", ServerStep
  PROVE  /\ Settled' /\ ~ Gone
         /\ UNCHANGED <<up, down, cliVars, srvCall, srvId, srvError, answered>>
  <1>1. ~ Gone /\ srvPc = "loop" /\ up = <<>>
    BY GoneSilent DEF Settled, Gone
  <1>2. MissBeat
    BY <1>1 DEF ServerStep, HandlerThrows, Authenticate, ForkFails, ServeStop,
                ServeHeartbeat, ServeCall, ServeBody, ServeParams, ParamsExpire,
                ServerMisread, KilledByPipe, Receives
  <1>3. QED
    BY <1>1, <1>2 DEF MissBeat, Settled

\* What a method returns is fresh when all it has read is.
LEMMA ReturnsFresh ==
  ASSUME NEW v, NEW from \in {0, callId}, sources \subseteq {0, callId},
         Return(v, from)
  PROVE  /\ NoStaleAnswer' /\ cliPc' = "idle" /\ error' = v
         /\ returned'.id = callId /\ returned'.val = v
         /\ returned'.src = sources \cup {from}
  BY DEF Return, NoStaleAnswer

-----------------------------------------------------------------------------
(* What a step does in each phase.                                         *)

\* What every lemma of this part assumes.
Facts == TypeInv /\ Calm /\ PhaseInv

LEMMA FromConnecting ==
  ASSUME Facts, Connecting, [Next]_vars, ~ UNCHANGED vars
  PROVE  PhaseInv'
  <1> USE DEF Facts
  <1>1. CASE ServerStep
    <2>1. UNCHANGED cliVars
      BY <1>1, Sides
    <2>2. CASE Authenticate
      <3>1. PICK cmd \in {ACCEPT, INVALID_KEY, USER_NOT_FOUND, MOUNT_NOT_FOUND} :
              /\ ToClient(<<Field("cmd", WriteCmd(cmd), 0)>>)
              /\ srvPc' = IF cmd = ACCEPT THEN "loop" ELSE "closed"
        BY <2>2 DEF Authenticate
      <3>2. up = Key /\ down = <<>> /\ up' = Tail(up)
        BY <2>2 DEF Connecting, Authenticate
      <3>3. up' = <<>>
        BY <3>2, One DEF Key
      <3>4. Field("cmd", WriteCmd(cmd), 0) \in Fields
        BY IOTypes DEF Field, Fields
      <3>5. down' = <<Field("cmd", WriteCmd(cmd), 0)>>
        BY <3>1, <3>2, <3>4, FirstOne DEF ToClient, Connecting
      <3>6. Connecting'
        BY <2>1, <2>2, <3>1, <3>3, <3>5 DEF Connecting, Authenticate, cliVars
      <3>7. QED
        BY <2>1, <3>6 DEF PhaseInv, Phased, cliVars, NoStaleAnswer
    <2>3. CASE ForkFails
      BY <2>1, <2>3 DEF ForkFails, Connecting, PhaseInv, Phased, cliVars, NoStaleAnswer
    <2>4. CASE srvPc = "loop"
      <3>1. Settled /\ cliPc # "closed"
        BY <2>4 DEF Settled, Connecting
      <3>2. /\ Settled' /\ UNCHANGED <<up, down, answered>>
        BY <1>1, <3>1, SettledSilent
      <3>3. srvPc' \in {"loop", "closed"}
        BY <1>1, <2>4, <3>1 DEF Connecting, ServerStep, HandlerThrows, Authenticate, ForkFails, ServeStop,
           ServeHeartbeat, ServeCall, ServeBody, ServeParams, ParamsExpire, ServerMisread,
           MissBeat, KilledByPipe, Receives
      <3>4. QED
        BY <2>1, <2>4, <3>2, <3>3
           DEF Connecting, PhaseInv, Phased, cliVars, NoStaleAnswer
    <2>5. srvPc # "closed"
      BY <1>1 DEF ServerStep, HandlerThrows, Authenticate, ForkFails, ServeStop, ServeHeartbeat, ServeCall,
           ServeBody, ServeParams, ParamsExpire, ServerMisread, MissBeat, KilledByPipe
    <2>6. CASE srvPc = "auth"
      BY <1>1, <2>2, <2>3, <2>6 DEF ServerStep, HandlerThrows, ServeStop, ServeHeartbeat, ServeCall,
           ServeBody, ServeParams, ParamsExpire, ServerMisread, MissBeat, KilledByPipe, Connecting
    <2>7. QED
      BY <2>4, <2>5, <2>6 DEF Connecting
  <1>2. CASE ClientRead
    <2>1. Head(expect) = "cmd" /\ UNCHANGED srvVars
      BY <1>2, One, Sides DEF Connecting, ClientStep
    <2>2. CASE down = <<>>
      <3>1. ReceiveNothing /\ NothingComing
        BY <1>2, <2>2, ReadsNothing
      <3>2. AfterCmd(ReadCmd(FALSE, NONE, NONE), 0)
        BY <2>1, <3>1, Zenon DEF ReceiveNothing
      <3>3. HangUp /\ UNCHANGED up
        BY <3>2, NoneIsRefused DEF AfterCmd, Refused, Connecting
      <3>4. srvPc = "closed" /\ up = Key
        BY <2>2, <3>1, One DEF Connecting, NothingComing
      <3>5. Ended'
        BY <2>1, <3>3, <3>4 DEF Ended, HangUp, srvVars
      <3>6. UNCHANGED <<call, callId>>
        BY <3>1 DEF ReceiveNothing
      <3>7. QED
        BY <3>3, <3>5, <3>6 DEF PhaseInv, Phased, HangUp, NoStaleAnswer
    <2>3. ASSUME NEW cmd \in {ACCEPT, INVALID_KEY, USER_NOT_FOUND, MOUNT_NOT_FOUND},
                 down = <<Field("cmd", WriteCmd(cmd), 0)>>,
                 up = <<>>, srvPc = "closed" \/ (srvPc = "loop" /\ cmd = ACCEPT)
          PROVE  PhaseInv'
      <3>1. /\ down # <<>> /\ Tail(down) = <<>> /\ Head(down).val = WriteCmd(cmd)
            /\ Head(down).id = 0 /\ Head(down).kind = "cmd"
        BY <2>3, One DEF Field
      <3>2. ReceiveField
        BY <1>2, <2>1, <3>1, ReadsField
      <3>3. /\ down' = <<>> /\ UNCHANGED <<call, callId, srvVars>>
            /\ AfterCmd(cmd, 0)
        BY <2>1, <3>1, <3>2, TakesCmd, Heard
      <3>4. CASE cmd = ACCEPT
        <4>1. Return(0, 0) /\ UNCHANGED up
          BY <3>3, <3>4 DEF AfterCmd, Refused, Connecting
        <4>2. /\ NoStaleAnswer' /\ cliPc' = "idle" /\ returned'.id = callId
              /\ returned'.val = 0 /\ returned'.src = {0}
          BY <4>1, ReturnsFresh DEF Connecting
        <4>3. Settled' /\ OwnOutcome'
          BY <2>3, <3>3, <4>1, <4>2 DEF Gone, Settled, OwnOutcome, Connecting, srvVars
        <4>4. Idle'
          BY <3>3, <4>2, <4>3 DEF Idle, Connecting, srvVars
        <4>5. QED
          BY <3>3, <4>2, <4>4 DEF PhaseInv, Phased
      <3>5. CASE cmd # ACCEPT
        <4>1. HangUp /\ UNCHANGED up
          BY <3>3, <3>5 DEF AfterCmd, Refused, Connecting
        <4>2. Ended'
          BY <2>3, <3>3, <3>5, <4>1 DEF Ended, HangUp, srvVars
        <4>3. QED
          BY <3>3, <4>1, <4>2 DEF PhaseInv, Phased, HangUp, NoStaleAnswer
      <3>6. QED
        BY <3>4, <3>5
    <2>4. QED
      BY <2>2, <2>3 DEF Connecting
  <1>3. QED
    BY <1>1, <1>2, ReadingSteps DEF Connecting

LEMMA FromIdle ==
  ASSUME Facts, Idle, [Next]_vars, ~ UNCHANGED vars
  PROVE  PhaseInv'
  <1> USE DEF Facts
  <1>1. Settled /\ cliPc = "idle"
    BY DEF Idle, Settled
  <1>2. CASE ServerStep
    <2>1. Settled' /\ ~ Gone /\ UNCHANGED <<up, down, cliVars, answered>>
      BY <1>1, <1>2, SettledSilent
    <2>2. Idle'
      BY <2>1 DEF Idle, OwnOutcome, cliVars
    <2>3. QED
      BY <2>1, <2>2 DEF PhaseInv, Phased, NoStaleAnswer, cliVars
  <1>3. CASE Stop
    <2>1. UNCHANGED <<call, callId, returned, srvVars>> /\ cliPc' = "closed"
      BY <1>3 DEF Stop
    <2>2. Unit("stop", "STOP", callId) \in Messages
      BY SessionAssumption DEF Unit, Messages, Units, Commands, TypeInv, TypeOK
    <2>3. ToServer(<<Unit("stop", "STOP", callId)>>)
      BY <1>3 DEF Stop
    <2>4. CASE Gone
      <3>1. Gone'
        BY <2>1, <2>3, <2>4, GoneStays
      <3>2. QED
        BY <2>1, <3>1 DEF Gone, Ended, PhaseInv, Phased, NoStaleAnswer
    <2>5. CASE ~ Gone
      <3>1. up' = <<Unit("stop", "STOP", callId)>> /\ srvPc = "loop"
        BY <1>1, <2>2, <2>3, <2>5, FirstOne DEF ToServer, Settled, Gone
      <3>2. QED
        BY <2>1, <3>1 DEF Ended, PhaseInv, Phased, NoStaleAnswer, srvVars
    <2>6. QED
      BY <2>4, <2>5
  <1>4. ASSUME NEW c \in Calls \cup {"HEARTBEAT"}, Invoke(c)
        PROVE  PhaseInv'
    <2>1. /\ UNCHANGED <<down, returned, srvVars>> /\ cliPc' = "reading"
          /\ call' = c /\ callId' = callId + 1
          /\ expect' = First(c) /\ error' = 0 /\ sources' = {}
      BY <1>4 DEF Invoke, First
    <2>2. callId \in Nat /\ answered.id \in Nat /\ answered.id < callId'
      BY <2>1, SessionAssumption DEF Idle, TypeInv, TypeOK
    <2>3. c \in Served /\ c \in Commands /\ c # "CONNECT"
      BY SessionAssumption DEF Served, FuseCalls, Commands
    <2>4. Unit("request", c, callId') \in Messages
      BY <2>1, <2>2, <2>3 DEF Unit, Messages, Units
    <2>5. ToServer(<<Unit("request", c, callId')>>)
      BY <1>4 DEF Invoke
    <2>6. InCall' /\ NoStaleAnswer' /\ (call' = "CONNECT" <=> callId' = 0)
      BY <2>1, <2>2, <2>3 DEF InCall, PhaseInv, NoStaleAnswer
    <2>7. Gone => Gone'
      BY <2>1, <2>5, GoneStays
    <2>8. ~ Gone => srvPc = "loop" /\ up' = <<Unit("request", c, callId')>>
      <3>1. <<Unit("request", c, callId')>> \in Seq(Messages)
        BY <2>4
      <3>2. <<>> \o <<Unit("request", c, callId')>> = <<Unit("request", c, callId')>>
        BY <3>1, FirstOne
      <3>3. QED
        BY <1>1, <2>5, <3>2 DEF ToServer, Settled, Gone
    <2>9. Gone => Deserted'
      BY <2>1, <2>2, <2>6, <2>7 DEF Deserted, Idle, srvVars
    <2>10. ~ Gone => Requested'
      BY <2>1, <2>2, <2>6, <2>8 DEF Requested, Idle, srvVars
    <2>11. QED
      BY <2>6, <2>9, <2>10 DEF PhaseInv, Phased
  <1>5. QED
    BY <1>1, <1>2, <1>3, <1>4, IdleSteps

LEMMA FromEnded ==
  ASSUME Facts, Ended, [Next]_vars, ~ UNCHANGED vars
  PROVE  PhaseInv'
  <1> USE DEF Facts
  <1>1. ServerStep
    BY StoppedSteps DEF Ended
  <1>2. UNCHANGED cliVars /\ srvPc # "closed"
    BY <1>1, Sides DEF ServerStep, HandlerThrows, Authenticate, ForkFails, ServeStop, ServeHeartbeat,
       ServeCall, ServeBody, ServeParams, ParamsExpire, ServerMisread, MissBeat,
       KilledByPipe
  <1>3. CASE srvPc = "loop" /\ up = <<Unit("stop", "STOP", callId)>>
    <2>1. up # <<>> /\ Head(up).unit = "stop" /\ Tail(up) = <<>>
      BY <1>3, One DEF Unit
    <2>2. ServeStop
      BY <1>1, <1>3, <2>1 DEF Receives, ServerStep, HandlerThrows, Authenticate, ForkFails,
         ServeHeartbeat, ServeCall, ServeBody, ServeParams, ParamsExpire, ServerMisread,
         MissBeat, KilledByPipe
    <2>3. Ended'
      BY <1>2, <2>1, <2>2 DEF Ended, ServeStop, cliVars
    <2>4. QED
      BY <1>2, <2>3 DEF PhaseInv, Phased, NoStaleAnswer, cliVars
  <1>4. QED
    BY <1>2, <1>3 DEF Ended

\* The first error of a handler, and what it makes of it.
LEMMA FromRequested ==
  ASSUME Facts, Requested, [Next]_vars, ~ UNCHANGED vars
  PROVE  PhaseInv'
  <1> USE DEF Facts
  <1>1. /\ up # <<>> /\ Tail(up) = <<>> /\ Head(up).unit = "request"
        /\ Head(up).call = call /\ Head(up).id = callId
    BY One DEF Requested, Unit
  <1>2. CASE ClientRead
    <2>1. NothingComing
      BY <1>2, ReadsNothing DEF Requested
    <2>2. QED
      BY <1>1, <2>1 DEF NothingComing, Requested
  <1>3. CASE ServerStep
    <2>1. UNCHANGED cliVars /\ InCall' /\ NoStaleAnswer'
          /\ (call' = "CONNECT" <=> callId' = 0)
      BY <1>3, Sides DEF cliVars, InCall, Requested, PhaseInv, NoStaleAnswer
    <2>2. ServeHeartbeat \/ ServeCall
      BY <1>1, <1>3, CalmFaults DEF Receives, Requested, InCall, ServerStep, HandlerThrows, Authenticate, ForkFails,
         ServeStop, ServeBody, ServeParams, ParamsExpire, ServerMisread, MissBeat,
         KilledByPipe
    <2>3. callId \in Nat
      BY SessionAssumption DEF TypeInv, TypeOK
    <2>4. CASE ServeHeartbeat
      <3>1. /\ call = "HEARTBEAT" /\ up' = <<>> /\ srvPc' = "loop" /\ srvId' = callId
            /\ answered' = [id |-> callId, val |-> 0]
            /\ ToClient(<<Field("cmd", WriteCmd(HEARTBEAT), srvId')>>)
        BY <1>1, <2>4 DEF ServeHeartbeat, Requested
      <3>2. Field("cmd", WriteCmd(HEARTBEAT), srvId') \in Fields
        BY <2>3, <3>1, IOTypes DEF Field, Fields
      <3>3. down' = <<Field("cmd", WriteCmd(HEARTBEAT), callId)>>
        BY <3>1, <3>2, FirstOne DEF ToClient, Requested, InCall
      <3>4. AwaitCmd'
        BY <2>1, <3>1, <3>3 DEF AwaitCmd, Requested, First, cliVars, Mine
      <3>5. Answered'
        BY <2>1, <3>1, <3>4 DEF Answered, Settled, cliVars
      <3>6. QED
        BY <2>1, <3>5 DEF PhaseInv, Phased
    <2>5. CASE ServeCall
      <3>1. /\ call \in FuseCalls /\ up' = <<>> /\ srvCall' = call /\ srvId' = callId
            /\ srvError' \in Outcomes(call)
            /\ ToClient(<<Field("err", srvError', callId)>>)
            /\ srvPc' = AfterFirstError(call, srvError')
            /\ answered' = IF srvPc' = "params" THEN answered
                           ELSE [id |-> callId, val |-> srvError']
        BY <1>1, <2>5, CalmFaults DEF ServeCall
      <3>2. srvError' \in Signs
        BY <3>1 DEF Outcomes, Signs
      <3>3. Field("err", srvError', callId) \in Fields
        BY <2>3, <3>2, FieldTypes DEF Kinds
      <3>4. down' = <<Field("err", srvError', callId)>>
        BY <3>1, <3>3, FirstOne DEF ToClient, Requested, InCall
      <3>5. expect' = <<"err">> /\ sources' = {} /\ call' = call /\ callId' = callId
        BY <2>1, <3>1 DEF Requested, First, FuseCalls, cliVars
      <3>6. CASE srvError' < 0 \/ call \in {"ACCESS", "OPEN"}
        <4>1. srvPc' = "loop" /\ answered' = [id |-> callId, val |-> srvError']
          BY <3>1, <3>6 DEF AfterFirstError
        <4>2. srvError' < 0 => srvError' = -1
          BY <3>2 DEF Signs
        <4>3. AwaitOnlyErr'
          BY <3>1, <3>4, <3>5, <3>6, <4>1, <4>2 DEF AwaitOnlyErr, Mine
        <4>4. Answered'
          BY <2>1, <3>1, <3>5, <4>1, <4>3 DEF Answered, Settled
        <4>5. QED
          BY <2>1, <4>4 DEF PhaseInv, Phased
      <3>7. CASE ~ (srvError' < 0) /\ call = "WRITE"
        <4>1. srvPc' = "params" /\ answered' = answered
          BY <3>1, <3>7 DEF AfterFirstError
        <4>2. srvError' = 0
          BY <3>1, <3>7 DEF Outcomes
        <4>3. InParams'
          BY <2>1, <3>1, <3>4, <3>5, <3>7, <4>1, <4>2 DEF InParams, Requested, Mine
        <4>4. QED
          BY <2>1, <4>3 DEF PhaseInv, Phased
      <3>8. CASE ~ (srvError' < 0) /\ call \in Bodied
        <4>1. srvPc' = "body" /\ answered' = [id |-> callId, val |-> srvError']
          BY <3>1, <3>8 DEF AfterFirstError, Bodied
        <4>2. srvError' \in {0, 1}
          BY <3>2, <3>8 DEF Signs
        <4>3. InBody'
          BY <2>1, <3>1, <3>4, <3>5, <3>8, <4>1, <4>2 DEF InBody, Mine
        <4>4. QED
          BY <2>1, <4>3 DEF PhaseInv, Phased
      <3>9. QED
        BY <3>1, <3>6, <3>7, <3>8 DEF FuseCalls, Bodied
    <2>6. QED
      BY <2>2, <2>4, <2>5
  <1>4. QED
    BY <1>2, <1>3, ReadingSteps DEF Requested, InCall

\* The replies of the handlers (what both ends know of a command).
LEMMA Bodies ==
  /\ Body("READ") = <<"size", "data">> /\ Body("READDIR") = <<"size", "entry">>
  /\ Body("WRITE") = <<"err", "size">> /\ Body("GETATTR") = <<"stat">>
  /\ Body("ACCESS") = <<>> /\ Body("OPEN") = <<>>
  BY DEF Body, Replies

\* After an error that is not negative the method reads what the handler sends.
LEMMA ErrThenBody ==
  ASSUME call \in Bodied, NEW v \in {0, 1}, NEW from, AfterError(v, from)
  PROVE  ReadOn(Body(call), v, from) /\ UNCHANGED up
  <1>1. Body(call) # <<>>
    BY Bodies, One, Two DEF Bodied
  <1>2. ~ ParamsSent /\ call # "WRITE"
    BY DEF ParamsSent, Bodied
  <1>3. QED
    BY <1>1, <1>2 DEF AfterError, Rest

LEMMA FromInBody ==
  ASSUME Facts, InBody, [Next]_vars, ~ UNCHANGED vars
  PROVE  PhaseInv'
  <1> USE DEF Facts
  <1>1. callId \in Nat /\ srvError \in Signs /\ -1 \in Signs /\ 0 \in Signs
    BY SessionAssumption DEF TypeInv, TypeOK, Signs
  <1>2. CASE ClientRead
    <2>1. down # <<>>
      BY <1>2, ReadsNothing DEF InBody, NothingComing
    <2>2. /\ sources = {} /\ expect = <<"err">> /\ down = <<Mine("err", srvError)>>
      BY <2>1 DEF InBody
    <2>3. /\ Head(expect) = "err" /\ Head(down).kind = "err" /\ Tail(down) = <<>>
          /\ Head(down).val = srvError /\ Head(down).id = callId
      BY <2>2, One DEF Mine, Field
    <2>4. ReceiveField
      BY <1>2, <2>1, <2>3, ReadsField
    <2>5. /\ down' = <<>> /\ UNCHANGED <<call, callId, srvVars>>
          /\ AfterError(srvError, callId)
      BY <2>3, <2>4, TakesErr
    <2>6. ReadOn(Body(call), srvError, callId) /\ UNCHANGED up
      BY <2>5, ErrThenBody DEF InBody
    <2>7. Body(call)' = Body(call)
      BY <2>5 DEF Body
    <2>8. /\ sources' = {callId'} /\ expect' = Body(call)' /\ error' = srvError'
          /\ cliPc' = "reading" /\ returned' = returned
      BY <2>2, <2>5, <2>6, <2>7 DEF ReadOn, srvVars
    <2>9. InBody'
      BY <2>5, <2>6, <2>8 DEF InBody, InCall, srvVars
    <2>10. QED
      BY <2>5, <2>8, <2>9 DEF PhaseInv, Phased, NoStaleAnswer
  <1>3. CASE ServerStep
    <2>1. UNCHANGED cliVars
      BY <1>3, Sides
    <2>2. ServeBody
      BY <1>3, CalmFaults DEF InBody, InCall, ServerStep, HandlerThrows, Authenticate, ForkFails, ServeStop,
         ServeHeartbeat, ServeCall, ServeParams, ParamsExpire, ServerMisread, MissBeat,
         KilledByPipe
    <2>3. PICK fs : Following(srvError, fs) /\ ToClient(fs)
      <3>1. CASE srvCall = "GETATTR" /\ ToClient(<<Field("stat", 0, srvId)>>)
        BY <3>1 DEF InBody, Following, Mine
      <3>2. CASE srvCall = "READ" /\ ToClient(Counted(srvError, "data", srvError))
        BY <3>2 DEF InBody, Following, Mine, MyCount, Counted
      <3>3. CASE srvCall = "READDIR" /\ \E count \in {0, 1} :
                   ToClient(Counted(count, "entry", count))
        <4>1. PICK count \in {0, 1} : ToClient(Counted(count, "entry", count))
          BY <3>3
        <4>2. Counted(count, "entry", count) = MyCount(count, "entry", count)
          BY DEF InBody, Mine, MyCount, Counted
        <4>3. QED
          BY <3>3, <4>1, <4>2 DEF InBody, Following
      <3>4. QED
        BY <2>2, <3>1, <3>2, <3>3, CalmFaults DEF ServeBody
    <2>4. fs \in Seq(Fields)
      <3>1. {"size", "data", "entry", "stat"} \subseteq Kinds \ {"cmd"}
        BY DEF Kinds
      <3>2. \A k \in {"size", "data", "entry", "stat"}, v \in Signs : Mine(k, v) \in Fields
        BY <1>1, <3>1, FieldTypes DEF Mine
      <3>3. \A v \in Signs, k \in {"data", "entry"} : \A i : MyCount(v, k, i) \in Seq(Fields)
        BY <1>1, <3>2 DEF MyCount
      <3>4. <<Mine("stat", 0)>> \in Seq(Fields)
        BY <1>1, <3>2
      <3>5. QED
        BY <1>1, <2>3, <3>3, <3>4 DEF Following, Signs
    <2>5. down' = down \o fs
      BY <2>3 DEF ToClient, InBody, InCall
    <2>6. /\ srvPc' = "loop" /\ up' = <<>> /\ UNCHANGED answered
      BY <2>2 DEF ServeBody, InBody
    <2>7. /\ UNCHANGED <<call, callId, expect, error, sources, cliPc, returned>>
          /\ Settled' /\ InCall'
      BY <2>1, <2>6 DEF cliVars, Settled, InCall, InBody
    <2>8. CASE sources = {} /\ expect = <<"err">> /\ down = <<Mine("err", srvError)>>
      <3>1. Mine("err", srvError) \in Fields
        BY <1>1, FieldTypes DEF Mine, Kinds
      <3>2. down' # <<>> /\ Head(down') = Mine("err", srvError) /\ Tail(down') = fs
        BY <2>4, <2>5, <2>8, <3>1, Behind
      <3>3. answered'.val = srvError /\ answered'.id = callId
        BY <2>6 DEF InBody
      <3>4. AwaitErr'
        BY <2>3, <2>7, <2>8, <3>2, <3>3 DEF AwaitErr, InBody, Following, Mine, MyCount
      <3>5. QED
        BY <2>7, <3>3, <3>4 DEF Answered, PhaseInv, Phased, NoStaleAnswer
    <2>9. CASE /\ sources = {callId} /\ expect = Body(call) /\ error = srvError
               /\ down = <<>>
      <3>1. down' = fs
        BY <2>4, <2>5, <2>9, FirstOne
      <3>2. answered'.val = srvError /\ answered'.id = callId
        BY <2>6 DEF InBody
      <3>3. Body(call)' = Body(call)
        BY <2>7 DEF Body
      <3>4. AwaitBody'
        BY <2>3, <2>7, <2>9, <3>1, <3>2, <3>3
           DEF AwaitBody, InBody, Following, Mine, MyCount
      <3>5. QED
        BY <2>7, <3>2, <3>4 DEF Answered, PhaseInv, Phased, NoStaleAnswer
    <2>10. QED
      BY <2>8, <2>9 DEF InBody
  <1>4. QED
    BY <1>2, <1>3, ReadingSteps DEF InBody, InCall

LEMMA FromInParams ==
  ASSUME Facts, InParams, [Next]_vars, ~ UNCHANGED vars
  PROVE  PhaseInv'
  <1> USE DEF Facts
  <1>1. callId \in Nat /\ call = "WRITE" /\ cliPc = "reading" /\ srvPc = "params"
    BY SessionAssumption DEF InParams, InCall, TypeInv, TypeOK
  <1>2. CASE sources = {} /\ expect = <<"err">> /\ down = <<Mine("err", 0)>> /\ up = <<>>
    <2>1. /\ Head(expect) = "err" /\ Len(expect) = 1
          /\ down # <<>> /\ Head(down).kind = "err" /\ Tail(down) = <<>>
          /\ Head(down).val = 0 /\ Head(down).id = callId
      BY <1>2, One DEF Mine, Field
    <2>2. ~ ServerStep
      BY <1>1, <1>2 DEF InParams, Receives, ServerStep, HandlerThrows, Authenticate, ForkFails,
         ServeStop, ServeHeartbeat, ServeCall, ServeBody, ServeParams, ParamsExpire,
         ServerMisread, MissBeat, KilledByPipe
    <2>3. ClientRead
      BY <1>1, <2>2, ReadingSteps
    <2>4. ReceiveField
      BY <2>1, <2>3, ReadsField
    <2>5. /\ down' = <<>> /\ UNCHANGED <<call, callId, srvVars>>
          /\ AfterError(0, callId)
      BY <2>1, <2>4, TakesErr
    <2>6. ~ ParamsSent /\ Rest = <<"err", "size">> /\ Rest # <<>>
      BY <1>1, <2>1, Bodies, Two DEF ParamsSent, Rest
    <2>7. ReadOn(<<"err", "size">>, 0, callId) /\ ToServer(<<Unit("params", call, callId)>>)
      BY <1>1, <2>5, <2>6 DEF AfterError, SendParams
    <2>8. Unit("params", call, callId) \in Messages
      BY <1>1 DEF Unit, Messages, Units, Commands, FuseCalls
    <2>9. up' = <<Unit("params", "WRITE", callId)>>
      BY <1>1, <1>2, <2>7, <2>8, FirstOne DEF ToServer
    <2>10. InParams'
      BY <1>2, <2>5, <2>7, <2>9 DEF InParams, InCall, ReadOn, srvVars
    <2>11. QED
      BY <2>5, <2>7, <2>10 DEF PhaseInv, Phased, ReadOn, NoStaleAnswer
  <1>3. CASE /\ sources = {callId} /\ expect = <<"err", "size">> /\ down = <<>>
             /\ up = <<Unit("params", "WRITE", callId)>>
    <2>1. /\ up # <<>> /\ Tail(up) = <<>> /\ Head(up).unit = "params"
          /\ Head(up) \in [unit : {"params"}, call : Commands, id : Nat]
      BY <1>1, <1>3, One DEF Unit, Commands, FuseCalls
    <2>2. ~ ClientRead
      BY <1>1, <1>3, <2>1, ReadsNothing DEF NothingComing
    <2>3. ServerStep
      BY <1>1, <2>2, ReadingSteps
    <2>4. UNCHANGED cliVars
      BY <2>3, Sides
    <2>5. ServeParams
      BY <1>1, <2>1, <2>3 DEF Receives, ServerStep, HandlerThrows, Authenticate, ForkFails,
         ServeStop, ServeHeartbeat, ServeCall, ServeBody, ParamsExpire,
         ServerMisread, MissBeat, KilledByPipe
    <2>6. PICK v \in {0, 1} : WriteOutcome(v) /\ up' = <<>>
      BY <2>1, <2>5, CalmFaults DEF ServeParams
    <2>7. srvPc' = "loop"
      BY <2>5 DEF ServeParams
    <2>8. answered' = [id |-> callId, val |-> v] /\ answered'.id = callId /\ answered'.val = v
      BY <2>6 DEF WriteOutcome, InParams
    <2>9. down' = <<Mine("err", v), Mine("size", v)>>
      <3>1. Mine("err", v) \in Fields /\ Mine("size", v) \in Fields
        BY <1>1, FieldTypes DEF Mine, Kinds, Signs
      <3>2. <<Mine("err", v), Mine("size", v)>> \in Seq(Fields)
        BY <3>1
      <3>3. srvId = callId
        BY DEF InParams
      <3>4. QED
        BY <1>1, <1>3, <2>6, <3>2, <3>3, FirstOne DEF WriteOutcome, ToClient, Mine
    <2>10. InCall' /\ Settled'
      BY <2>4, <2>6, <2>7 DEF InParams, InCall, cliVars, Settled
    <2>11. UNCHANGED <<call, callId, sources, expect, returned>>
      BY <2>4 DEF cliVars
    <2>12. AwaitWritten'
      BY <1>1, <1>3, <2>8, <2>9, <2>11 DEF AwaitWritten, Mine, Signs
    <2>13. QED
      BY <2>8, <2>10, <2>11, <2>12 DEF Answered, PhaseInv, Phased, NoStaleAnswer
  <1>4. QED
    BY <1>2, <1>3 DEF InParams

\* A call that nobody answers returns, or ends the connection.
LEMMA FromDeserted ==
  ASSUME Facts, Deserted, [Next]_vars, ~ UNCHANGED vars
  PROVE  PhaseInv'
  <1> USE DEF Facts
  <1>1. CASE ServerStep
    <2>1. Gone' /\ UNCHANGED <<down, cliVars, answered>>
      BY <1>1, GoneSilent DEF Deserted
    <2>2. QED
      BY <2>1 DEF Deserted, InCall, PhaseInv, Phased, NoStaleAnswer, cliVars
  <1>2. CASE ClientRead
    <2>1. ReceiveNothing
      BY <1>2, ReadsNothing DEF Deserted
    <2>2. UNCHANGED <<down, call, callId, srvVars>>
      BY <2>1 DEF ReceiveNothing
    <2>3. \/ HangUp /\ UNCHANGED up
          \/ UNCHANGED up /\ \E v : Return(v, 0)
          \/ /\ UNCHANGED up \/ ToServer(<<Unit("params", call, callId)>>)
             /\ \E rest, v : ReadOn(rest, v, 0)
      <3>1. CASE AfterCmd(ReadCmd(FALSE, NONE, NONE), 0)
        BY <3>1 DEF AfterCmd
      <3>2. CASE \E v \in ErrorsLeft : AfterError(v, 0)
        <4>1. PICK v \in ErrorsLeft : AfterError(v, 0)
          BY <3>2
        <4>2. CASE Return(v, 0) /\ UNCHANGED up
          BY <4>2
        <4>3. CASE ReadOn(Rest, v, 0) /\ UNCHANGED up
          BY <4>3
        <4>4. CASE SendParams(v, 0)
          BY <4>4 DEF SendParams
        <4>5. QED
          BY <4>1, <4>2, <4>3, <4>4 DEF AfterError
      <3>3. CASE UNCHANGED up /\ \E v : Return(v, 0)
        BY <3>3
      <3>4. \/ AfterCmd(ReadCmd(FALSE, NONE, NONE), 0)
            \/ \E v \in ErrorsLeft : AfterError(v, 0)
            \/ UNCHANGED up /\ \E v : Return(v, 0)
        BY <2>1 DEF ReceiveNothing
      <3>5. QED
        BY <3>1, <3>2, <3>3, <3>4
    <2>4. callId \in Nat /\ answered.id \in Nat /\ answered.id < callId
          /\ Unit("params", call, callId) \in Messages
      BY SessionAssumption DEF Deserted, Unit, Messages, Units, TypeInv, TypeOK
    <2>5. Gone'
      <3>1. UNCHANGED up \/ ToServer(<<Unit("params", call, callId)>>)
        BY <2>3
      <3>2. QED
        BY <2>2, <2>4, <3>1, GoneStays DEF Deserted
    <2>6. CASE HangUp /\ UNCHANGED up
      <3>1. Ended'
        BY <2>5, <2>6 DEF Ended, HangUp, Gone
      <3>2. QED
        BY <2>2, <2>6, <3>1 DEF PhaseInv, Phased, HangUp, NoStaleAnswer
    <2>7. ASSUME NEW v, Return(v, 0)
          PROVE  PhaseInv'
      <3>1. NoStaleAnswer' /\ cliPc' = "idle" /\ returned'.id = callId
        BY <2>7, ReturnsFresh DEF Deserted
      <3>2. Idle'
        BY <2>2, <2>4, <2>5, <3>1 DEF Idle, Settled, Gone, Deserted, srvVars
      <3>3. QED
        BY <2>2, <3>1, <3>2 DEF PhaseInv, Phased
    <2>8. ASSUME NEW rest, NEW v, ReadOn(rest, v, 0)
          PROVE  PhaseInv'
      <3>1. Deserted'
        BY <2>2, <2>4, <2>5, <2>8 DEF Deserted, InCall, ReadOn, srvVars
      <3>2. QED
        BY <2>2, <2>8, <3>1 DEF PhaseInv, Phased, ReadOn, NoStaleAnswer
    <2>9. QED
      BY <2>3, <2>6, <2>7, <2>8
  <1>3. QED
    BY <1>1, <1>2, ReadingSteps DEF Deserted, InCall

\* The reply is there, and the method goes on reading it.
LEMMA ReadsOn ==
  ASSUME Facts, Answered, UNCHANGED <<up, call, callId, srvVars>>,
         NEW rest, NEW v, ReadOn(rest, v, callId),
         AwaitBody' \/ AwaitData' \/ AwaitEntry' \/ AwaitWritten'
  PROVE  PhaseInv'
  <1>1. Settled' /\ UNCHANGED answered
    BY DEF Settled, Answered, srvVars
  <1>2. Answered'
    BY <1>1 DEF Answered, InCall, ReadOn
  <1>3. QED
    BY <1>2 DEF Facts, PhaseInv, Phased, NoStaleAnswer, ReadOn

\* It has read its reply, and returns what the server sent.
LEMMA ReturnsOwn ==
  ASSUME Facts, Answered, UNCHANGED <<up, call, callId, srvVars>>,
         sources \subseteq {callId}, Return(answered.val, callId),
         down' = <<>>
  PROVE  PhaseInv'
  <1> USE DEF Facts
  <1>1. /\ NoStaleAnswer' /\ cliPc' = "idle" /\ returned'.id = callId
        /\ returned'.val = answered.val /\ returned'.src = {callId}
    BY ReturnsFresh
  <1>2. UNCHANGED <<srvPc, answered>>
    BY DEF srvVars
  <1>3. answered = [id |-> callId, val |-> answered.val] /\ callId \in Nat
    BY SessionAssumption DEF Answered, TypeInv, TypeOK
  <1>4. OwnOutcome'
    BY <1>1, <1>2, <1>3 DEF OwnOutcome
  <1>5. Settled'
    BY <1>2 DEF Answered, Settled
  <1>6. Idle'
    BY <1>1, <1>2, <1>3, <1>4, <1>5 DEF Idle, Answered
  <1>7. QED
    BY <1>1, <1>6 DEF PhaseInv, Phased

\* The reads of a call whose reply begins with an error.
LEMMA ReadsFirst ==
  ASSUME Facts, Answered, ClientRead, AwaitCmd \/ AwaitOnlyErr \/ AwaitErr
  PROVE  PhaseInv'
  <1> USE DEF Facts
  <1>1. CASE AwaitCmd
    <2>1. /\ down # <<>> /\ Tail(down) = <<>> /\ Head(down).val = WriteCmd(HEARTBEAT)
          /\ Head(down).id = callId /\ Head(down).kind = "cmd" /\ Head(expect) = "cmd"
      BY <1>1, One DEF AwaitCmd, Mine, Field
    <2>2. ReceiveField
      BY <2>1, ReadsField
    <2>3. /\ down' = <<>> /\ UNCHANGED <<call, callId, srvVars>>
          /\ AfterCmd(HEARTBEAT, callId)
      BY <2>1, <2>2, TakesCmd, Heard
    <2>4. Return(0, callId) /\ UNCHANGED up
      BY <1>1, <2>3 DEF AfterCmd, Refused, AwaitCmd, HEARTBEAT, NONE
    <2>5. QED
      BY <1>1, <2>3, <2>4, ReturnsOwn DEF AwaitCmd
  <1>2. CASE AwaitOnlyErr
    <2>1. /\ down # <<>> /\ Tail(down) = <<>> /\ Head(down).val = answered.val
          /\ Head(down).id = callId /\ Head(down).kind = "err" /\ Head(expect) = "err"
          /\ Len(expect) = 1
      BY <1>2, One DEF AwaitOnlyErr, Mine, Field
    <2>2. ReceiveField
      BY <2>1, ReadsField
    <2>3. /\ down' = <<>> /\ UNCHANGED <<call, callId, srvVars>>
          /\ AfterError(answered.val, callId)
      BY <2>1, <2>2, TakesErr
    <2>4. answered.val < 0 \/ Rest = <<>>
      BY <1>2, <2>1, Bodies DEF AwaitOnlyErr, ParamsSent, Rest
    <2>5. Return(answered.val, callId) /\ UNCHANGED up
      BY <2>3, <2>4 DEF AfterError
    <2>6. QED
      BY <1>2, <2>3, <2>5, ReturnsOwn DEF AwaitOnlyErr
  <1>3. CASE AwaitErr
    <2>1. /\ down # <<>> /\ Head(down).val = answered.val
          /\ Head(down).id = callId /\ Head(down).kind = "err" /\ Head(expect) = "err"
      BY <1>3, One DEF AwaitErr, Mine, Field
    <2>2. ReceiveField
      BY <2>1, ReadsField
    <2>3. /\ down' = Tail(down) /\ UNCHANGED <<call, callId, srvVars>>
          /\ AfterError(answered.val, callId)
      BY <2>1, <2>2, TakesErr
    <2>4. ReadOn(Body(call), answered.val, callId) /\ UNCHANGED up
      BY <1>3, <2>3, ErrThenBody DEF AwaitErr
    <2>5. answered' = answered /\ Body(call)' = Body(call)
      BY <2>3 DEF srvVars, Body
    <2>6. AwaitBody'
      BY <1>3, <2>3, <2>4, <2>5
         DEF AwaitErr, AwaitBody, ReadOn, Following, Mine, MyCount
    <2>7. QED
      BY <2>3, <2>4, <2>6, ReadsOn
  <1>4. QED
    BY <1>1, <1>2, <1>3

\* The second part of a reply.
LEMMA ReadsBody ==
  ASSUME Facts, Answered, ClientRead, AwaitBody
  PROVE  PhaseInv'
  <1> USE DEF Facts
  <1>1. answered.val \in {0, 1} /\ sources = {callId} /\ error = answered.val
    BY DEF AwaitBody
  <1>2. CASE call = "GETATTR"
    <2>1. expect = <<"stat">> /\ down = <<Mine("stat", 0)>>
      BY <1>2, Bodies DEF AwaitBody, Following
    <2>2. /\ down # <<>> /\ Tail(down) = <<>> /\ Head(expect) = "stat"
          /\ Head(down).id = callId /\ Head(down).kind = "stat"
      BY <2>1, One DEF Mine, Field
    <2>3. ReceiveField
      BY <2>2, ReadsField
    <2>4. QED
      BY <1>1, <2>2, <2>3, TakesItem, ReturnsOwn DEF Last
  <1>3. ASSUME NEW count \in {0, 1}, NEW kind \in {"data", "entry"},
               down = MyCount(count, kind, count), expect = <<"size", kind>>
        PROVE  /\ UNCHANGED <<up, call, callId, srvVars>>
               /\ down' = IF count = 0 THEN <<>> ELSE <<Mine(kind, 0)>>
               /\ IF count = 0 THEN Return(NoData, callId)
                  ELSE ReadOn(<<kind>>, error, callId)
    <2>1. /\ down # <<>> /\ Head(down) = Mine("size", count)
          /\ Tail(down) = IF count = 0 THEN <<>> ELSE <<Mine(kind, 0)>>
      BY <1>3, One, Two DEF MyCount
    <2>2. /\ Head(expect) = "size" /\ Tail(expect) = <<kind>> /\ Len(expect) = 2
          /\ Head(down).kind = "size" /\ Head(down).id = callId
          /\ Head(down).val = count
      BY <1>3, <2>1, Two DEF Mine, Field
    <2>3. ReceiveField
      BY <2>1, <2>2, ReadsField
    <2>4. /\ down' = Tail(down) /\ UNCHANGED <<call, callId, srvVars>>
          /\ AfterSize(count, callId)
      BY <2>2, <2>3, TakesSize
    <2>5. QED
      BY <2>1, <2>2, <2>4, <1>3 DEF AfterSize
  <1>4. CASE call = "READ"
    <2>1. expect = <<"size", "data">> /\ down = MyCount(answered.val, "data", answered.val)
      BY <1>4, Bodies DEF AwaitBody, Following
    <2>2. /\ UNCHANGED <<up, call, callId, srvVars>>
          /\ down' = IF answered.val = 0 THEN <<>> ELSE <<Mine("data", 0)>>
          /\ IF answered.val = 0 THEN Return(NoData, callId)
             ELSE ReadOn(<<"data">>, error, callId)
      BY <1>1, <1>3, <2>1
    <2>3. CASE answered.val = 0
      BY <1>1, <1>4, <2>2, <2>3, ReturnsOwn DEF NoData
    <2>4. CASE answered.val # 0
      <3>1. ReadOn(<<"data">>, error, callId) /\ down' = <<Mine("data", 0)>>
        BY <2>2, <2>4
      <3>2. AwaitData'
        BY <1>1, <1>4, <2>2, <3>1 DEF AwaitData, ReadOn, Mine, srvVars
      <3>3. QED
        BY <2>2, <3>1, <3>2, ReadsOn
    <2>5. QED
      BY <2>3, <2>4
  <1>5. CASE call = "READDIR"
    <2>1. PICK count \in {0, 1} : down = MyCount(count, "entry", count)
      BY <1>5 DEF AwaitBody, Following
    <2>2. expect = <<"size", "entry">>
      BY <1>5, Bodies DEF AwaitBody
    <2>3. /\ UNCHANGED <<up, call, callId, srvVars>>
          /\ down' = IF count = 0 THEN <<>> ELSE <<Mine("entry", 0)>>
          /\ IF count = 0 THEN Return(NoData, callId)
             ELSE ReadOn(<<"entry">>, error, callId)
      BY <1>3, <2>1, <2>2
    <2>4. CASE count = 0
      <3>1. NoData = answered.val
        BY <1>1, <1>5 DEF NoData
      <3>2. QED
        BY <1>1, <2>3, <2>4, <3>1, ReturnsOwn
    <2>5. CASE count # 0
      <3>1. AwaitEntry'
        BY <1>1, <1>5, <2>1, <2>3, <2>5 DEF AwaitEntry, ReadOn, Mine, srvVars
      <3>2. QED
        BY <2>3, <2>5, <3>1, ReadsOn
    <2>6. QED
      BY <2>4, <2>5
  <1>6. QED
    BY <1>2, <1>4, <1>5 DEF AwaitBody, Bodied

LEMMA ReadsLast ==
  ASSUME Facts, Answered, ClientRead, AwaitData \/ AwaitEntry
  PROVE  PhaseInv'
  <1> USE DEF Facts
  <1>1. PICK kind \in {"data", "entry"} :
          expect = <<kind>> /\ down = <<Mine(kind, 0)>>
    BY DEF AwaitData, AwaitEntry
  <1>2. /\ sources = {callId} /\ error = answered.val
        /\ down # <<>> /\ Tail(down) = <<>> /\ Head(expect) = kind
        /\ Head(down).kind = kind /\ Head(down).id = callId
    BY <1>1, One DEF AwaitData, AwaitEntry, Mine, Field
  <1>3. ReceiveField
    BY <1>2, ReadsField
  <1>4. down' = <<>> /\ UNCHANGED <<up, call, callId, srvVars>> /\ Return(error, callId)
    BY <1>2, <1>3, TakesItem DEF Last
  <1>5. QED
    BY <1>2, <1>4, ReturnsOwn

\* What processWrite sends at the end.
LEMMA ReadsWritten ==
  ASSUME Facts, Answered, ClientRead, AwaitWritten
  PROVE  PhaseInv'
  <1> USE DEF Facts
  <1>1. call = "WRITE" /\ sources = {callId}
    BY DEF AwaitWritten
  <1>2. CASE expect = <<"err", "size">>
    <2>1. /\ Head(expect) = "err" /\ Tail(expect) = <<"size">> /\ Len(expect) = 2
          /\ <<"size">> # <<>> /\ expect # <<"size">>
      BY <1>2, One, Two
    <2>2. /\ answered.val \in {0, 1}
          /\ down = <<Mine("err", answered.val), Mine("size", answered.val)>>
      BY <2>1 DEF AwaitWritten
    <2>3. /\ down # <<>> /\ Head(down).val = answered.val
          /\ Head(down).id = callId /\ Head(down).kind = "err"
          /\ Tail(down) = <<Mine("size", answered.val)>>
      BY <2>2, Two DEF Mine, Field
    <2>4. ReceiveField
      BY <2>1, <2>3, ReadsField
    <2>5. /\ down' = Tail(down) /\ UNCHANGED <<call, callId, srvVars>>
          /\ AfterError(answered.val, callId)
      BY <2>1, <2>3, <2>4, TakesErr
    <2>6. ParamsSent /\ Rest = <<"size">>
      BY <1>1, <2>1 DEF ParamsSent, Rest
    <2>7. ReadOn(<<"size">>, answered.val, callId) /\ UNCHANGED up
      BY <2>1, <2>2, <2>5, <2>6 DEF AfterError
    <2>8. AwaitWritten'
      BY <1>1, <2>3, <2>5, <2>7 DEF AwaitWritten, ReadOn, Mine, srvVars
    <2>9. QED
      BY <2>5, <2>7, <2>8, ReadsOn
  <1>3. CASE /\ expect = <<"size">> /\ error = answered.val
             /\ down = <<Mine("size", answered.val)>>
    <2>1. /\ down # <<>> /\ Tail(down) = <<>> /\ Head(expect) = "size" /\ Len(expect) = 1
          /\ Head(down).id = callId /\ Head(down).kind = "size"
      BY <1>3, One DEF Mine, Field
    <2>2. ReceiveField
      BY <2>1, ReadsField
    <2>3. down' = <<>> /\ UNCHANGED <<up, call, callId, srvVars>> /\ Return(NoData, callId)
      BY <2>1, <2>2, TakesSize DEF AfterSize
    <2>4. NoData = answered.val
      BY <1>1, <1>3 DEF NoData
    <2>5. QED
      BY <1>1, <2>3, <2>4, ReturnsOwn
  <1>4. QED
    BY <1>2, <1>3 DEF AwaitWritten

LEMMA FromAnswered ==
  ASSUME Facts, Answered, [Next]_vars, ~ UNCHANGED vars
  PROVE  PhaseInv'
  <1> USE DEF Facts
  <1>1. CASE ServerStep
    <2>1. Settled' /\ UNCHANGED <<down, cliVars, answered>>
      BY <1>1, SettledSilent DEF Answered, InCall
    <2>2. UNCHANGED <<down, cliPc, call, callId, expect, error, sources, returned, answered>>
      BY <2>1 DEF cliVars
    <2>3. /\ AwaitCmd => AwaitCmd'
          /\ AwaitOnlyErr => AwaitOnlyErr'
          /\ AwaitData => AwaitData'
          /\ AwaitEntry => AwaitEntry'
          /\ AwaitWritten => AwaitWritten'
      BY <2>2 DEF AwaitCmd, AwaitOnlyErr, AwaitData, AwaitEntry, AwaitWritten, Mine
    <2>4. /\ AwaitErr => AwaitErr'
          /\ AwaitBody => AwaitBody'
      BY <2>2 DEF AwaitErr, AwaitBody, Following, MyCount, Mine, Body
    <2>5. Answered'
      BY <2>1, <2>2, <2>3, <2>4 DEF Answered, InCall
    <2>6. QED
      BY <2>2, <2>5 DEF PhaseInv, Phased, NoStaleAnswer
  <1>2. CASE ClientRead
    BY <1>2, ReadsFirst, ReadsBody, ReadsLast, ReadsWritten DEF Answered
  <1>3. QED
    BY <1>1, <1>2, ReadingSteps DEF Answered, InCall

LEMMA PhaseStep == TypeInv /\ Calm /\ PhaseInv /\ [Next]_vars => PhaseInv'
  <1>1. SUFFICES ASSUME TypeInv, Calm, PhaseInv, [Next]_vars PROVE PhaseInv'
    OBVIOUS
  <1>2. CASE UNCHANGED vars
    <2>1. UNCHANGED <<up, down, cliPc, call, callId, expect, error, sources, returned,
                      srvPc, srvCall, srvId, srvError, answered>>
      BY <1>2 DEF vars, cliVars, srvVars
    <2>2. /\ Connecting => Connecting'
          /\ Idle => Idle'
          /\ Ended => Ended'
          /\ Requested => Requested'
          /\ InParams => InParams'
          /\ Deserted => Deserted'
      BY <2>1 DEF Connecting, Idle, Ended, Requested, InParams, Deserted,
                  Settled, Gone, OwnOutcome, InCall, Mine
    <2>3. InBody => InBody'
      BY <2>1 DEF InBody, InCall, Mine, Body
    <2>4. /\ AwaitCmd => AwaitCmd'
          /\ AwaitOnlyErr => AwaitOnlyErr'
          /\ AwaitData => AwaitData'
          /\ AwaitEntry => AwaitEntry'
          /\ AwaitWritten => AwaitWritten'
      BY <2>1 DEF AwaitCmd, AwaitOnlyErr, AwaitData, AwaitEntry, AwaitWritten, Mine
    <2>5. /\ AwaitErr => AwaitErr'
          /\ AwaitBody => AwaitBody'
      BY <2>1 DEF AwaitErr, AwaitBody, Following, MyCount, Mine, Body
    <2>6. Answered => Answered'
      BY <2>1, <2>4, <2>5 DEF Answered, InCall, Settled
    <2>7. QED
      BY <1>1, <2>1, <2>2, <2>3, <2>6 DEF PhaseInv, Phased, NoStaleAnswer
  <1>3. CASE ~ UNCHANGED vars
    <2>1. Facts
      BY <1>1 DEF Facts
    <2>2. QED
      BY <1>1, <1>3, <2>1, FromConnecting, FromIdle, FromEnded, FromRequested,
         FromInBody, FromInParams, FromAnswered, FromDeserted
         DEF PhaseInv, Phased
  <1>4. QED
    BY <1>2, <1>3

LEMMA PhaseInit == Init => PhaseInv
  BY DEF Init, PhaseInv, Phased, Connecting, Key, NoStaleAnswer

-----------------------------------------------------------------------------
(* What the phases say.                                                    *)

LEMMA PhasesHold == ASSUME Calm PROVE Spec => [](TypeInv /\ PhaseInv)
  <1>1. Init => TypeInv /\ PhaseInv
    BY TypeInit, PhaseInit
  <1>2. (TypeInv /\ PhaseInv) /\ [Next]_vars => (TypeInv /\ PhaseInv)'
    BY TypeStep, PhaseStep
  <1>3. QED
    BY <1>1, <1>2, PTL DEF Spec

\* No call returns an answer to an earlier one (access() and the other methods
\* ignore what their reads return, but here no read has missed its answer).
THEOREM NoneIsStale == ASSUME Calm PROVE Spec => []NoStaleAnswer
  <1>1. TypeInv /\ PhaseInv => NoStaleAnswer
    BY DEF PhaseInv
  <1>2. QED
    BY <1>1, PhasesHold, PTL

\* WRITE's parameters are sent only to a server that has asked for them
\* (agfs-server.cpp:330), also when it gives the client up or has ended.
THEOREM ParamsAskedFor == ASSUME Calm PROVE Spec => []ParamsOnlyIfOpened
  <1>1. ASSUME NEW u, up = <<u>>, u.unit # "params"
        PROVE  ParamsOnlyIfOpened
    BY <1>1 DEF ParamsOnlyIfOpened
  <1>2. ASSUME up = <<>>
        PROVE  ParamsOnlyIfOpened
    BY <1>2 DEF ParamsOnlyIfOpened
  <1>3. PhaseInv => ParamsOnlyIfOpened
    <2>1. SUFFICES ASSUME Phased PROVE ParamsOnlyIfOpened
      BY DEF PhaseInv
    <2>2. CASE Connecting \/ Ended
      BY <1>1, <1>2, <2>2 DEF Connecting, Ended, Key, Unit
    <2>3. CASE Idle \/ Answered \/ Deserted \/ InBody
      BY <1>2, <2>3 DEF Idle, Answered, Deserted, InBody, Settled, Gone
    <2>4. CASE Requested
      BY <1>1, <2>4 DEF Requested, Unit
    <2>5. CASE InParams
      BY <1>2, <2>5 DEF InParams, Unit, ParamsOnlyIfOpened
    <2>6. QED
      BY <2>1, <2>2, <2>3, <2>4, <2>5 DEF Phased
  <1>4. QED
    BY <1>3, PhasesHold, PTL

\* Until the server ends, a call returns what the server has sent for it
\* (ServerConnection's methods against ClientConnection's handlers).
THEOREM OwnOutcomes == ASSUME Calm PROVE Spec => []ReturnsOwnOutcome
  <1>1. PhaseInv => ReturnsOwnOutcome
    BY DEF PhaseInv, Phased, ReturnsOwnOutcome, Connecting, Idle, OwnOutcome,
       Gone, Ended, Requested, InBody, InParams, InCall, Answered, Deserted
  <1>2. QED
    BY <1>1, PhasesHold, PTL

\* Every handler consumes the whole request, and every method the whole reply.
THEOREM QuietBetweenCalls == ASSUME Calm PROVE Spec => []QuietWhenIdle
  <1>1. PhaseInv => QuietWhenIdle
    BY DEF PhaseInv, Phased, QuietWhenIdle, Connecting, Idle, Settled, Ended,
       Requested, InBody, InParams, InCall, Answered, Deserted
  <1>2. QED
    BY <1>1, PhasesHold, PTL

\* The field that comes first is the one the method expects.
LEMMA AnsweredFits ==
  ASSUME Answered, down # <<>>
  PROVE  Head(down).kind = Head(expect)
  <1>1. CASE AwaitCmd \/ AwaitOnlyErr \/ AwaitErr \/ AwaitData \/ AwaitEntry
    BY <1>1, One DEF AwaitCmd, AwaitOnlyErr, AwaitErr, AwaitData, AwaitEntry, Mine, Field
  <1>2. CASE AwaitWritten
    BY <1>2, One, Two DEF AwaitWritten, Mine, Field
  <1>3. CASE AwaitBody
    <2>1. CASE call = "GETATTR"
      BY <1>3, <2>1, Bodies, One DEF AwaitBody, Following, Mine, Field
    <2>2. ASSUME NEW count, NEW kind, down = MyCount(count, kind, count)
          PROVE  Head(down).kind = "size"
      BY <2>2, One, Two DEF MyCount, Mine, Field
    <2>3. CASE call \in {"READ", "READDIR"}
      <3>1. Head(expect) = "size"
        BY <1>3, <2>3, Bodies, Two DEF AwaitBody
      <3>2. \E count, kind : down = MyCount(count, kind, count)
        BY <1>3, <2>3 DEF AwaitBody, Following
      <3>3. QED
        BY <2>2, <3>1, <3>2
    <2>4. QED
      BY <1>3, <2>1, <2>3 DEF AwaitBody, Bodied
  <1>4. QED
    BY <1>1, <1>2, <1>3 DEF Answered

\* What comes first in the connection is what its reader expects: neither side ever
\* reads a field where the other has put one of another kind.
THEOREM BothStreamsFramed == ASSUME Calm PROVE Spec => []StreamsFramed
  <1>1. PhaseInv => cliPc # "misread" /\ srvPc # "misread"
    BY DEF PhaseInv, Phased, Connecting, Idle, Gone, Settled, Ended, Requested,
       InBody, InParams, InCall, Answered, Deserted
  <1>2. ASSUME PhaseInv, cliPc = "reading", down # <<>>
        PROVE  Head(down).kind = Head(expect)
    <2>1. CASE Connecting
      BY <1>2, <2>1, One DEF Connecting, Field
    <2>2. CASE InBody \/ InParams
      BY <1>2, <2>2, One DEF InBody, InParams, Mine, Field
    <2>3. CASE Answered
      BY <1>2, <2>3, AnsweredFits
    <2>4. ~ Idle /\ ~ Ended /\ ~ Requested /\ ~ Deserted
      BY <1>2 DEF Idle, Ended, Requested, Deserted
    <2>5. QED
      BY <1>2, <2>1, <2>2, <2>3, <2>4 DEF PhaseInv, Phased
  <1>3. PhaseInv => StreamsFramed
    BY <1>1, <1>2 DEF StreamsFramed
  <1>4. QED
    BY <1>3, PhasesHold, PTL
=============================================================================
