--------------------------- MODULE Session_proofs ---------------------------
(* Theorems about Session, for every value of its constants. *)
EXTENDS Session, TLAPS

-----------------------------------------------------------------------------
(* Type correctness.  beatsMissed stays within its bound because the session *)
(* is closed for good when it is passed, and a method that reads expects a   *)
(* field.                                                                    *)

TypeInv ==
  /\ TypeOK
  /\ cliPc = "reading" => expect # <<>>
  /\ beatsMissed > MaxMissed => srvPc = "closed"
  /\ srvPc = "auth" => beatsMissed = 0

\* A sequence that is not empty has a head and a tail of its own kind.
LEMMA HeadTail ==
  ASSUME NEW S, NEW s \in Seq(S), s # <<>>
  PROVE  Head(s) \in S /\ Tail(s) \in Seq(S)
  OBVIOUS

LEMMA TailNotEmpty ==
  ASSUME NEW S, NEW s \in Seq(S), s # <<>>, Len(s) # 1
  PROVE  Tail(s) # <<>>
  <1>1. Len(s) \in Nat /\ Len(s) # 0
    OBVIOUS
  <1>2. Len(Tail(s)) = Len(s) - 1
    BY <1>1
  <1>3. Len(Tail(s)) # 0
    BY <1>1, <1>2
  <1>4. Len(<<>>) = 0
    OBVIOUS
  <1>5. QED
    BY <1>3, <1>4, Zenon

\* What is appended to a sequence keeps it one.
LEMMA Appended ==
  ASSUME NEW S, NEW s \in Seq(S), NEW t \in Seq(S)
  PROVE  s \o t \in Seq(S)
  OBVIOUS

\* The conversions of AgfsIO keep a value within its range (agfsio.cpp).
LEMMA IOTypes ==
  /\ \A cmd \in {HEARTBEAT, ACCEPT, INVALID_KEY, USER_NOT_FOUND, MOUNT_NOT_FOUND} :
       WriteCmd(cmd) \in Nat
  /\ \A s \in Signs : Be64Signs(s) \subseteq Signs
  <1>1. \A w \in Nat : Be16(w) \in Nat
    <2>1. SUFFICES ASSUME NEW w \in Nat PROVE Be16(w) \in Nat
      OBVIOUS
    <2>2. w % 256 \in Nat /\ w \div 256 \in Nat
      BY SMT
    <2>3. QED
      BY <2>2 DEF Be16, Swap16
  <1>2. QED
    BY <1>1 DEF WriteCmd, Be64Signs, Signs, HEARTBEAT, ACCEPT, INVALID_KEY,
                USER_NOT_FOUND, MOUNT_NOT_FOUND

\* The part of TypeInv that the returns and the reads of a method set.
MethodTypes ==
  /\ cliPc \in {"reading", "idle", "closed", "misread"}
  /\ expect \in Seq(Kinds)
  /\ error \in Signs
  /\ sources \subseteq Nat
  /\ returned \in [id : Nat, call : Commands, val : Signs, src : SUBSET Nat]
  /\ cliPc = "reading" => expect # <<>>

LEMMA ReturnTypes ==
  ASSUME TypeInv, NEW v \in Signs, NEW from \in Nat, Return(v, from)
  PROVE  MethodTypes'
  <1>1. callId \in Nat /\ call \in Commands /\ sources \cup {from} \in SUBSET Nat
    BY SessionAssumption DEF TypeInv, TypeOK
  <1>2. QED
    BY <1>1 DEF Return, MethodTypes

LEMMA ReadOnTypes ==
  ASSUME TypeInv, NEW v \in Signs, NEW from \in Nat,
         NEW rest \in Seq(Kinds), rest # <<>>, ReadOn(rest, v, from)
  PROVE  MethodTypes'
  BY DEF ReadOn, MethodTypes, TypeInv, TypeOK

LEMMA BodyTypes ==
  ASSUME NEW c \in Commands
  PROVE  Body(c) \in Seq(Kinds)
  <1>1. Body(c) \in {<<>>, <<"stat">>, <<"size", "data">>, <<"size", "entry">>,
                     <<"err", "size">>}
    BY DEF Body, Replies
  <1>2. <<>> \in Seq(Kinds) /\ <<"stat">> \in Seq(Kinds)
    BY DEF Kinds
  <1>3. <<"size", "data">> \in Seq(Kinds)
    BY DEF Kinds
  <1>4. <<"size", "entry">> \in Seq(Kinds)
    BY DEF Kinds
  <1>5. <<"err", "size">> \in Seq(Kinds)
    BY DEF Kinds
  <1>6. QED
    BY <1>1, <1>2, <1>3, <1>4, <1>5

LEMMA ToServerTypes ==
  ASSUME TypeInv, NEW u \in Messages, ToServer(<<u>>)
  PROVE  up' \in Seq(Messages)
  <1>1. up \in Seq(Messages) /\ <<u>> \in Seq(Messages)
    BY DEF TypeInv, TypeOK
  <1>2. up \o <<u>> \in Seq(Messages)
    BY <1>1, Appended
  <1>3. QED
    BY <1>1, <1>2 DEF ToServer

LEMMA ToClientTypes ==
  ASSUME TypeInv, NEW fs \in Seq(Fields), ToClient(fs)
  PROVE  down' \in Seq(Fields)
  <1>1. down \in Seq(Fields) /\ down \o fs \in Seq(Fields)
    BY Appended DEF TypeInv, TypeOK
  <1>2. QED
    BY <1>1 DEF ToClient

\* Whatever a method makes of an error, it goes on in a state of its types.
LEMMA AfterErrorTypes ==
  ASSUME TypeInv, cliPc = "reading",
         NEW v \in Signs, NEW from \in Nat, AfterError(v, from)
  PROVE  MethodTypes' /\ up' \in Seq(Messages)
  <1>1. Rest \in Seq(Kinds)
    <2>1. expect \in Seq(Kinds) /\ expect # <<>> /\ call \in Commands
      BY DEF TypeInv, TypeOK
    <2>2. Tail(expect) \in Seq(Kinds)
      BY <2>1, HeadTail
    <2>3. QED
      BY <2>1, <2>2, BodyTypes DEF Rest
  <1>2. up \in Seq(Messages) /\ -1 \in Signs
    BY DEF TypeInv, TypeOK, Signs
  <1>3. CASE Return(v, from) /\ UNCHANGED up
    BY <1>2, <1>3, ReturnTypes
  <1>4. CASE Rest # <<>> /\ ReadOn(Rest, v, from) /\ UNCHANGED up
    BY <1>1, <1>2, <1>4, ReadOnTypes
  <1>5. CASE Rest # <<>> /\ SendParams(v, from)
    <2>1. CASE ReadOn(Rest, v, from) /\ ToServer(<<Unit("params", call, callId)>>)
      <3>1. Unit("params", call, callId) \in Messages
        BY SessionAssumption DEF Unit, Messages, Units, TypeInv, TypeOK
      <3>2. QED
        BY <1>1, <1>5, <2>1, <3>1, ReadOnTypes, ToServerTypes
    <2>2. CASE Return(-1, from) /\ UNCHANGED up
      BY <1>2, <2>2, ReturnTypes
    <2>3. QED
      BY <1>5, <2>1, <2>2 DEF SendParams
  <1>6. QED
    BY <1>3, <1>4, <1>5 DEF AfterError

LEMMA AfterCmdTypes ==
  ASSUME TypeInv, NEW cmd, NEW from \in Nat, AfterCmd(cmd, from)
  PROVE  MethodTypes' /\ up' \in Seq(Messages)
  <1>1. up \in Seq(Messages) /\ 0 \in Signs
    BY DEF TypeInv, TypeOK, Signs
  <1>2. CASE HangUp /\ UNCHANGED up
    BY <1>1, <1>2 DEF HangUp, MethodTypes, TypeInv, TypeOK
  <1>3. CASE Return(0, from) /\ UNCHANGED up
    BY <1>1, <1>3, ReturnTypes
  <1>4. QED
    BY <1>2, <1>3 DEF AfterCmd

LEMMA AfterSizeTypes ==
  ASSUME TypeInv, cliPc = "reading",
         NEW v \in Signs, NEW from \in Nat, AfterSize(v, from)
  PROVE  MethodTypes' /\ up' \in Seq(Messages)
  <1>1. up' \in Seq(Messages) /\ error \in Signs
    BY DEF AfterSize, TypeInv, TypeOK
  <1>2. CASE Return(NoData, from)
    <2>1. NoData \in Signs
      BY <1>1 DEF NoData, Signs
    <2>2. QED
      BY <1>1, <1>2, <2>1, ReturnTypes
  <1>3. CASE Misread
    BY <1>1, <1>3 DEF Misread, MethodTypes, TypeInv, TypeOK
  <1>4. CASE Len(expect) # 1 /\ ReadOn(Tail(expect), error, from)
    <2>1. Tail(expect) \in Seq(Kinds) /\ Tail(expect) # <<>>
      BY <1>4, HeadTail, TailNotEmpty DEF TypeInv, TypeOK
    <2>2. QED
      BY <1>1, <1>4, <2>1, ReadOnTypes
  <1>5. QED
    BY <1>2, <1>3, <1>4 DEF AfterSize

\* The rest of TypeInv, which the client's reads leave alone.
ServerTypes ==
  /\ call \in Commands
  /\ callId \in 0..MaxCalls
  /\ srvPc \in {"auth", "loop", "body", "params", "closed", "misread"}
  /\ srvCall \in Commands
  /\ srvId \in Nat
  /\ srvError \in Signs
  /\ answered \in [id : Nat, val : Signs]
  /\ beatsMissed \in 0..(MaxMissed + 1)
  /\ beatsMissed > MaxMissed => srvPc = "closed"
  /\ srvPc = "auth" => beatsMissed = 0

LEMMA TypeParts ==
  /\ up' \in Seq(Messages) /\ down' \in Seq(Fields)
  /\ MethodTypes' /\ ServerTypes'
  => TypeInv'
  BY DEF TypeInv, TypeOK, MethodTypes, ServerTypes

LEMMA InvokeTypes ==
  ASSUME TypeInv, NEW c \in Calls \cup {"HEARTBEAT"}, Invoke(c)
  PROVE  TypeInv'
  <1>1. c \in Commands /\ callId + 1 \in 0..MaxCalls /\ callId + 1 \in Nat
    BY SessionAssumption DEF Commands, Invoke, TypeInv, TypeOK
  <1>2. Unit("request", c, callId + 1) \in Messages
    BY <1>1 DEF Unit, Messages, Units
  <1>3. up' \in Seq(Messages)
    BY <1>2, ToServerTypes DEF Invoke
  <1>4. MethodTypes'
    <2>1. <<"cmd">> \in Seq(Kinds) /\ <<"err">> \in Seq(Kinds)
      BY DEF Kinds
    <2>2. QED
      BY <2>1 DEF Invoke, MethodTypes, TypeInv, TypeOK, Signs
  <1>5. ServerTypes' /\ down' \in Seq(Fields)
    BY <1>1 DEF Invoke, srvVars, ServerTypes, TypeInv, TypeOK
  <1>6. QED
    BY <1>3, <1>4, <1>5, TypeParts

LEMMA StopTypes ==
  ASSUME TypeInv, Stop
  PROVE  TypeInv'
  <1>1. Unit("stop", "STOP", callId) \in Messages
    BY SessionAssumption DEF Unit, Messages, Units, Commands, TypeInv, TypeOK
  <1>2. up' \in Seq(Messages)
    BY <1>1, ToServerTypes DEF Stop
  <1>3. QED
    BY <1>2 DEF Stop, srvVars, TypeInv, TypeOK

\* The signs a method can be left with are signs (ErrorsLeft, NoData).
LEMMA LeftSigns ==
  ASSUME TypeInv
  PROVE  ErrorsLeft \subseteq Signs /\ NoData \in Signs
  <1>1. 0 \in Signs /\ 1 \in Signs /\ error \in Signs
    BY DEF Signs, TypeInv, TypeOK
  <1>2. Be64Signs(0) \subseteq Signs /\ Be64Signs(1) \subseteq Signs
    BY <1>1, IOTypes
  <1>3. QED
    BY <1>1, <1>2 DEF ErrorsLeft, NoData

LEMMA ReceiveFieldTypes ==
  ASSUME TypeInv, ReceiveField
  PROVE  TypeInv'
  <1> DEFINE f    == Head(down)
             kind == Head(expect)
  <1>1. /\ down \in Seq(Fields) /\ f \in Fields /\ Tail(down) \in Seq(Fields)
        /\ cliPc = "reading" /\ expect # <<>>
        /\ expect \in Seq(Kinds) /\ Tail(expect) \in Seq(Kinds)
    BY HeadTail DEF ReceiveField, TypeInv, TypeOK
  <1>2. f.id \in Nat /\ error \in Signs /\ up \in Seq(Messages)
    BY <1>1 DEF Fields, TypeInv, TypeOK
  <1>3. down' \in Seq(Fields)
    BY <1>1 DEF ReceiveField
  <1>4. MethodTypes' /\ up' \in Seq(Messages)
    <2>1. CASE kind = "cmd" /\ AfterCmd(ReadCmd(TRUE, f.val, NONE), f.id)
      BY <1>2, <2>1, AfterCmdTypes
    <2>2. CASE kind = "err" /\ Fits(kind, f) /\ AfterError(f.val, f.id)
      <3>1. f.val \in Signs
        BY <1>1, <2>2 DEF Fits, Fields
      <3>2. QED
        BY <1>1, <1>2, <2>2, <3>1, AfterErrorTypes
    <2>3. CASE kind = "size" /\ Fits(kind, f) /\ AfterSize(f.val, f.id)
      <3>1. f.val \in Signs
        BY <1>1, <2>3 DEF Fits, Fields
      <3>2. QED
        BY <1>1, <1>2, <2>3, <3>1, AfterSizeTypes
    <2>4. CASE Return(error, f.id) /\ UNCHANGED up
      BY <1>2, <2>4, ReturnTypes
    <2>5. QED
      BY <2>1, <2>2, <2>3, <2>4 DEF ReceiveField
  <1>5. ServerTypes'
    BY DEF ReceiveField, srvVars, ServerTypes, TypeInv, TypeOK
  <1>6. QED
    BY <1>3, <1>4, <1>5, TypeParts

\* The bytes left of a field are a field of their own.
LEMMA BytesTypes ==
  ASSUME NEW f \in Fields, NEW s \in Seq(Fields)
  PROVE  <<Bytes(f)>> \o s \in Seq(Fields)
  <1>1. Bytes(f) \in Fields
    BY DEF Bytes, Field, Fields, Kinds, Signs
  <1>2. <<Bytes(f)>> \in Seq(Fields)
    BY <1>1
  <1>3. QED
    BY <1>2, Appended

LEMMA SkipTypes ==
  ASSUME TypeInv, SkipBytes
  PROVE  down' \in Seq(Fields)
  <1>1. PICK n \in 0..Len(down) :
          LET rest == SubSeq(down, n + 1, Len(down))
          IN \/ n > 0 /\ down' = rest
             \/ rest # <<>> /\ down' = <<Bytes(Head(rest))>> \o Tail(rest)
    BY DEF SkipBytes
  <1> DEFINE rest == SubSeq(down, n + 1, Len(down))
  <1>2. down \in Seq(Fields)
    BY DEF TypeInv, TypeOK
  <1>3. rest \in Seq(Fields)
    <2>1. n + 1 \in 1..(Len(down) + 1) /\ Len(down) \in Nat
      BY <1>2
    <2>2. \A i \in (n + 1)..Len(down) : down[i] \in Fields
      BY <1>2, <2>1
    <2>3. QED
      BY <1>2, <2>1, <2>2
  <1>4. CASE down' = rest
    BY <1>3, <1>4
  <1>5. CASE rest # <<>> /\ down' = <<Bytes(Head(rest))>> \o Tail(rest)
    <2>1. Head(rest) \in Fields /\ Tail(rest) \in Seq(Fields)
      BY <1>3, <1>5, HeadTail
    <2>2. QED
      BY <1>5, <2>1, BytesTypes
  <1>6. QED
    BY <1>1, <1>4, <1>5

LEMMA ReceivePartTypes ==
  ASSUME TypeInv, ReceivePart
  PROVE  TypeInv'
  <1>1. down' \in Seq(Fields)
    BY HeadTail, BytesTypes DEF ReceivePart, TypeInv, TypeOK
  <1>2. MethodTypes'
    <2>1. CASE Return(error, 0)
      BY <2>1, ReturnTypes DEF TypeInv, TypeOK
    <2>2. CASE Misread
      BY <2>2 DEF Misread, MethodTypes, TypeInv, TypeOK
    <2>3. QED
      BY <2>1, <2>2 DEF ReceivePart
  <1>3. ServerTypes' /\ up' \in Seq(Messages)
    BY DEF ReceivePart, srvVars, ServerTypes, TypeInv, TypeOK
  <1>4. QED
    BY <1>1, <1>2, <1>3, TypeParts

LEMMA ReceiveTornTypes ==
  ASSUME TypeInv, ReceiveTorn
  PROVE  TypeInv'
  <1> DEFINE from == Head(down).id
  <1>1. from \in Nat /\ cliPc = "reading"
    <2>1. Head(down) \in Fields
      BY HeadTail DEF ReceiveTorn, TypeInv, TypeOK
    <2>2. QED
      BY <2>1 DEF Fields, ReceiveTorn
  <1>2. down' \in Seq(Fields)
    BY SkipTypes DEF ReceiveTorn
  <1>3. MethodTypes' /\ up' \in Seq(Messages)
    <2>1. error \in Signs /\ up \in Seq(Messages)
      BY DEF TypeInv, TypeOK
    <2>2. CASE \E cmd \in {NONE, ACCEPT} : AfterCmd(cmd, from)
      BY <1>1, <2>2, AfterCmdTypes
    <2>3. CASE \E v \in Signs : AfterError(v, from)
      BY <1>1, <2>3, AfterErrorTypes
    <2>4. CASE \E v \in Signs : AfterSize(v, from)
      BY <1>1, <2>4, AfterSizeTypes
    <2>5. CASE Return(error, from) /\ UNCHANGED up
      BY <1>1, <2>1, <2>5, ReturnTypes
    <2>6. CASE Misread /\ UNCHANGED up
      BY <2>1, <2>6 DEF Misread, MethodTypes, TypeInv, TypeOK
    <2>7. QED
      BY <2>2, <2>3, <2>4, <2>5, <2>6 DEF ReceiveTorn
  <1>4. ServerTypes'
    BY DEF ReceiveTorn, srvVars, ServerTypes, TypeInv, TypeOK
  <1>5. QED
    BY <1>2, <1>3, <1>4, TypeParts

LEMMA ReceiveNothingTypes ==
  ASSUME TypeInv, ReceiveNothing
  PROVE  TypeInv'
  <1>1. 0 \in Nat /\ 0 \in Signs /\ -1 \in Signs /\ error \in Signs
    BY DEF Signs, TypeInv, TypeOK
  <1>2. down \in Seq(Fields) /\ up \in Seq(Messages) /\ cliPc = "reading"
    BY DEF ReceiveNothing, TypeInv, TypeOK
  <1>3. MethodTypes' /\ up' \in Seq(Messages)
    <2>1. CASE AfterCmd(ReadCmd(FALSE, NONE, NONE), 0)
      BY <1>1, <2>1, AfterCmdTypes
    <2>2. CASE \E v \in ErrorsLeft : AfterError(v, 0)
      BY <1>1, <1>2, <2>2, LeftSigns, AfterErrorTypes
    <2>3. CASE UNCHANGED up /\ \E v \in Signs : Return(v, 0)
      BY <1>1, <1>2, <2>3, ReturnTypes
    <2>4. \/ AfterCmd(ReadCmd(FALSE, NONE, NONE), 0)
          \/ \E v \in ErrorsLeft : AfterError(v, 0)
          \/ UNCHANGED up /\ \E v \in Signs : Return(v, 0)
      BY <1>1, LeftSigns DEF ReceiveNothing
    <2>5. QED
      BY <2>1, <2>2, <2>3, <2>4
  <1>4. ServerTypes' /\ down' \in Seq(Fields)
    BY <1>2 DEF ReceiveNothing, srvVars, ServerTypes, TypeInv, TypeOK
  <1>5. QED
    BY <1>3, <1>4, TypeParts

LEMMA ServerTakesTypes ==
  ASSUME TypeInv, NEW unit, Receives(unit)
  PROVE  Head(up) \in Messages /\ Tail(up) \in Seq(Messages)
  BY HeadTail DEF Receives, TypeInv, TypeOK

LEMMA UnreadTypes ==
  ASSUME TypeInv, NEW unit, Receives(unit)
  PROVE  Unread \in Seq(Messages)
  <1>1. Head(up) \in Messages /\ Tail(up) \in Seq(Messages)
    BY ServerTakesTypes
  <1>2. [Head(up) EXCEPT !.unit = "rest"] \in Messages
    BY <1>1 DEF Messages, Units
  <1>3. <<[Head(up) EXCEPT !.unit = "rest"]>> \in Seq(Messages)
    BY <1>2
  <1>4. QED
    BY <1>1, <1>3, Appended DEF Unread

LEMMA CommandTypes ==
  ASSUME TypeInv, NEW cmd \in {HEARTBEAT, ACCEPT, INVALID_KEY, USER_NOT_FOUND, MOUNT_NOT_FOUND},
         NEW id \in Nat, ToClient(<<Field("cmd", WriteCmd(cmd), id)>>)
  PROVE  down' \in Seq(Fields)
  <1>1. Field("cmd", WriteCmd(cmd), id) \in Fields
    BY IOTypes DEF Field, Fields
  <1>2. <<Field("cmd", WriteCmd(cmd), id)>> \in Seq(Fields)
    BY <1>1
  <1>3. QED
    BY <1>2, ToClientTypes

LEMMA FieldTypes ==
  ASSUME NEW kind \in Kinds \ {"cmd"}, NEW v \in Signs, NEW id \in Nat
  PROVE  Field(kind, v, id) \in Fields /\ <<Field(kind, v, id)>> \in Seq(Fields)
  BY DEF Field, Fields

LEMMA CountedTypes ==
  ASSUME TypeInv, NEW count \in Signs, NEW kind \in {"data", "entry"}, NEW items
  PROVE  Counted(count, kind, items) \in Seq(Fields)
  <1>1. srvId \in Nat /\ 0 \in Signs /\ {"size", "data", "entry"} \subseteq Kinds \ {"cmd"}
    BY DEF TypeInv, TypeOK, Signs, Kinds
  <1>2. Field("size", count, srvId) \in Fields /\ Field(kind, 0, srvId) \in Fields
    BY <1>1, FieldTypes
  <1>3. QED
    BY <1>2 DEF Counted

\* The methods' part of TypeInv in a step of the server.
LEMMA MethodTypesKept ==
  ASSUME TypeInv, UNCHANGED cliVars
  PROVE  MethodTypes' /\ call' \in Commands /\ callId' \in 0..MaxCalls
  BY DEF cliVars, MethodTypes, TypeInv, TypeOK

LEMMA AuthenticateTypes ==
  ASSUME TypeInv, Authenticate
  PROVE  TypeInv'
  <1>1. up' \in Seq(Messages)
    BY HeadTail DEF Authenticate, TypeInv, TypeOK
  <1>2. down' \in Seq(Fields)
    BY CommandTypes DEF Authenticate
  <1>3. MethodTypes' /\ call' \in Commands /\ callId' \in 0..MaxCalls
    BY MethodTypesKept DEF Authenticate
  <1>4. ServerTypes'
    BY <1>3 DEF Authenticate, ServerTypes, TypeInv, TypeOK, MaxMissed
  <1>5. QED
    BY <1>1, <1>2, <1>3, <1>4, TypeParts

LEMMA ServeHeartbeatTypes ==
  ASSUME TypeInv, ServeHeartbeat
  PROVE  TypeInv'
  <1>1. Head(up) \in Messages /\ Tail(up) \in Seq(Messages)
    BY ServerTakesTypes DEF ServeHeartbeat
  <1>2. srvId' \in Nat /\ srvCall' \in Commands /\ 0 \in Signs
    BY <1>1 DEF ServeHeartbeat, Messages, Commands, Signs
  <1>3. down' \in Seq(Fields)
    BY <1>2, CommandTypes DEF ServeHeartbeat
  <1>4. MethodTypes' /\ call' \in Commands /\ callId' \in 0..MaxCalls
    BY MethodTypesKept DEF ServeHeartbeat
  <1>5. ServerTypes'
    BY <1>2, <1>4 DEF ServeHeartbeat, ServerTypes, TypeInv, TypeOK
  <1>6. QED
    BY <1>1, <1>3, <1>4, <1>5, TypeParts DEF ServeHeartbeat

LEMMA ServeCallTypes ==
  ASSUME TypeInv, ServeCall
  PROVE  TypeInv'
  <1>1. Head(up) \in Messages /\ Tail(up) \in Seq(Messages)
    BY ServerTakesTypes DEF ServeCall
  <1>2. srvId' \in Nat /\ srvCall' \in Commands
    BY <1>1 DEF ServeCall, Messages
  <1>3. srvError' \in Signs
    BY DEF ServeCall, Outcomes, Signs
  <1>4. down' \in Seq(Fields)
    <2>1. "err" \in Kinds \ {"cmd"}
      BY DEF Kinds
    <2>2. <<Field("err", srvError', srvId')>> \in Seq(Fields)
      BY <1>2, <1>3, <2>1, FieldTypes
    <2>3. QED
      BY <2>2, ToClientTypes DEF ServeCall
  <1>5. MethodTypes' /\ call' \in Commands /\ callId' \in 0..MaxCalls
    BY MethodTypesKept DEF ServeCall
  <1>6. srvPc' \in {"loop", "params", "body"}
    BY DEF ServeCall, AfterFirstError
  <1>7. answered' \in [id : Nat, val : Signs]
    BY <1>2, <1>3 DEF ServeCall, TypeInv, TypeOK
  <1>8. ServerTypes'
    BY <1>2, <1>3, <1>5, <1>6, <1>7 DEF ServeCall, ServerTypes, TypeInv, TypeOK
  <1>9. up' \in Seq(Messages)
    BY <1>1, UnreadTypes DEF ServeCall
  <1>10. QED
    BY <1>4, <1>5, <1>8, <1>9, TypeParts

LEMMA ServeBodyTypes ==
  ASSUME TypeInv, ServeBody
  PROVE  TypeInv'
  <1>1. down' \in Seq(Fields)
    <2>1. CASE ToClient(<<Field("stat", 0, srvId)>>)
      <3>1. "stat" \in Kinds \ {"cmd"} /\ 0 \in Signs /\ srvId \in Nat
        BY DEF Kinds, Signs, TypeInv, TypeOK
      <3>2. QED
        BY <2>1, <3>1, FieldTypes, ToClientTypes
    <2>2. CASE ToClient(Counted(srvError, "data", srvError))
      <3>1. Counted(srvError, "data", srvError) \in Seq(Fields)
        BY CountedTypes DEF TypeInv, TypeOK
      <3>2. QED
        BY <2>2, <3>1, ToClientTypes
    <2>3. CASE \E count, items \in {0, 1} : ToClient(Counted(count, "entry", items))
      <3>1. PICK count \in {0, 1}, items \in {0, 1} : ToClient(Counted(count, "entry", items))
        BY <2>3
      <3>2. Counted(count, "entry", items) \in Seq(Fields)
        BY CountedTypes DEF Signs
      <3>3. QED
        BY <3>1, <3>2, ToClientTypes
    <2>4. QED
      BY <2>1, <2>2, <2>3 DEF ServeBody
  <1>2. MethodTypes' /\ call' \in Commands /\ callId' \in 0..MaxCalls
    BY MethodTypesKept DEF ServeBody
  <1>3. ServerTypes' /\ up' \in Seq(Messages)
    BY <1>2 DEF ServeBody, ServerTypes, TypeInv, TypeOK
  <1>4. QED
    BY <1>1, <1>2, <1>3, TypeParts

LEMMA HandlerThrowsTypes ==
  ASSUME TypeInv, HandlerThrows
  PROVE  TypeInv'
  <1>1. CASE UNCHANGED down
    BY <1>1 DEF HandlerThrows, cliVars, TypeInv, TypeOK
  <1>2. CASE \E count \in {0, 1} : ToClient(Counted(count, "entry", 0))
    <2>1. PICK count \in {0, 1} : ToClient(Counted(count, "entry", 0))
      BY <1>2
    <2>2. down' \in Seq(Fields)
      BY <2>1, CountedTypes, ToClientTypes DEF Signs
    <2>3. QED
      BY <2>2 DEF HandlerThrows, cliVars, TypeInv, TypeOK
  <1>3. QED
    BY <1>1, <1>2 DEF HandlerThrows

LEMMA WriteOutcomeTypes ==
  ASSUME TypeInv, NEW v \in Signs, WriteOutcome(v)
  PROVE  /\ down' \in Seq(Fields) /\ srvError' \in Signs
         /\ answered' \in [id : Nat, val : Signs]
  <1>1. srvId \in Nat /\ "err" \in Kinds \ {"cmd"} /\ "size" \in Kinds \ {"cmd"}
    BY DEF Kinds, TypeInv, TypeOK
  <1>2. Field("err", v, srvId) \in Fields /\ Field("size", v, srvId) \in Fields
    BY <1>1, FieldTypes
  <1>3. /\ <<Field("err", v, srvId)>> \in Seq(Fields)
        /\ <<Field("err", v, srvId), Field("size", v, srvId)>> \in Seq(Fields)
    BY <1>2
  <1>4. QED
    BY <1>1, <1>3, ToClientTypes DEF WriteOutcome

LEMMA ServeParamsTypes ==
  ASSUME TypeInv, ServeParams
  PROVE  TypeInv'
  <1>1. PICK v \in Signs : WriteOutcome(v)
    BY DEF ServeParams, Signs
  <1>2. up' \in {Tail(up), Unread}
    BY DEF ServeParams
  <1>3. up' \in Seq(Messages)
    BY <1>2, ServerTakesTypes, UnreadTypes DEF ServeParams
  <1>4. MethodTypes' /\ call' \in Commands /\ callId' \in 0..MaxCalls
    BY MethodTypesKept DEF ServeParams
  <1>5. down' \in Seq(Fields) /\ srvError' \in Signs
        /\ answered' \in [id : Nat, val : Signs]
    BY <1>1, WriteOutcomeTypes
  <1>6. ServerTypes'
    BY <1>4, <1>5 DEF ServeParams, ServerTypes, TypeInv, TypeOK
  <1>7. QED
    BY <1>3, <1>4, <1>5, <1>6, TypeParts

LEMMA ParamsExpireTypes ==
  ASSUME TypeInv, ParamsExpire
  PROVE  TypeInv'
  <1>1. MethodTypes' /\ call' \in Commands /\ callId' \in 0..MaxCalls
    BY MethodTypesKept DEF ParamsExpire
  <1>2. down' \in Seq(Fields) /\ srvError' \in Signs
        /\ answered' \in [id : Nat, val : Signs]
    BY WriteOutcomeTypes DEF ParamsExpire, Signs
  <1>3. ServerTypes' /\ up' \in Seq(Messages)
    BY <1>1, <1>2 DEF ParamsExpire, ServerTypes, TypeInv, TypeOK
  <1>4. QED
    BY <1>1, <1>2, <1>3, TypeParts

LEMMA MissBeatTypes ==
  ASSUME TypeInv, MissBeat
  PROVE  TypeInv'
  <1>1. beatsMissed \in 0..MaxMissed
    BY DEF MissBeat, TypeInv, TypeOK, MaxMissed
  <1>2. beatsMissed' \in 0..(MaxMissed + 1)
    BY <1>1 DEF MissBeat, MaxMissed
  <1>3. QED
    BY <1>1, <1>2 DEF MissBeat, cliVars, TypeInv, TypeOK, MaxMissed

\* The steps that only stop the server, or consume a unit.
LEMMA OtherServerTypes ==
  ASSUME TypeInv, ForkFails \/ ServeStop \/ ServerMisread \/ KilledByPipe
  PROVE  TypeInv'
  <1>1. up' \in Seq(Messages)
    BY ServerTakesTypes
       DEF ForkFails, ServeStop, ServerMisread, KilledByPipe, TypeInv, TypeOK
  <1>2. UNCHANGED <<down, cliVars, srvCall, srvId, srvError, answered, beatsMissed>>
    BY DEF ForkFails, ServeStop, ServerMisread, KilledByPipe
  <1>3. srvPc' \in {"closed", "misread"} /\ (srvPc = "closed" => srvPc' = "closed")
    BY DEF ForkFails, ServeStop, ServerMisread, KilledByPipe
  <1>4. MethodTypes' /\ call' \in Commands /\ callId' \in 0..MaxCalls
    BY <1>2, MethodTypesKept
  <1>5. beatsMissed > MaxMissed => srvPc' = "closed"
    BY <1>3 DEF TypeInv
  <1>6. ServerTypes' /\ down' \in Seq(Fields)
    BY <1>2, <1>3, <1>4, <1>5 DEF ServerTypes, TypeInv, TypeOK
  <1>7. QED
    BY <1>1, <1>4, <1>6, TypeParts

LEMMA TypeStep == TypeInv /\ [Next]_vars => TypeInv'
  <1>1. SUFFICES ASSUME TypeInv, [Next]_vars PROVE TypeInv'
    OBVIOUS
  <1>2. CASE UNCHANGED vars
    BY <1>1, <1>2 DEF vars, cliVars, srvVars, TypeInv, TypeOK
  <1>3. ASSUME NEW c \in Calls \cup {"HEARTBEAT"}, Invoke(c) PROVE TypeInv'
    BY <1>1, <1>3, InvokeTypes
  <1>4. CASE Stop
    BY <1>1, <1>4, StopTypes
  <1>5. CASE ReceiveField
    BY <1>1, <1>5, ReceiveFieldTypes
  <1>6. CASE ReceivePart
    BY <1>1, <1>6, ReceivePartTypes
  <1>7. CASE ReceiveTorn
    BY <1>1, <1>7, ReceiveTornTypes
  <1>8. CASE ReceiveNothing
    BY <1>1, <1>8, ReceiveNothingTypes
  <1>9. CASE ServerStep
    BY <1>1, <1>9, AuthenticateTypes, ServeHeartbeatTypes, ServeCallTypes,
       ServeBodyTypes, ServeParamsTypes, ParamsExpireTypes, MissBeatTypes,
       HandlerThrowsTypes, OtherServerTypes DEF ServerStep
  <1>10. QED
    BY <1>1, <1>2, <1>3, <1>4, <1>5, <1>6, <1>7, <1>8, <1>9
       DEF Next, ClientStep, ClientRead, Finished

LEMMA TypeInit == Init => TypeInv
  <1>1. SUFFICES ASSUME Init PROVE TypeInv
    OBVIOUS
  <1>2. Unit("key", "CONNECT", 0) \in Messages
    BY DEF Unit, Messages, Units, Commands
  <1>3. up \in Seq(Messages) /\ down \in Seq(Fields) /\ expect \in Seq(Kinds)
    BY <1>1, <1>2 DEF Init, Kinds
  <1>4. QED
    BY <1>1, <1>3, SessionAssumption
       DEF Init, TypeInv, TypeOK, Commands, Signs, MaxMissed

\* Type correctness of a session, for all calls and all faults: in particular
\* beatsMissed_ never passes its limit by more than one (processCommands).
THEOREM TypeCorrect == Spec => []TypeOK
  <1>1. TypeInv => TypeOK
    BY DEF TypeInv
  <1>2. QED
    BY <1>1, TypeInit, TypeStep, PTL DEF Spec

-----------------------------------------------------------------------------
(* The server's half of the framing.  WRITE is the only command with which a *)
(* client sends something that the server has to have asked for.  Whatever   *)
(* the faults, all that travels up after the key are units of a WRITE and    *)
(* units that processCommands takes as they come, and in front of them what  *)
(* the handler that ran last has left of its request; and until the key is   *)
(* checked the client is inside connect(), or has given up.                  *)

Plain == {m \in Messages : m.unit \in {"request", "stop"} \/ m.call = "WRITE"}

\* What the last handler left of its own request.
OwnRest(m) == m.unit = "rest" /\ m.id = srvId

Greeting ==
  /\ up = <<Unit("key", "CONNECT", 0)>> /\ down = <<>>
  /\ cliPc \in {"reading", "closed"}
  /\ call = "CONNECT" /\ expect = <<"cmd">>

Torn ==
  \/ srvCall = "WRITE"
  \/ up # <<>> /\ (Head(up).call = "WRITE" \/ OwnRest(Head(up)))

PlainButFirst ==
  \/ up \in Seq(Plain)
  \/ up # <<>> /\ OwnRest(Head(up)) /\ Tail(up) \in Seq(Plain)

FramedInv ==
  /\ srvPc = "auth" => Greeting
  /\ srvPc \notin {"auth", "closed"} => PlainButFirst
  /\ srvPc = "params" => srvCall = "WRITE"
  /\ srvPc = "misread" => Torn

\* A read of no command is not taken for ACCEPT (connect(), case default).
LEMMA NoneIsRefused == ReadCmd(FALSE, NONE, NONE) # ACCEPT
  BY BigEndianAssumption DEF ReadCmd, Be16, Swap16, NONE, ACCEPT

\* What is appended does not change the head of a sequence that has one.
LEMMA Pushed ==
  ASSUME NEW S, NEW s \in Seq(S), NEW t \in Seq(S), s # <<>>
  PROVE  s \o t # <<>> /\ Head(s \o t) = Head(s) /\ Tail(s \o t) = Tail(s) \o t
  <1>1. Len(s \o t) = Len(s) + Len(t) /\ Len(s) \in Nat \ {0} /\ Len(t) \in Nat
    OBVIOUS
  <1>2. s \o t # <<>> /\ Head(s \o t) = Head(s)
    BY <1>1
  <1>3. Tail(s \o t) = Tail(s) \o t
    BY <1>1, <1>2
  <1>4. QED
    BY <1>2, <1>3

\* Nothing else than the first unit can be the rest of a request.
LEMMA FirstTaken ==
  ASSUME FramedInv, srvPc \notin {"auth", "closed"},
         NEW unit \in Units \ {"rest"}, Receives(unit)
  PROVE  Head(up) \in Plain /\ Tail(up) \in Seq(Plain)
  <1>1. PlainButFirst /\ ~ OwnRest(Head(up))
    BY DEF FramedInv, Receives, OwnRest
  <1>2. up \in Seq(Plain) /\ up # <<>>
    BY <1>1 DEF PlainButFirst, Receives
  <1>3. QED
    BY <1>2, HeadTail

\* What the client sends behind a unit of a WRITE does not hide it.
LEMMA PlainToServer ==
  ASSUME TypeInv, FramedInv, NEW u \in Plain, ToServer(<<u>>), UNCHANGED srvVars,
         srvPc # "auth"
  PROVE  FramedInv'
  <1>1. UNCHANGED <<srvPc, srvCall, srvId>>
    BY DEF srvVars
  <1>2. CASE srvPc = "closed"
    BY <1>1, <1>2 DEF FramedInv
  <1>3. CASE srvPc # "closed"
    <2>1. PlainButFirst /\ <<u>> \in Seq(Plain) /\ up' = up \o <<u>>
          /\ up \in Seq(Messages) /\ <<u>> \in Seq(Messages)
      BY <1>3 DEF FramedInv, ToServer, Plain, TypeInv, TypeOK
    <2>2. PlainButFirst'
      <3>1. CASE up \in Seq(Plain)
        BY <2>1, <3>1, Appended DEF PlainButFirst
      <3>2. CASE up # <<>> /\ OwnRest(Head(up)) /\ Tail(up) \in Seq(Plain)
        <4>1. up' # <<>> /\ Head(up') = Head(up) /\ Tail(up') = Tail(up) \o <<u>>
          BY <2>1, <3>2, Pushed
        <4>2. Tail(up') \in Seq(Plain)
          BY <2>1, <3>2, <4>1, Appended
        <4>3. QED
          BY <1>1, <3>2, <4>1, <4>2 DEF PlainButFirst, OwnRest
      <3>3. QED
        BY <2>1, <3>1, <3>2 DEF PlainButFirst
    <2>3. Torn => Torn'
      <3>1. up # <<>> => up' # <<>> /\ Head(up') = Head(up)
        BY <2>1, Pushed
      <3>2. QED
        BY <1>1, <3>1 DEF Torn, OwnRest
    <2>4. QED
      BY <1>1, <1>3, <2>2, <2>3 DEF FramedInv
  <1>4. QED
    BY <1>2, <1>3

LEMMA FramedStep == TypeInv /\ FramedInv /\ [Next]_vars => FramedInv'
  <1>1. SUFFICES ASSUME TypeInv, FramedInv, [Next]_vars PROVE FramedInv'
    OBVIOUS
  <1>2. CASE UNCHANGED vars
    BY <1>1, <1>2
       DEF vars, cliVars, srvVars, FramedInv, Greeting, Torn, OwnRest, PlainButFirst
  <1>3. ASSUME NEW c \in Calls \cup {"HEARTBEAT"}, Invoke(c) PROVE FramedInv'
    <2>1. c \in Commands /\ callId + 1 \in Nat
      BY <1>1, SessionAssumption DEF Commands, TypeInv, TypeOK
    <2>2. Unit("request", c, callId + 1) \in Plain
      BY <2>1 DEF Unit, Plain, Messages, Units
    <2>3. srvPc # "auth"
      BY <1>1, <1>3 DEF Invoke, FramedInv, Greeting
    <2>4. QED
      BY <1>1, <1>3, <2>2, <2>3, PlainToServer DEF Invoke
  <1>4. CASE Stop
    <2>1. Unit("stop", "STOP", callId) \in Plain
      BY <1>1, SessionAssumption
         DEF Unit, Plain, Messages, Units, Commands, TypeInv, TypeOK
    <2>2. srvPc # "auth"
      BY <1>1, <1>4 DEF Stop, FramedInv, Greeting
    <2>3. QED
      BY <1>1, <1>4, <2>1, <2>2, PlainToServer DEF Stop
  <1>5. CASE ClientRead
    <2>1. UNCHANGED srvVars
      BY <1>5 DEF ClientRead, ReceiveField, ReceivePart, ReceiveTorn, ReceiveNothing,
                  srvVars
    <2>2. CASE srvPc = "auth"
      <3>1. Greeting
        BY <1>1, <2>2 DEF FramedInv
      <3>2. ReceiveNothing
        BY <1>5, <3>1
           DEF Greeting, ClientRead, ReceiveField, ReceivePart, ReceiveTorn
      <3>3. AfterCmd(ReadCmd(FALSE, NONE, NONE), 0)
        <4>1. Head(expect) = "cmd"
          BY <3>1 DEF Greeting
        <4>2. QED
          BY <3>2, <4>1, Zenon DEF ReceiveNothing
      <3>4. HangUp /\ UNCHANGED up
        BY <3>1, <3>3, NoneIsRefused DEF AfterCmd, Refused, Greeting
      <3>5. Greeting'
        BY <3>1, <3>2, <3>4 DEF HangUp, ReceiveNothing, Greeting
      <3>6. QED
        BY <2>1, <2>2, <3>5 DEF FramedInv, srvVars
    <2>3. CASE srvPc # "auth" /\ UNCHANGED up
      BY <1>1, <2>1, <2>3 DEF FramedInv, Torn, OwnRest, PlainButFirst, srvVars
    <2>4. CASE /\ srvPc # "auth" /\ call = "WRITE"
               /\ ToServer(<<Unit("params", call, callId)>>)
      <3>1. Unit("params", call, callId) \in Plain
        BY <1>1, <2>4, SessionAssumption
           DEF Unit, Plain, Messages, Units, TypeInv, TypeOK
      <3>2. QED
        BY <1>1, <2>1, <2>4, <3>1, PlainToServer
    <2>5. \/ UNCHANGED up
          \/ call = "WRITE" /\ ToServer(<<Unit("params", call, callId)>>)
      BY <1>5 DEF ClientRead, ReceiveField, ReceivePart, ReceiveTorn,
                  ReceiveNothing, AfterError, AfterSize, SendParams, AfterCmd
    <2>6. QED
      BY <2>2, <2>3, <2>4, <2>5
  <1>6. CASE ServerStep
    <2>1. {"request", "stop", "params"} \subseteq Units \ {"rest"}
      BY DEF Units
    <2>2. CASE Authenticate
      <3>1. up' = <<>>
        <4>1. up = <<Unit("key", "CONNECT", 0)>> /\ up' = Tail(up)
          BY <1>1, <2>2 DEF Authenticate, FramedInv, Greeting
        <4>2. QED
          BY <4>1
      <3>2. up' \in Seq(Plain)
        BY <3>1
      <3>3. srvPc' \in {"loop", "closed"}
        BY <2>2 DEF Authenticate
      <3>4. QED
        BY <3>2, <3>3 DEF FramedInv, PlainButFirst
    <2>3. CASE ServeCall
      <3>1. PlainButFirst'
        <4>1. Head(up) \in Plain /\ Tail(up) \in Seq(Plain) /\ srvId' = Head(up).id
          BY <1>1, <2>1, <2>3, FirstTaken DEF ServeCall
        <4>2. CASE up' = Tail(up)
          BY <4>1, <4>2 DEF PlainButFirst
        <4>3. CASE up' = Unread
          <5> DEFINE rest == [Head(up) EXCEPT !.unit = "rest"]
          <5>1. rest \in Messages /\ rest.unit = "rest" /\ rest.id = srvId'
            BY <4>1 DEF Plain, Messages, Units
          <5>2. Tail(up) \in Seq(Messages)
            BY <4>1 DEF Plain
          <5>3. up' # <<>> /\ Head(up') = rest /\ Tail(up') = Tail(up)
            <6>1. <<rest>> \in Seq(Messages) /\ Head(<<rest>>) = rest /\ <<rest>> # <<>>
              BY <5>1
            <6>2. Tail(<<rest>>) \o Tail(up) = Tail(up)
              BY <5>1, <5>2
            <6>3. up' = <<rest>> \o Tail(up)
              BY <4>3 DEF Unread
            <6>4. QED
              BY <5>2, <6>1, <6>2, <6>3, Pushed
          <5>4. QED
            BY <4>1, <5>1, <5>3 DEF PlainButFirst, OwnRest
        <4>4. QED
          BY <2>3, <4>2, <4>3 DEF ServeCall
      <3>2. srvPc' \in {"loop", "body", "params"}
            /\ (srvPc' = "params" => srvCall' = "WRITE")
        BY <2>3 DEF ServeCall, AfterFirstError
      <3>3. QED
        BY <3>1, <3>2 DEF FramedInv
    <2>4. CASE ServeStop \/ ServeHeartbeat
      <3>1. up' \in Seq(Plain)
        BY <1>1, <2>1, <2>4, FirstTaken DEF ServeStop, ServeHeartbeat
      <3>2. srvPc' \in {"loop", "closed"}
        BY <2>4 DEF ServeStop, ServeHeartbeat
      <3>3. QED
        BY <3>1, <3>2 DEF FramedInv, PlainButFirst
    <2>5. CASE ForkFails \/ ServeBody \/ HandlerThrows \/ MissBeat \/ KilledByPipe
      <3>1. UNCHANGED <<up, srvId>>
        BY <2>5 DEF ForkFails, ServeBody, HandlerThrows, MissBeat, KilledByPipe
      <3>2. \/ srvPc' = "closed"
            \/ srvPc \in {"loop", "body"} /\ srvPc' = "loop"
        BY <2>5 DEF ForkFails, ServeBody, HandlerThrows, MissBeat, KilledByPipe
      <3>3. QED
        BY <1>1, <3>1, <3>2 DEF FramedInv, PlainButFirst, OwnRest
    <2>6. CASE ServeParams
      <3>1. Head(up) \in Plain /\ Tail(up) \in Seq(Plain) /\ Head(up).unit = "params"
        BY <1>1, <2>1, <2>6, FirstTaken DEF ServeParams, Receives
      <3>2. [Head(up) EXCEPT !.unit = "rest"] \in Plain
        BY <3>1 DEF Plain, Messages, Units
      <3>3. <<[Head(up) EXCEPT !.unit = "rest"]>> \in Seq(Plain)
        BY <3>2
      <3>4. up' \in Seq(Plain)
        BY <2>6, <3>1, <3>3, Appended DEF ServeParams, Unread
      <3>5. QED
        BY <2>6, <3>4 DEF ServeParams, FramedInv, PlainButFirst
    <2>7. CASE ParamsExpire
      BY <1>1, <2>7 DEF ParamsExpire, FramedInv, PlainButFirst, OwnRest
    <2>8. CASE ServerMisread
      <3>1. up # <<>> /\ UNCHANGED <<up, srvCall, srvId>> /\ srvPc' = "misread"
            /\ srvPc \in {"loop", "params"}
        BY <2>8 DEF ServerMisread
      <3>2. PlainButFirst /\ (srvPc = "params" => srvCall = "WRITE")
        BY <1>1, <3>1 DEF FramedInv
      <3>3. Torn
        <4>1. CASE OwnRest(Head(up))
          BY <3>1, <4>1 DEF Torn
        <4>2. CASE up \in Seq(Plain)
          <5>1. Head(up) \in Plain
            BY <3>1, <4>2, HeadTail
          <5>2. QED
            BY <2>8, <3>2, <5>1 DEF ServerMisread, Plain, Torn
        <4>3. QED
          BY <3>2, <4>1, <4>2 DEF PlainButFirst
      <3>4. QED
        BY <3>1, <3>2, <3>3 DEF FramedInv, Torn, OwnRest, PlainButFirst
    <2>9. QED
      BY <1>6, <2>2, <2>3, <2>4, <2>5, <2>6, <2>7, <2>8 DEF ServerStep
  <1>7. QED
    BY <1>1, <1>2, <1>3, <1>4, <1>5, <1>6 DEF Next, ClientStep, Finished

\* Whatever the client times out on, processCommands always finds a command
\* where it reads one, unless a WRITE is involved or a read() of the handler that
\* ran last stopped inside its own request.
THEOREM OnlyWriteIsMisread == Spec => []OnlyWriteMisreads
  <1>1. Init => FramedInv
    BY DEF Init, FramedInv, Greeting
  <1>2. FramedInv => OnlyWriteMisreads
    BY DEF FramedInv, OnlyWriteMisreads, Torn, OwnRest
  <1>3. TypeInv /\ FramedInv /\ [Next]_vars => FramedInv'
    BY FramedStep
  <1>4. QED
    BY <1>1, <1>2, <1>3, TypeInit, TypeStep, PTL DEF Spec
=============================================================================
