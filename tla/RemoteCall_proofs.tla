--------------------------- MODULE RemoteCall_proofs ---------------------------
(***************************************************************************)
(* A Session in which every answer comes whole and in time implements      *)
(* RemoteCall, up to its liveness.  Every step is mapped from the phases   *)
(* before and after it.                                                    *)
(***************************************************************************)
EXTENDS SessionCalls_proofs

\* What every lemma of this module assumes of a step.
Around == Calm /\ TypeInv /\ PhaseInv /\ PhaseInv' /\ [Next]_vars

LEMMA PhaseIs ==
  /\ cliPc = "closed" => Phase = "closed"
  /\ cliPc = "idle" => Phase = "idle"
  /\ cliPc \notin {"closed", "idle"} =>
       Phase = IF callId = 0 THEN "connecting"
               ELSE IF answered.id = callId THEN "executed" ELSE "called"
  BY DEF Phase

LEMMA PhaseIsNext ==
  /\ cliPc' = "closed" => Phase' = "closed"
  /\ cliPc' = "idle" => Phase' = "idle"
  /\ cliPc' \notin {"closed", "idle"} =>
       Phase' = IF callId' = 0 THEN "connecting"
                ELSE IF answered'.id = callId' THEN "executed" ELSE "called"
  BY DEF Phase

\* The server has a call to answer.
Owing ==
  /\ cliPc = "reading" /\ callId > 0 /\ answered.id < callId
  /\ \/ srvPc = "loop" /\ up = <<Unit("request", call, callId)>>
     \/ srvPc = "params" /\ srvId = callId

\* A call waits for the server, or for one that has ended.
LEMMA CalledIs ==
  ASSUME Calm, TypeInv, PhaseInv, Phase = "called"
  PROVE  Owing \/ srvPc = "closed"
  <1>1. cliPc \notin {"closed", "idle"} /\ callId # 0 /\ answered.id # callId
    BY PhaseIs
  <1>2. ~ Connecting /\ ~ Idle /\ ~ Ended
    BY <1>1 DEF Connecting, Idle, Ended
  <1>3. ~ InBody /\ ~ Answered
    BY <1>1 DEF InBody, Answered
  <1>4. Deserted => srvPc = "closed"
    BY DEF Deserted, Gone
  <1>5. Requested \/ InParams => Owing
    BY DEF Requested, InParams, InCall, Owing
  <1>6. QED
    BY <1>2, <1>3, <1>4, <1>5 DEF PhaseInv, Phased

\* A call the server takes or goes on with is one it owes an answer.
LEMMA BusyOwes ==
  ASSUME Around, \/ srvPc = "loop" /\ up # <<>> /\ Head(up).unit = "request"
                 \/ srvPc = "params"
  PROVE  Owing
  <1>1. ~ Connecting /\ ~ Settled
    BY DEF Connecting, Settled
  <1>2. ~ Ended
    BY One DEF Ended, Unit
  <1>3. ~ Idle /\ ~ Answered /\ ~ Deserted /\ ~ InBody
    BY <1>1 DEF Idle, Answered, Deserted, Settled, Gone, InBody
  <1>4. Requested \/ InParams => Owing
    BY DEF Requested, InParams, InCall, Owing
  <1>5. QED
    BY <1>1, <1>2, <1>3, <1>4 DEF Around, PhaseInv, Phased

LEMMA InitImplements == Init => Abstract!RInit
  <1>1. SUFFICES ASSUME Init PROVE Abstract!RInit
    OBVIOUS
  <1>2. Phase = "connecting"
    BY <1>1, PhaseIs DEF Init
  <1>3. call \notin FuseCalls \cup {"HEARTBEAT"}
    BY <1>1 DEF Init, FuseCalls
  <1>4. QED
    BY <1>1, <1>2, <1>3 DEF Init, Abstract!RInit

-----------------------------------------------------------------------------
(* The server's steps.                                                     *)

\* The server does not end while it owes an answer.
LEMMA OwingServerLives ==
  ASSUME Calm, Owing, ServerStep
  PROVE  srvPc' # "closed"
  <1>1. /\ cliPc # "closed"
        /\ \/ srvPc = "loop" /\ up # <<>> /\ Head(up).unit = "request"
           \/ srvPc = "params"
    BY One DEF Owing, Unit
  <1>2. ServeHeartbeat \/ ServeCall \/ ServeParams \/ ParamsExpire \/ ServerMisread
    BY <1>1, CalmFaults
       DEF ServerStep, HandlerThrows, Authenticate, ForkFails, ServeStop, ServeBody,
           MissBeat, KilledByPipe, Receives
  <1>3. QED
    BY <1>1, <1>2 DEF ServeHeartbeat, ServeCall, ServeParams, ParamsExpire,
                      ServerMisread, AfterFirstError

\* It answers the one call that waits for it, and only once.
LEMMA AnswersTheCaller ==
  ASSUME Around, ServerStep, answered' # answered
  PROVE  /\ Phase = "called" /\ Phase' = "executed"
         /\ srvPc # "closed" /\ srvPc' # "closed"
  <1>1. ServeHeartbeat \/ ServeCall \/ ServeParams \/ ParamsExpire
    BY DEF ServerStep, HandlerThrows, Authenticate, ForkFails, ServeStop, ServeBody, ServerMisread,
           MissBeat, KilledByPipe
  <1>2. UNCHANGED <<cliPc, call, callId>>
    BY Sides DEF cliVars, Around
  <1>3. Owing
    BY <1>1, BusyOwes DEF ServeHeartbeat, ServeCall, ServeParams, ParamsExpire, Receives
  <1>4. /\ cliPc \notin {"idle", "closed"} /\ callId # 0 /\ answered.id # callId
        /\ srvPc # "closed"
    BY <1>3, SessionAssumption DEF Owing, Around, TypeInv, TypeOK
  <1>5. answered'.id = callId
    <2>1. CASE srvPc = "loop" /\ up = <<Unit("request", call, callId)>>
      <3>1. Head(up).id = callId
        BY <2>1, One DEF Unit
      <3>2. ServeHeartbeat \/ ServeCall
        BY <1>1, <2>1 DEF ServeParams, ParamsExpire
      <3>3. QED
        BY <3>1, <3>2 DEF ServeHeartbeat, ServeCall
    <2>2. CASE srvPc = "params" /\ srvId = callId
      <3>1. ServeParams \/ ParamsExpire
        BY <1>1, <2>2 DEF ServeHeartbeat, ServeCall
      <3>2. \E v : WriteOutcome(v)
        BY <3>1 DEF ServeParams, ParamsExpire
      <3>3. QED
        BY <2>2, <3>2 DEF WriteOutcome
    <2>3. QED
      BY <1>3, <2>1, <2>2 DEF Owing
  <1>6. Phase = "called" /\ Phase' = "executed"
    BY <1>2, <1>4, <1>5, PhaseIs, PhaseIsNext
  <1>7. srvPc' # "closed"
    BY <1>3, OwingServerLives DEF Around
  <1>8. QED
    BY <1>4, <1>6, <1>7

LEMMA ServerImplements ==
  ASSUME Around, ServerStep
  PROVE  [Abstract!RNext]_(Abstract!rvars)
  <1>1. UNCHANGED <<cliPc, call, callId, returned>>
    BY Sides DEF cliVars
  <1>2. srvPc # "closed"
    BY DEF ServerStep, HandlerThrows, Authenticate, ForkFails, ServeStop, ServeHeartbeat, ServeCall,
           ServeBody, ServeParams, ParamsExpire, ServerMisread, MissBeat, KilledByPipe
  <1>3. CASE answered' # answered
    <2>1. /\ Phase = "called" /\ Phase' = "executed" /\ srvPc' # "closed"
      BY <1>3, AnswersTheCaller
    <2>2. answered'.val \in {-1, 0, 1}
      BY TypeStep DEF Around, TypeInv, TypeOK, Signs
    <2>3. Abstract!Execute
      BY <1>1, <1>2, <2>1, <2>2 DEF Abstract!Execute
    <2>4. QED
      BY <2>3 DEF Abstract!RNext
  <1>4. CASE answered' = answered
    <2>1. Phase' = Phase
      BY <1>1, <1>4 DEF Phase
    <2>2. CASE srvPc' = "closed"
      <3>1. Phase # "called"
        BY <1>2, <2>2, CalledIs, OwingServerLives DEF Around
      <3>2. Abstract!Perish
        BY <1>1, <1>2, <1>4, <2>1, <2>2, <3>1 DEF Abstract!Perish
      <3>3. QED
        BY <3>2 DEF Abstract!RNext
    <2>3. CASE srvPc' # "closed"
      BY <1>1, <1>2, <1>4, <2>1, <2>3 DEF Abstract!rvars
    <2>4. QED
      BY <2>2, <2>3
  <1>5. QED
    BY <1>3, <1>4
-----------------------------------------------------------------------------
(* The client's steps.                                                     *)

\* Only connect() and heartbeat() close the socket.
LEMMA OnlyCmdHangsUp ==
  ASSUME ClientRead, cliPc' = "closed"
  PROVE  Head(expect) = "cmd" /\ UNCHANGED <<error, sources, returned>>
  BY DEF ClientRead, ReceiveField, ReceivePart, ReceiveTorn, ReceiveNothing,
         AfterCmd, AfterError, AfterSize, SendParams, Return, ReadOn, HangUp, Misread

\* What a read does to the variables RemoteCall has.
LEMMA ReadOutcomes ==
  ASSUME ClientRead
  PROVE  /\ UNCHANGED <<call, callId, srvVars>>
         /\ cliPc = "reading" /\ cliPc' \in {"reading", "idle", "closed", "misread"}
         /\ cliPc' # "idle" => UNCHANGED returned
  BY DEF ClientRead, ReceiveField, ReceivePart, ReceiveTorn, ReceiveNothing,
         AfterCmd, AfterError, AfterSize, SendParams, Return, ReadOn, HangUp, Misread

\* heartbeat() does not close the socket when it has been answered.
LEMMA AnsweredStays ==
  ASSUME Around, ClientRead, Answered
  PROVE  cliPc' # "closed"
  <1>1. SUFFICES ASSUME cliPc' = "closed" PROVE FALSE
    OBVIOUS
  <1>2. Head(expect) = "cmd"
    BY <1>1, OnlyCmdHangsUp
  <1>3. AwaitCmd
    BY <1>2, Bodies, One, Two
       DEF Answered, AwaitOnlyErr, AwaitErr, AwaitBody, Bodied, AwaitData, AwaitEntry,
           AwaitWritten
  <1>4. /\ down # <<>> /\ Head(down).val = WriteCmd(HEARTBEAT) /\ call = "HEARTBEAT"
        /\ Head(down).kind = "cmd"
    BY <1>3, One DEF AwaitCmd, Mine, Field
  <1>5. ReceiveField
    BY <1>2, <1>4, ReadsField DEF Around
  <1>6. AfterCmd(HEARTBEAT, Head(down).id)
    BY <1>2, <1>4, <1>5, TakesCmd, Heard
  <1>7. Return(0, Head(down).id)
    BY <1>4, <1>6 DEF AfterCmd, Refused, HEARTBEAT, NONE
  <1>8. QED
    BY <1>1, <1>7 DEF Return

LEMMA ReadImplements ==
  ASSUME Around, ClientRead
  PROVE  [Abstract!RNext]_(Abstract!rvars)
  <1>1. /\ UNCHANGED <<call, callId, srvVars>> /\ cliPc = "reading"
        /\ cliPc' \in {"reading", "idle", "closed", "misread"}
        /\ cliPc' # "idle" => UNCHANGED returned
    BY ReadOutcomes
  <1>2. UNCHANGED <<srvPc, answered>>
    BY <1>1 DEF srvVars
  <1>3. CASE cliPc' \in {"reading", "misread"}
    <2>1. Phase' = Phase
      BY <1>1, <1>2, <1>3 DEF Phase
    <2>2. QED
      BY <1>1, <1>2, <1>3, <2>1 DEF Abstract!rvars
  <1>4. CASE cliPc' = "idle"
    <2>1. Idle' /\ Phase' = "idle"
      BY <1>4, PhaseIsNext DEF Around, PhaseInv, Phased, Connecting, Ended,
         Requested, InBody, InParams, Answered, Deserted, InCall
    <2>2. /\ srvPc = "closed" \/ srvPc = "loop"
          /\ OwnOutcome' \/ (srvPc = "closed" /\ answered.id < callId)
      BY <1>1, <1>2, <2>1 DEF Idle, Settled, Gone
    <2>3. OwnOutcome' => answered.id = callId /\ returned'.val = answered.val
      BY <1>1, <1>2 DEF OwnOutcome
    <2>4. CASE Connecting
      <3>1. Phase = "connecting" /\ answered.id = 0 /\ answered.val = 0 /\ callId = 0
            /\ returned.val = 0
        BY <2>4, PhaseIs DEF Connecting
      <3>2. returned'.val = 0
        BY <2>2, <2>3, <3>1
      <3>3. Abstract!Connect
        BY <1>1, <1>2, <2>1, <3>1, <3>2 DEF Abstract!Connect
      <3>4. QED
        BY <3>3 DEF Abstract!RNext
    <2>5. CASE Answered
      <3>1. answered.id = callId /\ callId > 0 /\ callId \in Nat
        BY <2>5, SessionAssumption DEF Answered, InCall, Around, TypeInv, TypeOK
      <3>2. Phase = "executed"
        BY <1>1, <3>1, PhaseIs
      <3>3. returned'.val = answered.val
        BY <2>2, <2>3, <3>1
      <3>4. Abstract!Respond
        BY <1>1, <1>2, <2>1, <3>2, <3>3 DEF Abstract!Respond
      <3>5. QED
        BY <3>4 DEF Abstract!RNext
    <2>6. CASE Deserted
      <3>1. answered.id < callId /\ callId > 0 /\ callId \in Nat /\ answered.id \in Nat
            /\ srvPc = "closed"
        BY <2>6, SessionAssumption
           DEF Deserted, Gone, InCall, Around, TypeInv, TypeOK
      <3>2. Phase = "called"
        BY <1>1, <3>1, PhaseIs
      <3>3. returned'.val \in {-1, 0, 1}
        BY TypeStep DEF Around, TypeInv, TypeOK, Signs
      <3>4. Abstract!Fail
        BY <1>1, <1>2, <2>1, <3>1, <3>2, <3>3 DEF Abstract!Fail
      <3>5. QED
        BY <3>4 DEF Abstract!RNext
    <2>7. ~ InBody /\ ~ InParams
      BY <2>2 DEF InBody, InParams
    <2>8. CASE Requested
      <3>1. srvPc = "loop" /\ answered.id < callId /\ callId \in Nat /\ answered.id \in Nat
        BY <2>8, SessionAssumption DEF Requested, Around, TypeInv, TypeOK
      <3>2. QED
        BY <2>2, <2>3, <3>1
    <2>9. ~ Idle /\ ~ Ended
      BY <1>1 DEF Idle, Ended
    <2>10. QED
      BY <2>4, <2>5, <2>6, <2>7, <2>8, <2>9 DEF Around, PhaseInv, Phased
  <1>5. CASE cliPc' = "closed"
    <2>1. Phase' = "closed" /\ Head(expect) = "cmd"
      BY <1>5, PhaseIsNext, OnlyCmdHangsUp
    <2>2. CASE Connecting
      <3>1. Phase = "connecting"
        BY <2>2, PhaseIs DEF Connecting
      <3>2. Abstract!Connect
        BY <1>1, <1>2, <1>5, <2>1, <3>1 DEF Abstract!Connect
      <3>3. QED
        BY <3>2 DEF Abstract!RNext
    <2>3. CASE Deserted
      <3>1. answered.id < callId /\ callId > 0 /\ callId \in Nat /\ answered.id \in Nat
            /\ srvPc = "closed"
        BY <2>3, SessionAssumption
           DEF Deserted, Gone, InCall, Around, TypeInv, TypeOK
      <3>2. Phase = "called"
        BY <1>1, <3>1, PhaseIs
      <3>3. Abstract!Fail
        BY <1>1, <1>2, <1>5, <2>1, <3>1, <3>2 DEF Abstract!Fail
      <3>4. QED
        BY <3>3 DEF Abstract!RNext
    <2>4. ~ Requested
      <3>1. CASE Requested
        <4>1. down = <<>> /\ Calm
          BY <3>1 DEF Requested, Around
        <4>2. NothingComing
          BY <4>1, ReadsNothing
        <4>3. QED
          BY <3>1, <4>2, One DEF NothingComing, Requested
      <3>2. QED
        BY <3>1
    <2>5. ~ InBody /\ ~ InParams
      BY <2>1, Bodies, One, Two DEF InBody, InParams, Bodied
    <2>6. ~ Answered /\ ~ Idle /\ ~ Ended
      BY <1>1, <1>5, AnsweredStays DEF Idle, Ended
    <2>7. QED
      BY <2>2, <2>3, <2>4, <2>5, <2>6 DEF Around, PhaseInv, Phased
  <1>6. QED
    BY <1>1, <1>3, <1>4, <1>5

LEMMA IdleImplements ==
  ASSUME Around, Idle, Stop \/ \E c \in Calls \cup {"HEARTBEAT"} : Invoke(c)
  PROVE  [Abstract!RNext]_(Abstract!rvars)
  <1>1. Phase = "idle"
    BY PhaseIs DEF Idle
  <1>2. CASE Stop
    <2>1. UNCHANGED <<call, srvPc, answered, returned>> /\ Phase' = "closed"
      BY <1>2, PhaseIsNext DEF Stop, srvVars
    <2>2. Abstract!Disconnect
      BY <1>1, <2>1 DEF Abstract!Disconnect
    <2>3. QED
      BY <2>2 DEF Abstract!RNext
  <1>3. ASSUME NEW c \in Calls \cup {"HEARTBEAT"}, Invoke(c)
        PROVE  [Abstract!RNext]_(Abstract!rvars)
    <2>1. /\ UNCHANGED <<srvPc, answered, returned>>
          /\ cliPc' = "reading" /\ call' = c /\ callId' = callId + 1
      BY <1>3 DEF Invoke, srvVars
    <2>2. callId \in Nat /\ answered.id \in Nat /\ answered.id <= callId
      BY SessionAssumption DEF Idle, Around, TypeInv, TypeOK
    <2>3. answered'.id # callId' /\ callId' # 0
      BY <2>1, <2>2
    <2>4. Phase' = "called"
      BY <2>1, <2>3, PhaseIsNext
    <2>5. c \in FuseCalls \cup {"HEARTBEAT"}
      BY SessionAssumption
    <2>6. Abstract!Request(c)
      BY <1>1, <2>1, <2>4 DEF Abstract!Request
    <2>7. QED
      BY <2>5, <2>6 DEF Abstract!RNext
  <1>4. QED
    BY <1>2, <1>3

-----------------------------------------------------------------------------

LEMMA StepImplements ==
  ASSUME Around
  PROVE  [Abstract!RNext]_(Abstract!rvars)
  <1>1. CASE UNCHANGED vars
    <2>1. UNCHANGED <<cliPc, call, callId, returned, srvPc, answered>>
      BY <1>1 DEF vars, cliVars, srvVars
    <2>2. Phase' = Phase
      BY <2>1 DEF Phase
    <2>3. QED
      BY <2>1, <2>2 DEF Abstract!rvars
  <1>2. CASE cliPc = "idle"
    <2>1. Idle
      BY <1>2 DEF Around, PhaseInv, Phased, Connecting, Ended,
         Requested, InBody, InParams, Answered, Deserted, InCall
    <2>2. QED
      BY <1>1, <1>2, <2>1, IdleSteps, IdleImplements, ServerImplements DEF Around
  <1>3. CASE cliPc = "reading"
    BY <1>1, <1>3, ReadingSteps, ReadImplements, ServerImplements DEF Around
  <1>4. CASE cliPc \in {"closed", "misread"}
    BY <1>1, <1>4, StoppedSteps, ServerImplements DEF Around
  <1>5. QED
    BY <1>2, <1>3, <1>4 DEF Around, TypeInv, TypeOK

\* While every read and every write is whole and in time, each call that returns
\* was executed once, between its request and its return, and returns the error of
\* that execution; one that finds the server ended is not executed (the
\* ServerConnection methods and the ClientConnection handlers together).
THEOREM CallsAreRemote == ASSUME Calm PROVE Spec => Abstract!RSafety
  <1>1. Init => Abstract!RInit
    BY InitImplements
  <1>2. TypeInv /\ PhaseInv /\ (TypeInv /\ PhaseInv)' /\ [Next]_vars
          => [Abstract!RNext]_(Abstract!rvars)
    BY StepImplements DEF Around
  <1>3. Spec => [](TypeInv /\ PhaseInv)
    BY PhasesHold
  <1>4. QED
    BY <1>1, <1>2, <1>3, PTL DEF Spec, Abstract!RSafety
=============================================================================
