----------------------------- MODULE RemoteCall -----------------------------
(***************************************************************************)
(* What a ServerConnection promises its callers: a call is executed once,  *)
(* by the server, between the moment it is made and the moment it returns, *)
(* and it returns the outcome of that execution.  Once the server has      *)
(* ended, a call is not executed and returns whatever it likes, but it     *)
(* returns.  Nothing of streams, fields or timeouts is left.  Session      *)
(* implements it when every read and every write is whole and in time.     *)
(***************************************************************************)
EXTENDS Integers

CONSTANT RemoteCommands

VARIABLES
  phase,      \* "connecting", "idle", "called", "executed" or "closed"
  command,    \* the command of the last call
  alive,      \* the server has not ended
  outcome,    \* the sign of the error the server's last execution gave
  delivered   \* the sign of the error the last call returned

rvars == <<phase, command, alive, outcome, delivered>>

RInit ==
  /\ phase = "connecting"
  /\ command \notin RemoteCommands
  /\ alive = TRUE
  /\ outcome = 0
  /\ delivered = 0

Connect ==
  /\ phase = "connecting"
  /\ phase' \in {"idle", "closed"}
  /\ UNCHANGED <<command, alive, outcome, delivered>>

Request(c) ==
  /\ phase = "idle"
  /\ phase' = "called"
  /\ command' = c
  /\ UNCHANGED <<alive, outcome, delivered>>

Execute ==
  /\ phase = "called" /\ alive
  /\ phase' = "executed"
  /\ outcome' \in {-1, 0, 1}
  /\ UNCHANGED <<command, alive, delivered>>

Respond ==
  /\ phase = "executed"
  /\ phase' = "idle"
  /\ delivered' = outcome
  /\ UNCHANGED <<command, alive, outcome>>

\* The server ends, while no call waits for it.
Perish ==
  /\ alive /\ phase # "called"
  /\ alive' = FALSE
  /\ UNCHANGED <<phase, command, outcome, delivered>>

\* A call to a server that has ended; it may close the connection.
Fail ==
  /\ phase = "called" /\ ~ alive
  /\ \/ phase' = "idle" /\ delivered' \in {-1, 0, 1}
     \/ phase' = "closed" /\ UNCHANGED delivered
  /\ UNCHANGED <<command, alive, outcome>>

Disconnect ==
  /\ phase = "idle"
  /\ phase' = "closed"
  /\ UNCHANGED <<command, alive, outcome, delivered>>

RNext ==
  \/ Connect \/ Execute \/ Respond \/ Perish \/ Fail \/ Disconnect
  \/ \E c \in RemoteCommands : Request(c)

\* What may happen to a call; and RSpec, that it returns.
RSafety == RInit /\ [][RNext]_rvars

RSpec == RSafety /\ WF_rvars(Connect \/ Execute \/ Respond \/ Fail)
=============================================================================
