------------------------- MODULE Connection_proofs -------------------------
(* Theorems about Connection, for every value of its constants. *)
EXTENDS Connection, TLAPS

-----------------------------------------------------------------------------
(* Type correctness.                                                         *)

Pcs == WorkerPcs \cup BeatPcs \cup MainPcs

LEMMA ThreadNames ==
  /\ "beat" \in Threads /\ "main" \in Threads
  /\ \A w \in Workers :
       /\ w \in Threads
       /\ w \notin {"beat", "main", "nobody", "fresh", "between", "torn"}
  BY ConnectionAssumption DEF Threads

LEMMA GotoTypes ==
  ASSUME TypeOK, NEW t \in Threads, NEW from, NEW to \in Pcs, Goto(t, from, to)
  PROVE  /\ pc' \in [Threads -> Pcs]
         /\ pc'[t] = to
         /\ \A s \in Threads \ {t} : pc'[s] = pc[s]
  BY DEF Goto, TypeOK, Pcs

LEMMA WriteTypes ==
  ASSUME TypeOK, NEW before, NEW after \in Streams, Write(before, after)
  PROVE  stream' \in [Fds -> Streams]
  BY DEF Write, TypeOK, Streams

LEMMA CloseTypes ==
  ASSUME TypeOK, Close
  PROVE  open' \subseteq Fds /\ session' \in [Fds -> {"dialled", "serving", "closed"}]
  BY DEF Close, TypeOK

LEMMA WorkerTypes ==
  ASSUME TypeOK, NEW w \in Workers, Call(w) \/ Enter(w) \/ Working(w)
  PROVE  TypeOK'
  <1>1. w \in Threads /\ {"idle", "enter", "args", "read"} \subseteq Pcs
    BY ThreadNames DEF Pcs, WorkerPcs
  <1>2. w \in Streams /\ "between" \in Streams
    BY DEF Streams
  <1>3. CASE Call(w)
    <2>1. calls' \in 0..MaxCalls
      BY <1>3, ConnectionAssumption DEF Call, TypeOK
    <2>2. pc' \in [Threads -> Pcs]
      BY <1>1, <1>3, GotoTypes DEF Call
    <2>3. QED
      BY <1>3, <2>1, <2>2 DEF Call, TypeOK, Pcs
  <1>4. CASE Enter(w)
    <2>1. pc' \in [Threads -> Pcs] /\ stream' \in [Fds -> Streams]
      BY <1>1, <1>2, <1>4, GotoTypes, WriteTypes DEF Enter
    <2>2. QED
      BY <1>1, <1>4, <2>1 DEF Enter, Lock, TypeOK, Pcs
  <1>5. CASE SendArgs(w)
    <2>1. pc' \in [Threads -> Pcs] /\ stream' \in [Fds -> Streams]
      BY <1>1, <1>2, <1>5, GotoTypes, WriteTypes DEF SendArgs
    <2>2. QED
      BY <1>5, <2>1 DEF SendArgs, TypeOK, Pcs
  <1>6. CASE Return(w)
    <2>1. pc' \in [Threads -> Pcs]
      BY <1>1, <1>6, GotoTypes DEF Return
    <2>2. QED
      BY <1>6, <2>1 DEF Return, Unlock, TypeOK, Pcs
  <1>7. QED
    BY <1>3, <1>4, <1>5, <1>6 DEF Working

LEMMA HeartbeatTypes ==
  ASSUME TypeOK, HeartbeatThread
  PROVE  TypeOK'
  <1>1. "beat" \in Threads /\ BeatPcs \subseteq Pcs
    BY ThreadNames DEF Pcs
  <1>2. pc' \in [Threads -> Pcs]
    <2>1. PICK from, to \in BeatPcs : Goto("beat", from, to)
      BY DEF HeartbeatThread, BeatTop, BeatLook, Beat, Hear, Drop, Dropped, DialFails,
             Dial, SendKey, Accepted, Refused, CloseRefused, ForgetRefused, BeatPcs
    <2>2. QED
      BY <1>1, <2>1, GotoTypes
  <1>3. CASE BeatTop \/ BeatLook \/ Accepted \/ Refused
    BY <1>2, <1>3 DEF BeatTop, BeatLook, Accepted, Refused, TypeOK, Pcs
  <1>4. CASE Beat \/ SendKey
    <2>1. stream' \in [Fds -> Streams]
      BY <1>4, WriteTypes DEF Beat, SendKey, Streams
    <2>2. QED
      BY <1>1, <1>2, <1>4, <2>1 DEF Beat, SendKey, Lock, TypeOK, Pcs
  <1>5. CASE Hear
    BY <1>2, <1>5 DEF Hear, Unlock, TypeOK, Pcs
  <1>6. CASE Drop \/ CloseRefused
    BY <1>2, <1>6, CloseTypes DEF Drop, CloseRefused, TypeOK, Pcs
  <1>7. CASE Dropped \/ ForgetRefused
    BY <1>2, <1>7 DEF Dropped, ForgetRefused, Unlock, TypeOK, Pcs
  <1>8. CASE DialFails
    BY <1>2, <1>8 DEF DialFails, FreeFds, DNS_ERROR, None, TypeOK, Pcs
  <1>9. CASE Dial
    BY <1>2, <1>9 DEF Dial, FreeFds, Streams, TypeOK, Pcs
  <1>10. QED
    BY <1>3, <1>4, <1>5, <1>6, <1>7, <1>8, <1>9 DEF HeartbeatThread

LEMMA MainTypes ==
  ASSUME TypeOK, Unmount \/ EnterStop \/ Destroying
  PROVE  TypeOK'
  <1>1. "main" \in Threads /\ MainPcs \subseteq Pcs
    BY ThreadNames DEF Pcs
  <1>2. pc' \in [Threads -> Pcs]
    <2>1. PICK from, to \in MainPcs : Goto("main", from, to)
      BY DEF Unmount, EnterStop, Destroying, SendStop, CloseStopped, ForgetStopped,
             SetClosed, JoinAndExit, MainPcs
    <2>2. QED
      BY <1>1, <2>1, GotoTypes
  <1>3. CASE Unmount \/ EnterStop \/ ForgetStopped \/ SetClosed
    BY <1>1, <1>2, <1>3
       DEF Unmount, EnterStop, ForgetStopped, SetClosed, Lock, Unlock, TypeOK, Pcs
  <1>4. CASE SendStop
    <2>1. stream' \in [Fds -> Streams]
      BY <1>4, WriteTypes DEF SendStop, Streams
    <2>2. QED
      BY <1>2, <1>4, <2>1 DEF SendStop, TypeOK, Pcs
  <1>5. CASE CloseStopped
    BY <1>2, <1>5, CloseTypes DEF CloseStopped, TypeOK, Pcs
  <1>6. CASE JoinAndExit
    BY <1>2, <1>6 DEF JoinAndExit, TypeOK, Pcs
  <1>7. QED
    BY <1>3, <1>4, <1>5, <1>6 DEF Destroying

LEMMA TypeStep == TypeOK /\ [Next]_vars => TypeOK'
  <1>1. SUFFICES ASSUME TypeOK, [Next]_vars PROVE TypeOK'
    OBVIOUS
  <1>2. CASE UNCHANGED vars
    BY <1>1, <1>2 DEF vars, TypeOK
  <1>3. CASE Environment
    BY <1>1, <1>3 DEF Environment, Crash, Restart, Greet, Lapse, TypeOK
  <1>4. QED
    BY <1>1, <1>2, <1>3, WorkerTypes, HeartbeatTypes, MainTypes DEF Next

LEMMA TypeInit == Init => TypeOK
  <1>1. SUFFICES ASSUME Init PROVE TypeOK
    OBVIOUS
  <1>2. pc \in [Threads -> WorkerPcs \cup BeatPcs \cup MainPcs]
    BY <1>1 DEF Init, WorkerPcs, BeatPcs, MainPcs
  <1>3. 1 \in Fds
    BY ConnectionAssumption DEF Fds
  <1>4. /\ stream \in [Fds -> Streams]
        /\ session \in [Fds -> {"dialled", "serving", "closed"}]
    BY <1>1 DEF Init, Streams
  <1>5. calls \in 0..MaxCalls
    BY <1>1, ConnectionAssumption DEF Init
  <1>6. QED
    BY <1>1, <1>2, <1>3, <1>4, <1>5 DEF Init, TypeOK

\* Type correctness of a connection.
THEOREM TypeCorrect == Spec => []TypeOK
  BY TypeInit, TypeStep, PTL DEF Spec

-----------------------------------------------------------------------------
(* On a little-endian client nothing but stop() ever gives a connection up,  *)
(* because heartbeat() cannot see the NONE it looks for.  connect(), which   *)
(* uses socket_ without the monitor, is therefore only called once the FUSE  *)
(* threads have gone and stop() has done with socket_: what could tear a     *)
(* stream, close a descriptor twice or orphan it does not happen.            *)

Dialling == {"dial", "key", "await", "refused", "forget"}
Stopped  == {"setClosed", "join"}

\* Who is inside the monitor.
MonitorInv ==
  \A w \in Workers :
    /\ pc[w] \in {"args", "read"} => monitor = w
    /\ pc["main"] # "mounted" => pc[w] = "idle"

\* Until stop() has done with it, socket_ is the connection main made.
FirstInv ==
  /\ pc["main"] \in MainPcs
  /\ pc["beat"] \notin {"drop", "dropped"}
  /\ pc["main"] \in {"mounted", "stop", "sendStop", "close"} => socket = 1 /\ open = {1}
  /\ pc["main"] = "unset" => socket = 1 /\ open = {}
  /\ pc["beat"] \in Dialling => pc["main"] \in Stopped
  /\ pc["main"] = "exited" => open = {} /\ pc["beat"] \in {"done", "vanished"}

\* What a dialling heartbeat thread knows.
DialInv ==
  /\ pc["beat"] = "dial" => ~ connected
  /\ pc["beat"] \in {"key", "await", "refused"} => socket \in open
  /\ pc["beat"] = "forget" => open = {}
  /\ open \subseteq {socket}

\* What the server's next read on the connection meets.
StreamInv ==
  /\ StreamsWhole
  /\ \A fd \in open :
       \/ \E w \in Workers : pc[w] = "args" /\ stream[fd] = w
       \/ pc["beat"] = "key" /\ stream[fd] = "fresh"
       \/ /\ \A w \in Workers : pc[w] # "args"
          /\ pc["beat"] # "key"
          /\ stream[fd] = "between"

LittleInv == TypeOK /\ MonitorInv /\ FirstInv /\ DialInv /\ StreamInv

\* heartbeat() on a little-endian machine: the NONE that it starts from comes
\* out of a failed agfs_read_cmd with its bytes exchanged.
LEMMA NoneIsNeverHeard ==
  ASSUME ~ BigEndian, NEW stored \in BOOLEAN
  PROVE  ReadCmd(stored, WriteCmd(HEARTBEAT), NONE) # NONE
  BY DEF ReadCmd, WriteCmd, Be16, Swap16, NONE, HEARTBEAT

LEMMA PcAfter ==
  ASSUME TypeOK, NEW t \in Threads, NEW from, NEW to, Goto(t, from, to)
  PROVE  pc[t] = from /\ pc'[t] = to /\ \A s \in Threads \ {t} : pc'[s] = pc[s]
  BY DEF Goto, TypeOK

LEMMA WorkersElsewhere ==
  ASSUME TypeOK, NEW t \in {"beat", "main"}, NEW from, NEW to, Goto(t, from, to)
  PROVE  /\ \A w \in Workers : pc'[w] = pc[w]
         /\ \A s \in {"beat", "main"} \ {t} : pc'[s] = pc[s]
         /\ pc[t] = from /\ pc'[t] = to
  BY ThreadNames, PcAfter

LEMMA LittleWorker ==
  ASSUME ~ BigEndian, LittleInv, NEW w \in Workers, Call(w) \/ Enter(w) \/ Working(w)
  PROVE  MonitorInv' /\ FirstInv' /\ DialInv' /\ StreamInv'
  <1>1. w \in Threads /\ w # "beat" /\ w # "main" /\ w # "nobody" /\ w # "torn"
        /\ w # "fresh" /\ w # "between" /\ "beat" \in Threads /\ "main" \in Threads
        /\ Workers \subseteq Threads
    BY ThreadNames
  <1>2. PICK from, to \in WorkerPcs : Goto(w, from, to)
    BY DEF Call, Enter, Working, SendArgs, Return, WorkerPcs
  <1>3. /\ pc[w] = from /\ pc'[w] = to /\ pc'["beat"] = pc["beat"] /\ pc'["main"] = pc["main"]
        /\ \A v \in Workers \ {w} : pc'[v] = pc[v]
    BY <1>1, <1>2, PcAfter DEF LittleInv
  <1>4. UNCHANGED <<socket, open>>
    BY DEF Call, Enter, Working, SendArgs, Return
  <1>5. pc["main"] = "mounted" /\ pc["beat"] \notin Dialling /\ socket = 1 /\ open = {1}
    <2>1. pc["main"] = "mounted"
      BY <1>3 DEF Call, Enter, Working, SendArgs, Return, Goto, LittleInv, MonitorInv
    <2>2. QED
      BY <2>1 DEF LittleInv, FirstInv, Stopped
  <1>6. FirstInv' /\ DialInv'
    BY <1>3, <1>4, <1>5 DEF LittleInv, FirstInv, DialInv, connected, Stopped
  <1>7. MonitorInv'
    <2>1. \A v \in Workers : pc[v] \in {"args", "read"} => monitor = v /\ v # "nobody"
      BY ThreadNames DEF LittleInv, MonitorInv
    <2>2. CASE Call(w)
      BY <1>3, <1>5, <2>1, <2>2 DEF Call, Goto, MonitorInv
    <2>3. CASE Enter(w)
      BY <1>3, <1>5, <2>1, <2>3 DEF Enter, Goto, Lock, MonitorInv
    <2>4. CASE SendArgs(w)
      BY <1>3, <1>5, <2>1, <2>4 DEF SendArgs, Goto, MonitorInv
    <2>5. CASE Return(w)
      <3>1. to = "idle"
        BY <1>1, <1>3, <2>5, PcAfter DEF Return, LittleInv
      <3>2. QED
        BY <1>3, <1>5, <2>1, <2>5, <3>1 DEF Return, Goto, Unlock, MonitorInv
    <2>6. QED
      BY <2>2, <2>3, <2>4, <2>5 DEF Working
  <1>8. StreamInv'
    <2>1. CASE Call(w) \/ Return(w)
      <3>1. from # "args" /\ to # "args"
        BY <1>1, <1>3, <2>1, PcAfter DEF Call, Return, LittleInv
      <3>2. \A v \in Workers : pc'[v] = "args" <=> pc[v] = "args"
        BY <1>3, <3>1
      <3>3. UNCHANGED stream
        BY <2>1 DEF Call, Return
      <3>4. QED
        BY <1>3, <1>4, <3>2, <3>3 DEF LittleInv, StreamInv, StreamsWhole
    <2>2. CASE Enter(w)
      <3>1. \A v \in Workers : pc[v] # "args"
        BY <2>2, ThreadNames DEF Enter, Lock, LittleInv, MonitorInv
      <3>2. stream[1] = "between" /\ 1 \in Fds
        BY <1>5, <3>1, ConnectionAssumption
           DEF LittleInv, StreamInv, FirstInv, Dialling, Fds
      <3>3. stream'[1] = w /\ \A fd \in Fds \ {1} : stream'[fd] = stream[fd]
        BY <1>5, <2>2, <3>2 DEF Enter, Write
      <3>4. pc'[w] = "args"
        BY <1>1, <2>2, PcAfter DEF Enter, LittleInv
      <3>5. QED
        BY <1>1, <1>4, <1>5, <3>2, <3>3, <3>4 DEF LittleInv, StreamInv, StreamsWhole
    <2>3. CASE SendArgs(w)
      <3>1. pc[w] = "args" /\ monitor = w /\ pc'[w] = "read"
        BY <1>1, <2>3, PcAfter DEF SendArgs, Goto, LittleInv, MonitorInv
      <3>2. \A v \in Workers \ {w} : pc[v] # "args"
        BY <3>1 DEF LittleInv, MonitorInv
      <3>3. stream[1] = w /\ 1 \in Fds
        BY <1>5, <3>1, <3>2, ConnectionAssumption DEF LittleInv, StreamInv, Dialling, Fds
      <3>4. stream'[1] = "between" /\ \A fd \in Fds \ {1} : stream'[fd] = stream[fd]
        BY <1>5, <2>3, <3>3 DEF SendArgs, Write
      <3>5. QED
        BY <1>1, <1>3, <1>4, <1>5, <3>1, <3>2, <3>3, <3>4
           DEF LittleInv, StreamInv, StreamsWhole, Dialling
    <2>4. QED
      BY <2>1, <2>2, <2>3 DEF Working
  <1>9. QED
    BY <1>6, <1>7, <1>8

\* The steps of the heartbeat thread that neither dial nor hang up.
LEMMA LittleBeat ==
  ASSUME ~ BigEndian, LittleInv, BeatTop \/ BeatLook \/ Beat \/ Hear
  PROVE  MonitorInv' /\ FirstInv' /\ DialInv' /\ StreamInv'
  <1>1. PICK from \in {"top", "look", "beat", "hear"},
             to \in {"done", "look", "dial", "beat", "hear", "top", "drop"} :
               Goto("beat", from, to)
    BY DEF BeatTop, BeatLook, Beat, Hear
  <1>2. /\ \A w \in Workers : pc'[w] = pc[w]
        /\ pc'["main"] = pc["main"] /\ pc["beat"] = from /\ pc'["beat"] = to
    BY <1>1, WorkersElsewhere DEF LittleInv
  <1>3. UNCHANGED <<socket, open>>
    BY DEF BeatTop, BeatLook, Beat, Hear
  <1>4. to # "drop"
    BY <1>1, <1>2, NoneIsNeverHeard, WorkersElsewhere
       DEF BeatTop, BeatLook, Beat, Hear, LittleInv
  <1>5. to = "dial" => ~ connected
    <2>1. to = "dial" => BeatLook
      BY <1>1, <1>2, WorkersElsewhere DEF BeatTop, Beat, Hear, LittleInv
    <2>2. QED
      BY <1>1, <1>2, <2>1, WorkersElsewhere DEF BeatLook, LittleInv
  <1>6. to = "dial" => pc["main"] \in Stopped
    BY <1>2, <1>5 DEF LittleInv, FirstInv, MainPcs, Stopped, connected
  <1>7. MonitorInv'
    BY <1>2, ThreadNames
       DEF BeatTop, BeatLook, Beat, Hear, Lock, Unlock, LittleInv, MonitorInv
  <1>8. FirstInv'
    BY <1>2, <1>3, <1>4, <1>6 DEF LittleInv, FirstInv, Dialling
  <1>9. DialInv'
    BY <1>2, <1>3, <1>5 DEF LittleInv, DialInv, connected
  <1>10. UNCHANGED stream
    <2>1. CASE Beat
      <3>1. \A w \in Workers : pc[w] # "args"
        BY <2>1, ThreadNames DEF Beat, Lock, LittleInv, MonitorInv
      <3>2. \A fd \in open : stream[fd] = "between"
        BY <1>2, <3>1 DEF LittleInv, StreamInv
      <3>3. QED
        BY <2>1, <3>2 DEF Beat, Write, LittleInv, TypeOK
    <2>2. QED
      BY <2>1 DEF BeatTop, BeatLook, Hear
  <1>11. StreamInv'
    BY <1>2, <1>3, <1>10 DEF LittleInv, StreamInv, StreamsWhole
  <1>12. QED
    BY <1>7, <1>8, <1>9, <1>11

\* The steps of connect().
LEMMA LittleDial ==
  ASSUME ~ BigEndian, LittleInv,
         DialFails \/ Dial \/ SendKey \/ Accepted \/ Refused \/ CloseRefused \/ ForgetRefused
  PROVE  MonitorInv' /\ FirstInv' /\ DialInv' /\ StreamInv'
  <1>1. PICK from \in Dialling, to \in {"top", "key", "await", "refused", "forget"} :
               Goto("beat", from, to)
    BY DEF DialFails, Dial, SendKey, Accepted, Refused, CloseRefused, ForgetRefused, Dialling
  <1>2. /\ \A w \in Workers : pc'[w] = pc[w]
        /\ pc'["main"] = pc["main"] /\ pc["beat"] = from /\ pc'["beat"] = to
    BY <1>1, WorkersElsewhere DEF LittleInv
  <1>3. pc["main"] \in Stopped /\ \A w \in Workers : pc[w] = "idle"
    BY <1>2 DEF LittleInv, FirstInv, MonitorInv, Stopped
  <1>4. MonitorInv'
    BY <1>2, <1>3 DEF MonitorInv
  <1>5. FirstInv'
    BY <1>2, <1>3 DEF LittleInv, FirstInv, Stopped, MainPcs
  <1>6. \A fd \in open :
           \/ pc["beat"] = "key" /\ stream[fd] = "fresh"
           \/ pc["beat"] # "key" /\ stream[fd] = "between"
    BY <1>3 DEF LittleInv, StreamInv
  <1>7. DialInv' /\ StreamInv'
    <2>1. CASE DialFails
      <3>1. pc["beat"] = "dial" /\ pc'["beat"] = "top"
        BY <2>1, WorkersElsewhere DEF DialFails, LittleInv
      <3>2. open = {} /\ UNCHANGED <<open, stream>>
        BY <2>1, <3>1 DEF DialFails, LittleInv, DialInv, TypeOK, connected, Fds
      <3>3. QED
        BY <3>1, <3>2 DEF LittleInv, DialInv, StreamInv, StreamsWhole
    <2>2. CASE Dial
      <3>1. pc["beat"] = "dial" /\ pc'["beat"] = "key"
        BY <2>2, WorkersElsewhere DEF Dial, LittleInv
      <3>2. open = {}
        BY <3>1 DEF LittleInv, DialInv, TypeOK, connected, Fds
      <3>3. PICK fd \in Fds : /\ socket' = fd /\ open' = open \cup {fd}
                             /\ stream' = [stream EXCEPT ![fd] = "fresh"]
        BY <2>2 DEF Dial, FreeFds
      <3>4. open' = {fd} /\ stream'[fd] = "fresh"
            /\ \A g \in Fds \ {fd} : stream'[g] = stream[g]
        BY <3>2, <3>3 DEF LittleInv, TypeOK
      <3>5. QED
        BY <3>1, <3>3, <3>4 DEF LittleInv, DialInv, StreamInv, StreamsWhole
    <2>3. CASE SendKey
      <3>1. pc["beat"] = "key" /\ pc'["beat"] = "await"
        BY <2>3, WorkersElsewhere DEF SendKey, LittleInv
      <3>2. open = {socket} /\ stream[socket] = "fresh" /\ UNCHANGED <<socket, open>>
        BY <1>6, <2>3, <3>1 DEF SendKey, LittleInv, DialInv
      <3>3. /\ stream'[socket] = "between" /\ socket \in Fds
            /\ \A g \in Fds \ {socket} : stream'[g] = stream[g]
        BY <2>3, <3>2 DEF SendKey, Write, LittleInv, TypeOK
      <3>4. QED
        BY <1>2, <1>3, <3>1, <3>2, <3>3 DEF LittleInv, DialInv, StreamInv, StreamsWhole
    <2>4. CASE Accepted \/ Refused
      <3>1. pc["beat"] = "await" /\ pc'["beat"] \in {"top", "refused"}
        BY <2>4, WorkersElsewhere DEF Accepted, Refused, LittleInv
      <3>2. UNCHANGED <<socket, open, stream>>
        BY <2>4 DEF Accepted, Refused
      <3>3. QED
        BY <1>2, <1>3, <3>1, <3>2 DEF LittleInv, DialInv, StreamInv, StreamsWhole
    <2>5. CASE CloseRefused
      <3>1. pc["beat"] = "refused" /\ pc'["beat"] = "forget"
        BY <2>5, WorkersElsewhere DEF CloseRefused, LittleInv
      <3>2. open' = {} /\ UNCHANGED stream
        BY <2>5 DEF CloseRefused, Close, LittleInv, DialInv
      <3>3. QED
        BY <3>1, <3>2 DEF LittleInv, DialInv, StreamInv, StreamsWhole
    <2>6. CASE ForgetRefused
      <3>1. pc["beat"] = "forget" /\ pc'["beat"] = "top"
        BY <2>6, WorkersElsewhere DEF ForgetRefused, LittleInv
      <3>2. open' = {} /\ UNCHANGED stream
        BY <2>6, <3>1 DEF ForgetRefused, LittleInv, DialInv
      <3>3. QED
        BY <3>1, <3>2 DEF LittleInv, DialInv, StreamInv, StreamsWhole
    <2>7. QED
      BY <2>1, <2>2, <2>3, <2>4, <2>5, <2>6
  <1>8. QED
    BY <1>4, <1>5, <1>7

\* The end of main.
LEMMA LittleMain ==
  ASSUME ~ BigEndian, LittleInv, Unmount \/ EnterStop \/ Destroying
  PROVE  MonitorInv' /\ FirstInv' /\ DialInv' /\ StreamInv'
  <1>1. PICK from, to \in MainPcs : Goto("main", from, to) /\ to # "mounted"
    BY DEF Unmount, EnterStop, Destroying, SendStop, CloseStopped, ForgetStopped,
           SetClosed, JoinAndExit, MainPcs
  <1>2. /\ \A w \in Workers : pc'[w] = pc[w]
        /\ pc'["beat"] = pc["beat"] /\ pc["main"] = from /\ pc'["main"] = to
    BY <1>1, WorkersElsewhere DEF LittleInv
  <1>3. \A w \in Workers : pc[w] = "idle"
    <2>1. CASE Unmount
      BY <2>1 DEF Unmount
    <2>2. CASE EnterStop \/ Destroying
      <3>1. pc["main"] # "mounted"
        BY <2>2, WorkersElsewhere
           DEF EnterStop, Destroying, SendStop, CloseStopped, ForgetStopped,
               SetClosed, JoinAndExit, LittleInv
      <3>2. QED
        BY <3>1 DEF LittleInv, MonitorInv
    <2>3. QED
      BY <2>1, <2>2
  <1>4. MonitorInv'
    BY <1>2, <1>3 DEF MonitorInv
  <1>5. \A fd \in open :
           \/ pc["beat"] = "key" /\ stream[fd] = "fresh"
           \/ pc["beat"] # "key" /\ stream[fd] = "between"
    BY <1>3 DEF LittleInv, StreamInv
  <1>6. CASE Unmount \/ EnterStop
    <2>1. /\ pc["main"] \in {"mounted", "stop"} /\ socket = 1 /\ open = {1}
          /\ pc["beat"] \notin Dialling
      BY <1>6, WorkersElsewhere DEF Unmount, EnterStop, LittleInv, FirstInv, Stopped
    <2>2. pc'["main"] \in {"stop", "sendStop"}
      BY <1>6, <2>1, WorkersElsewhere DEF Unmount, EnterStop, LittleInv, connected
    <2>3. UNCHANGED <<socket, open, stream>>
      BY <1>6 DEF Unmount, EnterStop
    <2>4. QED
      BY <1>2, <1>3, <1>4, <2>1, <2>2, <2>3
         DEF LittleInv, FirstInv, DialInv, StreamInv, StreamsWhole, MainPcs, connected
  <1>7. CASE SendStop
    <2>1. /\ pc["main"] = "sendStop" /\ pc'["main"] = "close"
          /\ socket = 1 /\ open = {1} /\ pc["beat"] \notin Dialling
      BY <1>7, WorkersElsewhere DEF SendStop, LittleInv, FirstInv, Stopped
    <2>2. UNCHANGED <<socket, open>> /\ stream' = stream
      <3>1. stream[1] = "between"
        BY <1>5, <2>1 DEF Dialling
      <3>2. QED
        BY <1>7, <2>1, <3>1 DEF SendStop, Write, LittleInv, TypeOK
    <2>3. QED
      BY <1>2, <1>3, <1>4, <2>1, <2>2
         DEF LittleInv, FirstInv, DialInv, StreamInv, StreamsWhole, MainPcs, connected
  <1>8. CASE CloseStopped
    <2>1. /\ pc["main"] = "close" /\ pc'["main"] = "unset"
          /\ socket = 1 /\ open = {1} /\ pc["beat"] \notin Dialling
      BY <1>8, WorkersElsewhere DEF CloseStopped, LittleInv, FirstInv, Stopped
    <2>2. UNCHANGED <<socket, stream>> /\ open' = {}
      BY <1>8, <2>1 DEF CloseStopped, Close
    <2>3. QED
      BY <1>2, <1>4, <2>1, <2>2
         DEF LittleInv, FirstInv, DialInv, StreamInv, StreamsWhole, MainPcs, Dialling
  <1>9. CASE ForgetStopped
    <2>1. /\ pc["main"] = "unset" /\ pc'["main"] = "setClosed"
          /\ open = {} /\ pc["beat"] \notin Dialling
      BY <1>9, WorkersElsewhere DEF ForgetStopped, LittleInv, FirstInv, Stopped
    <2>2. UNCHANGED <<open, stream>>
      BY <1>9 DEF ForgetStopped
    <2>3. QED
      BY <1>2, <1>4, <2>1, <2>2
         DEF LittleInv, FirstInv, DialInv, StreamInv, StreamsWhole, MainPcs, Dialling
  <1>10. CASE SetClosed
    <2>1. pc["main"] = "setClosed" /\ pc'["main"] = "join"
      BY <1>10, WorkersElsewhere DEF SetClosed, LittleInv
    <2>2. UNCHANGED <<socket, open, stream>>
      BY <1>10 DEF SetClosed
    <2>3. QED
      BY <1>2, <1>4, <2>1, <2>2
         DEF LittleInv, FirstInv, DialInv, StreamInv, StreamsWhole, MainPcs, Stopped, connected
  <1>11. CASE JoinAndExit
    <2>1. pc'["main"] = "exited" /\ pc["beat"] \in {"done", "vanished"}
      BY <1>11, WorkersElsewhere DEF JoinAndExit, LittleInv
    <2>2. UNCHANGED stream /\ open' = {}
      BY <1>11 DEF JoinAndExit
    <2>3. QED
      BY <1>2, <1>4, <2>1, <2>2
         DEF LittleInv, FirstInv, DialInv, StreamInv, StreamsWhole, MainPcs, Dialling
  <1>12. QED
    BY <1>6, <1>7, <1>8, <1>9, <1>10, <1>11 DEF Destroying

LEMMA LittleStep == ASSUME ~ BigEndian PROVE LittleInv /\ [Next]_vars => LittleInv'
  <1>1. SUFFICES ASSUME LittleInv, [Next]_vars
                 PROVE  MonitorInv' /\ FirstInv' /\ DialInv' /\ StreamInv'
    BY TypeStep DEF LittleInv
  <1>2. CASE UNCHANGED vars \/ Environment
    <2>1. UNCHANGED <<socket, monitor, pc, open, stream>>
      BY <1>2 DEF vars, Environment, Crash, Restart, Greet, Lapse
    <2>2. QED
      BY <1>1, <2>1 DEF LittleInv, MonitorInv, FirstInv, DialInv, StreamInv,
                        StreamsWhole, connected
  <1>3. CASE HeartbeatThread
    <2>1. ~ Drop /\ ~ Dropped
      BY <1>1, WorkersElsewhere DEF Drop, Dropped, LittleInv, FirstInv
    <2>2. QED
      BY <1>1, <1>3, <2>1, LittleBeat, LittleDial DEF HeartbeatThread
  <1>4. QED
    BY <1>1, <1>2, <1>3, LittleWorker, LittleMain DEF Next

LEMMA LittleInit == Init => LittleInv
  <1>1. SUFFICES ASSUME Init PROVE LittleInv
    OBVIOUS
  <1>2. /\ \A w \in Workers : pc[w] = "idle"
        /\ pc["main"] = "mounted" /\ pc["beat"] \in {"top", "vanished"}
    BY <1>1, ThreadNames DEF Init
  <1>3. TypeOK /\ 1 \in Fds
    BY <1>1, TypeInit DEF Init, TypeOK
  <1>4. stream[1] = "between" /\ StreamsWhole
    BY <1>1, <1>3 DEF Init, StreamsWhole
  <1>5. QED
    BY <1>1, <1>2, <1>3, <1>4
       DEF Init, LittleInv, MonitorInv, FirstInv, DialInv, StreamInv, MainPcs, Dialling

LEMMA LittleInvariant == ASSUME ~ BigEndian PROVE Spec => []LittleInv
  <1>1. LittleInv /\ [Next]_vars => LittleInv'
    BY LittleStep
  <1>2. QED
    BY <1>1, LittleInit, PTL DEF Spec

\* On a little-endian client no stream is ever torn, whatever the number of FUSE
\* threads: connect() runs outside the monitor, but only after everybody else
\* is gone.
THEOREM LittleStreamsWhole == ASSUME ~ BigEndian PROVE Spec => []StreamsWhole
  <1>1. LittleInv => StreamsWhole
    BY DEF LittleInv, StreamInv
  <1>2. QED
    BY <1>1, LittleInvariant, PTL

\* Nor does stop() or connect() close a descriptor that is closed already.
THEOREM LittleCloseOnce == ASSUME ~ BigEndian PROVE Spec => []CloseOnce
  <1>1. LittleInv => CloseOnce
    BY DEF LittleInv, FirstInv, DialInv, CloseOnce
  <1>2. QED
    BY <1>1, LittleInvariant, PTL

\* Nor is a connected descriptor lost while its server waits on the other end.
THEOREM LittleNoOrphan == ASSUME ~ BigEndian PROVE Spec => []NoOrphan
  <1>1. LittleInv => NoOrphan
    BY DEF LittleInv, DialInv, NoOrphan
  <1>2. QED
    BY <1>1, LittleInvariant, PTL

-----------------------------------------------------------------------------
(* What holds in either byte order.                                          *)

\* heartbeatThread dials only when it has found no connection.
DownInv == pc["beat"] = "dial" => ~ connected

\* Only connect() puts a descriptor into socket_.
LEMMA SocketSteps ==
  ASSUME [Next]_vars
  PROVE  UNCHANGED socket \/ socket' < 0 \/ Dial
  BY DEF Next, vars, Call, Enter, Working, SendArgs, Return, HeartbeatThread, BeatTop,
         BeatLook, Beat, Hear, Drop, Dropped, DialFails, SendKey, Accepted, Refused,
         CloseRefused, ForgetRefused, Unmount, EnterStop, Destroying, SendStop,
         CloseStopped, ForgetStopped, SetClosed, JoinAndExit, Environment, Crash,
         Restart, Greet, Lapse, None, DNS_ERROR, SOCKET_FAILURE, CONNECTION_FAILURE

\* The other threads do not move heartbeatThread.
LEMMA BeatAlone ==
  ASSUME TypeOK, [Next]_vars, ~ HeartbeatThread
  PROVE  pc'["beat"] = pc["beat"]
  <1>1. ASSUME NEW t \in Threads, t # "beat", NEW from, NEW to, Goto(t, from, to)
        PROVE  pc'["beat"] = pc["beat"]
    BY <1>1, ThreadNames DEF Goto, TypeOK
  <1>2. CASE \E w \in Workers : Call(w) \/ Enter(w) \/ Working(w)
    <2>1. PICK w \in Workers : Call(w) \/ Enter(w) \/ Working(w)
      BY <1>2
    <2>2. \E from, to : Goto(w, from, to)
      BY <2>1 DEF Call, Enter, Working, SendArgs, Return
    <2>3. QED
      BY <1>1, <2>2, ThreadNames
  <1>3. CASE Unmount \/ EnterStop \/ Destroying
    <2>1. \E from, to : Goto("main", from, to)
      BY <1>3 DEF Unmount, EnterStop, Destroying, SendStop, CloseStopped, ForgetStopped,
                  SetClosed, JoinAndExit
    <2>2. QED
      BY <1>1, <2>1, ThreadNames
  <1>4. CASE Environment \/ UNCHANGED vars
    BY <1>4 DEF Environment, Crash, Restart, Greet, Lapse, vars
  <1>5. QED
    BY <1>2, <1>3, <1>4 DEF Next

LEMMA DownStep == TypeOK /\ DownInv /\ [Next]_vars => DownInv'
  <1>1. SUFFICES ASSUME TypeOK, DownInv, [Next]_vars, pc'["beat"] = "dial"
                 PROVE  ~ connected'
    BY DEF DownInv
  <1>2. CASE HeartbeatThread
    <2>1. BeatLook
      <3>1. \A from, to : Goto("beat", from, to) => pc'["beat"] = to
        BY <1>1, ThreadNames DEF Goto, TypeOK
      <3>2. QED
        BY <1>1, <1>2, <3>1
           DEF HeartbeatThread, BeatTop, Beat, Hear, Drop, Dropped, DialFails, Dial,
               SendKey, Accepted, Refused, CloseRefused, ForgetRefused
    <2>2. ~ connected /\ UNCHANGED socket
      BY <1>1, <2>1, ThreadNames DEF BeatLook, Goto, TypeOK
    <2>3. QED
      BY <2>2 DEF connected
  <1>3. CASE ~ HeartbeatThread
    <2>1. ~ connected /\ ~ Dial
      BY <1>1, <1>3, BeatAlone DEF DownInv, HeartbeatThread
    <2>2. TypeOK'
      BY <1>1, TypeStep
    <2>3. QED
      BY <1>1, <2>1, <2>2, SocketSteps DEF connected, TypeOK, None, SOCKET_FAILURE,
         CONNECTION_FAILURE, Fds
  <1>4. QED
    BY <1>2, <1>3

\* No step puts a connection in the place of another, in either byte order,
\* whatever the delays and however the threads interleave (heartbeatThread,
\* connect).
THEOREM ConnectionKept == Spec => NeverReplaced
  <1>1. Init => DownInv
    BY ThreadNames DEF Init, DownInv
  <1>2. TypeOK /\ DownInv /\ [Next]_vars
          => (connected /\ socket' >= 0 => socket' = socket)
    <2>1. SUFFICES ASSUME TypeOK, DownInv, [Next]_vars, connected, socket' >= 0
                   PROVE  socket' = socket
      OBVIOUS
    <2>2. ~ Dial
      BY <2>1 DEF Dial, Goto, DownInv
    <2>3. TypeOK'
      BY <2>1, TypeStep
    <2>4. QED
      BY <2>1, <2>2, <2>3, SocketSteps DEF TypeOK, Fds, None, SOCKET_FAILURE,
         CONNECTION_FAILURE
  <1>3. TypeOK /\ DownInv /\ [Next]_vars
          => [connected /\ socket' >= 0 => socket' = socket]_vars
    BY <1>2
  <1>4. QED
    BY <1>1, <1>3, DownStep, TypeCorrect, PTL DEF Spec, NeverReplaced
=============================================================================
