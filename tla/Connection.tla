----------------------------- MODULE Connection -----------------------------
(***************************************************************************)
(* One ServerConnection object of an agfs process and the threads that use *)
(* it: the FUSE threads (Workers), its heartbeatThread, and the thread     *)
(* that runs main, fuse_main and agfs_destroy.                             *)
(*                                                                         *)
(* Every method but three takes the mutex monitor_.  connected(), closed() *)
(* and connect() do not, and the heartbeat thread calls connect() whenever *)
(* it finds the connection down.  Each I/O call on socket_ is a step that  *)
(* reads socket_ again.                                                    *)
(*                                                                         *)
(* Of the bytes on a descriptor only the framing is kept: whether the      *)
(* server's next read finds what it expects.  What the calls answer is the *)
(* subject of Session.                                                     *)
(***************************************************************************)
EXTENDS AgfsIO

CONSTANTS
  Workers,   \* the FUSE threads
  MaxCalls,  \* how many FUSE calls are made in all
  MaxFds,    \* how many descriptors the process may have open
  Daemon,    \* no -f option: fuse_main forks, after the threads were created
  Slow       \* whether what one side sends can reach the other after its timeout

ASSUME ConnectionAssumption ==
  /\ MaxCalls \in Nat
  /\ MaxFds \in Nat \ {0}
  /\ Daemon \in BOOLEAN
  /\ Slow \in BOOLEAN
  /\ Workers \cap {"beat", "main", "nobody", "fresh", "between", "torn"} = {}

\* What dnsLookup returns instead of a descriptor, and -1 for no connection.
DNS_ERROR          == -1
SOCKET_FAILURE     == -2
CONNECTION_FAILURE == -3
None               == -1

Fds     == 1..MaxFds
Threads == Workers \cup {"beat", "main"}

VARIABLES
  socket,   \* socket_
  closed,   \* closed_
  monitor,  \* the thread that holds monitor_, or "nobody"
  pc,       \* where each thread is
  open,     \* the connected descriptors of the process
  leaked,   \* the descriptors whose ::connect failed: nothing closes them
  stream,   \* per descriptor, what the server's next read is going to meet
  session,  \* per descriptor, its server process: "dialled", "serving", "closed"
  serverUp, \* agfsd accepts connections
  calls     \* how many calls have been made

vars == <<socket, closed, monitor, pc, open, leaked, stream, session, serverUp, calls>>

WorkerPcs == {"idle", "enter", "args", "read"}
BeatPcs   == {"top", "look", "beat", "hear", "drop", "dropped",
              "dial", "key", "await", "refused", "forget", "done", "vanished"}
MainPcs   == {"mounted", "stop", "sendStop", "close", "unset", "setClosed",
              "join", "exited"}

\* "fresh": nothing was written; "between": at the end of a whole request; a
\* worker: inside its request; "torn": something else came than was expected.
Streams == {"fresh", "between", "torn"} \cup Workers

TypeOK ==
  /\ socket \in Fds \cup {None, SOCKET_FAILURE, CONNECTION_FAILURE}
  /\ closed \in BOOLEAN
  /\ monitor \in Threads \cup {"nobody"}
  /\ pc \in [Threads -> WorkerPcs \cup BeatPcs \cup MainPcs]
  /\ open \subseteq Fds
  /\ leaked \subseteq Fds
  /\ stream \in [Fds -> Streams]
  /\ session \in [Fds -> {"dialled", "serving", "closed"}]
  /\ serverUp \in BOOLEAN
  /\ calls \in 0..MaxCalls

\* main has built the object and found it connected, and has copied it into the
\* map; the heartbeat threads exist, unless fuse_main has forked since.
Init ==
  /\ socket = 1
  /\ closed = FALSE
  /\ monitor = "nobody"
  /\ pc = [t \in Threads |->
             IF t \in Workers THEN "idle"
             ELSE IF t = "main" THEN "mounted"
             ELSE IF Daemon THEN "vanished" ELSE "top"]
  /\ open = {1}
  /\ leaked = {}
  /\ stream = [fd \in Fds |-> IF fd = 1 THEN "between" ELSE "fresh"]
  /\ session = [fd \in Fds |-> IF fd = 1 THEN "serving" ELSE "closed"]
  /\ serverUp = TRUE
  /\ calls = 0

-----------------------------------------------------------------------------

Goto(t, from, to) == pc[t] = from /\ pc' = [pc EXCEPT ![t] = to]

Lock(t)   == monitor = "nobody" /\ monitor' = t
Unlock(t) == monitor = t /\ monitor' = "nobody"

\* connected()
connected == socket >= 0

\* write() on socket_ of something that may follow `before'.  It fails without
\* effect on a bad descriptor, and no caller looks.
Write(before, after) ==
  stream' = [fd \in Fds |->
               IF fd = socket /\ fd \in open
               THEN IF stream[fd] = before THEN after ELSE "torn"
               ELSE stream[fd]]

\* close(socket_): the server process reads the end of the stream.
Close ==
  /\ open' = open \ {socket}
  /\ session' = [fd \in Fds |-> IF fd = socket THEN "closed" ELSE session[fd]]

-----------------------------------------------------------------------------
(* The FUSE threads.                                                       *)

\* A handler starts.  getattr, open, read and write look at connected() first,
\* before they take the monitor; access and readdir do not.
Call(w) ==
  /\ pc["main"] = "mounted" /\ calls < MaxCalls
  /\ Goto(w, "idle", "enter")
  /\ calls' = calls + 1
  /\ UNCHANGED <<socket, closed, monitor, open, leaked, stream, session, serverUp>>

\* The method takes the monitor and writes its command.
Enter(w) ==
  /\ Lock(w)
  /\ Goto(w, "enter", "args")
  /\ Write("between", w)
  /\ UNCHANGED <<socket, closed, open, leaked, session, serverUp, calls>>

\* It writes its parameters.
SendArgs(w) ==
  /\ Goto(w, "args", "read")
  /\ Write(w, "between")
  /\ UNCHANGED <<socket, closed, monitor, open, leaked, session, serverUp, calls>>

\* It has read its reply, or waited for it in vain, and returns.
Return(w) ==
  /\ Unlock(w)
  /\ Goto(w, "read", "idle")
  /\ UNCHANGED <<socket, closed, open, leaked, stream, session, serverUp, calls>>

Working(w) == SendArgs(w) \/ Return(w)

-----------------------------------------------------------------------------
(* heartbeatThread, with heartbeat() and connect().                        *)

\* while(!conn.closed())
BeatTop ==
  /\ Goto("beat", "top", IF closed THEN "done" ELSE "look")
  /\ UNCHANGED <<socket, closed, monitor, open, leaked, stream, session, serverUp, calls>>

\* Mutant of BeatLook: it connects again and again.
BeatLookAway ==
  /\ \E next \in {"beat", "dial"} : Goto("beat", "look", next)
  /\ UNCHANGED <<socket, closed, monitor, open, leaked, stream, session, serverUp, calls>>

\* if (!conn.connected()) sleep 30 seconds and connect, else sleep 5 and beat
BeatLook ==
  /\ Goto("beat", "look", IF connected THEN "beat" ELSE "dial")
  /\ UNCHANGED <<socket, closed, monitor, open, leaked, stream, session, serverUp, calls>>

\* heartbeat() takes the monitor and writes HEARTBEAT.
Beat ==
  /\ Lock("beat")
  /\ Goto("beat", "beat", "hear")
  /\ Write("between", "between")
  /\ UNCHANGED <<socket, closed, open, leaked, session, serverUp, calls>>

\* The server answers whole requests, and only those.
Answers == connected /\ session[socket] = "serving" /\ stream[socket] = "between"

\* Mutant of Hear: heartbeat() does not look at its answer.
HearNothing ==
  /\ Goto("beat", "hear", "top")
  /\ Unlock("beat")
  /\ UNCHANGED <<socket, closed, open, leaked, stream, session, serverUp, calls>>

\* heartbeat() reads its answer and compares it with NONE.
Hear ==
  /\ pc["beat"] = "hear"
  /\ \E stored \in BOOLEAN :
       /\ stored => Answers
       /\ ~ stored => ~ Answers \/ Slow
       /\ IF ReadCmd(stored, WriteCmd(HEARTBEAT), NONE) = NONE
          THEN Goto("beat", "hear", "drop") /\ UNCHANGED monitor
          ELSE Goto("beat", "hear", "top") /\ Unlock("beat")
  /\ UNCHANGED <<socket, closed, open, leaked, stream, session, serverUp, calls>>

Drop ==
  /\ Goto("beat", "drop", "dropped")
  /\ Close
  /\ UNCHANGED <<socket, closed, monitor, leaked, stream, serverUp, calls>>

\* Mutant of Dropped: a lost connection counts as closed.
DroppedForGood ==
  /\ Goto("beat", "dropped", "top")
  /\ socket' = None
  /\ closed' = TRUE
  /\ Unlock("beat")
  /\ UNCHANGED <<open, leaked, stream, session, serverUp, calls>>

Dropped ==
  /\ Goto("beat", "dropped", "top")
  /\ socket' = None
  /\ Unlock("beat")
  /\ UNCHANGED <<closed, open, leaked, stream, session, serverUp, calls>>

FreeFds == Fds \ (open \cup leaked)

\* connect(): socket_ = dnsLookup(), which fails in one of its three ways or
\* connects.
DialFails ==
  /\ Goto("beat", "dial", "top")
  /\ \/ ~ serverUp /\ socket' = DNS_ERROR /\ UNCHANGED leaked
     \/ FreeFds = {} /\ socket' = SOCKET_FAILURE /\ UNCHANGED leaked
     \/ /\ ~ serverUp
        /\ \E fd \in FreeFds : leaked' = leaked \cup {fd}
        /\ socket' = CONNECTION_FAILURE
  /\ UNCHANGED <<closed, monitor, open, stream, session, serverUp, calls>>

Dial ==
  /\ Goto("beat", "dial", "key")
  /\ serverUp
  /\ \E fd \in FreeFds :
       /\ socket' = fd
       /\ open' = open \cup {fd}
       /\ stream' = [stream EXCEPT ![fd] = "fresh"]
       /\ session' = [session EXCEPT ![fd] = "dialled"]
  /\ UNCHANGED <<closed, monitor, leaked, serverUp, calls>>

SendKey ==
  /\ Goto("beat", "key", "await")
  /\ Write("fresh", "between")
  /\ UNCHANGED <<socket, closed, monitor, open, leaked, session, serverUp, calls>>

\* connect() reads ACCEPT.
Accepted ==
  /\ connected /\ session[socket] = "serving"
  /\ Goto("beat", "await", "top")
  /\ UNCHANGED <<socket, closed, monitor, open, leaked, stream, session, serverUp, calls>>

\* It reads a refusal, or nothing, or a method that reads the same descriptor
\* has taken its answer.
Refused ==
  /\ \/ ~ connected
     \/ connected /\ session[socket] = "closed"
     \/ Slow
     \/ \E w \in Workers : pc[w] = "read"
  /\ Goto("beat", "await", "refused")
  /\ UNCHANGED <<socket, closed, monitor, open, leaked, stream, session, serverUp, calls>>

CloseRefused ==
  /\ Goto("beat", "refused", "forget")
  /\ Close
  /\ UNCHANGED <<socket, closed, monitor, leaked, stream, serverUp, calls>>

ForgetRefused ==
  /\ Goto("beat", "forget", "top")
  /\ socket' = None
  /\ UNCHANGED <<closed, monitor, open, leaked, stream, session, serverUp, calls>>

HeartbeatThread ==
  \/ BeatTop \/ BeatLook \/ Beat \/ Hear \/ Drop \/ Dropped
  \/ DialFails \/ Dial \/ SendKey \/ Accepted \/ Refused
  \/ CloseRefused \/ ForgetRefused

-----------------------------------------------------------------------------
(* fuse_main's return and agfs_destroy, with stop().                       *)

\* libfuse joins its threads before it calls destroy.
Unmount ==
  /\ \A w \in Workers : pc[w] = "idle"
  /\ Goto("main", "mounted", "stop")
  /\ UNCHANGED <<socket, closed, monitor, open, leaked, stream, session, serverUp, calls>>

\* stop() takes the monitor and looks at connected().
EnterStop ==
  /\ Lock("main")
  /\ Goto("main", "stop", IF connected THEN "sendStop" ELSE "setClosed")
  /\ UNCHANGED <<socket, closed, open, leaked, stream, session, serverUp, calls>>

SendStop ==
  /\ Goto("main", "sendStop", "close")
  /\ Write("between", "between")
  /\ UNCHANGED <<socket, closed, monitor, open, leaked, session, serverUp, calls>>

CloseStopped ==
  /\ Goto("main", "close", "unset")
  /\ Close
  /\ UNCHANGED <<socket, closed, monitor, leaked, stream, serverUp, calls>>

\* Mutant of ForgetStopped: the wrong value for no connection.
ForgetStoppedZero ==
  /\ Goto("main", "unset", "setClosed")
  /\ socket' = 0
  /\ UNCHANGED <<closed, monitor, open, leaked, stream, session, serverUp, calls>>

ForgetStopped ==
  /\ Goto("main", "unset", "setClosed")
  /\ socket' = None
  /\ UNCHANGED <<closed, monitor, open, leaked, stream, session, serverUp, calls>>

\* Mutant of SetClosed: stop() sets closed_ only if it was connected.
SetClosedIfConnected ==
  /\ Goto("main", "setClosed", "join")
  /\ closed' = connected
  /\ Unlock("main")
  /\ UNCHANGED <<socket, open, leaked, stream, session, serverUp, calls>>

SetClosed ==
  /\ Goto("main", "setClosed", "join")
  /\ closed' = TRUE
  /\ Unlock("main")
  /\ UNCHANGED <<socket, open, leaked, stream, session, serverUp, calls>>

\* heartbeatThreads[i].join(), then main returns and the kernel closes what the
\* process had open.  In a child of fork() there is no thread to wait for.
JoinAndExit ==
  /\ pc["beat"] \in {"done", "vanished"}
  /\ Goto("main", "join", "exited")
  /\ open' = {} /\ leaked' = {}
  /\ session' = [fd \in Fds |-> "closed"]
  /\ UNCHANGED <<socket, closed, monitor, stream, serverUp, calls>>

Destroying ==
  \/ SendStop \/ CloseStopped \/ ForgetStopped \/ SetClosed \/ JoinAndExit

-----------------------------------------------------------------------------
(* The server and the network.                                             *)

\* The child that agfsd forked reads the key, and serves or closes: it has the
\* account and the mount point of every key that arrives whole (see Agfsd).
Greet(fd) ==
  /\ session[fd] = "dialled" /\ stream[fd] # "fresh"
  /\ session' = [session EXCEPT ![fd] = IF stream[fd] = "torn" THEN "closed"
                                        ELSE "serving"]
  /\ UNCHANGED <<socket, closed, monitor, pc, open, leaked, stream, serverUp, calls>>

\* processCommands misses six heartbeats, in a row or not (beatsMissed_ is never
\* reset): they were late, or no thread of a daemon sends any.
Lapse(fd) ==
  /\ Daemon \/ Slow
  /\ session[fd] = "serving"
  /\ session' = [session EXCEPT ![fd] = "closed"]
  /\ UNCHANGED <<socket, closed, monitor, pc, open, leaked, stream, serverUp, calls>>

Crash ==
  /\ serverUp
  /\ serverUp' = FALSE
  /\ session' = [fd \in Fds |-> "closed"]
  /\ UNCHANGED <<socket, closed, monitor, pc, open, leaked, stream, calls>>

Restart ==
  /\ ~ serverUp
  /\ serverUp' = TRUE
  /\ UNCHANGED <<socket, closed, monitor, pc, open, leaked, stream, session, calls>>

Environment == Crash \/ Restart \/ \E fd \in Fds : Greet(fd) \/ Lapse(fd)

-----------------------------------------------------------------------------

Next ==
  \/ \E w \in Workers : Call(w) \/ Enter(w) \/ Working(w)
  \/ HeartbeatThread
  \/ Unmount \/ EnterStop \/ Destroying
  \/ Environment

\* A thread runs on, and one that waits for the monitor gets it in the end: the
\* heartbeat thread leaves it alone for five seconds between two beats.  No one
\* has to make a call, to unmount, or to restart the server.
Fairness ==
  /\ WF_vars(HeartbeatThread) /\ SF_vars(Beat)
  /\ \A w \in Workers : SF_vars(Enter(w)) /\ WF_vars(Working(w))
  /\ SF_vars(EnterStop) /\ WF_vars(Destroying)
  /\ \A fd \in Fds : WF_vars(Greet(fd))

Spec == Init /\ [][Next]_vars /\ Fairness
-----------------------------------------------------------------------------
(* Properties.                                                             *)

\* serverconnection.hpp:114: "A mutex to turn this object into a monitor".  On
\* every descriptor the server meets the key first and then whole requests,
\* never the parts of two of them mixed.
StreamsWhole == \A fd \in Fds : stream[fd] # "torn"

\* A thread that is about to close socket_ closes a descriptor that is still
\* open, so that it cannot close one that another thread has just been given.
CloseOnce ==
  connected /\ (pc["main"] = "close" \/ pc["beat"] \in {"drop", "refused"})
    => socket \in open

\* Every connected descriptor is the one in socket_: none is forgotten while
\* its server process waits on the other end.
NoOrphan == open \subseteq {socket}

\* No step puts a connection in the place of another: socket_ is given up
\* before it is dialled again (heartbeatThread, connect).
NeverReplaced == [][connected /\ socket' >= 0 => socket' = socket]_vars

\* serverconnection.hpp:19: closed() "Returns true if we successfully terminated
\* the connection to the server".
ClosedMeansEnded == closed => ~ connected

Mounted == pc["main"] = "mounted"
Lost    == connected /\ session[socket] = "closed"
Healthy == connected /\ session[socket] = "serving"

\* serverconnection.cpp:354: "Failed to get heartbeat in timeout period so close
\* socket": a connection whose server is gone is given up.
LostServerNoticed == Lost /\ Mounted ~> ~ Lost \/ ~ Mounted

\* heartbeatThread: while the server is up the client gets back to it, as long
\* as the failed attempts have not used up the descriptors of the process.
Reconnects ==
  <>[](serverUp /\ Fds \ leaked # {}) => []<>(Healthy \/ ~ Mounted)

\* agfs_destroy returns: stop() gets the monitor, and the thread it joins ends.
DestroyTerminates == pc["main"] = "stop" ~> pc["main"] = "exited"
=============================================================================
