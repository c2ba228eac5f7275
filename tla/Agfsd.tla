-------------------------------- MODULE Agfsd --------------------------------
(***************************************************************************)
(* How a client gets its session: agfs-keygen makes keys while agfsd runs, *)
(* agfsd's main accepts connections and forks a child for each, and the    *)
(* child looks for the client's key in the list of keys                    *)
(* (ClientConnection's constructor).                                       *)
(*                                                                         *)
(* The list, /var/lib/agfs/authkeys, is a sequence of words: the mount     *)
(* point, the user and the key of every key made.  operator>> reads it     *)
(* word by word, and a mount point with spaces is several words.           *)
(***************************************************************************)
EXTENDS AgfsIO, Sequences

CONSTANTS
  Conns,    \* the connections that clients make
  Keys,     \* what agfs-keygen can draw from /dev/urandom
  Users,    \* the accounts that keys are made for
  Mounts    \* the mount points keys are made for, sequences of words

EmptyWord == ""
Nobody    == "nobody"
Parent    == "parent"

\* Keys are not the names of anything else.
ASSUME AgfsdAssumption ==
  /\ EmptyWord \notin Keys \cup Users
  /\ Keys \cap Users = {}
  /\ \A m \in Mounts :
       m \in Seq(STRING) /\ \A i \in 1..Len(m) : m[i] \notin Keys \cup {EmptyWord}
  /\ Conns \cap {Nobody, Parent} = {}

VARIABLES
  list,      \* the words of the list of keys
  exists,    \* whether the file is there
  gen,       \* agfs-keygen: "idle", "drawing" the key, or "listing" it
  genFor,    \* the user and the mount point it was run for
  genKey,    \* the key it has drawn
  made,      \* what each key was made for
  parent,    \* the connection that agfsd's main holds, or Nobody
  holders,   \* the processes that hold each connection open: the parent, and
             \* children, each of them named by the connection it serves
  pc,        \* each connection: "none", "queued", "accepted", its child's place
             \* in the code, or "closed" if there is none
  clientKey, \* the key its client sends
  word,      \* its child's mountPath, user and serverKey
  turn,      \* the one it reads next
  pos,       \* how many words it has read
  eof,       \* authkeys.eof()
  answer,    \* the command it has been sent
  knew       \* its key was in the list when its child opened it

genVars    == <<list, exists, gen, genFor, genKey, made>>
parentVars == <<parent, holders>>
readVars   == <<word, turn, pos, eof>>
vars == <<genVars, parentVars, pc, clientKey, readVars, answer, knew>>

Ended    == {"ended", "closed"}
Children == {"open", "spin", "read", "user", "mount", "serve", "ended"}
Words    == Keys \cup Users \cup {EmptyWord}
              \cup UNION {{m[i] : i \in 1..Len(m)} : m \in Mounts}

Init ==
  /\ list = <<>> /\ exists \in BOOLEAN
  /\ gen = "idle" /\ genFor = <<>> /\ genKey = EmptyWord /\ made = << >>
  /\ parent = Nobody
  /\ holders   = [c \in Conns |-> {}]
  /\ pc        = [c \in Conns |-> "none"]
  /\ clientKey = [c \in Conns |-> EmptyWord]
  /\ word      = [c \in Conns |-> [i \in 1..3 |-> EmptyWord]]
  /\ turn      = [c \in Conns |-> 1]
  /\ pos       = [c \in Conns |-> 0]
  /\ eof       = [c \in Conns |-> FALSE]
  /\ answer    = [c \in Conns |-> NONE]
  /\ knew      = [c \in Conns |-> FALSE]

-----------------------------------------------------------------------------
(* agfs-keygen.                                                            *)

\* Mutant of StartKeygen: it takes its arguments in the wrong order.
StartKeygenSwapped(u, m) ==
  /\ gen = "idle"
  /\ gen' = "drawing" /\ genFor' = <<m, u>> /\ exists' = TRUE
  /\ UNCHANGED <<list, genKey, made, parentVars, pc, clientKey, readVars, answer, knew>>

\* It opens the list, which creates it, and empties the key file.
StartKeygen(u, m) ==
  /\ gen = "idle"
  /\ gen' = "drawing" /\ genFor' = <<u, m>> /\ exists' = TRUE
  /\ UNCHANGED <<list, genKey, made, parentVars, pc, clientKey, readVars, answer, knew>>

\* The key is random, and goes to the key file first.
DrawKey(k) ==
  /\ gen = "drawing" /\ k \notin DOMAIN made
  /\ gen' = "listing" /\ genKey' = k
  /\ made' = [l \in DOMAIN made \cup {k} |-> IF l = k THEN genFor ELSE made[l]]
  /\ UNCHANGED <<list, exists, genFor, parentVars, pc, clientKey, readVars, answer, knew>>

\* Mutant of ListKey: the line leaves in two writes.
ListKeyInParts ==
  /\ gen = "listing"
  /\ \/ genFor # <<>> /\ genFor' = <<>> /\ list' = list \o genFor[2] \o <<genFor[1]>> /\ UNCHANGED gen
     \/ genFor = <<>> /\ gen' = "idle" /\ list' = Append(list, genKey) /\ UNCHANGED genFor
  /\ UNCHANGED <<exists, genKey, made, parentVars, pc, clientKey, readVars, answer, knew>>

\* A line of the list.
Line == genFor[2] \o <<genFor[1], genKey>>

\* A line is less than a buffer: it is appended by one write().
ListKey ==
  /\ gen = "listing"
  /\ gen' = "idle"
  /\ list' = list \o Line
  /\ genFor' = <<>> /\ genKey' = EmptyWord
  /\ UNCHANGED <<exists, made, parentVars, pc, clientKey, readVars, answer, knew>>

\* It is interrupted.
KillKeygen ==
  /\ gen # "idle"
  /\ gen' = "idle" /\ genFor' = <<>> /\ genKey' = EmptyWord
  /\ UNCHANGED <<list, exists, made, parentVars, pc, clientKey, readVars, answer, knew>>

Keygen ==
  \/ \E u \in Users, m \in Mounts : StartKeygen(u, m)
  \/ \E k \in Keys : DrawKey(k)
  \/ ListKey
  \/ KillKeygen

-----------------------------------------------------------------------------
(* agfsd's main.                                                           *)

\* A client connects, with a key from a key file or with none: it was copied
\* while it was empty, or the client sent none in time.
Connect(c) ==
  /\ pc[c] = "none"
  /\ \E k \in DOMAIN made \cup {EmptyWord} : clientKey' = [clientKey EXCEPT ![c] = k]
  /\ pc' = [pc EXCEPT ![c] = "queued"]
  /\ UNCHANGED <<genVars, parentVars, readVars, answer, knew>>

Accept(c) ==
  /\ parent = Nobody /\ pc[c] = "queued"
  /\ parent' = c
  /\ holders' = [holders EXCEPT ![c] = {Parent}]
  /\ pc' = [pc EXCEPT ![c] = "accepted"]
  /\ UNCHANGED <<genVars, clientKey, readVars, answer, knew>>

\* The child has every connection that the parent has open.
Fork(c) ==
  /\ parent = c /\ pc[c] = "accepted"
  /\ holders' = [d \in Conns |-> IF Parent \in holders[d] THEN holders[d] \cup {c}
                                ELSE holders[d]]
  /\ pc' = [pc EXCEPT ![c] = "open"]
  /\ UNCHANGED <<genVars, parent, clientKey, readVars, answer, knew>>

\* "Fork Error": there is too little memory, or there are too many processes, for
\* the parent never waits for a child and one that has ended is still a process.
ForkFails(c) ==
  /\ parent = c /\ pc[c] = "accepted"
  /\ pc' = [pc EXCEPT ![c] = "closed"]
  /\ UNCHANGED <<genVars, parentVars, clientKey, readVars, answer, knew>>

\* Mutant of Close: the parent closes what it has when nobody waits in the queue.
CloseWhenIdle(c) ==
  /\ parent = c /\ pc[c] # "accepted"
  /\ parent' = Nobody
  /\ holders' = IF \E d \in Conns : pc[d] = "queued" THEN holders
                ELSE [d \in Conns |-> holders[d] \ {Parent}]
  /\ UNCHANGED <<genVars, pc, clientKey, readVars, answer, knew>>

\* close(connfd), whether there is a child or not.
Close(c) ==
  /\ parent = c /\ pc[c] # "accepted"
  /\ parent' = Nobody
  /\ holders' = [holders EXCEPT ![c] = @ \ {Parent}]
  /\ UNCHANGED <<genVars, pc, clientKey, readVars, answer, knew>>

Main(c) == Accept(c) \/ Fork(c) \/ ForkFails(c) \/ Close(c)

-----------------------------------------------------------------------------
(* The child: ClientConnection's constructor.                              *)

Goto(c, place) ==
  /\ pc' = [pc EXCEPT ![c] = place]
  /\ UNCHANGED <<genVars, parentVars, clientKey>>

\* The process exits once it has sent `cmd', and whatever it had open is closed.
Refuse(c, cmd) ==
  /\ answer' = [answer EXCEPT ![c] = cmd]
  /\ holders' = [d \in Conns |-> holders[d] \ {c}]
  /\ pc' = [pc EXCEPT ![c] = "ended"]
  /\ UNCHANGED <<genVars, parent, clientKey, readVars, knew>>

\* Without a list authkeys.eof() never becomes true, and the loop does not end,
\* unless the client's key is empty as serverKey is.
OpenList(c) ==
  /\ pc[c] = "open"
  /\ Goto(c, IF exists THEN "read"
             ELSE IF clientKey[c] = EmptyWord THEN "user" ELSE "spin")
  /\ knew' = [knew EXCEPT ![c] = \E i \in 1..Len(list) : list[i] = clientKey[c]]
  /\ UNCHANGED <<readVars, answer>>

\* authkeys >> mountPath, user or serverKey.  At the end of the file it leaves
\* the variable alone, and from then on it reads nothing, whatever is appended.
ReadWord(c) ==
  /\ pc[c] = "read" /\ turn[c] <= 3
  /\ turn' = [turn EXCEPT ![c] = @ + 1]
  /\ IF pos[c] < Len(list) /\ ~ eof[c]
     THEN /\ word' = [word EXCEPT ![c][turn[c]] = list[pos[c] + 1]]
          /\ pos' = [pos EXCEPT ![c] = @ + 1]
          /\ UNCHANGED eof
     ELSE /\ eof' = [eof EXCEPT ![c] = TRUE]
          /\ UNCHANGED <<word, pos>>
  /\ UNCHANGED <<genVars, parentVars, pc, clientKey, answer, knew>>

\* Mutant of Compare: the end of the list is looked for before it compares.
CompareLate(c) ==
  /\ pc[c] = "read" /\ turn[c] = 4
  /\ \/ /\ word[c][3] = clientKey[c] /\ pos[c] < Len(list)
        /\ Goto(c, "user") /\ UNCHANGED <<readVars, answer, knew>>
     \/ /\ word[c][3] # clientKey[c] /\ pos[c] < Len(list) /\ ~ eof[c]
        /\ Goto(c, "read") /\ turn' = [turn EXCEPT ![c] = 1]
        /\ UNCHANGED <<word, pos, eof, answer, knew>>
     \/ /\ eof[c] \/ pos[c] >= Len(list)
        /\ Refuse(c, INVALID_KEY)

\* Mutant of Compare: nothing but the key ends the loop.
CompareForever(c) ==
  /\ pc[c] = "read" /\ turn[c] = 4
  /\ IF word[c][3] = clientKey[c]
     THEN Goto(c, "user") /\ UNCHANGED <<readVars, answer, knew>>
     ELSE Goto(c, "read") /\ turn' = [turn EXCEPT ![c] = 1]
          /\ UNCHANGED <<word, pos, eof, answer, knew>>

\* The key is found, or the loop goes on, or the list is at its end.
Compare(c) ==
  /\ pc[c] = "read" /\ turn[c] = 4
  /\ \/ /\ word[c][3] = clientKey[c]
        /\ Goto(c, "user") /\ UNCHANGED <<readVars, answer, knew>>
     \/ /\ word[c][3] # clientKey[c] /\ ~ eof[c]
        /\ Goto(c, "read") /\ turn' = [turn EXCEPT ![c] = 1]
        /\ UNCHANGED <<word, pos, eof, answer, knew>>
     \/ /\ word[c][3] # clientKey[c] /\ eof[c]
        /\ Refuse(c, INVALID_KEY)

\* getpwnam: an account may have been removed since; "" is none.
CheckUser(c) ==
  /\ pc[c] = "user"
  /\ \/ /\ word[c][2] \in Users
        /\ Goto(c, "mount") /\ UNCHANGED <<readVars, answer, knew>>
     \/ Refuse(c, USER_NOT_FOUND)

\* processCommands sends ACCEPT if the mount point is there.
CheckMount(c) ==
  /\ pc[c] = "mount"
  /\ \/ /\ Goto(c, "serve") /\ answer' = [answer EXCEPT ![c] = ACCEPT]
        /\ UNCHANGED <<readVars, knew>>
     \/ Refuse(c, MOUNT_NOT_FOUND)

\* The session ends (see Session), and the process with it.
EndSession(c) == pc[c] = "serve" /\ Refuse(c, answer[c])

Constructor(c) ==
  OpenList(c) \/ ReadWord(c) \/ Compare(c) \/ CheckUser(c) \/ CheckMount(c)

Next ==
  \/ Keygen
  \/ \E c \in Conns : Connect(c) \/ Main(c) \/ Constructor(c) \/ EndSession(c)

\* The daemon and its children run; nobody need make keys, connect or hang up.
Fairness ==
  /\ WF_vars(\E c \in Conns : Main(c))
  /\ \A c \in Conns : WF_vars(Constructor(c))

Spec == Init /\ [][Next]_vars /\ Fairness
-----------------------------------------------------------------------------
(* Properties.                                                             *)

TypeOK ==
  /\ list \in Seq(Words)
  /\ exists \in BOOLEAN
  /\ gen \in {"idle", "drawing", "listing"}
  /\ genFor = <<>> \/ genFor \in Users \X Mounts
  /\ genKey \in Keys \cup {EmptyWord}
  /\ DOMAIN made \subseteq Keys
  /\ \A k \in DOMAIN made : made[k] \in Users \X Mounts
  /\ parent \in Conns \cup {Nobody}
  /\ holders \in [Conns -> SUBSET (Conns \cup {Parent})]
  /\ pc \in [Conns -> {"none", "queued", "accepted", "closed"} \cup Children]
  /\ clientKey \in [Conns -> Keys \cup {EmptyWord}]
  /\ word \in [Conns -> [1..3 -> Words]]
  /\ turn \in [Conns -> 1..4]
  /\ pos \in [Conns -> Nat] /\ \A c \in Conns : pos[c] <= Len(list)
  /\ eof \in [Conns -> BOOLEAN]
  /\ answer \in [Conns -> {NONE, ACCEPT, INVALID_KEY, USER_NOT_FOUND, MOUNT_NOT_FOUND}]
  /\ knew \in [Conns -> BOOLEAN]

\* agfs-keygen.cpp:27-29: the user account a key "will be able to use" and the
\* "local mount point" are those that agfs-keygen was given: a session is one of
\* the user and the mount point its client's key was made for, however the
\* child's reads of the list and agfs-keygen's writes interleave.
KeyOpensItsMount ==
  \A c \in Conns : pc[c] = "serve" =>
    /\ clientKey[c] \in DOMAIN made
    /\ made[clientKey[c]] = <<word[c][2], <<word[c][1]>>>>

\* A key that was in the list when the child opened it is not refused as unknown,
\* whatever is appended while it reads.
ListedKeyIsKnown ==
  \A c \in Conns : answer[c] = INVALID_KEY => ~ knew[c]

\* A client that agfsd finds in its queue while the list is there gets an answer,
\* or its connection is closed: no other client, no failed fork and no growing
\* list keeps the accept loop or the child from it.
EveryClientAnswered ==
  \A c \in Conns :
    pc[c] = "queued" /\ exists ~> pc[c] \in {"serve", "ended", "closed"}

\* When its session ends the client sees the connection closed, though every child
\* starts with all that the parent has open and may serve for ever: no child of
\* another client holds it, and the parent only until it comes to its close().
ConnectionsEnd ==
  \A c \in Conns : pc[c] \in Ended =>
    holders[c] \subseteq (IF parent = c THEN {Parent} ELSE {})
=============================================================================
