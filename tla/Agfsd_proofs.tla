---------------------------- MODULE Agfsd_proofs ----------------------------
(* Theorems about Agfsd, for every value of its constants: any number of      *)
(* clients, keys, users and mount points.                                     *)
EXTENDS Agfsd, SequenceTheorems, TLAPS

-----------------------------------------------------------------------------
(* Type correctness.                                                          *)

\* Without the files' words and the reader's place among them.
ConnTypes ==
  /\ exists \in BOOLEAN
  /\ parent \in Conns \cup {Nobody}
  /\ holders \in [Conns -> SUBSET (Conns \cup {Parent})]
  /\ pc \in [Conns -> {"none", "queued", "accepted", "closed"} \cup Children]
  /\ answer \in [Conns -> {NONE, ACCEPT, INVALID_KEY, USER_NOT_FOUND, MOUNT_NOT_FOUND}]
  /\ knew \in [Conns -> BOOLEAN]

GenTypes ==
  /\ list \in Seq(Words)
  /\ gen \in {"idle", "drawing", "listing"}
  /\ genFor = <<>> \/ genFor \in Users \X Mounts
  /\ gen # "idle" => genFor \in Users \X Mounts
  /\ genKey \in Keys \cup {EmptyWord}
  /\ gen = "listing" => genKey \in DOMAIN made /\ made[genKey] = genFor
  /\ DOMAIN made \subseteq Keys
  /\ \A k \in DOMAIN made : made[k] \in Users \X Mounts

ReadTypes ==
  /\ clientKey \in [Conns -> Keys \cup {EmptyWord}]
  /\ word \in [Conns -> [1..3 -> Words]]
  /\ turn \in [Conns -> 1..4]
  /\ pos \in [Conns -> Nat] /\ \A c \in Conns : pos[c] <= Len(list)
  /\ eof \in [Conns -> BOOLEAN]

TypeInv == ConnTypes /\ GenTypes /\ ReadTypes

LEMMA TypeInit == Init => TypeInv
  <1> SUFFICES ASSUME Init PROVE TypeInv
    OBVIOUS
  <1>1. ConnTypes
    BY DEF Init, ConnTypes
  <1>2. GenTypes
    <2>1. DOMAIN made = {} /\ list \in Seq(Words)
      BY DEF Init
    <2>2. QED
      BY <2>1 DEF Init, GenTypes
  <1>3. ReadTypes
    <2>1. EmptyWord \in Words
      BY DEF Words
    <2>2. QED
      BY <2>1 DEF Init, ReadTypes
  <1>4. QED
    BY <1>1, <1>2, <1>3 DEF TypeInv

LEMMA ConnStep == ConnTypes /\ [Next]_vars => ConnTypes'
  <1> SUFFICES ASSUME ConnTypes, [Next]_vars PROVE ConnTypes'
    OBVIOUS
  <1> USE DEF ConnTypes
  <1>1. CASE Keygen
    BY <1>1 DEF Keygen, StartKeygen, DrawKey, ListKey, KillKeygen, parentVars
  <1>2. ASSUME NEW c \in Conns, Connect(c) PROVE ConnTypes'
    BY <1>2 DEF Connect, genVars, parentVars
  <1>3. ASSUME NEW c \in Conns, Main(c) PROVE ConnTypes'
    BY <1>3 DEF Main, Accept, Fork, ForkFails, Close, genVars, parentVars, Children
  <1>4. ASSUME NEW c \in Conns, Constructor(c) PROVE ConnTypes'
    <2>1. CASE OpenList(c)
      BY <2>1 DEF OpenList, Goto, genVars, parentVars, Children
    <2>2. CASE ReadWord(c)
      BY <2>2 DEF ReadWord, genVars, parentVars
    <2>3. CASE Compare(c)
      BY <2>3 DEF Compare, Goto, Refuse, genVars, parentVars, Children
    <2>4. CASE CheckUser(c)
      BY <2>4 DEF CheckUser, Goto, Refuse, genVars, parentVars, Children
    <2>5. CASE CheckMount(c)
      BY <2>5 DEF CheckMount, Goto, Refuse, genVars, parentVars, Children
    <2>6. QED
      BY <1>4, <2>1, <2>2, <2>3, <2>4, <2>5 DEF Constructor
  <1>5. ASSUME NEW c \in Conns, EndSession(c) PROVE ConnTypes'
    BY <1>5 DEF EndSession, Refuse, genVars, parentVars, Children
  <1>6. CASE UNCHANGED vars
    BY <1>6 DEF vars, genVars, parentVars
  <1>7. QED
    BY <1>1, <1>2, <1>3, <1>4, <1>5, <1>6 DEF Next

\* The steps of agfsd and of its children leave the list to agfs-keygen.
LEMMA GenSame ==
  ASSUME [Next]_vars, ~ Keygen
  PROVE  UNCHANGED genVars
  BY DEF Next, Connect, Main, Accept, Fork, ForkFails, Close, Constructor, OpenList,
         ReadWord, Compare, CheckUser, CheckMount, EndSession, Goto, Refuse, vars

\* What is appended to a sequence keeps it one.
LEMMA Appended ==
  ASSUME NEW S, NEW s \in Seq(S), NEW t \in Seq(S)
  PROVE  s \o t \in Seq(S) /\ Len(s \o t) = Len(s) + Len(t)
  BY ConcatProperties

\* A line is words.
LEMMA LineTypes ==
  ASSUME GenTypes, gen = "listing"
  PROVE  Line \in Seq(Words)
  <1>1. genFor[1] \in Users /\ genFor[2] \in Mounts /\ genKey \in Keys
    BY DEF GenTypes
  <1>2. genFor[2] \in Seq(Words)
    <2>1. genFor[2] \in Seq(STRING)
      BY <1>1, AgfsdAssumption
    <2>2. \A i \in 1..Len(genFor[2]) : genFor[2][i] \in Words
      BY <1>1 DEF Words
    <2>3. QED
      BY <2>1, <2>2
  <1>3. <<genFor[1], genKey>> \in Seq(Words)
    BY <1>1 DEF Words
  <1>4. QED
    BY <1>2, <1>3, Appended DEF Line

LEMMA GenStep == GenTypes /\ [Next]_vars => GenTypes'
  <1> SUFFICES ASSUME GenTypes, [Next]_vars PROVE GenTypes'
    OBVIOUS
  <1>1. CASE ~ Keygen
    BY <1>1, GenSame DEF genVars, GenTypes
  <1>2. ASSUME NEW u \in Users, NEW m \in Mounts, StartKeygen(u, m) PROVE GenTypes'
    BY <1>2 DEF StartKeygen, GenTypes
  <1>3. ASSUME NEW k \in Keys, DrawKey(k) PROVE GenTypes'
    <2>1. /\ DOMAIN made' = DOMAIN made \cup {k} /\ made'[k] = genFor
          /\ \A l \in DOMAIN made : l # k => made'[l] = made[l]
      BY <1>3 DEF DrawKey
    <2>2. QED
      BY <1>3, <2>1 DEF DrawKey, GenTypes
  <1>4. CASE ListKey
    <2>1. list' \in Seq(Words)
      BY <1>4, LineTypes, Appended DEF ListKey, GenTypes
    <2>2. QED
      BY <1>4, <2>1 DEF ListKey, GenTypes
  <1>5. CASE KillKeygen
    BY <1>5 DEF KillKeygen, GenTypes
  <1>6. QED
    BY <1>1, <1>2, <1>3, <1>4, <1>5 DEF Keygen

\* The list only grows, and what is in it stays where it is.
LEMMA ListGrows ==
  ASSUME GenTypes, [Next]_vars
  PROVE  /\ list' \in Seq(Words) /\ Len(list) \in Nat /\ Len(list') \in Nat
         /\ Len(list) <= Len(list')
         /\ \A i \in 1..Len(list) : list'[i] = list[i]
         /\ list' = list \/ ListKey
  <1>1. list \in Seq(Words) /\ list' \in Seq(Words)
    BY GenStep DEF GenTypes
  <1>2. list' = list \/ ListKey
    BY GenSame DEF Keygen, StartKeygen, DrawKey, KillKeygen, genVars
  <1>3. CASE ListKey
    <2>1. Line \in Seq(Words) /\ list' = list \o Line
      BY <1>3, LineTypes DEF ListKey
    <2>2. /\ Len(list') = Len(list) + Len(Line) /\ Len(Line) \in Nat /\ Len(list) \in Nat
          /\ \A i \in 1..Len(list) + Len(Line) :
               list'[i] = IF i <= Len(list) THEN list[i] ELSE Line[i - Len(list)]
      BY <1>1, <2>1, ConcatProperties
    <2>3. QED
      BY <1>1, <1>3, <2>2
  <1>4. CASE list' = list
    BY <1>1, <1>4
  <1>5. QED
    BY <1>2, <1>3, <1>4

LEMMA ReadStep == GenTypes /\ ReadTypes /\ [Next]_vars => ReadTypes'
  <1> SUFFICES ASSUME GenTypes, ReadTypes, [Next]_vars PROVE ReadTypes'
    OBVIOUS
  <1> USE DEF ReadTypes
  <1>1. Len(list) <= Len(list') /\ Len(list) \in Nat /\ Len(list') \in Nat
    BY ListGrows
  <1>2. CASE Keygen
    <2>1. UNCHANGED <<clientKey, readVars>>
      BY <1>2 DEF Keygen, StartKeygen, DrawKey, ListKey, KillKeygen
    <2>2. QED
      BY <1>1, <2>1 DEF readVars
  <1>3. ASSUME NEW c \in Conns, Connect(c) PROVE ReadTypes'
    BY <1>1, <1>3 DEF Connect, genVars, readVars, GenTypes
  <1>4. ASSUME NEW c \in Conns, Main(c) PROVE ReadTypes'
    BY <1>1, <1>4 DEF Main, Accept, Fork, ForkFails, Close, genVars, readVars
  <1>5. ASSUME NEW c \in Conns, ReadWord(c) PROVE ReadTypes'
    <2>1. turn[c] \in 1..3 /\ pos[c] \in Nat /\ word[c] \in [1..3 -> Words]
      BY <1>5 DEF ReadWord
    <2>2. /\ list' = list /\ clientKey' = clientKey
          /\ turn' = [turn EXCEPT ![c] = turn[c] + 1]
      BY <1>5 DEF ReadWord, genVars
    <2>3. turn' \in [Conns -> 1..4]
      BY <2>1, <2>2
    <2>4. CASE pos[c] < Len(list) /\ ~ eof[c]
      <3>1. /\ word' = [word EXCEPT ![c][turn[c]] = list[pos[c] + 1]]
            /\ pos' = [pos EXCEPT ![c] = pos[c] + 1] /\ eof' = eof
        BY <1>5, <2>4 DEF ReadWord
      <3>2. list[pos[c] + 1] \in Words
        BY <1>1, <2>1, <2>4 DEF GenTypes
      <3>3. word' \in [Conns -> [1..3 -> Words]]
        BY <2>1, <3>1, <3>2
      <3>4. pos' \in [Conns -> Nat] /\ \A d \in Conns : pos'[d] <= Len(list)
        BY <1>1, <2>1, <2>4, <3>1
      <3>5. QED
        BY <2>2, <2>3, <3>1, <3>3, <3>4
    <2>5. CASE ~ (pos[c] < Len(list) /\ ~ eof[c])
      <3>1. eof' = [eof EXCEPT ![c] = TRUE] /\ UNCHANGED <<word, pos>>
        BY <1>5, <2>5 DEF ReadWord
      <3>2. eof' \in [Conns -> BOOLEAN]
        BY <3>1
      <3>3. QED
        BY <2>2, <2>3, <3>1, <3>2
    <2>6. QED
      BY <2>4, <2>5
  <1>6. ASSUME NEW c \in Conns, OpenList(c) \/ CheckUser(c) \/ CheckMount(c) \/ EndSession(c)
        PROVE  ReadTypes'
    BY <1>1, <1>6 DEF OpenList, CheckUser, CheckMount, EndSession, Goto, Refuse, genVars, readVars
  <1>7. ASSUME NEW c \in Conns, Compare(c) PROVE ReadTypes'
    <2>1. /\ UNCHANGED <<list, clientKey, word, pos, eof>>
          /\ turn' = turn \/ turn' = [turn EXCEPT ![c] = 1]
      BY <1>7 DEF Compare, Goto, Refuse, genVars, readVars
    <2>2. turn' \in [Conns -> 1..4]
      <3>1. CASE turn' = turn
        BY <3>1
      <3>2. CASE turn' = [turn EXCEPT ![c] = 1]
        BY <3>2
      <3>3. QED
        BY <2>1, <3>1, <3>2
    <2>3. QED
      BY <2>1, <2>2
  <1>8. CASE UNCHANGED vars
    BY <1>8 DEF vars, genVars, readVars
  <1>9. QED
    BY <1>2, <1>3, <1>4, <1>5, <1>6, <1>7, <1>8 DEF Next, Constructor

LEMMA TypeStep == TypeInv /\ [Next]_vars => TypeInv'
  BY ConnStep, GenStep, ReadStep DEF TypeInv

\* Every variable keeps its type.
THEOREM TypeCorrect == Spec => []TypeOK
  <1>1. TypeInv => TypeOK
    BY DEF TypeInv, TypeOK, ConnTypes, GenTypes, ReadTypes
  <1>2. QED
    BY <1>1, TypeInit, TypeStep, PTL DEF Spec

-----------------------------------------------------------------------------
(* Who holds a connection.  The parent has at most one open when it forks, so *)
(* that a child inherits its own and no other.                                *)

\* The child of a connection while it runs.
Running == Children \ {"ended"}

HoldInv ==
  \A c \in Conns : /\ holders[c] \subseteq {c} \cup (IF parent = c THEN {Parent} ELSE {})
                   /\ c \in holders[c] => pc[c] \in Running

\* A child that exits lets go of what it had.
LEMMA HoldRefused ==
  ASSUME TypeInv, HoldInv, NEW c \in Conns, NEW cmd, Refuse(c, cmd)
  PROVE  HoldInv'
  <1>1. /\ holders' = [d \in Conns |-> holders[d] \ {c}] /\ parent' = parent
        /\ \A d \in Conns : d # c => pc'[d] = pc[d]
    BY DEF Refuse, TypeInv, ConnTypes
  <1>2. ASSUME NEW d \in Conns
        PROVE  /\ holders'[d] \subseteq {d} \cup (IF parent' = d THEN {Parent} ELSE {})
               /\ d \in holders'[d] => pc'[d] \in Running
    BY <1>1 DEF HoldInv
  <1>3. QED
    BY <1>2 DEF HoldInv

\* A child that goes on runs.
LEMMA HoldGone ==
  ASSUME TypeInv, HoldInv, NEW c \in Conns, NEW place \in Running, Goto(c, place)
  PROVE  HoldInv'
  BY DEF Goto, parentVars, HoldInv, TypeInv, ConnTypes

LEMMA HoldStep == TypeInv /\ HoldInv /\ [Next]_vars => HoldInv'
  <1> SUFFICES ASSUME TypeInv, HoldInv, [Next]_vars PROVE HoldInv'
    OBVIOUS
  <1> USE DEF Running, Children
  <1>1. CASE Keygen \/ UNCHANGED vars
    <2>1. UNCHANGED <<parent, holders, pc>>
      BY <1>1 DEF Keygen, StartKeygen, DrawKey, ListKey, KillKeygen, parentVars, vars
    <2>2. QED
      BY <2>1 DEF HoldInv
  <1>2. ASSUME NEW c \in Conns, Connect(c) PROVE HoldInv'
    BY <1>2 DEF Connect, parentVars, HoldInv, TypeInv, ConnTypes
  <1>3. ASSUME NEW c \in Conns, Accept(c) PROVE HoldInv'
    <2>1. /\ parent = Nobody /\ Nobody \notin Conns /\ parent' = c /\ c # Parent
          /\ holders' = [holders EXCEPT ![c] = {Parent}]
          /\ pc' = [pc EXCEPT ![c] = "accepted"]
      BY <1>3, AgfsdAssumption DEF Accept
    <2>2. ASSUME NEW d \in Conns
          PROVE  /\ holders'[d] \subseteq {d} \cup (IF parent' = d THEN {Parent} ELSE {})
                 /\ d \in holders'[d] => pc'[d] \in Running
      BY <2>1 DEF HoldInv, TypeInv, ConnTypes
    <2>3. QED
      BY <2>2 DEF HoldInv
  <1>4. ASSUME NEW c \in Conns, Fork(c) PROVE HoldInv'
    <2>1. /\ parent = c /\ parent' = c /\ pc' = [pc EXCEPT ![c] = "open"]
          /\ \A d \in Conns : holders'[d] = IF Parent \in holders[d] THEN holders[d] \cup {c}
                                           ELSE holders[d]
      BY <1>4 DEF Fork
    <2>2. ASSUME NEW d \in Conns
          PROVE  /\ holders'[d] \subseteq {d} \cup (IF parent' = d THEN {Parent} ELSE {})
                 /\ d \in holders'[d] => pc'[d] \in Running
      <3>1. Parent # d
        BY AgfsdAssumption
      <3>2. Parent \in holders[d] => d = c
        BY <2>1, <3>1 DEF HoldInv
      <3>3. QED
        BY <2>1, <3>2 DEF HoldInv, TypeInv, ConnTypes
    <2>3. QED
      BY <2>2 DEF HoldInv
  <1>5. ASSUME NEW c \in Conns, ForkFails(c) PROVE HoldInv'
    BY <1>5 DEF ForkFails, parentVars, HoldInv, TypeInv, ConnTypes
  <1>6. ASSUME NEW c \in Conns, Close(c) PROVE HoldInv'
    <2>1. /\ parent = c /\ parent' = Nobody /\ pc' = pc
          /\ holders' = [holders EXCEPT ![c] = holders[c] \ {Parent}]
      BY <1>6 DEF Close
    <2>2. ASSUME NEW d \in Conns
          PROVE  /\ holders'[d] \subseteq {d} \cup (IF parent' = d THEN {Parent} ELSE {})
                 /\ d \in holders'[d] => pc'[d] \in Running
      BY <2>1 DEF HoldInv, TypeInv, ConnTypes
    <2>3. QED
      BY <2>2 DEF HoldInv
  <1>7. ASSUME NEW c \in Conns, Constructor(c) PROVE HoldInv'
    <2>1. CASE OpenList(c)
      BY <2>1, HoldGone DEF OpenList
    <2>2. CASE ReadWord(c)
      BY <2>2 DEF ReadWord, parentVars, HoldInv
    <2>3. CASE Compare(c)
      BY <2>3, HoldGone, HoldRefused DEF Compare
    <2>4. CASE CheckUser(c)
      BY <2>4, HoldGone, HoldRefused DEF CheckUser
    <2>5. CASE CheckMount(c)
      BY <2>5, HoldGone, HoldRefused DEF CheckMount
    <2>6. QED
      BY <1>7, <2>1, <2>2, <2>3, <2>4, <2>5 DEF Constructor
  <1>8. ASSUME NEW c \in Conns, EndSession(c) PROVE HoldInv'
    BY <1>8, HoldRefused DEF EndSession
  <1>9. QED
    BY <1>1, <1>2, <1>3, <1>4, <1>5, <1>6, <1>7, <1>8 DEF Next, Main

\* A connection whose session has ended is held by the parent that is about to
\* close it, and by no child, however many there are.
THEOREM EndedAreClosed == Spec => []ConnectionsEnd
  <1>1. Init => HoldInv
    BY DEF Init, HoldInv
  <1>2. HoldInv => ConnectionsEnd
    <2>1. SUFFICES ASSUME HoldInv, NEW c \in Conns, pc[c] \in Ended
                   PROVE  holders[c] \subseteq (IF parent = c THEN {Parent} ELSE {})
      BY DEF ConnectionsEnd
    <2>2. c \notin holders[c]
      BY <2>1 DEF HoldInv, Running, Children, Ended
    <2>3. QED
      BY <2>1, <2>2 DEF HoldInv
  <1>3. QED
    BY <1>1, <1>2, TypeInit, TypeStep, HoldStep, PTL DEF Spec

-----------------------------------------------------------------------------
(* Keys.  When every mount point is one word the list is a sequence of lines  *)
(* of three, the reader starts each round at a line, and meets the end of the *)
(* list only there.                                                           *)

OneWord == \A m \in Mounts : Len(m) = 1

\* Line j + 1 of the list is what its key was made for.
LineOk(j) ==
  /\ list[3*j + 3] \in DOMAIN made
  /\ made[list[3*j + 3]] = <<list[3*j + 2], <<list[3*j + 1]>>>>

LinesInv == \E n \in Nat : Len(list) = 3*n /\ \A j \in 0..(n - 1) : LineOk(j)

\* What the reader holds is a line, or nothing yet.
Whole(c) ==
  \/ word[c][2] = EmptyWord
  \/ /\ word[c][3] \in DOMAIN made
     /\ made[word[c][3]] = <<word[c][2], <<word[c][1]>>>>

\* It has read the first turn[c] - 1 words of line j + 1.
Reading(c, j) ==
  /\ pos[c] = 3*j + turn[c] - 1
  /\ \A i \in 1..3 : i < turn[c] => word[c][i] = list[3*j + i]

Unread   == {"none", "queued", "accepted", "open"}
Accepted == {"user", "mount", "serve"}

ReaderInv(c) ==
  /\ pc[c] \in Unread =>
       /\ turn[c] = 1 /\ pos[c] = 0 /\ ~ eof[c]
       /\ word[c][2] = EmptyWord /\ word[c][3] = EmptyWord
  /\ pc[c] = "read" =>
       /\ turn[c] = 1 \/ eof[c] => Whole(c)
       /\ ~ eof[c] => \E j \in Nat : Reading(c, j)
  /\ pc[c] \in Accepted => Whole(c) /\ word[c][3] = clientKey[c]
  /\ pc[c] \in {"mount", "serve"} => word[c][2] \in Users

KeyInv == LinesInv /\ \A c \in Conns : ReaderInv(c)

\* A line of three words.
LEMMA OneWordLine ==
  ASSUME OneWord, TypeInv, gen = "listing"
  PROVE  /\ Line \in Seq(Words) /\ Len(Line) = 3 /\ Line[3] = genKey
         /\ genKey \in DOMAIN made /\ made[genKey] = <<Line[2], <<Line[1]>>>>
  <1>1. /\ genFor[1] \in Users /\ genFor[2] \in Mounts /\ genFor = <<genFor[1], genFor[2]>>
        /\ genKey \in Keys /\ genKey \in DOMAIN made /\ made[genKey] = genFor
    BY DEF TypeInv, GenTypes
  <1>2. Len(genFor[2]) = 1 /\ genFor[2] \in Seq(STRING)
    BY <1>1, AgfsdAssumption DEF OneWord
  <1>3. genFor[2][1] \in Words
    BY <1>1, <1>2 DEF Words
  <1>4. genFor[2] = <<genFor[2][1]>>
    BY <1>2
  <1> DEFINE w == genFor[2][1]
             u == genFor[1]
  <1>5. w \in Words /\ u \in Words /\ genKey \in Words
    BY <1>1, <1>3 DEF Words
  <1> HIDE DEF w, u
  <1>6. /\ <<w>> \in Seq(Words) /\ Len(<<w>>) = 1 /\ <<w>>[1] = w
        /\ <<u, genKey>> \in Seq(Words) /\ Len(<<u, genKey>>) = 2
        /\ <<u, genKey>>[1] = u /\ <<u, genKey>>[2] = genKey
    BY <1>5
  <1> DEFINE l == <<w>> \o <<u, genKey>>
  <1>7. Line = l
    BY <1>4 DEF Line, w, u
  <1>8. /\ l \in Seq(Words) /\ Len(l) = 1 + 2
        /\ \A i \in 1..(1 + 2) : l[i] = IF i <= 1 THEN <<w>>[i] ELSE <<u, genKey>>[i - 1]
    BY <1>6, ConcatProperties
  <1>9. Len(l) = 3 /\ l[1] = w /\ l[2] = u /\ l[3] = genKey
    BY <1>6, <1>8
  <1>10. genFor = <<u, <<w>>>>
    BY <1>1, <1>4 DEF u, w
  <1>11. QED
    BY <1>1, <1>7, <1>8, <1>9, <1>10

\* Keys that have been made keep what they were made for.
LEMMA MadeStays ==
  ASSUME TypeInv, [Next]_vars, NEW k \in DOMAIN made
  PROVE  k \in DOMAIN made' /\ made'[k] = made[k]
  <1>1. ASSUME NEW l \in Keys, DrawKey(l) PROVE k \in DOMAIN made' /\ made'[k] = made[k]
    BY <1>1 DEF DrawKey
  <1>2. CASE ~ \E l \in Keys : DrawKey(l)
    <2>1. made' = made
      BY <1>2, GenSame DEF Keygen, StartKeygen, ListKey, KillKeygen, genVars
    <2>2. QED
      BY <2>1
  <1>3. QED
    BY <1>1, <1>2

LEMMA LinesStep == OneWord /\ TypeInv /\ LinesInv /\ [Next]_vars => LinesInv'
  <1> SUFFICES ASSUME OneWord, TypeInv, LinesInv, [Next]_vars PROVE LinesInv'
    OBVIOUS
  <1>1. PICK n \in Nat : Len(list) = 3*n /\ \A j \in 0..(n - 1) : LineOk(j)
    BY DEF LinesInv
  <1>2. /\ Len(list) <= Len(list') /\ \A i \in 1..Len(list) : list'[i] = list[i]
        /\ list' = list \/ ListKey
    BY ListGrows DEF TypeInv
  <1>3. \A j \in 0..(n - 1) : LineOk(j)'
    <2>1. SUFFICES ASSUME NEW j \in 0..(n - 1) PROVE LineOk(j)'
      OBVIOUS
    <2>2. /\ list'[3*j + 1] = list[3*j + 1] /\ list'[3*j + 2] = list[3*j + 2]
          /\ list'[3*j + 3] = list[3*j + 3]
      BY <1>1, <1>2
    <2>3. LineOk(j)
      BY <1>1
    <2>4. QED
      BY <2>2, <2>3, MadeStays DEF LineOk
  <1>4. CASE list' = list
    BY <1>1, <1>3, <1>4 DEF LinesInv
  <1>5. CASE ListKey
    <2>1. /\ Line \in Seq(Words) /\ Len(Line) = 3 /\ Line[3] = genKey
          /\ genKey \in DOMAIN made /\ made[genKey] = <<Line[2], <<Line[1]>>>>
      BY <1>5, OneWordLine DEF ListKey
    <2>2. list \in Seq(Words) /\ list' = list \o Line /\ made' = made
      BY <1>5 DEF ListKey, TypeInv, GenTypes
    <2>3. /\ Len(list') = Len(list) + 3
          /\ \A i \in 1..Len(list) + 3 :
               list'[i] = IF i <= Len(list) THEN list[i] ELSE Line[i - Len(list)]
      <3>1. /\ Len(list \o Line) = Len(list) + Len(Line)
            /\ \A i \in 1..Len(list) + Len(Line) :
                 (list \o Line)[i] = IF i <= Len(list) THEN list[i] ELSE Line[i - Len(list)]
        BY <2>1, <2>2, ConcatProperties, Zenon
      <3>2. QED
        BY <2>1, <2>2, <3>1, Zenon
    <2>4. Len(list') = 3*(n + 1)
      BY <1>1, <2>3
    <2>5. list'[3*n + 1] = Line[1] /\ list'[3*n + 2] = Line[2] /\ list'[3*n + 3] = Line[3]
      BY <1>1, <2>3
    <2>6. LineOk(n)'
      BY <2>1, <2>2, <2>5 DEF LineOk
    <2>7. \A j \in 0..((n + 1) - 1) : LineOk(j)'
      BY <1>3, <2>6
    <2>8. QED
      BY <2>4, <2>7 DEF LinesInv
  <1>6. QED
    BY <1>2, <1>4, <1>5

\* What a reader has keeps its meaning when the list grows and keys are made.
LEMMA ReaderKept ==
  ASSUME TypeInv, [Next]_vars, NEW c \in Conns, ReaderInv(c),
         word'[c] = word[c], turn'[c] = turn[c], pos'[c] = pos[c], eof'[c] = eof[c],
         clientKey'[c] = clientKey[c] \/ pc[c] \in Unread,
         \/ pc'[c] = pc[c]
         \/ pc[c] \in Unread /\ pc'[c] \in Unread
         \/ pc'[c] \notin {"read", "user", "mount", "serve"} \cup Unread
  PROVE  ReaderInv(c)'
  <1>1. Whole(c) => Whole(c)'
    BY MadeStays DEF Whole
  <1>2. ASSUME NEW j \in Nat, Reading(c, j) PROVE Reading(c, j)'
    <2>1. pos[c] <= Len(list) /\ turn[c] \in 1..4 /\ Len(list) \in Nat
          /\ \A i \in 1..Len(list) : list'[i] = list[i]
      BY ListGrows DEF TypeInv, ReadTypes
    <2>2. ASSUME NEW i \in 1..3, i < turn[c] PROVE list'[3*j + i] = list[3*j + i]
      <3>1. 3*j + i \in 1..Len(list)
        BY <1>2, <2>1, <2>2 DEF Reading
      <3>2. QED
        BY <2>1, <3>1
    <2>3. QED
      BY <1>2, <2>2 DEF Reading
  <1>3. QED
    BY <1>1, <1>2 DEF ReaderInv, Unread, Accepted

\* A child reads the next word.
LEMMA ReaderReads ==
  ASSUME TypeInv, LinesInv, [Next]_vars, NEW c \in Conns, ReaderInv(c), ReadWord(c)
  PROVE  ReaderInv(c)'
  <1>1. /\ pc[c] = "read" /\ pc' = pc /\ turn[c] \in 1..3 /\ pos[c] \in Nat
        /\ turn'[c] = turn[c] + 1 /\ list' = list /\ made' = made /\ clientKey' = clientKey
        /\ word[c] \in [1..3 -> Words] /\ eof[c] \in BOOLEAN
    BY DEF ReadWord, genVars, TypeInv, ReadTypes
  <1>2. CASE pos[c] < Len(list) /\ ~ eof[c]
    <2>1. /\ word'[c] = [word[c] EXCEPT ![turn[c]] = list[pos[c] + 1]]
          /\ pos'[c] = pos[c] + 1 /\ eof'[c] = eof[c]
      BY <1>2 DEF ReadWord, TypeInv, ReadTypes
    <2>2. PICK j \in Nat : Reading(c, j)
      BY <1>1, <1>2 DEF ReaderInv
    <2>3. pos[c] + 1 = 3*j + turn[c] /\ pos'[c] = 3*j + turn'[c] - 1
      BY <1>1, <2>1, <2>2 DEF Reading
    <2>4. ASSUME NEW i \in 1..3, i < turn'[c] PROVE word'[c][i] = list[3*j + i]
      <3>1. CASE i = turn[c]
        BY <1>1, <2>1, <2>3, <3>1
      <3>2. CASE i # turn[c]
        <4>1. i < turn[c]
          BY <1>1, <2>4, <3>2
        <4>2. QED
          BY <1>1, <2>1, <2>2, <3>2, <4>1 DEF Reading
      <3>3. QED
        BY <3>1, <3>2
    <2>5. Reading(c, j)'
      BY <1>1, <2>3, <2>4 DEF Reading
    <2>6. turn'[c] # 1 /\ ~ eof'[c]
      BY <1>1, <1>2, <2>1
    <2>7. QED
      BY <1>1, <2>5, <2>6 DEF ReaderInv, Unread, Accepted
  <1>3. CASE ~ (pos[c] < Len(list) /\ ~ eof[c])
    <2>1. word' = word /\ pos' = pos /\ eof'[c]
      BY <1>3 DEF ReadWord, TypeInv, ReadTypes
    <2>2. Whole(c)
      <3>1. CASE eof[c]
        BY <1>1, <3>1 DEF ReaderInv
      <3>2. CASE ~ eof[c]
        <4>1. PICK j \in Nat : Reading(c, j)
          BY <1>1, <3>2 DEF ReaderInv
        <4>2. PICK n \in Nat : Len(list) = 3*n
          BY DEF LinesInv
        <4>3. pos[c] <= Len(list) /\ pos[c] >= Len(list)
          BY <1>1, <1>3, <3>2, <4>2 DEF TypeInv, ReadTypes
        <4>4. 3*j + turn[c] - 1 = 3*n
          BY <1>1, <4>1, <4>2, <4>3 DEF Reading
        <4>5. turn[c] = 1
          BY <1>1, <4>4
        <4>6. QED
          BY <1>1, <4>5 DEF ReaderInv
      <3>3. QED
        BY <3>1, <3>2
    <2>3. Whole(c)'
      BY <1>1, <2>1, <2>2 DEF Whole
    <2>4. QED
      BY <1>1, <2>1, <2>3 DEF ReaderInv, Unread, Accepted
  <1>4. QED
    BY <1>2, <1>3

\* At the end of a round the reader holds a line.
LEMMA RoundIsWhole ==
  ASSUME TypeInv, LinesInv, NEW c \in Conns, ReaderInv(c), pc[c] = "read", turn[c] = 4
  PROVE  Whole(c) /\ (~ eof[c] => \E j \in Nat : pos[c] = 3*(j + 1))
  <1>1. CASE eof[c]
    BY <1>1 DEF ReaderInv
  <1>2. CASE ~ eof[c]
    <2>1. PICK j \in Nat : Reading(c, j)
      BY <1>2 DEF ReaderInv
    <2>2. PICK n \in Nat : Len(list) = 3*n /\ \A i \in 0..(n - 1) : LineOk(i)
      BY DEF LinesInv
    <2>3. pos[c] = 3*j + 3 /\ pos[c] <= 3*n
      BY <2>1, <2>2 DEF Reading, TypeInv, ReadTypes
    <2>4. LineOk(j)
      <3>1. j \in 0..(n - 1)
        BY <2>3
      <3>2. QED
        BY <2>2, <3>1
    <2>5. /\ word[c][1] = list[3*j + 1] /\ word[c][2] = list[3*j + 2]
          /\ word[c][3] = list[3*j + 3]
      BY <2>1 DEF Reading
    <2>6. Whole(c)
      BY <2>4, <2>5 DEF Whole, LineOk
    <2>7. pos[c] = 3*(j + 1)
      BY <2>3
    <2>8. QED
      BY <2>6, <2>7
  <1>3. QED
    BY <1>1, <1>2

\* The child's other steps.
LEMMA ReaderSteps ==
  ASSUME TypeInv, LinesInv, [Next]_vars, NEW c \in Conns, ReaderInv(c), Constructor(c)
  PROVE  ReaderInv(c)'
  <1>1. CASE OpenList(c)
    <2>1. /\ pc[c] = "open" /\ UNCHANGED <<clientKey, word>>
          /\ turn'[c] = 1 /\ pos'[c] = 0 /\ ~ eof'[c]
          /\ word[c][2] = EmptyWord /\ word[c][3] = EmptyWord
          /\ \/ pc'[c] \in {"read", "spin"}
             \/ pc'[c] = "user" /\ clientKey[c] = EmptyWord
      BY <1>1 DEF OpenList, Goto, readVars, ReaderInv, Unread, TypeInv, ConnTypes
    <2>2. Reading(c, 0)' /\ Whole(c)'
      BY <2>1 DEF Reading, Whole
    <2>3. QED
      BY <2>1, <2>2 DEF ReaderInv, Unread, Accepted
  <1>2. CASE ReadWord(c)
    BY <1>2, ReaderReads
  <1>3. CASE Compare(c)
    <2>1. pc[c] = "read" /\ turn[c] = 4 /\ UNCHANGED <<word, clientKey, made, list, pos, eof>>
      BY <1>3 DEF Compare, Goto, Refuse, genVars, readVars
    <2>2. Whole(c) /\ (~ eof[c] => \E j \in Nat : pos[c] = 3*(j + 1))
      BY <2>1, RoundIsWhole
    <2>3. Whole(c)'
      BY <2>1, <2>2 DEF Whole
    <2>4. CASE word[c][3] = clientKey[c]
      <3>1. pc'[c] = "user"
        BY <1>3, <2>4 DEF Compare, Goto, TypeInv, ConnTypes
      <3>2. QED
        BY <2>1, <2>3, <2>4, <3>1 DEF ReaderInv, Unread, Accepted
    <2>5. CASE word[c][3] # clientKey[c] /\ ~ eof[c]
      <3>1. pc'[c] = "read" /\ turn'[c] = 1
        BY <1>3, <2>5 DEF Compare, Goto, TypeInv, ConnTypes, ReadTypes
      <3>2. PICK j \in Nat : pos[c] = 3*(j + 1)
        BY <2>2, <2>5
      <3>3. Reading(c, j + 1)'
        BY <2>1, <3>1, <3>2 DEF Reading
      <3>4. j + 1 \in Nat
        OBVIOUS
      <3>5. QED
        BY <2>3, <3>1, <3>3, <3>4 DEF ReaderInv, Unread, Accepted
    <2>6. CASE word[c][3] # clientKey[c] /\ eof[c]
      <3>1. pc'[c] = "ended"
        BY <1>3, <2>6 DEF Compare, Refuse, TypeInv, ConnTypes
      <3>2. QED
        BY <3>1 DEF ReaderInv, Unread, Accepted
    <2>7. QED
      BY <2>4, <2>5, <2>6
  <1>4. CASE CheckUser(c) \/ CheckMount(c)
    <2>1. /\ UNCHANGED <<word, clientKey, made>>
          /\ \/ pc[c] = "user" /\ pc'[c] = "mount" /\ word[c][2] \in Users
             \/ pc[c] = "mount" /\ pc'[c] = "serve"
             \/ pc'[c] = "ended"
      BY <1>4 DEF CheckUser, CheckMount, Goto, Refuse, genVars, readVars, TypeInv, ConnTypes
    <2>2. Whole(c) => Whole(c)'
      BY <2>1 DEF Whole
    <2>3. QED
      BY <2>1, <2>2 DEF ReaderInv, Unread, Accepted
  <1>5. QED
    BY <1>1, <1>2, <1>3, <1>4 DEF Constructor

LEMMA ReaderStep ==
  ASSUME TypeInv, KeyInv, [Next]_vars, NEW c \in Conns
  PROVE  ReaderInv(c)'
  <1>1. ReaderInv(c) /\ LinesInv
    BY DEF KeyInv
  <1>2. CASE Keygen \/ UNCHANGED vars
    <2>1. UNCHANGED <<pc, clientKey, readVars>>
      BY <1>2 DEF Keygen, StartKeygen, DrawKey, ListKey, KillKeygen, vars
    <2>2. QED
      BY <1>1, <2>1, ReaderKept DEF readVars
  <1>3. ASSUME NEW d \in Conns, Connect(d) PROVE ReaderInv(c)'
    <2>1. /\ UNCHANGED readVars /\ pc[d] = "none" /\ pc' = [pc EXCEPT ![d] = "queued"]
          /\ c # d => clientKey'[c] = clientKey[c]
      BY <1>3 DEF Connect, TypeInv, ReadTypes
    <2>2. QED
      BY <1>1, <2>1, ReaderKept DEF readVars, Unread, TypeInv, ConnTypes
  <1>4. ASSUME NEW d \in Conns, Main(d) PROVE ReaderInv(c)'
    <2>1. /\ UNCHANGED <<clientKey, readVars>>
          /\ \/ pc' = pc
             \/ pc[d] = "queued" /\ pc' = [pc EXCEPT ![d] = "accepted"]
             \/ pc[d] = "accepted" /\ pc' = [pc EXCEPT ![d] = "open"]
             \/ pc[d] = "accepted" /\ pc' = [pc EXCEPT ![d] = "closed"]
      BY <1>4 DEF Main, Accept, Fork, ForkFails, Close
    <2>2. QED
      BY <1>1, <2>1, ReaderKept DEF readVars, Unread, TypeInv, ConnTypes
  <1>5. ASSUME NEW d \in Conns, EndSession(d) PROVE ReaderInv(c)'
    <2>1. UNCHANGED <<clientKey, readVars>> /\ pc' = [pc EXCEPT ![d] = "ended"]
      BY <1>5 DEF EndSession, Refuse
    <2>2. QED
      BY <1>1, <2>1, ReaderKept DEF readVars, Unread, TypeInv, ConnTypes
  <1>6. ASSUME NEW d \in Conns, Constructor(d) PROVE ReaderInv(c)'
    <2>1. CASE c = d
      BY <1>1, <1>6, <2>1, ReaderSteps
    <2>2. CASE c # d
      <3>1. /\ clientKey'[c] = clientKey[c] /\ word'[c] = word[c] /\ turn'[c] = turn[c]
            /\ pos'[c] = pos[c] /\ eof'[c] = eof[c] /\ pc'[c] = pc[c]
        BY <1>6, <2>2 DEF Constructor, OpenList, ReadWord, Compare, CheckUser, CheckMount,
                          Goto, Refuse, readVars, TypeInv, ConnTypes, ReadTypes
      <3>2. QED
        BY <1>1, <3>1, ReaderKept
    <2>3. QED
      BY <2>1, <2>2
  <1>7. QED
    BY <1>2, <1>3, <1>4, <1>5, <1>6 DEF Next

LEMMA KeyInit == Init => KeyInv
  <1> SUFFICES ASSUME Init PROVE KeyInv
    OBVIOUS
  <1>1. Len(list) = 3*0 /\ \A j \in 0..(0 - 1) : LineOk(j)
    BY DEF Init
  <1>2. LinesInv
    BY <1>1 DEF LinesInv
  <1>3. ASSUME NEW c \in Conns PROVE ReaderInv(c)
    BY DEF Init, ReaderInv, Unread, Accepted
  <1>4. QED
    BY <1>2, <1>3 DEF KeyInv

LEMMA KeyStep == OneWord /\ TypeInv /\ KeyInv /\ [Next]_vars => KeyInv'
  BY LinesStep, ReaderStep DEF KeyInv

\* A session is one of the user and the mount point that its client's key was
\* made for, as long as no mount point has a space in it: the list is appended
\* and read without a lock, by any number of processes.
THEOREM KeysOpenTheirMounts == OneWord => (Spec => []KeyOpensItsMount)
  <1> SUFFICES ASSUME OneWord PROVE Spec => []KeyOpensItsMount
    OBVIOUS
  <1>1. KeyInv => KeyOpensItsMount
    <2>1. SUFFICES ASSUME NEW c \in Conns, ReaderInv(c), pc[c] = "serve"
                   PROVE  /\ clientKey[c] \in DOMAIN made
                          /\ made[clientKey[c]] = <<word[c][2], <<word[c][1]>>>>
      BY DEF KeyInv, KeyOpensItsMount
    <2>2. word[c][2] # EmptyWord
      BY <2>1, AgfsdAssumption DEF ReaderInv
    <2>3. QED
      BY <2>1, <2>2 DEF ReaderInv, Accepted, Whole
  <1>2. TypeInv /\ KeyInv /\ [Next]_vars => KeyInv'
    BY KeyStep
  <1>3. QED
    BY <1>1, <1>2, TypeInit, TypeStep, KeyInit, PTL DEF Spec

-----------------------------------------------------------------------------
(* A key that is in the list when the child opens it lies ahead of the reader *)
(* until the child has read it: a list that grows does not end early.         *)

\* The client's key ends line j + 1, which the child has not passed.
Ahead(c, j) ==
  /\ 3*j + 3 <= Len(list) /\ list[3*j + 3] = clientKey[c]
  /\ pos[c] < 3*j + 3 \/ (pos[c] = 3*j + 3 /\ turn[c] = 4)

KnownInv(c) ==
  /\ pc[c] \in Unread => answer[c] = NONE
  /\ pc[c] = "read" /\ knew[c] => ~ eof[c] /\ \E j \in Nat : Ahead(c, j)
  /\ answer[c] = INVALID_KEY => ~ knew[c]

\* A key stands at the end of a line and nowhere else.
LEMMA KeyEndsLine ==
  ASSUME OneWord, TypeInv, LinesInv, NEW c \in Conns,
         NEW i \in 1..Len(list), list[i] = clientKey[c]
  PROVE  \E j \in Nat : i = 3*j + 3
  <1>1. PICK n \in Nat : Len(list) = 3*n /\ \A j \in 0..(n - 1) : LineOk(j)
    BY DEF LinesInv
  <1> DEFINE j == (i - 1) \div 3
  <1>2. j \in 0..(n - 1) /\ (i = 3*j + 1 \/ i = 3*j + 2 \/ i = 3*j + 3)
    BY <1>1
  <1> HIDE DEF j
  <1>3. LineOk(j)
    BY <1>1, <1>2
  <1>4. made[list[3*j + 3]] \in Users \X Mounts
    BY <1>3 DEF LineOk, TypeInv, GenTypes
  <1>5. list[3*j + 2] \in Users /\ <<list[3*j + 1]>> \in Mounts
    BY <1>3, <1>4 DEF LineOk
  <1>6. list[3*j + 1] \notin Keys \cup {EmptyWord}
    <2>1. /\ Len(<<list[3*j + 1]>>) = 1 /\ <<list[3*j + 1]>>[1] = list[3*j + 1]
      OBVIOUS
    <2>2. 1 \in 1..Len(<<list[3*j + 1]>>)
      BY <2>1
    <2>3. QED
      BY <1>5, <2>1, <2>2, AgfsdAssumption
  <1>7. list[3*j + 2] \notin Keys \cup {EmptyWord}
    BY <1>5, AgfsdAssumption
  <1>8. clientKey[c] \in Keys \cup {EmptyWord}
    BY DEF TypeInv, ReadTypes
  <1>9. i = 3*j + 3
    BY <1>2, <1>6, <1>7, <1>8
  <1>10. QED
    BY <1>2, <1>9

\* Steps that leave a reader alone keep its key ahead of it.
LEMMA KnownKept ==
  ASSUME TypeInv, [Next]_vars, NEW c \in Conns, KnownInv(c),
         turn'[c] = turn[c], pos'[c] = pos[c], eof'[c] = eof[c],
         answer'[c] = answer[c], knew'[c] = knew[c],
         clientKey'[c] = clientKey[c] \/ pc[c] \in Unread,
         \/ pc'[c] = pc[c]
         \/ pc[c] \in Unread /\ pc'[c] \in Unread
         \/ pc'[c] \notin {"read"} \cup Unread
  PROVE  KnownInv(c)'
  <1>1. ASSUME NEW j \in Nat, Ahead(c, j), clientKey'[c] = clientKey[c] PROVE Ahead(c, j)'
    <2>1. /\ Len(list) <= Len(list') /\ Len(list) \in Nat /\ Len(list') \in Nat
          /\ \A i \in 1..Len(list) : list'[i] = list[i]
      BY ListGrows DEF TypeInv
    <2>2. 3*j + 3 \in 1..Len(list)
      BY <1>1, <2>1 DEF Ahead
    <2>3. QED
      BY <1>1, <2>1, <2>2 DEF Ahead
  <1>2. QED
    BY <1>1 DEF KnownInv, Unread

LEMMA KnownSteps ==
  ASSUME OneWord, TypeInv, LinesInv, [Next]_vars, NEW c \in Conns,
         ReaderInv(c), KnownInv(c), Constructor(c)
  PROVE  KnownInv(c)'
  <1> USE DEF NONE, INVALID_KEY, ACCEPT, USER_NOT_FOUND, MOUNT_NOT_FOUND
  <1>1. CASE OpenList(c)
    <2>1. /\ pc[c] = "open" /\ pc'[c] \in {"read", "spin", "user"}
          /\ pos[c] = 0 /\ ~ eof[c]
          /\ answer[c] = NONE
          /\ UNCHANGED <<list, clientKey, pos, turn, eof, answer>>
          /\ knew'[c] => \E i \in 1..Len(list) : list[i] = clientKey[c]
      BY <1>1 DEF OpenList, Goto, genVars, readVars, ReaderInv, KnownInv, Unread,
                  TypeInv, ConnTypes
    <2>2. ASSUME knew'[c] PROVE \E j \in Nat : Ahead(c, j)'
      <3>1. PICK i \in 1..Len(list) : list[i] = clientKey[c]
        BY <2>1, <2>2
      <3>2. PICK j \in Nat : i = 3*j + 3
        BY <3>1, KeyEndsLine
      <3>3. Ahead(c, j)'
        BY <2>1, <3>1, <3>2 DEF Ahead
      <3>4. QED
        BY <3>3
    <2>3. QED
      BY <2>1, <2>2 DEF KnownInv, Unread
  <1>2. CASE ReadWord(c)
    <2>1. /\ pc[c] = "read" /\ pc' = pc /\ turn[c] \in 1..3 /\ pos[c] \in Nat
          /\ turn'[c] = turn[c] + 1 /\ UNCHANGED <<list, clientKey, answer, knew>>
          /\ pos[c] < Len(list) /\ ~ eof[c] => pos'[c] = pos[c] + 1 /\ eof'[c] = eof[c]
      BY <1>2 DEF ReadWord, genVars, TypeInv, ReadTypes
    <2>2. ASSUME knew[c] PROVE ~ eof'[c] /\ \E j \in Nat : Ahead(c, j)'
      <3>1. PICK j \in Nat : Ahead(c, j)
        BY <2>1, <2>2 DEF KnownInv
      <3>2. ~ eof[c] /\ pos[c] < 3*j + 3 /\ 3*j + 3 <= Len(list) /\ Len(list) \in Nat
        BY <2>1, <2>2, <3>1 DEF KnownInv, Ahead, TypeInv, GenTypes
      <3>3. PICK k \in Nat : pos[c] = 3*k + turn[c] - 1
        BY <2>1, <3>2 DEF ReaderInv, Reading
      <3>4. pos'[c] = pos[c] + 1 /\ ~ eof'[c]
        BY <2>1, <3>2
      <3>5. pos'[c] = 3*j + 3 => turn'[c] = 4
        BY <2>1, <3>3, <3>4
      <3>6. Ahead(c, j)'
        BY <2>1, <3>1, <3>2, <3>4, <3>5 DEF Ahead
      <3>7. QED
        BY <3>4, <3>6
    <2>3. QED
      BY <2>1, <2>2 DEF KnownInv, Unread
  <1>3. CASE Compare(c)
    <2>1. /\ pc[c] = "read" /\ turn[c] = 4
          /\ UNCHANGED <<word, clientKey, list, pos, eof, knew>>
      BY <1>3 DEF Compare, Goto, Refuse, genVars, readVars
    <2>2. CASE word[c][3] = clientKey[c]
      <3>1. pc'[c] = "user" /\ answer' = answer
        BY <1>3, <2>2 DEF Compare, Goto, TypeInv, ConnTypes
      <3>2. QED
        BY <2>1, <3>1 DEF KnownInv, Unread
    <2>3. CASE word[c][3] # clientKey[c] /\ ~ eof[c]
      <3>1. pc'[c] = "read" /\ turn'[c] = 1 /\ answer' = answer
        BY <1>3, <2>3 DEF Compare, Goto, TypeInv, ConnTypes, ReadTypes
      <3>2. ASSUME knew[c] PROVE \E j \in Nat : Ahead(c, j)'
        <4>1. PICK j \in Nat : Ahead(c, j)
          BY <2>1, <3>2 DEF KnownInv
        <4>2. PICK k \in Nat : Reading(c, k)
          BY <2>1, <2>3 DEF ReaderInv
        <4>3. pos[c] = 3*k + 3 /\ word[c][3] = list[3*k + 3]
          BY <2>1, <4>2 DEF Reading
        <4>4. pos[c] # 3*j + 3
          <5>1. SUFFICES ASSUME pos[c] = 3*j + 3 PROVE FALSE
            OBVIOUS
          <5>2. k = j
            BY <4>3, <5>1
          <5>3. QED
            BY <2>3, <4>1, <4>3, <5>2 DEF Ahead
        <4>5. Ahead(c, j)'
          BY <2>1, <4>1, <4>4 DEF Ahead
        <4>6. QED
          BY <4>5
      <3>3. QED
        BY <2>1, <2>3, <3>1, <3>2 DEF KnownInv, Unread
    <2>4. CASE word[c][3] # clientKey[c] /\ eof[c]
      <3>1. pc'[c] = "ended" /\ ~ knew[c]
        BY <1>3, <2>1, <2>4 DEF Compare, Refuse, KnownInv, TypeInv, ConnTypes
      <3>2. QED
        BY <2>1, <3>1 DEF KnownInv, Unread
    <2>5. QED
      BY <2>2, <2>3, <2>4
  <1>4. CASE CheckUser(c) \/ CheckMount(c)
    <2>1. /\ UNCHANGED <<knew>>
          /\ pc'[c] \in {"mount", "serve", "ended"}
          /\ answer'[c] \in {answer[c], ACCEPT, USER_NOT_FOUND, MOUNT_NOT_FOUND}
      BY <1>4 DEF CheckUser, CheckMount, Goto, Refuse, TypeInv, ConnTypes
    <2>2. QED
      BY <2>1 DEF KnownInv, Unread
  <1>5. QED
    BY <1>1, <1>2, <1>3, <1>4 DEF Constructor

LEMMA KnownStep ==
  ASSUME OneWord, TypeInv, KeyInv, \A d \in Conns : KnownInv(d), [Next]_vars, NEW c \in Conns
  PROVE  KnownInv(c)'
  <1>1. KnownInv(c) /\ ReaderInv(c) /\ LinesInv
    BY DEF KeyInv
  <1>2. CASE Keygen \/ UNCHANGED vars
    <2>1. UNCHANGED <<pc, clientKey, readVars, answer, knew>>
      BY <1>2 DEF Keygen, StartKeygen, DrawKey, ListKey, KillKeygen, vars
    <2>2. QED
      BY <1>1, <2>1, KnownKept DEF readVars
  <1>3. ASSUME NEW d \in Conns, Connect(d) PROVE KnownInv(c)'
    <2>1. /\ UNCHANGED <<readVars, answer, knew>>
          /\ pc[d] = "none" /\ pc' = [pc EXCEPT ![d] = "queued"]
          /\ c # d => clientKey'[c] = clientKey[c]
      BY <1>3 DEF Connect, TypeInv, ReadTypes
    <2>2. QED
      BY <1>1, <2>1, KnownKept DEF readVars, Unread, TypeInv, ConnTypes
  <1>4. ASSUME NEW d \in Conns, Main(d) PROVE KnownInv(c)'
    <2>1. /\ UNCHANGED <<clientKey, readVars, answer, knew>>
          /\ \/ pc' = pc
             \/ pc[d] = "queued" /\ pc' = [pc EXCEPT ![d] = "accepted"]
             \/ pc[d] = "accepted" /\ pc' = [pc EXCEPT ![d] = "open"]
             \/ pc[d] = "accepted" /\ pc' = [pc EXCEPT ![d] = "closed"]
      BY <1>4 DEF Main, Accept, Fork, ForkFails, Close
    <2>2. QED
      BY <1>1, <2>1, KnownKept DEF readVars, Unread, TypeInv, ConnTypes
  <1>5. ASSUME NEW d \in Conns, EndSession(d) PROVE KnownInv(c)'
    <2>1. /\ UNCHANGED <<clientKey, readVars, knew>> /\ pc' = [pc EXCEPT ![d] = "ended"]
          /\ answer'[c] = answer[c]
      BY <1>5 DEF EndSession, Refuse, TypeInv, ConnTypes
    <2>2. QED
      BY <1>1, <2>1, KnownKept DEF readVars, Unread, TypeInv, ConnTypes
  <1>6. ASSUME NEW d \in Conns, Constructor(d) PROVE KnownInv(c)'
    <2>1. CASE c = d
      BY <1>1, <1>6, <2>1, KnownSteps
    <2>2. CASE c # d
      <3>1. /\ clientKey'[c] = clientKey[c] /\ turn'[c] = turn[c] /\ pos'[c] = pos[c]
            /\ eof'[c] = eof[c] /\ pc'[c] = pc[c] /\ answer'[c] = answer[c]
            /\ knew'[c] = knew[c]
        BY <1>6, <2>2 DEF Constructor, OpenList, ReadWord, Compare, CheckUser, CheckMount,
                          Goto, Refuse, readVars, TypeInv, ConnTypes, ReadTypes
      <3>2. QED
        BY <1>1, <3>1, KnownKept
    <2>3. QED
      BY <2>1, <2>2
  <1>7. QED
    BY <1>2, <1>3, <1>4, <1>5, <1>6 DEF Next

\* A client whose key was in the list when its child opened it is not told
\* INVALID_KEY, whatever agfs-keygen appends meanwhile.
THEOREM ListedKeysAreKnown == OneWord => (Spec => []ListedKeyIsKnown)
  <1> SUFFICES ASSUME OneWord PROVE Spec => []ListedKeyIsKnown
    OBVIOUS
  <1> DEFINE Known == \A c \in Conns : KnownInv(c)
  <1>1. Init => Known
    BY DEF Init, KnownInv, NONE, INVALID_KEY
  <1>2. TypeInv /\ KeyInv /\ Known /\ [Next]_vars => Known'
    BY KnownStep
  <1>3. TypeInv /\ KeyInv /\ [Next]_vars => KeyInv'
    BY KeyStep
  <1>4. Known => ListedKeyIsKnown
    BY DEF KnownInv, ListedKeyIsKnown
  <1> HIDE DEF Known
  <1>5. QED
    BY <1>1, <1>2, <1>3, <1>4, TypeInit, TypeStep, KeyInit, PTL DEF Spec
=============================================================================
