------------------------------ MODULE Namespace ------------------------------
(***************************************************************************)
(* The file system that agfs shows: one directory with the files of every  *)
(* server (the handlers of agfs.cpp and their map of connections).         *)
(*                                                                         *)
(* A handler asks the servers one after the other, in the order of the     *)
(* map, and each call to a server is one step here: between two of them a  *)
(* server may be lost, given up or found again, and the files of every     *)
(* server may change.  A call to a server that does not answer returns     *)
(* what its variables held before (see Session).  Handlers that run at the *)
(* same time share nothing but the connections: one runs at a time here.   *)
(*                                                                         *)
(* Paths are the mount's root <<>>, a name in it, and both with a suffix.  *)
(***************************************************************************)
EXTENDS Disambiguater

CONSTANTS
  Names,      \* the names files can have on the servers, without braces
  MaxChanges, \* how often files and servers change
  Handles     \* the addresses that new file_handle_t{} returns

ASSUME NamesAssumption ==
  /\ \A n \in Names : n \in Seq(STRING) /\ n # <<>> /\ Plain(n)
  /\ MaxChanges \in Nat

VARIABLES
  connections, \* the servers in the map
  link,        \* "up", "dead" (connected, but silent) or "down" (socket_ = -1)
  disk,        \* what each server has under each name
  pc,          \* the handler: "idle", or about to "look" at connected() or "ask"
  call,        \* what it does, or did last
  path, file,  \* the path it was given, and the file it asks for
  todo,        \* the servers it has still to ask
  err,         \* the sign of its result
  from,        \* the servers whose answers it used
  kind,        \* the kind of file in the stat it returns
  found,       \* the entries in its Disambiguater
  handles,     \* the open files
  listed,      \* the last listing of the root, until something changes
  calm,        \* nothing has changed since the handler began
  changes      \* how often something has

opVars  == <<call, path, file, todo, err, from, kind, found>>
envVars == <<connections, link, disk, changes>>
vars == <<envVars, pc, opVars, handles, listed, calm>>

Signs     == -1..1
DiskKinds == {"none", "file", "dir"}
OpCalls   == {"none", "getattr", "access", "readdir", "lookup", "open", "read", "write"}
Paths     == {<<>>} \cup Names \cup {<<BEGIN_BRACE, END_BRACE>>}
               \cup {Suffixed(n, h) : n \in {<<>>} \cup Names, h \in Hosts}
Entries   == [name : Paths, kind : DiskKinds, host : Hosts]

TypeOK ==
  /\ connections \subseteq Hosts
  /\ link \in [Hosts -> {"up", "dead", "down"}]
  /\ disk \in [Hosts -> [Names -> DiskKinds]]
  /\ pc \in {"idle", "look", "ask"}
  /\ call \in OpCalls
  /\ path \in Paths
  /\ todo \subseteq connections
  /\ err \in Signs
  /\ from \subseteq connections
  /\ kind \in DiskKinds \cup {"blank"}
  /\ found \subseteq Entries
  /\ DOMAIN handles \subseteq Handles
  /\ \A fh \in DOMAIN handles : handles[fh].host \in connections
  /\ listed \subseteq Entries
  /\ calm \in BOOLEAN
  /\ changes \in 0..MaxChanges

\* Mutant of Named: find() is not compared with end().
NamedUnchecked(p) == {h \in Hosts : Ambiguate(p).server = <<Word[h]>>}

\* The server that a path names, if the map has it: connections.find(server).
Named(p) == {h \in connections : Ambiguate(p).server = <<Word[h]>>}

\* What server h has at f, relative to its mount point.
At(h, f) ==
  IF f = <<>> THEN "dir" ELSE IF f \in Names THEN disk[h][f] ELSE "none"

\* main: the servers that could be reached when agfs was started.
Init ==
  /\ connections \in SUBSET Hosts
  /\ link = [h \in Hosts |-> "up"]
  /\ disk \in [Hosts -> [Names -> DiskKinds]]
  /\ pc = "idle" /\ call = "none" /\ path = <<>> /\ file = <<>>
  /\ todo = {} /\ err = 0 /\ from = {} /\ kind = "none" /\ found = {}
  /\ handles = << >>
  /\ listed = {}
  /\ calm = TRUE
  /\ changes = 0

-----------------------------------------------------------------------------
(* The handlers.                                                           *)

\* A handler begins to ask `servers' for f.
Begin(c, p, f, servers, e, step) ==
  /\ pc = "idle"
  /\ pc' = step /\ call' = c /\ path' = p /\ file' = f
  /\ todo' = servers /\ err' = e
  /\ from' = {} /\ kind' = "none" /\ found' = {}
  /\ calm' = TRUE
  /\ UNCHANGED <<envVars, handles, listed>>

\* agfs_getattr: the server the path names if it is connected, or all of them.
getattr(p) ==
  LET named == {h \in Named(p) : link[h] # "down"}
  IN IF named # {} THEN Begin("getattr", p, Ambiguate(p).file, named, 0, "ask")
     ELSE Begin("getattr", p, Ambiguate(p).file, connections, 0, "look")

\* Mutant of Consulted: the other servers stand in for one that is down.
ConsultedIfUp(p) ==
  IF \E h \in Named(p) : link[h] # "down" THEN Named(p) ELSE connections

\* agfs_access and agfs_readdir: the server the path names, or all of them.
Consulted(p) == IF Named(p) # {} THEN Named(p) ELSE connections

access(p)  == Begin("access", p, Ambiguate(p).file, Consulted(p), 0, "ask")
readdir(p) == Begin("readdir", p, Ambiguate(p).file, Consulted(p), -1, "ask")

\* Mutant of open: it opens the path on the first server that has it.
openFirst(p) ==
  IF Ambiguate(p).server = <<>> THEN Begin("open", p, p, connections, -1, "look")
  ELSE Begin("open", p, Ambiguate(p).file, Named(p), -1, "look")

\* agfs_open: checkExistance if the path names no server.
open(p) ==
  IF Ambiguate(p).server = <<>> THEN Begin("lookup", p, p, connections, -1, "ask")
  ELSE Begin("open", p, Ambiguate(p).file, Named(p), -1, "look")

\* agfs_read and agfs_write use what agfs_open left in the handle.
transfer(c, fh) ==
  Begin(c, handles[fh].path, handles[fh].file, {handles[fh].host}, -1, "look")

\* agfs_release
release(fh) ==
  /\ pc = "idle"
  /\ handles' = [f \in DOMAIN handles \ {fh} |-> handles[f]]
  /\ UNCHANGED <<envVars, pc, opVars, listed, calm>>

\* The servers are asked in the order of the map.
First(h) == h \in todo /\ \A g \in todo : h <= g

\* connected(), and the next server if it is not.
Look(h) ==
  /\ pc = "look" /\ First(h)
  /\ IF link[h] = "down" THEN todo' = todo \ {h} /\ UNCHANGED pc
     ELSE pc' = "ask" /\ UNCHANGED todo
  /\ UNCHANGED <<envVars, call, path, file, err, from, kind, found,
                 handles, listed, calm>>

\* What a server says that answers.  mask and flags may be denied.
Spoken(h) ==
  IF At(h, file) = "none" THEN {-1} ELSE
  CASE call = "access"  -> {-1, 0}
    [] call = "readdir" -> IF At(h, file) = "dir" THEN {0} ELSE {-1}
    [] call = "open"    -> IF At(h, file) = "dir" THEN {-1, 0} ELSE {0}
    [] call \in {"read", "write"}     -> IF At(h, file) = "dir" THEN {-1} ELSE {0}
    [] call \in {"getattr", "lookup"} -> {0}

\* What a method of ServerConnection returns without an answer: access() an
\* uninitialised value, the others the error they began with; read() and write()
\* on socket -1 fail.
Silent(h) ==
  CASE call \in {"access", "lookup"}        -> {-1, 0}
    [] call \in {"getattr", "readdir", "open"} -> {0}
    [] call = "read"  -> IF link[h] = "down" THEN {-1} ELSE {0}
    [] call = "write" -> IF link[h] = "down" THEN {-1} ELSE {-1, 0}

\* What readdir() of a server returns; only its root has anything in it.
Listing(h) ==
  IF link[h] = "up" /\ file = <<>>
  THEN {Entry(n, disk[h][n], h) : n \in {m \in Names : disk[h][m] # "none"}}
  ELSE {}

\* Mutant of Stops: every handler is content with the first server.
StopsEarly(e) == e >= 0

\* Mutant of Stops: getattr goes on to the last server.
StopsLate(e) == e >= 0 /\ call = "access"

\* The first success is enough for getattr and access.
Stops(e) == e >= 0 /\ call \in {"getattr", "access"}

\* One call to a server.
Ask(h) ==
  /\ pc = "ask" /\ First(h)
  /\ \E e \in (IF link[h] = "up" THEN Spoken(h) ELSE Silent(h)) :
       /\ err'   = IF e < 0 /\ call = "readdir" THEN err ELSE e
       /\ from'  = IF e < 0 THEN from ELSE from \cup {h}
       /\ todo'  = IF Stops(e) THEN {} ELSE todo \ {h}
       /\ kind'  = IF e < 0 \/ call # "getattr" THEN kind
                   ELSE IF link[h] = "up" THEN At(h, file) ELSE "blank"
       /\ found' = IF e < 0 \/ call # "readdir" THEN found ELSE found \cup Listing(h)
  /\ pc' = IF call = "getattr" THEN "look" ELSE "ask"
  /\ UNCHANGED <<envVars, call, path, file, handles, listed, calm>>

\* checkExistance has asked every server: the file must be on exactly one.
Choose ==
  /\ pc # "idle" /\ todo = {} /\ call = "lookup"
  /\ call' = "open"
  /\ err' = -1
  /\ from' = {}
  /\ \/ \E h \in from : from = {h} /\ todo' = {h} /\ pc' = "look" /\ file' = Ambiguate(path).file
     \/ (\A h \in from : from # {h}) /\ pc' = "idle" /\ UNCHANGED <<todo, file>>
  /\ UNCHANGED <<envVars, path, kind, found, handles, listed, calm>>

\* The handler returns.
Return ==
  /\ pc # "idle" /\ todo = {} /\ call # "lookup"
  /\ pc' = "idle"
  /\ listed' = IF call = "readdir" /\ path = <<>> /\ calm
               THEN disambiguatedFilepathsWithStats(found) ELSE listed
  /\ found' = {}
  /\ IF call = "open" /\ err >= 0
     THEN \E fh \in Handles \ DOMAIN handles, h \in from :
            handles' = [f \in DOMAIN handles \cup {fh} |->
                          IF f = fh THEN [path |-> path, host |-> h, file |-> file]
                          ELSE handles[f]]
     ELSE UNCHANGED handles
  /\ UNCHANGED <<envVars, call, path, file, todo, err, from, kind, calm>>

\* FUSE opens no more files than there are handles left.
Handler ==
  \/ \E p \in Paths : getattr(p) \/ access(p) \/ readdir(p)
  \/ \E p \in Paths : Handles # DOMAIN handles /\ open(p)
  \/ \E fh \in DOMAIN handles : transfer("read", fh) \/ transfer("write", fh) \/ release(fh)
  \/ \E h \in Hosts : Look(h) \/ Ask(h)
  \/ Choose
  \/ Return

-----------------------------------------------------------------------------
(* The environment.                                                        *)

Disturb ==
  /\ changes < MaxChanges
  /\ changes' = changes + 1
  /\ listed' = {}
  /\ calm' = FALSE
  /\ UNCHANGED <<connections, pc, opVars, handles>>

\* Someone creates, removes or replaces a file on a server.
ChangeDisk ==
  /\ \E h \in Hosts, n \in Names, k \in DiskKinds :
       k # disk[h][n] /\ disk' = [disk EXCEPT ![h][n] = k]
  /\ Disturb
  /\ UNCHANGED link

\* A server is lost, the heartbeat thread gives it up, or reaches it again.
ChangeLink ==
  /\ \E h \in connections :
       \/ link[h] = "up"   /\ link' = [link EXCEPT ![h] = "dead"]
       \/ link[h] # "down" /\ link' = [link EXCEPT ![h] = "down"]
       \/ link[h] = "down" /\ link' = [link EXCEPT ![h] = "up"]
  /\ Disturb
  /\ UNCHANGED disk

Next == Handler \/ ChangeDisk \/ ChangeLink

Spec == Init /\ [][Next]_vars
-----------------------------------------------------------------------------
(* Properties.                                                             *)

\* No server pretends to be connected.
NoneDead == \A h \in connections : link[h] # "dead"
AllUp    == \A h \in connections : link[h] = "up"

\* A name that is a file on one server and a directory on another.  Disambiguater
\* keeps the two in different maps and gives neither a suffix on account of the
\* other: readdir lists the directory, and a file that is alone, under one name.
Clash(n) ==
  \E g, h \in connections : At(g, n) = "file" /\ At(h, n) = "dir"

\* Server h is the first in the map of those that are up and have p.
FirstWith(h, p) ==
  LET having == {g \in connections : link[g] = "up" /\ At(g, p) # "none"}
  IN h \in having /\ \A g \in having : h <= g

\* What readdir has listed getattr finds, and on the server it was listed for: the
\* suffixes that Disambiguater adds are the ones it takes off again, and both
\* handlers agree on who is asked.  Where a file and a directory clash the name
\* does not tell them apart, and getattr answers for the first server that has
\* either: for one of the two entries it returns the stat of the other.
ListedIsFound ==
  pc = "idle" /\ call = "getattr" /\ NoneDead =>
    \A e \in listed : e.name = path =>
      /\ err >= 0
      /\ IF Clash(path)
         THEN \E h \in connections : FirstWith(h, path) /\ from = {h} /\ kind = At(h, path)
         ELSE kind = e.kind /\ (e.kind = "file" => from = {e.host})

\* A file that readdir has listed can be opened under the name it was listed by,
\* and the handle is one of the server it was listed for, unless the name clashes
\* with a directory of another server: checkExistance, which counts directories
\* too, then finds two servers where Disambiguater saw one file, and a file that
\* is listed is not opened at all (ENOENT).
ListedOpens ==
  pc = "idle" /\ call = "open" /\ AllUp =>
    \A e \in listed : e.name = path /\ e.kind = "file" =>
      IF Clash(path) THEN err < 0 /\ from = {} ELSE err >= 0 /\ from = {e.host}

\* A listing of the root, until something changes: readdir loses no file of a
\* server that answers, lists no two files under one name (though a file may
\* share its name with a directory), and lists nothing that its server has not.
ListingIsExact ==
  listed # {} \/ (pc = "idle" /\ call = "readdir" /\ path = <<>> /\ calm) =>
    /\ \A h \in connections, n \in Names : link[h] = "up" /\ disk[h][n] = "file" =>
         \E e \in listed :
           /\ e.host = h /\ e.kind = "file" /\ Ambiguate(e.name).file = n
           /\ \A d \in listed : d.name = e.name => d = e \/ d.kind = "dir"
    /\ \A e \in listed :
         link[e.host] = "up" /\ At(e.host, Ambiguate(e.name).file) = e.kind

\* getattr succeeds on a path exactly when one of the servers it should ask has
\* it, as long as one is connected.
FoundIffThere ==
  pc = "idle" /\ call = "getattr" /\ calm /\ NoneDead =>
    LET up    == {h \in connections : link[h] = "up"}
        asked == IF Named(path) \cap up # {} THEN Named(path) ELSE up
    IN up # {} => (err >= 0 <=> \E h \in asked : At(h, file) # "none")

\* A plain path is opened only if no other server has it.
OpensTheOnlyOne ==
  pc = "idle" /\ call = "open" /\ err >= 0 /\ calm /\ AllUp /\ Named(path) = {} =>
    from = {h \in connections : At(h, path) # "none"}

\* agfs_access, agfs_readdir, agfs_open, agfs_read and agfs_write of a path that
\* names a server of the map use the answer of that server and no other's,
\* whatever is lost or changed meanwhile.
NamedServerAnswers ==
  call # "getattr" /\ Named(path) # {} => from \subseteq Named(path)

\* agfs.cpp:104: "If the server is in our map, then only look at that server".
OnlyNamedServer == Named(path) # {} => from \subseteq Named(path)

\* agfs.cpp:112: "Otherwise, iterate through all connections to find the first
\* such file": a success is the answer of a server.
FoundSomewhere == pc = "idle" /\ call = "getattr" /\ err >= 0 => from # {}
=============================================================================
