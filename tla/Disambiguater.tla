---------------------------- MODULE Disambiguater ----------------------------
(***************************************************************************)
(* How AgFS names the files of several servers in one directory            *)
(* (disambiguater.cpp): a file that more than one server has is listed     *)
(* once for each, as name{:server:}.                                       *)
(*                                                                         *)
(* A path is a sequence of words, and each of the two braces is a word.    *)
(* Servers are numbered in the order of std::map, by their host names, and *)
(* a host name is one word.                                                *)
(***************************************************************************)
EXTENDS Integers, Sequences

CONSTANTS
  Hosts,   \* the servers, in the order of their names
  Word     \* Word[h] is the host name of server h

BEGIN_BRACE == "{:"
END_BRACE   == ":}"
Braces      == {BEGIN_BRACE, END_BRACE}

\* Host names are distinct, and have neither brace in them.
ASSUME HostAssumption ==
  /\ Hosts \subseteq Nat
  /\ Word \in [Hosts -> STRING]
  /\ \A h \in Hosts : Word[h] \notin Braces
  /\ \A g, h \in Hosts : Word[g] = Word[h] => g = h

Positions(path, brace) == {i \in 1..Len(path) : path[i] = brace}

\* std::string::find, with 0 for npos.
Find(path, brace) ==
  LET P == Positions(path, brace)
  IN IF P = {} THEN 0 ELSE CHOOSE i \in P : \A j \in P : i <= j

\* Mutant of Ambiguate: the file keeps its suffix.
AmbiguateWhole(path) ==
  LET b == Find(path, BEGIN_BRACE)
      e == Find(path, END_BRACE)
  IN IF b = 0 \/ e = 0 THEN [server |-> <<>>, file |-> path]
     ELSE [server |-> SubSeq(path, b + 1, e - 1), file |-> path]

\* ambiguate: the server that a path names, <<>> if none, and the path without
\* it.  substr() takes all the rest when END_BRACE comes first, because the
\* count it is given has wrapped around.
Ambiguate(path) ==
  LET b == Find(path, BEGIN_BRACE)
      e == Find(path, END_BRACE)
  IN IF b = 0 \/ e = 0 THEN [server |-> <<>>, file |-> path]
     ELSE [server |-> SubSeq(path, b + 1, IF e > b THEN e - 1 ELSE Len(path)),
           file   |-> SubSeq(path, 1, b - 1) \o SubSeq(path, e + 1, Len(path))]

\* A name with neither brace in it.
Plain(path) == \A i \in 1..Len(path) : path[i] \notin Braces

Suffixed(name, h) == name \o <<BEGIN_BRACE, Word[h], END_BRACE>>

(***************************************************************************)
(* addFilepaths and disambiguatedFilepathsWithStats.  `found' holds what   *)
(* the servers answered, an entry for each name of each server.            *)
(***************************************************************************)
Entry(name, kind, h) == [name |-> name, kind |-> kind, host |-> h]

\* filemap_[e.name] holds nothing but e.
Alone(found, e) ==
  \A x \in found : x.kind = "file" /\ x.name = e.name => x.host = e.host

\* Mutant of FileEntries: the first server's file keeps its bare name.
FileEntriesLate(found) ==
  { IF \A x \in found : x.kind = "file" /\ x.name = e.name => e.host <= x.host
    THEN e ELSE [e EXCEPT !.name = Suffixed(e.name, e.host)]
    : e \in {x \in found : x.kind = "file"} }

\* The entries of filemap_: with a suffix if several servers have the name.
FileEntries(found) ==
  { IF Alone(found, e) THEN e ELSE [e EXCEPT !.name = Suffixed(e.name, e.host)]
    : e \in {x \in found : x.kind = "file"} }

\* The entries of directorymap_: the stat of the server that was asked last.
DirEntries(found) ==
  {e \in found : /\ e.kind = "dir"
                 /\ \A x \in found : x.kind = "dir" /\ x.name = e.name
                                       => x.host <= e.host}

disambiguatedFilepathsWithStats(found) ==
  FileEntries(found) \cup DirEntries(found)
=============================================================================
