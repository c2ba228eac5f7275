-------------------------- MODULE Namespace_proofs --------------------------
(* Theorems about Namespace and Disambiguater, for every value of their     *)
(* constants: any number of servers, names, open files and changes.         *)
EXTENDS Namespace, SequenceTheorems, TLAPS

-----------------------------------------------------------------------------
(* Names.                                                                   *)

\* ambiguate leaves a name without braces alone (disambiguater.cpp:121).
LEMMA PlainAmbiguate ==
  ASSUME NEW n, Plain(n)
  PROVE  Ambiguate(n) = [server |-> <<>>, file |-> n]
  <1>1. Positions(n, BEGIN_BRACE) = {}
    BY DEF Positions, Plain, Braces
  <1>2. Find(n, BEGIN_BRACE) = 0
    BY <1>1 DEF Find
  <1>3. QED
    BY <1>2 DEF Ambiguate

\* The only position of a word is where find() finds it.
LEMMA FindOnly ==
  ASSUME NEW name, NEW brace, NEW i \in Nat, Positions(name, brace) = {i}
  PROVE  Find(name, brace) = i
  BY DEF Find

\* What a path is made of: words, and the braces, of which no backend knows
\* that they are strings.
Words == STRING \cup Braces

\* A sequence of three.
LEMMA Triple ==
  ASSUME NEW S, NEW a \in S, NEW b \in S, NEW c \in S
  PROVE  /\ <<a, b, c>> \in Seq(S) /\ Len(<<a, b, c>>) = 3
         /\ <<a, b, c>>[1] = a /\ <<a, b, c>>[2] = b /\ <<a, b, c>>[3] = c
  OBVIOUS

\* A subsequence of one element.
LEMMA SubSeqOne ==
  ASSUME NEW S, NEW s \in Seq(S), NEW k \in 1..Len(s)
  PROVE  SubSeq(s, k, k) = <<s[k]>>
  <1>1. k \in Int /\ s[k] \in S /\ \A i \in k..k : s[i] \in S
    OBVIOUS
  <1>2. /\ SubSeq(s, k, k) \in Seq(S)
        /\ Len(SubSeq(s, k, k)) = IF k <= k THEN k - k + 1 ELSE 0
        /\ \A i \in 1..k - k + 1 : SubSeq(s, k, k)[i] = s[k + i - 1]
    BY <1>1, SubSeqProperties
  <1>3. Len(SubSeq(s, k, k)) = 1 /\ SubSeq(s, k, k)[1] = s[k]
    BY <1>1, <1>2
  <1>4. <<s[k]>> \in Seq(S) /\ Len(<<s[k]>>) = 1 /\ <<s[k]>>[1] = s[k]
    BY <1>1
  <1>5. \A i \in 1..Len(SubSeq(s, k, k)) : SubSeq(s, k, k)[i] = <<s[k]>>[i]
    BY <1>3, <1>4
  <1>6. QED
    BY <1>2, <1>3, <1>4, <1>5, SeqEqual

\* What a suffix adds to a name, word by word.
LEMMA SuffixedWords ==
  ASSUME NEW n \in Seq(Words), NEW h \in Hosts
  PROVE  LET s == Suffixed(n, h)
         IN /\ s \in Seq(Words)
            /\ Len(s) = Len(n) + 3
            /\ \A i \in 1..Len(n) : s[i] = n[i]
            /\ s[Len(n) + 1] = BEGIN_BRACE
            /\ s[Len(n) + 2] = Word[h]
            /\ s[Len(n) + 3] = END_BRACE
  <1> DEFINE t == <<BEGIN_BRACE, Word[h], END_BRACE>>
  <1>1. Word[h] \in Words /\ BEGIN_BRACE \in Words /\ END_BRACE \in Words
    BY HostAssumption DEF Words, Braces
  <1>2. t \in Seq(Words) /\ Len(t) = 3
        /\ t[1] = BEGIN_BRACE /\ t[2] = Word[h] /\ t[3] = END_BRACE
    BY <1>1, Triple
  <1> HIDE DEF t
  <1>3. /\ n \o t \in Seq(Words)
        /\ Len(n \o t) = Len(n) + Len(t)
        /\ \A i \in 1..Len(n) + Len(t) :
             (n \o t)[i] = IF i <= Len(n) THEN n[i] ELSE t[i - Len(n)]
    BY <1>2, ConcatProperties, Zenon
  <1>4. Len(n) \in Nat
    OBVIOUS
  <1>5. Suffixed(n, h) = n \o t
    BY DEF Suffixed, t
  <1>6. QED
    BY <1>2, <1>3, <1>4, <1>5

\* ambiguate takes off the suffix that disambiguatedFilepaths put on, and finds
\* the server it names (disambiguater.cpp:121, :93).
LEMMA SuffixedAmbiguate ==
  ASSUME NEW n \in Seq(Words), Plain(n), NEW h \in Hosts
  PROVE  Ambiguate(Suffixed(n, h)) = [server |-> <<Word[h]>>, file |-> n]
  <1> DEFINE s == Suffixed(n, h)
             L == Len(n)
  <1>1. /\ s \in Seq(Words)
        /\ Len(s) = L + 3
        /\ \A i \in 1..L : s[i] = n[i]
        /\ s[L + 1] = BEGIN_BRACE
        /\ s[L + 2] = Word[h]
        /\ s[L + 3] = END_BRACE
    BY SuffixedWords
  <1>2. L \in Nat
    OBVIOUS
  <1>3. /\ BEGIN_BRACE # END_BRACE
        /\ Word[h] # BEGIN_BRACE /\ Word[h] # END_BRACE
        /\ \A i \in 1..L : n[i] # BEGIN_BRACE /\ n[i] # END_BRACE
    BY HostAssumption DEF Plain, Braces, BEGIN_BRACE, END_BRACE
  <1> HIDE DEF s, L
  <1>4. Positions(s, BEGIN_BRACE) = {L + 1}
    BY <1>1, <1>2, <1>3 DEF Positions
  <1>5. Positions(s, END_BRACE) = {L + 3}
    BY <1>1, <1>2, <1>3 DEF Positions
  <1>6. Find(s, BEGIN_BRACE) = L + 1 /\ Find(s, END_BRACE) = L + 3
    BY <1>2, <1>4, <1>5, FindOnly
  <1>7. Ambiguate(s) = [server |-> SubSeq(s, L + 2, L + 2),
                        file   |-> SubSeq(s, 1, L) \o SubSeq(s, L + 4, L + 3)]
    <2>1. /\ L + 1 # 0 /\ L + 3 # 0 /\ L + 3 > L + 1
          /\ (L + 1) + 1 = L + 2 /\ (L + 3) - 1 = L + 2
          /\ (L + 1) - 1 = L /\ (L + 3) + 1 = L + 4
      BY <1>2
    <2>2. QED
      BY <1>1, <1>6, <2>1, Zenon DEF Ambiguate
  <1>8. SubSeq(s, L + 2, L + 2) = <<Word[h]>>
    <2>1. L + 2 \in 1..Len(s)
      BY <1>1, <1>2
    <2>2. QED
      BY <1>1, <2>1, SubSeqOne
  <1>9. SubSeq(s, 1, L) = n
    <2>1. \A i \in 1..L : s[i] \in Words
      BY <1>1, <1>2
    <2>2. /\ SubSeq(s, 1, L) \in Seq(Words)
          /\ Len(SubSeq(s, 1, L)) = IF 1 <= L THEN L - 1 + 1 ELSE 0
          /\ \A i \in 1..L - 1 + 1 : SubSeq(s, 1, L)[i] = s[1 + i - 1]
      BY <1>2, <2>1, SubSeqProperties
    <2>3. Len(SubSeq(s, 1, L)) = L /\ \A i \in 1..L : SubSeq(s, 1, L)[i] = n[i]
      BY <1>1, <1>2, <2>2
    <2>4. QED
      BY <2>2, <2>3, SeqEqual DEF L
  <1>10. SubSeq(s, L + 4, L + 3) = <<>>
    BY <1>2, SubSeqEmpty
  <1>11. n \o <<>> = n
    BY ConcatEmptySeq
  <1>12. QED
    BY <1>7, <1>8, <1>9, <1>10, <1>11 DEF s

\* What names are.
LEMMA NameFacts ==
  ASSUME NEW n \in {<<>>} \cup Names
  PROVE  n \in Seq(Words) /\ Plain(n)
  <1>1. CASE n = <<>>
    BY <1>1 DEF Plain
  <1>2. CASE n \in Names
    <2>1. n \in Seq(STRING) /\ Plain(n)
      BY <1>2, NamesAssumption
    <2>2. STRING \subseteq Words
      BY DEF Words
    <2>3. QED
      BY <2>1, <2>2, SeqMonotonic
  <1>3. QED
    BY <1>1, <1>2

\* A path names at most one server.
LEMMA NamedOne ==
  ASSUME connections \subseteq Hosts, NEW p, NEW g \in Named(p), NEW h \in Named(p)
  PROVE  g = h
  <1>1. <<Word[g]>> = <<Word[h]>>
    BY DEF Named
  <1>2. Word[g] = Word[h]
    BY <1>1
  <1>3. QED
    BY <1>2, HostAssumption DEF Named

\* A path whose server is empty names none.
LEMMA NamedNone ==
  ASSUME NEW p, Ambiguate(p).server = <<>>
  PROVE  Named(p) = {}
  <1>1. \A h : <<Word[h]>> # <<>>
    OBVIOUS
  <1>2. QED
    BY <1>1 DEF Named

-----------------------------------------------------------------------------
(* Type correctness, and the server that a path names.                      *)

\* The types of what TypeOK does not mention, and of the entries more exactly.
TypeInv ==
  /\ TypeOK
  /\ pc # "idle" => call # "none"
  /\ \A fh \in DOMAIN handles : handles[fh].path \in Paths
  /\ found \subseteq [name : Names, kind : DiskKinds, host : Hosts]

\* The entries of a listing.
LEMMA ListedTypes ==
  ASSUME NEW F, F \subseteq [name : Names, kind : DiskKinds, host : Hosts]
  PROVE  disambiguatedFilepathsWithStats(F) \subseteq Entries
  <1>1. SUFFICES ASSUME NEW e \in F PROVE e \in Entries /\ [e EXCEPT !.name = Suffixed(e.name, e.host)] \in Entries
    BY <1>1 DEF disambiguatedFilepathsWithStats, FileEntries, DirEntries
  <1>2. e.name \in Names /\ e.host \in Hosts /\ e.kind \in DiskKinds
    OBVIOUS
  <1>3. e.name \in Paths /\ Suffixed(e.name, e.host) \in Paths
    BY <1>2 DEF Paths
  <1>4. QED
    BY <1>2, <1>3 DEF Entries

\* What a server says is a sign, and what it has is a kind.
LEMMA AnswerTypes ==
  ASSUME TypeInv, NEW h \in Hosts, pc # "idle"
  PROVE  /\ At(h, file) \in DiskKinds
         /\ Spoken(h) \subseteq Signs
         /\ Silent(h) \subseteq Signs
         /\ Listing(h) \subseteq [name : Names, kind : DiskKinds, host : Hosts]
  <1>1. \A n \in Names : disk[h][n] \in DiskKinds
    BY DEF TypeInv, TypeOK
  <1>2. At(h, file) \in DiskKinds
    BY <1>1 DEF At, DiskKinds
  <1>3. call \in OpCalls \ {"none"}
    BY DEF TypeInv, TypeOK
  <1>4. Spoken(h) \subseteq Signs
    BY <1>3 DEF Spoken, Signs, OpCalls
  <1>5. Silent(h) \subseteq Signs
    BY <1>3 DEF Silent, Signs, OpCalls
  <1>6. Listing(h) \subseteq [name : Names, kind : DiskKinds, host : Hosts]
    BY <1>1 DEF Listing, Entry
  <1>7. QED
    BY <1>2, <1>4, <1>5, <1>6

\* A handle of agfs_open has its path and the server that answered.
LEMMA ReturnHandles ==
  ASSUME Return, NEW f \in DOMAIN handles'
  PROVE  \/ f \in DOMAIN handles /\ handles'[f] = handles[f]
         \/ /\ call = "open" /\ err >= 0 /\ f \in Handles
            /\ handles'[f].host \in from /\ handles'[f].path = path
  <1>1. CASE call = "open" /\ err >= 0
    <2>1. PICK fh \in Handles \ DOMAIN handles, h \in from :
            handles' = [g \in DOMAIN handles \cup {fh} |->
                          IF g = fh THEN [path |-> path, host |-> h, file |-> file]
                          ELSE handles[g]]
      BY <1>1 DEF Return
    <2>2. handles'[fh].host = h /\ handles'[fh].path = path
      BY <2>1
    <2>3. \A g \in DOMAIN handles : handles'[g] = handles[g]
      BY <2>1
    <2>4. DOMAIN handles' = DOMAIN handles \cup {fh}
      BY <2>1
    <2>5. QED
      BY <1>1, <2>2, <2>3, <2>4
  <1>2. CASE ~ (call = "open" /\ err >= 0)
    BY <1>2 DEF Return
  <1>3. QED
    BY <1>1, <1>2

LEMMA TypeInit == Init => TypeInv
  <1> SUFFICES ASSUME Init PROVE TypeInv
    OBVIOUS
  <1>1. DOMAIN handles = {}
    BY DEF Init
  <1>2. QED
    BY <1>1, HostAssumption, NamesAssumption
    DEF Init, TypeInv, TypeOK, OpCalls, Paths, Signs, DiskKinds, Entries

\* A handler begins.
LEMMA BeginTypes ==
  ASSUME TypeInv, NEW c \in OpCalls \ {"none"}, NEW p \in Paths, NEW f,
         NEW servers \in SUBSET connections, NEW e \in Signs, NEW step \in {"look", "ask"},
         Begin(c, p, f, servers, e, step)
  PROVE  TypeInv'
  BY DEF Begin, TypeInv, TypeOK, envVars, DiskKinds

LEMMA TypeStep == TypeInv /\ [Next]_vars => TypeInv'
  <1> SUFFICES ASSUME TypeInv, [Next]_vars PROVE TypeInv'
    OBVIOUS
  <1> USE DEF Signs
  <1>1. ASSUME NEW p \in Paths, getattr(p) PROVE TypeInv'
    <2>1. {h \in Named(p) : link[h] # "down"} \subseteq connections
      BY DEF Named
    <2>2. QED
      BY <1>1, <2>1, BeginTypes DEF getattr, OpCalls
  <1>2. ASSUME NEW p \in Paths, access(p) \/ readdir(p) \/ open(p) PROVE TypeInv'
    <2>1. Named(p) \subseteq connections /\ Consulted(p) \subseteq connections
      BY DEF Named, Consulted
    <2>2. CASE access(p)
      BY <2>1, <2>2, BeginTypes DEF access, OpCalls
    <2>3. CASE readdir(p)
      BY <2>1, <2>3, BeginTypes DEF readdir, OpCalls
    <2>4. CASE open(p)
      BY <2>1, <2>4, BeginTypes DEF open, OpCalls
    <2>5. QED
      BY <1>2, <2>2, <2>3, <2>4
  <1>3. ASSUME NEW fh \in DOMAIN handles, transfer("read", fh) \/ transfer("write", fh)
        PROVE  TypeInv'
    <2>1. handles[fh].path \in Paths /\ {handles[fh].host} \subseteq connections
      BY DEF TypeInv, TypeOK
    <2>2. QED
      BY <1>3, <2>1, BeginTypes DEF transfer, OpCalls
  <1>4. ASSUME NEW fh \in DOMAIN handles, release(fh) PROVE TypeInv'
    BY <1>4 DEF release, TypeInv, TypeOK, envVars, opVars
  <1>5. ASSUME NEW h \in Hosts, Look(h) PROVE TypeInv'
    BY <1>5 DEF Look, TypeInv, TypeOK, envVars
  <1>6. ASSUME NEW h \in Hosts, Ask(h) PROVE TypeInv'
    <2>1. pc # "idle" /\ h \in connections
      BY <1>6 DEF Ask, First, TypeInv, TypeOK
    <2>2. /\ At(h, file) \in DiskKinds
          /\ Spoken(h) \subseteq Signs /\ Silent(h) \subseteq Signs
          /\ Listing(h) \subseteq [name : Names, kind : DiskKinds, host : Hosts]
      BY <2>1, AnswerTypes
    <2>3. /\ err' \in Signs
          /\ from' \subseteq connections /\ todo' \subseteq connections
          /\ kind' \in DiskKinds \cup {"blank"}
          /\ found' \subseteq [name : Names, kind : DiskKinds, host : Hosts]
      <3>1. PICK e \in (IF link[h] = "up" THEN Spoken(h) ELSE Silent(h)) :
              /\ err'   = IF e < 0 /\ call = "readdir" THEN err ELSE e
              /\ from'  = IF e < 0 THEN from ELSE from \cup {h}
              /\ todo'  = IF Stops(e) THEN {} ELSE todo \ {h}
              /\ kind'  = IF e < 0 \/ call # "getattr" THEN kind
                          ELSE IF link[h] = "up" THEN At(h, file) ELSE "blank"
              /\ found' = IF e < 0 \/ call # "readdir" THEN found ELSE found \cup Listing(h)
        BY <1>6 DEF Ask
      <3>2. e \in Signs
        BY <2>2
      <3>3. QED
        BY <2>1, <2>2, <3>1, <3>2 DEF TypeInv, TypeOK
    <2>4. found' \subseteq Entries
      BY <2>3 DEF Entries, Paths
    <2>5. QED
      BY <1>6, <2>1, <2>3, <2>4 DEF Ask, TypeInv, TypeOK, envVars
  <1>7. CASE Choose
    BY <1>7 DEF Choose, TypeInv, TypeOK, envVars, OpCalls
  <1>8. CASE Return
    <2>1. listed' \subseteq Entries
      BY <1>8, ListedTypes DEF Return, TypeInv, TypeOK
    <2>2. /\ DOMAIN handles' \subseteq Handles
          /\ \A fh \in DOMAIN handles' :
               handles'[fh].host \in connections /\ handles'[fh].path \in Paths
      BY <1>8, ReturnHandles DEF TypeInv, TypeOK
    <2>3. QED
      BY <1>8, <2>1, <2>2 DEF Return, TypeInv, TypeOK, envVars
  <1>9. CASE ChangeDisk \/ ChangeLink
    <2>1. changes' \in 0..MaxChanges
      BY <1>9, NamesAssumption DEF ChangeDisk, ChangeLink, Disturb, TypeInv, TypeOK
    <2>2. disk' \in [Hosts -> [Names -> DiskKinds]]
      BY <1>9 DEF ChangeDisk, ChangeLink, TypeInv, TypeOK
    <2>3. link' \in [Hosts -> {"up", "dead", "down"}]
      BY <1>9 DEF ChangeDisk, ChangeLink, TypeInv, TypeOK
    <2>4. QED
      BY <1>9, <2>1, <2>2, <2>3
      DEF ChangeDisk, ChangeLink, Disturb, TypeInv, TypeOK, opVars
  <1>10. CASE UNCHANGED vars
    BY <1>10 DEF vars, envVars, opVars, TypeInv, TypeOK
  <1>11. QED
    BY <1>1, <1>2, <1>3, <1>4, <1>5, <1>6, <1>7, <1>8, <1>9, <1>10 DEF Next, Handler

\* Every variable keeps its type.
THEOREM TypeCorrect == Spec => []TypeOK
  <1>1. TypeInv => TypeOK
    BY DEF TypeInv
  <1>2. QED
    BY <1>1, TypeInit, TypeStep, PTL DEF Spec

-----------------------------------------------------------------------------
(* The server that a path names: what a handler has still to ask, and what a *)
(* handle remembers, is that server.                                         *)

NamedInv ==
  /\ call = "lookup" => Named(path) = {}
  /\ call # "getattr" /\ Named(path) # {} =>
       todo \subseteq Named(path) /\ from \subseteq Named(path)
  /\ \A fh \in DOMAIN handles :
       Named(handles[fh].path) # {} => handles[fh].host \in Named(handles[fh].path)

\* main fills the map once.
LEMMA SameServers == [Next]_vars => connections' = connections
  BY DEF Next, Handler, getattr, access, readdir, open, transfer, Begin, release,
         Look, Ask, Choose, Return, ChangeDisk, ChangeLink, Disturb, vars, envVars

LEMMA NamedStep == TypeInv /\ NamedInv /\ [Next]_vars => NamedInv'
  <1> SUFFICES ASSUME TypeInv, NamedInv, [Next]_vars PROVE NamedInv'
    OBVIOUS
  <1>1. \A p : Named(p)' = Named(p)
    BY SameServers DEF Named
  <1>2. ASSUME NEW p, getattr(p) PROVE NamedInv'
    BY <1>1, <1>2 DEF getattr, Begin, NamedInv
  <1>3. ASSUME NEW p, access(p) \/ readdir(p) PROVE NamedInv'
    BY <1>1, <1>3 DEF access, readdir, Begin, Consulted, NamedInv
  <1>4. ASSUME NEW p, open(p) PROVE NamedInv'
    <2>1. CASE Ambiguate(p).server = <<>>
      BY <1>1, <1>4, <2>1, NamedNone DEF open, Begin, NamedInv
    <2>2. CASE Ambiguate(p).server # <<>>
      BY <1>1, <1>4, <2>2 DEF open, Begin, NamedInv
    <2>3. QED
      BY <2>1, <2>2
  <1>5. ASSUME NEW fh \in DOMAIN handles, transfer("read", fh) \/ transfer("write", fh)
        PROVE  NamedInv'
    BY <1>1, <1>5 DEF transfer, Begin, NamedInv
  <1>6. ASSUME NEW fh \in DOMAIN handles, release(fh) PROVE NamedInv'
    BY <1>1, <1>6 DEF release, NamedInv, opVars
  <1>7. ASSUME NEW h \in Hosts, Look(h) PROVE NamedInv'
    BY <1>1, <1>7 DEF Look, NamedInv
  <1>8. ASSUME NEW h \in Hosts, Ask(h) PROVE NamedInv'
    <2>1. h \in todo /\ todo' \subseteq todo /\ from' \subseteq from \cup {h}
      BY <1>8 DEF Ask, First
    <2>2. QED
      BY <1>1, <1>8, <2>1 DEF Ask, NamedInv
  <1>9. CASE Choose
    BY <1>1, <1>9 DEF Choose, NamedInv
  <1>10. CASE Return
    <2>1. \A fh \in DOMAIN handles' :
            \/ fh \in DOMAIN handles /\ handles'[fh] = handles[fh]
            \/ /\ call = "open"
               /\ handles'[fh].host \in from /\ handles'[fh].path = path
      BY <1>10, ReturnHandles
    <2>2. \A fh \in DOMAIN handles' :
            Named(handles'[fh].path) # {} => handles'[fh].host \in Named(handles'[fh].path)
      BY <2>1 DEF NamedInv
    <2>3. QED
      BY <1>1, <1>10, <2>2 DEF Return, NamedInv
  <1>11. CASE ChangeDisk \/ ChangeLink
    BY <1>1, <1>11 DEF ChangeDisk, ChangeLink, Disturb, opVars, NamedInv
  <1>12. CASE UNCHANGED vars
    BY <1>1, <1>12 DEF vars, opVars, NamedInv
  <1>13. QED
    BY <1>2, <1>3, <1>4, <1>5, <1>6, <1>7, <1>8, <1>9, <1>10, <1>11, <1>12
    DEF Next, Handler

\* A handler other than agfs_getattr, of a path that names a server of the map,
\* uses that server's answers alone: agfs_open puts no other into the handle that
\* agfs_read and agfs_write use.
THEOREM NamedServerAlone == Spec => []NamedServerAnswers
  <1>1. Init => NamedInv
    <2>1. Init => DOMAIN handles = {}
      BY DEF Init
    <2>2. QED
      BY <2>1 DEF Init, NamedInv
  <1>2. NamedInv => NamedServerAnswers
    BY DEF NamedInv, NamedServerAnswers
  <1>3. QED
    BY <1>1, <1>2, TypeInit, TypeStep, NamedStep, PTL DEF Spec

-----------------------------------------------------------------------------
(* agfs_getattr.  While nothing changes it asks exactly the servers of       *)
(* Asked, and either none of those it has asked has the file or it has found *)
(* it and is done.                                                           *)

Up == {h \in connections : link[h] = "up"}

Asked(p) == IF Named(p) \cap Up # {} THEN Named(p) \cap Up ELSE Up

\* What stays as it is when nobody disturbs.
LEMMA CalmStep ==
  ASSUME [Next]_vars, calm'
  PROVE  /\ connections' = connections /\ link' = link /\ disk' = disk
         /\ Up' = Up /\ NoneDead' = NoneDead /\ AllUp' = AllUp
         /\ \A p : Named(p)' = Named(p) /\ Asked(p)' = Asked(p)
         /\ \A h, f : At(h, f)' = At(h, f)
  <1>1. connections' = connections /\ link' = link /\ disk' = disk
    BY DEF Next, Handler, getattr, access, readdir, open, transfer, Begin, release,
           Look, Ask, Choose, Return, ChangeDisk, ChangeLink, Disturb, vars, envVars
  <1>2. \A p : Named(p)' = Named(p)
    BY <1>1 DEF Named
  <1>3. Up' = Up /\ NoneDead' = NoneDead /\ AllUp' = AllUp
    BY <1>1 DEF Up, NoneDead, AllUp
  <1>4. QED
    BY <1>1, <1>2, <1>3 DEF Asked, At

\* No server that has been asked so far has the file.
Searching ==
  /\ from = {} /\ kind = "none"
  /\ \A h \in Asked(path) \ todo : At(h, file) = "none"
  /\ err < 0 \/ Asked(path) \subseteq todo

Answered ==
  /\ todo = {} /\ err >= 0
  /\ \E h \in Asked(path) : /\ from = {h} /\ kind = At(h, file) /\ kind # "none"
                           /\ \A g \in Asked(path) : At(g, file) # "none" => h <= g

\* What holds of a getattr that nothing disturbs.
GetState ==
  /\ todo \cap Up \subseteq Asked(path)
  /\ pc = "ask" => \A h : First(h) => h \in Up
  /\ Searching \/ Answered

GetInv ==
  /\ pc = "idle" => todo = {}
  /\ call = "getattr" => file = Ambiguate(path).file
  /\ call = "getattr" /\ calm /\ NoneDead => GetState

\* The servers are asked one at a time.
LEMMA FirstIsOne ==
  ASSUME TypeInv, NEW g, NEW h, First(g), First(h)
  PROVE  g = h /\ h \in Hosts
  <1>1. g \in Nat /\ h \in Nat /\ h \in Hosts
    BY HostAssumption DEF First, TypeInv, TypeOK
  <1>2. g <= h /\ h <= g
    BY DEF First
  <1>3. QED
    BY <1>1, <1>2

\* Without a server that only seems connected, connected() tells who is up.
LEMMA UpOrDown ==
  ASSUME TypeInv, NoneDead, NEW h \in connections
  PROVE  h \in Up <=> link[h] # "down"
  BY DEF TypeInv, TypeOK, NoneDead, Up

LEMMA GetBegins ==
  ASSUME TypeInv, [Next]_vars, NEW p, getattr(p)
  PROVE  GetInv'
  <1>1. SUFFICES ASSUME NoneDead PROVE GetState'
    <2>1. calm' /\ pc' # "idle" /\ file' = Ambiguate(path').file
      BY DEF getattr, Begin
    <2>2. NoneDead' = NoneDead
      BY <2>1, CalmStep
    <2>3. QED
      BY <1>1, <2>1, <2>2 DEF GetInv
  <1> DEFINE named == {h \in Named(p) : link[h] # "down"}
  <1>2. named = Named(p) \cap Up
    BY <1>1, UpOrDown DEF Named
  <1>3. /\ path' = p /\ err' = 0 /\ from' = {} /\ kind' = "none" /\ calm'
        /\ IF named # {} THEN todo' = named /\ pc' = "ask"
           ELSE todo' = connections /\ pc' = "look"
    BY DEF getattr, Begin
  <1> HIDE DEF named
  <1>4. Asked(p)' = Asked(p) /\ Up' = Up
    BY <1>3, CalmStep
  <1>5. Asked(path)' = Asked(p)
    BY <1>3, <1>4 DEF Asked
  <1>6. Asked(p) \subseteq todo' /\ todo' \cap Up \subseteq Asked(p)
    BY <1>2, <1>3 DEF Asked, Up
  <1>7. pc' = "ask" => todo' \subseteq Up
    BY <1>2, <1>3
  <1>8. Searching'
    BY <1>3, <1>5, <1>6 DEF Searching
  <1>9. QED
    BY <1>4, <1>5, <1>6, <1>7, <1>8 DEF GetState, First

LEMMA GetAsks ==
  ASSUME TypeInv, GetInv, [Next]_vars, NEW h, Ask(h)
  PROVE  GetInv'
  <1>1. SUFFICES ASSUME call = "getattr", calm, NoneDead PROVE GetState'
    <2>1. calm' = calm /\ call' = call /\ file' = file /\ path' = path /\ pc' # "idle"
      BY DEF Ask
    <2>2. calm => NoneDead' = NoneDead
      BY <2>1, CalmStep
    <2>3. QED
      BY <1>1, <2>1, <2>2 DEF GetInv
  <1>2. /\ h \in todo /\ h \in Up /\ h \in Asked(path) /\ Searching
    BY <1>1 DEF Ask, GetInv, GetState, First, Answered
  <1>3. PICK e \in Spoken(h) :
          /\ err'   = e
          /\ from'  = IF e < 0 THEN from ELSE from \cup {h}
          /\ todo'  = IF Stops(e) THEN {} ELSE todo \ {h}
          /\ kind'  = IF e < 0 THEN kind ELSE At(h, file)
    BY <1>1, <1>2 DEF Ask, Up
  <1>4. /\ pc' = "look" /\ file' = file /\ path' = path /\ calm'
    BY <1>1 DEF Ask
  <1>5. /\ Up' = Up /\ Asked(path)' = Asked(path)
        /\ \A g : At(g, file)' = At(g, file)
    <2>1. /\ Up' = Up /\ \A p : Asked(p)' = Asked(p)
          /\ \A g, f : At(g, f)' = At(g, f)
      BY <1>4, CalmStep
    <2>2. QED
      BY <1>4, <2>1 DEF Asked, At, Named
  <1>6. CASE At(h, file) = "none"
    <2>1. e = -1
      BY <1>3, <1>6 DEF Spoken
    <2>2. err' = -1 /\ from' = from /\ todo' = todo \ {h} /\ kind' = kind
      BY <1>3, <2>1 DEF Stops
    <2>3. Searching'
      BY <1>2, <1>5, <1>6, <2>2 DEF Searching
    <2>4. QED
      BY <1>1, <1>4, <1>5, <2>2, <2>3 DEF GetState, GetInv
  <1>7. CASE At(h, file) # "none"
    <2>1. e = 0
      BY <1>1, <1>3, <1>7 DEF Spoken
    <2>2. err' = 0 /\ from' = {h} /\ todo' = {} /\ kind' = At(h, file)
      BY <1>1, <1>2, <1>3, <2>1 DEF Stops, Searching
    <2>3. \A g \in Asked(path) : At(g, file) # "none" => h <= g
      BY <1>2 DEF Ask, First, Searching
    <2>4. Answered'
      <3>1. err' >= 0
        BY <2>2
      <3>2. QED
        BY <1>2, <1>4, <1>5, <1>7, <2>2, <2>3, <3>1 DEF Answered
    <2>5. QED
      BY <1>4, <2>2, <2>4 DEF GetState
  <1>8. QED
    BY <1>6, <1>7

LEMMA GetLooks ==
  ASSUME TypeInv, GetInv, [Next]_vars, NEW h, Look(h)
  PROVE  GetInv'
  <1>1. SUFFICES ASSUME call = "getattr", calm, NoneDead PROVE GetState'
    <2>1. calm' = calm /\ call' = call /\ file' = file /\ path' = path /\ pc' # "idle"
      BY DEF Look
    <2>2. calm => NoneDead' = NoneDead
      BY <2>1, CalmStep
    <2>3. QED
      BY <1>1, <2>1, <2>2 DEF GetInv
  <1>2. /\ h \in todo /\ h \in connections /\ Searching
    BY <1>1 DEF Look, GetInv, GetState, First, Answered, TypeInv, TypeOK
  <1>3. /\ UNCHANGED <<err, from, kind, path, file>> /\ calm'
    BY <1>1 DEF Look
  <1>4. /\ Up' = Up /\ Asked(path)' = Asked(path)
        /\ \A g : At(g, file)' = At(g, file)
    <2>1. /\ Up' = Up /\ \A p : Asked(p)' = Asked(p)
          /\ \A g, f : At(g, f)' = At(g, f)
      BY <1>3, CalmStep
    <2>2. QED
      BY <1>3, <2>1 DEF Asked, At, Named
  <1>5. CASE link[h] = "down"
    <2>1. todo' = todo \ {h} /\ pc' = "look"
      BY <1>5 DEF Look
    <2>2. h \notin Asked(path)
      BY <1>5 DEF Asked, Up
    <2>3. Searching'
      BY <1>2, <1>3, <1>4, <2>1, <2>2 DEF Searching
    <2>4. QED
      BY <1>1, <1>4, <2>1, <2>3 DEF GetState, GetInv
  <1>6. CASE link[h] # "down"
    <2>1. todo' = todo /\ pc' = "ask"
      BY <1>6 DEF Look
    <2>2. h \in Up
      BY <1>1, <1>2, <1>6, UpOrDown
    <2>3. \A g : First(g)' => g = h
      BY <2>1, FirstIsOne DEF First, Look
    <2>4. Searching'
      BY <1>2, <1>3, <1>4, <2>1 DEF Searching
    <2>5. QED
      BY <1>1, <1>4, <2>1, <2>2, <2>3, <2>4 DEF GetState, GetInv
  <1>7. QED
    BY <1>5, <1>6

\* A step that ends a handler, opens or closes a file changes nothing of what a
\* getattr found.
LEMMA GetKept ==
  ASSUME GetInv, [Next]_vars, UNCHANGED <<call, path, file, todo, err, from, kind, calm>>,
         pc' = pc \/ (pc' = "idle" /\ todo = {})
  PROVE  GetInv'
  <1>1. SUFFICES ASSUME call = "getattr", calm, NoneDead PROVE GetState'
    <2>1. calm => NoneDead' = NoneDead
      BY CalmStep
    <2>2. QED
      BY <1>1, <2>1 DEF GetInv
  <1>2. /\ Up' = Up /\ Asked(path)' = Asked(path)
        /\ \A g : At(g, file)' = At(g, file)
    <2>1. /\ Up' = Up /\ \A p : Asked(p)' = Asked(p)
          /\ \A g, f : At(g, f)' = At(g, f)
      BY <1>1, CalmStep
    <2>2. QED
      BY <2>1 DEF Asked, At, Named
  <1>3. QED
    BY <1>1, <1>2 DEF GetInv, GetState, Searching, Answered, First

LEMMA GetStep == TypeInv /\ GetInv /\ [Next]_vars => GetInv'
  <1> SUFFICES ASSUME TypeInv, GetInv, [Next]_vars PROVE GetInv'
    OBVIOUS
  <1>1. ASSUME NEW p, access(p) \/ readdir(p) \/ open(p) PROVE GetInv'
    BY <1>1 DEF access, readdir, open, Begin, GetInv
  <1>2. ASSUME NEW fh, transfer("read", fh) \/ transfer("write", fh) PROVE GetInv'
    BY <1>2 DEF transfer, Begin, GetInv
  <1>3. ASSUME NEW fh, release(fh) PROVE GetInv'
    BY <1>3, GetKept DEF release, opVars
  <1>4. CASE Choose
    BY <1>4 DEF Choose, GetInv
  <1>5. CASE Return
    BY <1>5, GetKept DEF Return
  <1>6. CASE ChangeDisk \/ ChangeLink
    BY <1>6 DEF ChangeDisk, ChangeLink, Disturb, opVars, GetInv
  <1>7. CASE UNCHANGED vars
    BY <1>7, GetKept DEF vars, opVars
  <1>8. QED
    BY <1>1, <1>2, <1>3, <1>4, <1>5, <1>6, <1>7, GetBegins, GetAsks, GetLooks
    DEF Next, Handler

LEMMA GetInit == Init => GetInv
  BY DEF Init, GetInv

\* What a getattr has done when it has returned.
LEMMA GetReturned ==
  ASSUME GetInv, pc = "idle", call = "getattr", calm, NoneDead, Up # {}
  PROVE  \/ err < 0 /\ \A h \in Asked(path) : At(h, file) = "none"
         \/ /\ err >= 0
            /\ \E h \in Asked(path) :
                 /\ from = {h} /\ kind = At(h, file) /\ kind # "none"
                 /\ \A g \in Asked(path) : At(g, file) # "none" => h <= g
  <1>1. Asked(path) # {}
    BY DEF Asked
  <1>2. QED
    BY <1>1 DEF GetInv, GetState, Searching, Answered

\* agfs_getattr finds what is there, and nothing else, however many servers are
\* asked, if nothing changes meanwhile.
THEOREM GetattrFinds == Spec => []FoundIffThere
  <1>1. TypeInv /\ GetInv => FoundIffThere
    <2> SUFFICES ASSUME TypeInv, GetInv, pc = "idle", call = "getattr", calm, NoneDead, Up # {}
                 PROVE  err >= 0 <=> \E h \in Asked(path) : At(h, file) # "none"
      <3>1. connections \subseteq Hosts =>
              (Named(path) \cap Up # {} => Named(path) \cap Up = Named(path))
        BY NamedOne
      <3>2. QED
        BY <3>1 DEF FoundIffThere, Asked, Up, TypeInv, TypeOK
    <2>1. err \in Int
      BY DEF TypeInv, TypeOK, Signs
    <2>2. QED
      BY <2>1, GetReturned
  <1>2. QED
    BY <1>1, TypeInit, TypeStep, GetInit, GetStep, PTL DEF Spec

-----------------------------------------------------------------------------
(* agfs_readdir.  A listing of the root is the disambiguation of what the    *)
(* servers that answer have, until something changes.                        *)

\* What the servers of S that are up have.
Real(S) ==
  {e \in [name : Names, kind : {"file", "dir"}, host : Hosts] :
     e.host \in S \cap Up /\ disk[e.host][e.name] = e.kind}

ListInv ==
  /\ call = "readdir" => pc # "look"
  /\ call = "readdir" /\ path = <<>> /\ calm /\ pc # "idle" =>
       file = <<>> /\ found = Real(connections \ todo)
  /\ listed # {} \/ (pc = "idle" /\ call = "readdir" /\ path = <<>> /\ calm) =>
       calm /\ listed = disambiguatedFilepathsWithStats(Real(connections))

\* One server's part of the listing.
LEMMA ListingIsReal ==
  ASSUME TypeInv, file = <<>>, NEW h \in connections
  PROVE  Listing(h) = Real({h})
  <1>1. h \in Hosts /\ \A n \in Names : disk[h][n] \in DiskKinds
    BY DEF TypeInv, TypeOK
  <1>2. CASE link[h] # "up"
    BY <1>2 DEF Listing, Real, Up
  <1>3. CASE link[h] = "up"
    <2>1. h \in Up
      BY <1>3 DEF Up
    <2>2. Listing(h) = {Entry(n, disk[h][n], h) : n \in {m \in Names : disk[h][m] # "none"}}
      BY <1>3 DEF Listing
    <2>3. ASSUME NEW e \in Real({h}) PROVE e \in Listing(h)
      <3>1. /\ e.name \in Names /\ e.host = h /\ e.kind = disk[h][e.name]
            /\ e.kind # "none" /\ e = [name |-> e.name, kind |-> e.kind, host |-> e.host]
        BY DEF Real
      <3>2. e = Entry(e.name, disk[h][e.name], h)
        BY <3>1, Zenon DEF Entry
      <3>3. QED
        BY <2>2, <3>1, <3>2
    <2>4. ASSUME NEW e \in Listing(h) PROVE e \in Real({h})
      <3>1. PICK n \in Names : disk[h][n] # "none" /\ e = Entry(n, disk[h][n], h)
        BY <2>2
      <3>2. disk[h][n] \in {"file", "dir"}
        BY <1>1, <3>1 DEF DiskKinds
      <3>3. QED
        BY <1>1, <2>1, <3>1, <3>2 DEF Real, Entry
    <2>5. QED
      BY <2>3, <2>4
  <1>4. QED
    BY <1>2, <1>3

LEMMA ListAsks ==
  ASSUME TypeInv, ListInv, [Next]_vars, NEW h, Ask(h)
  PROVE  ListInv'
  <1>1. /\ UNCHANGED <<call, path, file, calm, listed>> /\ h \in todo
        /\ pc # "idle" /\ pc' # "idle"
        /\ h \in connections /\ (call = "readdir" => pc' # "look")
    BY DEF Ask, First, TypeInv, TypeOK
  <1>2. calm => /\ connections' = connections
                /\ \A S : Real(S)' = Real(S)
    BY <1>1, CalmStep DEF Real
  <1>3. ASSUME call = "readdir", path = <<>>, calm
        PROVE  file' = <<>> /\ found' = Real(connections \ todo')
    <2>1. file = <<>> /\ found = Real(connections \ todo)
      BY <1>1, <1>3 DEF ListInv
    <2>2. At(h, file) = "dir"
      BY <2>1 DEF At
    <2>3. Spoken(h) = {0} /\ Silent(h) = {0}
      BY <1>3, <2>2 DEF Spoken, Silent
    <2>4. found' = found \cup Listing(h) /\ todo' = todo \ {h}
      BY <1>3, <2>3 DEF Ask, Stops
    <2>5. Listing(h) = Real({h})
      BY <1>1, <2>1, ListingIsReal
    <2>6. Real(connections \ (todo \ {h})) = Real(connections \ todo) \cup Real({h})
      BY <1>1 DEF Real
    <2>7. QED
      BY <1>1, <2>1, <2>4, <2>5, <2>6
  <1>4. QED
    BY <1>1, <1>2, <1>3 DEF ListInv

LEMMA ListBegins ==
  ASSUME TypeInv, ListInv, [Next]_vars, NEW p, readdir(p)
  PROVE  ListInv'
  <1>1. /\ call' = "readdir" /\ path' = p /\ calm' /\ listed' = listed /\ pc' = "ask"
        /\ file' = Ambiguate(p).file /\ found' = {} /\ todo' = Consulted(p)
    BY DEF readdir, Begin
  <1>2. connections' = connections /\ \A S : Real(S)' = Real(S)
    BY <1>1, CalmStep DEF Real
  <1>3. ASSUME p = <<>>
        PROVE  file' = <<>> /\ found' = Real(connections \ todo')
    <2>1. Plain(<<>>)
      BY DEF Plain
    <2>2. Ambiguate(<<>>) = [server |-> <<>>, file |-> <<>>]
      BY <2>1, PlainAmbiguate
    <2>3. Named(<<>>) = {}
      BY <2>2, NamedNone
    <2>4. Real({}) = {}
      BY DEF Real
    <2>5. Consulted(<<>>) = connections /\ connections \ connections = {}
      BY <2>3 DEF Consulted
    <2>6. todo' = connections /\ file' = <<>> /\ found' = {}
      BY <1>1, <1>3, <2>2, <2>5
    <2>7. QED
      BY <1>2, <2>4, <2>5, <2>6
  <1>4. QED
    BY <1>1, <1>2, <1>3 DEF ListInv

\* A step that goes on with no listing keeps the last one.
LEMMA ListKept ==
  ASSUME ListInv, [Next]_vars, listed' = listed, calm => calm',
         \/ call' # "readdir"
         \/ pc' = "idle" /\ UNCHANGED <<call, path, calm>> /\ ~ (path = <<>> /\ calm)
         \/ UNCHANGED <<pc, call, path, file, todo, found, calm>>
  PROVE  ListInv'
  <1>1. calm' => connections' = connections /\ \A S : Real(S)' = Real(S)
    BY CalmStep DEF Real
  <1>2. call' = "readdir" => pc' # "look"
    BY DEF ListInv
  <1>3. ASSUME call' = "readdir", path' = <<>>, calm', pc' # "idle"
        PROVE  file' = <<>> /\ found' = Real(connections' \ todo')
    BY <1>1, <1>3 DEF ListInv
  <1>4. ASSUME listed' # {} \/ (pc' = "idle" /\ call' = "readdir" /\ path' = <<>> /\ calm')
        PROVE  calm' /\ listed' = disambiguatedFilepathsWithStats(Real(connections'))
    <2>1. listed # {} \/ (pc = "idle" /\ call = "readdir" /\ path = <<>> /\ calm)
      BY <1>4
    <2>2. calm /\ listed = disambiguatedFilepathsWithStats(Real(connections))
      BY <2>1 DEF ListInv
    <2>3. calm' /\ connections' = connections
      BY <1>1, <2>2
    <2>4. QED
      BY <1>1, <2>2, <2>3
  <1>5. QED
    BY <1>1, <1>2, <1>3, <1>4 DEF ListInv

LEMMA ListStep == TypeInv /\ ListInv /\ [Next]_vars => ListInv'
  <1> SUFFICES ASSUME TypeInv, ListInv, [Next]_vars PROVE ListInv'
    OBVIOUS
  <1>1. ASSUME NEW p, getattr(p) \/ access(p) \/ open(p) PROVE ListInv'
    BY <1>1, ListKept DEF getattr, access, open, Begin
  <1>2. ASSUME NEW fh, transfer("read", fh) \/ transfer("write", fh) PROVE ListInv'
    BY <1>2, ListKept DEF transfer, Begin
  <1>3. ASSUME NEW fh, release(fh) PROVE ListInv'
    BY <1>3, ListKept DEF release, opVars
  <1>4. ASSUME NEW h, Look(h) PROVE ListInv'
    <2>1. call' # "readdir"
      BY <1>4 DEF Look, ListInv
    <2>2. QED
      BY <1>4, <2>1, ListKept DEF Look
  <1>5. CASE Choose
    BY <1>5, ListKept DEF Choose
  <1>6. CASE Return
    <2>1. CASE call = "readdir" /\ path = <<>> /\ calm
      <3>1. /\ found = Real(connections \ todo) /\ todo = {} /\ calm' /\ pc' = "idle"
            /\ listed' = disambiguatedFilepathsWithStats(found)
        BY <1>6, <2>1 DEF Return, ListInv
      <3>2. connections' = connections /\ \A S : Real(S)' = Real(S)
        BY <3>1, CalmStep DEF Real
      <3>3. connections \ todo = connections
        BY <3>1
      <3>4. QED
        BY <3>1, <3>2, <3>3 DEF ListInv
    <2>2. CASE ~ (call = "readdir" /\ path = <<>> /\ calm)
      BY <1>6, <2>2, ListKept DEF Return
    <2>3. QED
      BY <2>1, <2>2
  <1>7. CASE ChangeDisk \/ ChangeLink
    BY <1>7 DEF ChangeDisk, ChangeLink, Disturb, opVars, ListInv
  <1>8. CASE UNCHANGED vars
    BY <1>8, ListKept DEF vars, opVars
  <1>9. QED
    BY <1>1, <1>2, <1>3, <1>4, <1>5, <1>6, <1>7, <1>8, ListAsks, ListBegins
    DEF Next, Handler

LEMMA ListInit == Init => ListInv
  BY DEF Init, ListInv

\* Where an entry of the listing comes from.
Origin(x, e) ==
  LET R == Real(connections)
  IN \/ x.kind = "dir" /\ e = x
     \/ x.kind = "file" /\ Alone(R, x) /\ e = x
     \/ x.kind = "file" /\ ~ Alone(R, x) /\ e = [x EXCEPT !.name = Suffixed(x.name, x.host)]

LEMMA ListedOrigin ==
  ASSUME ListInv, NEW e \in listed
  PROVE  calm /\ \E x \in Real(connections) : Origin(x, e)
  <1> DEFINE R == Real(connections)
  <1>1. calm /\ e \in disambiguatedFilepathsWithStats(R)
    BY DEF ListInv
  <1> HIDE DEF R
  <1>2. CASE e \in DirEntries(R)
    <2>1. e \in R /\ e.kind = "dir"
      BY <1>2 DEF DirEntries
    <2>2. QED
      BY <1>1, <2>1 DEF Origin, R
  <1>3. CASE e \in FileEntries(R)
    <2>1. PICK x \in R : /\ x.kind = "file"
                         /\ e = IF Alone(R, x) THEN x
                               ELSE [x EXCEPT !.name = Suffixed(x.name, x.host)]
      BY <1>3 DEF FileEntries
    <2>2. QED
      BY <1>1, <2>1 DEF Origin, R
  <1>4. QED
    BY <1>1, <1>2, <1>3 DEF disambiguatedFilepathsWithStats

\* What an entry of Real says.
LEMMA RealFacts ==
  ASSUME NEW x \in Real(connections)
  PROVE  /\ x.name \in Names /\ x.name # <<>> /\ x.host \in connections \cap Up
         /\ x.host \in Hosts /\ x.kind \in {"file", "dir"}
         /\ At(x.host, x.name) = x.kind
         /\ x = [name |-> x.name, kind |-> x.kind, host |-> x.host]
         /\ Ambiguate(x.name) = [server |-> <<>>, file |-> x.name]
         /\ Ambiguate(Suffixed(x.name, x.host)) =
              [server |-> <<Word[x.host]>>, file |-> x.name]
  <1>1. /\ x.name \in Names /\ x.host \in connections \cap Up
        /\ x.host \in Hosts /\ x.kind \in {"file", "dir"}
        /\ disk[x.host][x.name] = x.kind
        /\ x = [name |-> x.name, kind |-> x.kind, host |-> x.host]
    BY DEF Real
  <1>2. x.name # <<>> /\ x.name \in Seq(Words) /\ Plain(x.name)
    BY <1>1, NamesAssumption, NameFacts
  <1>3. QED
    BY <1>1, <1>2, PlainAmbiguate, SuffixedAmbiguate DEF At

\* No server has anything under a name with a suffix, so none of them clashes.
LEMMA SuffixedNoClash ==
  ASSUME NEW n \in Names, NEW h \in Hosts
  PROVE  ~ Clash(Suffixed(n, h))
  <1> DEFINE p == Suffixed(n, h)
  <1>1. Ambiguate(p).server = <<Word[h]>> /\ <<Word[h]>> # <<>>
    BY NameFacts, SuffixedAmbiguate
  <1>2. \A m \in {<<>>} \cup Names : Ambiguate(m).server = <<>>
    BY NameFacts, PlainAmbiguate
  <1>3. p # <<>> /\ p \notin Names
    BY <1>1, <1>2
  <1>4. QED
    BY <1>3 DEF Clash, At

\* A name that a file has on a server that is up is an entry of Real.
LEMMA RealThere ==
  ASSUME TypeInv, NEW h \in Up, NEW n \in Names, At(h, n) \in {"file", "dir"}
  PROVE  [name |-> n, kind |-> At(h, n), host |-> h] \in Real(connections)
  <1>1. n # <<>> /\ h \in connections /\ h \in Hosts
    BY NamesAssumption DEF Up, TypeInv, TypeOK
  <1>2. disk[h][n] = At(h, n)
    BY <1>1 DEF At
  <1>3. QED
    BY <1>1, <1>2 DEF Real

\* What agfs_readdir lists agfs_getattr finds, on the server it was listed for, or
\* on the first that has the name where a file and a directory clash.
THEOREM ListedFound == Spec => []ListedIsFound
  <1>1. ASSUME TypeInv, GetInv, ListInv PROVE ListedIsFound
    <2>1. SUFFICES ASSUME pc = "idle", call = "getattr", NoneDead,
                          NEW e \in listed, e.name = path
                   PROVE  /\ err >= 0
                          /\ IF Clash(path)
                             THEN \E h \in connections : /\ FirstWith(h, path) /\ from = {h}
                                                        /\ kind = At(h, path)
                             ELSE kind = e.kind /\ (e.kind = "file" => from = {e.host})
      BY DEF ListedIsFound
    <2>2. calm /\ \E x \in Real(connections) : Origin(x, e)
      BY <1>1, ListedOrigin
    <2>3. PICK x \in Real(connections) : Origin(x, e)
      BY <2>2
    <2>4. /\ x.name \in Names /\ x.name # <<>> /\ x.host \in connections \cap Up
          /\ x.host \in Hosts /\ x.kind \in {"file", "dir"}
          /\ At(x.host, x.name) = x.kind
          /\ x = [name |-> x.name, kind |-> x.kind, host |-> x.host]
          /\ Ambiguate(x.name) = [server |-> <<>>, file |-> x.name]
          /\ Ambiguate(Suffixed(x.name, x.host)) =
               [server |-> <<Word[x.host]>>, file |-> x.name]
      BY RealFacts
    <2>5. file = Ambiguate(path).file
      BY <1>1, <2>1 DEF GetInv
    <2>6. \/ err < 0 /\ \A h \in Asked(path) : At(h, file) = "none"
          \/ /\ err >= 0
             /\ \E h \in Asked(path) :
                  /\ from = {h} /\ kind = At(h, file) /\ kind # "none"
                  /\ \A g \in Asked(path) : At(g, file) # "none" => h <= g
      BY <1>1, <2>1, <2>2, <2>4, GetReturned
    <2>7. CASE e = x /\ (x.kind = "file" => Alone(Real(connections), x))
      <3>1. path = x.name /\ file = x.name
        BY <2>1, <2>4, <2>5, <2>7
      <3>2. Named(path) = {}
        BY <2>4, <3>1, NamedNone
      <3>3. Asked(path) = Up
        BY <3>2 DEF Asked
      <3>4. PICK h \in Up : /\ err >= 0 /\ from = {h} /\ kind = At(h, file) /\ kind # "none"
                            /\ \A g \in Up : At(g, file) # "none" => h <= g
        BY <2>4, <2>6, <3>1, <3>3
      <3>5. At(h, file) \in {"file", "dir"}
        <4>1. h \in Hosts /\ disk[h][x.name] \in DiskKinds
          BY <1>1, <2>4, <3>4 DEF Up, TypeInv, TypeOK
        <4>2. At(h, file) = disk[h][x.name]
          BY <2>4, <3>1 DEF At
        <4>3. QED
          BY <3>4, <4>1, <4>2 DEF DiskKinds
      <3>6. ASSUME ~ Clash(path) PROVE kind = x.kind
        <4>1. h \in connections
          BY <3>4 DEF Up
        <4>2. QED
          BY <2>1, <2>4, <3>1, <3>4, <3>5, <3>6, <4>1 DEF Clash
      <3>7. ASSUME ~ Clash(path), x.kind = "file" PROVE h = x.host
        <4>1. Alone(Real(connections), x)
          BY <2>7, <3>7
        <4>2. [name |-> x.name, kind |-> "file", host |-> h] \in Real(connections)
          BY <1>1, <2>4, <3>1, <3>4, <3>6, <3>7, RealThere
        <4>3. QED
          BY <4>1, <4>2 DEF Alone
      <3>8. h \in connections /\ FirstWith(h, path) /\ kind = At(h, path)
        BY <3>1, <3>4 DEF FirstWith, Up
      <3>9. QED
        BY <2>7, <3>4, <3>6, <3>7, <3>8
    <2>8. CASE ~ (e = x /\ (x.kind = "file" => Alone(Real(connections), x)))
      <3>1. x.kind = "file" /\ e = [x EXCEPT !.name = Suffixed(x.name, x.host)]
        BY <2>3, <2>8 DEF Origin
      <3>2. /\ path = Suffixed(x.name, x.host) /\ file = x.name
            /\ e.kind = "file" /\ e.host = x.host
        BY <2>1, <2>4, <2>5, <3>1
      <3>3. x.host \in Named(path)
        BY <2>4, <3>2 DEF Named
      <3>4. \A h \in Asked(path) : h = x.host
        <4>1. connections \subseteq Hosts
          BY <1>1 DEF TypeInv, TypeOK
        <4>2. QED
          BY <2>4, <3>3, <4>1, NamedOne DEF Asked
      <3>5. x.host \in Asked(path)
        BY <2>4, <3>3 DEF Asked
      <3>6. ~ Clash(path)
        BY <2>4, <3>2, SuffixedNoClash
      <3>7. QED
        BY <2>4, <2>6, <3>1, <3>2, <3>4, <3>5, <3>6
    <2>9. QED
      BY <2>7, <2>8
  <1>2. QED
    BY <1>1, TypeInit, TypeStep, GetInit, GetStep, ListInit, ListStep, PTL DEF Spec

\* agfs_readdir lists every file of every server that answers, once, no two files
\* under one name, and nothing that its server has not.
THEOREM ListingExact == Spec => []ListingIsExact
  <1>1. ASSUME TypeInv, ListInv, NEW e \in listed
        PROVE  link[e.host] = "up" /\ At(e.host, Ambiguate(e.name).file) = e.kind
    <2>1. PICK x \in Real(connections) : Origin(x, e)
      BY <1>1, ListedOrigin
    <2>2. /\ x.host \in Up /\ At(x.host, x.name) = x.kind
          /\ x = [name |-> x.name, kind |-> x.kind, host |-> x.host]
          /\ Ambiguate(x.name) = [server |-> <<>>, file |-> x.name]
          /\ Ambiguate(Suffixed(x.name, x.host)) =
               [server |-> <<Word[x.host]>>, file |-> x.name]
      BY RealFacts
    <2>3. e.host = x.host /\ e.kind = x.kind /\ Ambiguate(e.name).file = x.name
      BY <2>1, <2>2 DEF Origin
    <2>4. QED
      BY <2>2, <2>3 DEF Up
  <1>2. ASSUME TypeInv, ListInv PROVE ListingIsExact
    <2>1. SUFFICES ASSUME listed # {} \/ (pc = "idle" /\ call = "readdir" /\ path = <<>> /\ calm),
                          NEW h \in connections, NEW n \in Names,
                          link[h] = "up", disk[h][n] = "file"
                   PROVE  \E e \in listed :
                            /\ e.host = h /\ e.kind = "file" /\ Ambiguate(e.name).file = n
                            /\ \A d \in listed : d.name = e.name => d = e \/ d.kind = "dir"
      BY <1>1, <1>2 DEF ListingIsExact
    <2> DEFINE R == Real(connections)
               x == [name |-> n, kind |-> "file", host |-> h]
               e == IF Alone(R, x) THEN x ELSE [x EXCEPT !.name = Suffixed(x.name, x.host)]
    <2>2. x \in R
      <3>1. h \in Up /\ n # <<>>
        BY <2>1, NamesAssumption DEF Up
      <3>2. At(h, n) = "file"
        BY <2>1, <3>1 DEF At
      <3>3. QED
        BY <1>2, <3>1, <3>2, RealThere
    <2>3. e \in listed
      <3>1. e \in FileEntries(R)
        BY <2>2 DEF FileEntries
      <3>2. QED
        BY <1>2, <2>1, <3>1 DEF ListInv, disambiguatedFilepathsWithStats
    <2>4. /\ Ambiguate(n) = [server |-> <<>>, file |-> n]
          /\ Ambiguate(Suffixed(n, h)) = [server |-> <<Word[h]>>, file |-> n]
      BY <2>2, RealFacts
    <2>5. e.host = h /\ e.kind = "file" /\ Ambiguate(e.name).file = n
      BY <2>4
    <2>6. ASSUME NEW d \in listed, d.name = e.name, d.kind # "dir"
          PROVE  d = e
      <3>1. PICK y \in R : Origin(y, d)
        BY <1>2, ListedOrigin
      <3>2. /\ y.host \in Hosts /\ h \in Hosts
            /\ y = [name |-> y.name, kind |-> y.kind, host |-> y.host]
            /\ Ambiguate(y.name) = [server |-> <<>>, file |-> y.name]
            /\ Ambiguate(Suffixed(y.name, y.host)) =
                 [server |-> <<Word[y.host]>>, file |-> y.name]
        BY <1>2, RealFacts DEF TypeInv, TypeOK
      <3>3. y.kind = "file"
        BY <2>6, <3>1 DEF Origin
      <3>4. Ambiguate(d.name) = Ambiguate(e.name)
        BY <2>6
      <3>5. y.name = n
        BY <2>4, <3>1, <3>2, <3>4 DEF Origin
      <3>6. CASE Alone(R, x)
        <4>1. y.host = h
          BY <3>1, <3>3, <3>5, <3>6 DEF Alone
        <4>2. QED
          BY <3>1, <3>2, <3>3, <3>5, <3>6, <4>1 DEF Origin
      <3>7. CASE ~ Alone(R, x)
        <4>1. e = [x EXCEPT !.name = Suffixed(n, h)] /\ e.name = Suffixed(n, h)
          BY <3>7
        <4>2. Ambiguate(d.name).server = <<Word[h]>>
          BY <2>4, <3>4, <4>1
        <4>3. <<Word[h]>> # <<>>
          OBVIOUS
        <4>4. d # y
          BY <3>2, <4>2, <4>3
        <4>5. d = [y EXCEPT !.name = Suffixed(y.name, y.host)]
          BY <3>1, <4>4 DEF Origin
        <4>6. <<Word[y.host]>> = <<Word[h]>>
          BY <3>2, <4>2, <4>5
        <4>7. Word[y.host] = Word[h]
          BY <4>6
        <4>8. y.host = h
          BY <3>2, <4>7, HostAssumption
        <4>9. y = x
          BY <3>2, <3>3, <3>5, <4>8
        <4>10. QED
          BY <4>1, <4>5, <4>9
      <3>8. QED
        BY <3>6, <3>7
    <2>7. QED
      BY <2>3, <2>5, <2>6
  <1>3. QED
    BY <1>2, TypeInit, TypeStep, ListInit, ListStep, PTL DEF Spec

-----------------------------------------------------------------------------
(* agfs_open.  While nothing changes and every server answers,               *)
(* checkExistance collects the servers that have the file, and a path is     *)
(* opened only if that, or the server it names, is one server.               *)

Target(p) ==
  IF Ambiguate(p).server = <<>> THEN {h \in connections : At(h, p) # "none"}
  ELSE Named(p)

Refused ==
  /\ todo = {} /\ err < 0 /\ from = {}
  /\ \A h : Target(path) = {h} => At(h, Ambiguate(path).file) # "file"

Opening ==
  \E h : /\ Target(path) = {h} /\ todo = {h} /\ from = {} /\ err < 0
         /\ file = Ambiguate(path).file

Opened ==
  \E h : Target(path) = {h} /\ todo = {} /\ from = {h} /\ err >= 0

OpenState == Refused \/ Opening \/ Opened

LookupState ==
  file = path /\ from = {h \in connections \ todo : At(h, path) # "none"}

OpenInv ==
  /\ call = "lookup" => pc = "ask" /\ Ambiguate(path).server = <<>>
  /\ call = "lookup" /\ calm /\ AllUp => LookupState
  /\ call = "open" /\ calm /\ AllUp => OpenState

\* What stays as it is when nobody disturbs, for the path of an open.
LEMMA TargetSame ==
  ASSUME [Next]_vars, calm', path' = path
  PROVE  /\ Target(path)' = Target(path) /\ AllUp' = AllUp /\ connections' = connections
         /\ \A h, f : At(h, f)' = At(h, f)
  BY CalmStep DEF Target, Named, At

\* A path names no server, or one.
LEMMA NamedIsOne ==
  ASSUME TypeInv, NEW p, Named(p) # {}
  PROVE  \E h \in connections : Named(p) = {h}
  <1>1. PICK h : h \in Named(p)
    OBVIOUS
  <1>2. connections \subseteq Hosts
    BY DEF TypeInv, TypeOK
  <1>3. \A g \in Named(p) : g = h
    BY <1>1, <1>2, NamedOne
  <1>4. QED
    BY <1>1, <1>3 DEF Named

LEMMA OpenBegins ==
  ASSUME TypeInv, [Next]_vars, NEW p, open(p)
  PROVE  OpenInv'
  <1>1. calm' /\ path' = p /\ err' = -1 /\ from' = {}
    BY DEF open, Begin
  <1>2. connections' = connections /\ Named(p)' = Named(p) /\ \A h, f : At(h, f)' = At(h, f)
    BY <1>1, CalmStep
  <1>3. CASE Ambiguate(p).server = <<>>
    <2>1. call' = "lookup" /\ pc' = "ask" /\ file' = p /\ todo' = connections
      BY <1>3 DEF open, Begin
    <2>2. LookupState'
      BY <1>1, <1>2, <2>1 DEF LookupState
    <2>3. QED
      BY <1>1, <1>3, <2>1, <2>2 DEF OpenInv
  <1>4. CASE Ambiguate(p).server # <<>>
    <2>1. call' = "open" /\ file' = Ambiguate(p).file /\ todo' = Named(p)
      BY <1>4 DEF open, Begin
    <2>2. Target(path)' = Named(p)
      BY <1>1, <1>2, <1>4 DEF Target, Named
    <2>3. CASE Named(p) = {}
      BY <1>1, <2>1, <2>2, <2>3 DEF OpenInv, OpenState, Refused
    <2>4. CASE Named(p) # {}
      <3>1. PICK h \in connections : Named(p) = {h}
        BY <2>4, NamedIsOne
      <3>2. Opening'
        BY <1>1, <2>1, <2>2, <3>1 DEF Opening
      <3>3. QED
        BY <2>1, <3>2 DEF OpenInv, OpenState
    <2>5. QED
      BY <2>3, <2>4
  <1>5. QED
    BY <1>3, <1>4

LEMMA OpenAsks ==
  ASSUME TypeInv, OpenInv, [Next]_vars, NEW h, Ask(h)
  PROVE  OpenInv'
  <1>1. /\ UNCHANGED <<call, path, file, calm>> /\ h \in todo
        /\ h \in connections /\ pc # "idle" /\ (call = "lookup" => pc' = "ask")
    BY DEF Ask, First, TypeInv, TypeOK
  <1>2. calm => /\ Target(path)' = Target(path) /\ AllUp' = AllUp
                /\ connections' = connections
                /\ \A g, f : At(g, f)' = At(g, f)
    BY <1>1, TargetSame
  <1>3. ASSUME calm, AllUp, call \in {"lookup", "open"}
        PROVE  \E e \in Spoken(h) :
                 /\ err'  = e
                 /\ from' = IF e < 0 THEN from ELSE from \cup {h}
                 /\ todo' = todo \ {h}
    BY <1>1, <1>3 DEF Ask, AllUp, Stops
  <1>4. ASSUME calm, AllUp, call = "lookup" PROVE LookupState'
    <2>1. PICK e \in Spoken(h) :
            /\ err'  = e
            /\ from' = IF e < 0 THEN from ELSE from \cup {h}
            /\ todo' = todo \ {h}
      BY <1>3, <1>4
    <2>2. LookupState
      BY <1>4 DEF OpenInv
    <2>3. e < 0 <=> At(h, path) = "none"
      BY <1>4, <2>1, <2>2 DEF Spoken, LookupState
    <2>4. QED
      BY <1>1, <1>2, <1>4, <2>1, <2>2, <2>3 DEF LookupState
  <1>5. ASSUME calm, AllUp, call = "open" PROVE OpenState'
    <2>1. PICK e \in Spoken(h) :
            /\ err'  = e
            /\ from' = IF e < 0 THEN from ELSE from \cup {h}
            /\ todo' = todo \ {h}
      BY <1>3, <1>5
    <2>2. /\ Target(path) = {h} /\ todo = {h} /\ from = {}
          /\ file = Ambiguate(path).file
      BY <1>1, <1>5 DEF OpenInv, OpenState, Refused, Opening, Opened
    <2>3. e = -1 \/ e = 0
      BY <1>5, <2>1 DEF Spoken
    <2>4. e = -1 => At(h, file) # "file"
      BY <1>5, <2>1 DEF Spoken
    <2>5. CASE e = -1
      <3>1. Refused'
        BY <1>1, <1>2, <1>5, <2>1, <2>2, <2>4, <2>5 DEF Refused
      <3>2. QED
        BY <3>1 DEF OpenState
    <2>6. CASE e = 0
      <3>1. Opened'
        BY <1>1, <1>2, <1>5, <2>1, <2>2, <2>6 DEF Opened
      <3>2. QED
        BY <3>1 DEF OpenState
    <2>7. QED
      BY <2>3, <2>5, <2>6
  <1>6. QED
    BY <1>1, <1>2, <1>4, <1>5 DEF OpenInv

LEMMA OpenChooses ==
  ASSUME TypeInv, OpenInv, [Next]_vars, Choose
  PROVE  OpenInv'
  <1>1. /\ call = "lookup" /\ call' = "open" /\ path' = path /\ calm' = calm
        /\ todo = {} /\ err' = -1 /\ from' = {}
    BY DEF Choose
  <1>2. SUFFICES ASSUME calm, AllUp PROVE OpenState'
    <2>1. calm => AllUp' = AllUp
      BY <1>1, TargetSame
    <2>2. QED
      BY <1>1, <1>2, <2>1 DEF OpenInv
  <1>3. /\ Target(path)' = Target(path)
        /\ \A g, f : At(g, f)' = At(g, f)
    BY <1>1, <1>2, TargetSame
  <1>4. from = Target(path)
    BY <1>1, <1>2 DEF OpenInv, LookupState, Target
  <1>5. CASE \E h \in from : from = {h} /\ todo' = {h} /\ file' = Ambiguate(path).file
    <2>1. Opening'
      BY <1>1, <1>3, <1>4, <1>5 DEF Opening
    <2>2. QED
      BY <2>1 DEF OpenState
  <1>6. CASE (\A h \in from : from # {h}) /\ todo' = todo
    <2>1. \A h : Target(path)' # {h}
      BY <1>3, <1>4, <1>6
    <2>2. Refused'
      BY <1>1, <1>6, <2>1 DEF Refused
    <2>3. QED
      BY <2>2 DEF OpenState
  <1>7. QED
    BY <1>5, <1>6 DEF Choose

\* Other steps leave an open, or a file that has been opened, as it is.
LEMMA OpenKept ==
  ASSUME OpenInv, [Next]_vars, UNCHANGED <<call, path, file, todo, err, from, calm>>,
         call = "lookup" => pc' = pc
  PROVE  OpenInv'
  <1>1. calm => /\ Target(path)' = Target(path) /\ AllUp' = AllUp
                /\ connections' = connections
                /\ \A g, f : At(g, f)' = At(g, f)
    BY TargetSame
  <1>2. calm /\ LookupState => LookupState'
    BY <1>1 DEF LookupState
  <1>3. calm /\ OpenState => OpenState'
    BY <1>1 DEF OpenState, Refused, Opening, Opened
  <1>4. QED
    BY <1>1, <1>2, <1>3 DEF OpenInv

LEMMA OpenStep == TypeInv /\ OpenInv /\ [Next]_vars => OpenInv'
  <1> SUFFICES ASSUME TypeInv, OpenInv, [Next]_vars PROVE OpenInv'
    OBVIOUS
  <1>1. ASSUME NEW p, getattr(p) \/ access(p) \/ readdir(p) PROVE OpenInv'
    BY <1>1 DEF getattr, access, readdir, Begin, OpenInv
  <1>2. ASSUME NEW fh, transfer("read", fh) \/ transfer("write", fh) PROVE OpenInv'
    BY <1>2 DEF transfer, Begin, OpenInv
  <1>3. ASSUME NEW fh, release(fh) PROVE OpenInv'
    BY <1>3, OpenKept DEF release, opVars
  <1>4. ASSUME NEW h, Look(h) PROVE OpenInv'
    <2>1. /\ UNCHANGED <<call, path, file, err, from, calm>> /\ call # "lookup"
          /\ h \in todo /\ h \in connections
      BY <1>4 DEF Look, OpenInv, First, TypeInv, TypeOK
    <2>2. CASE todo' = todo
      BY <2>1, <2>2, OpenKept
    <2>3. CASE link[h] = "down"
      <3>1. ~ AllUp
        BY <2>1, <2>3 DEF AllUp
      <3>2. calm => ~ AllUp'
        BY <2>1, <3>1, TargetSame
      <3>3. QED
        BY <2>1, <3>2 DEF OpenInv
    <2>4. QED
      BY <1>4, <2>2, <2>3 DEF Look
  <1>5. CASE Return
    BY <1>5, OpenKept DEF Return
  <1>6. CASE ChangeDisk \/ ChangeLink
    BY <1>6 DEF ChangeDisk, ChangeLink, Disturb, opVars, OpenInv
  <1>7. CASE UNCHANGED vars
    BY <1>7, OpenKept DEF vars, opVars
  <1>8. QED
    BY <1>1, <1>2, <1>3, <1>4, <1>5, <1>6, <1>7, OpenBegins, OpenAsks, OpenChooses
    DEF Next, Handler

LEMMA OpenInit == Init => OpenInv
  BY DEF Init, OpenInv

\* agfs_open refuses a plain path that several servers have, and opens the file
\* on the one server that has it.
THEOREM OpensOnlyOne == Spec => []OpensTheOnlyOne
  <1>1. ASSUME TypeInv, GetInv, OpenInv PROVE OpensTheOnlyOne
    <2>1. SUFFICES ASSUME pc = "idle", call = "open", err >= 0, calm, AllUp, Named(path) = {}
                   PROVE  from = {h \in connections : At(h, path) # "none"}
      BY DEF OpensTheOnlyOne
    <2>2. err \in Int /\ todo = {}
      BY <1>1, <2>1 DEF TypeInv, TypeOK, Signs, GetInv
    <2>3. Opened
      BY <1>1, <2>1, <2>2 DEF OpenInv, OpenState, Refused, Opening
    <2>4. PICK h : Target(path) = {h} /\ from = {h}
      BY <2>3 DEF Opened
    <2>5. Target(path) = {g \in connections : At(g, path) # "none"}
      BY <2>1, <2>4 DEF Target
    <2>6. QED
      BY <2>4, <2>5
  <1>2. QED
    BY <1>1, TypeInit, TypeStep, GetInit, GetStep, OpenInit, OpenStep, PTL DEF Spec

\* A file that agfs_readdir lists agfs_open opens, on the server it was listed for,
\* unless its name clashes with a directory: then it opens nothing.
THEOREM ListedOpen == Spec => []ListedOpens
  <1>1. ASSUME TypeInv, GetInv, ListInv, OpenInv PROVE ListedOpens
    <2>1. SUFFICES ASSUME pc = "idle", call = "open", AllUp,
                          NEW e \in listed, e.name = path, e.kind = "file"
                   PROVE  IF Clash(path) THEN err < 0 /\ from = {}
                          ELSE err >= 0 /\ from = {e.host}
      BY DEF ListedOpens
    <2>2. calm /\ \E x \in Real(connections) : Origin(x, e)
      BY <1>1, ListedOrigin
    <2>3. PICK x \in Real(connections) : Origin(x, e)
      BY <2>2
    <2>4. /\ x.name \in Names /\ x.name # <<>> /\ x.host \in connections \cap Up
          /\ x.host \in Hosts /\ x.kind \in {"file", "dir"}
          /\ At(x.host, x.name) = x.kind
          /\ x = [name |-> x.name, kind |-> x.kind, host |-> x.host]
          /\ Ambiguate(x.name) = [server |-> <<>>, file |-> x.name]
          /\ Ambiguate(Suffixed(x.name, x.host)) =
               [server |-> <<Word[x.host]>>, file |-> x.name]
      BY RealFacts
    <2>5. x.kind = "file" /\ e.host = x.host
      BY <2>1, <2>3, <2>4 DEF Origin
    <2>6. ~ Opening /\ OpenState
      BY <1>1, <2>1, <2>2 DEF GetInv, Opening, OpenInv
    <2>7. ASSUME ~ Clash(path), Target(path) = {x.host}, Ambiguate(path).file = x.name
          PROVE  err >= 0 /\ from = {x.host}
      <3>1. ~ Refused
        BY <2>4, <2>5, <2>7 DEF Refused
      <3>2. QED
        BY <2>6, <2>7, <3>1 DEF OpenState, Opened
    <2>8. CASE e = x /\ Alone(Real(connections), x)
      <3>1. path = x.name
        BY <2>1, <2>8
      <3>2. Target(path) = {h \in connections : At(h, x.name) # "none"}
        BY <2>4, <3>1 DEF Target
      <3>3. CASE Clash(path)
        <4>1. PICK g \in connections, h \in connections :
                At(g, path) = "file" /\ At(h, path) = "dir"
          BY <3>3 DEF Clash
        <4>2. g # h /\ {g, h} \subseteq Target(path)
          BY <3>1, <3>2, <4>1
        <4>3. ~ Opened
          BY <4>2 DEF Opened
        <4>4. QED
          BY <2>6, <3>3, <4>3 DEF OpenState, Refused
      <3>4. ASSUME ~ Clash(path), NEW h \in connections, At(h, x.name) # "none"
            PROVE  h = x.host
        <4>1. h \in Up /\ h \in Hosts
          BY <1>1, <2>1 DEF AllUp, Up, TypeInv, TypeOK
        <4>2. At(h, x.name) = disk[h][x.name] /\ disk[h][x.name] \in DiskKinds
          BY <1>1, <2>4, <4>1 DEF At, TypeInv, TypeOK
        <4>3. At(h, x.name) = "file"
          BY <2>4, <2>5, <3>1, <3>4, <4>2 DEF Clash, DiskKinds
        <4>4. [name |-> x.name, kind |-> "file", host |-> h] \in Real(connections)
          BY <1>1, <2>4, <4>1, <4>3, RealThere
        <4>5. QED
          BY <2>8, <4>4 DEF Alone
      <3>5. CASE ~ Clash(path)
        <4>1. Target(path) = {x.host}
          BY <2>4, <2>5, <3>2, <3>4, <3>5
        <4>2. QED
          BY <2>4, <2>5, <2>7, <3>1, <3>5, <4>1
      <3>6. QED
        BY <3>3, <3>5
    <2>9. CASE ~ (e = x /\ Alone(Real(connections), x))
      <3>1. path = Suffixed(x.name, x.host)
        BY <2>1, <2>3, <2>4, <2>5, <2>9 DEF Origin
      <3>2. x.host \in Named(path)
        BY <2>4, <3>1 DEF Named
      <3>3. Named(path) = {x.host}
        BY <1>1, <3>2, NamedIsOne
      <3>4. Ambiguate(path).server # <<>>
        BY <3>2, NamedNone
      <3>5. ~ Clash(path) /\ Target(path) = {x.host} /\ Ambiguate(path).file = x.name
        BY <2>4, <3>1, <3>3, <3>4, SuffixedNoClash DEF Target
      <3>6. QED
        BY <2>5, <2>7, <3>5
    <2>10. QED
      BY <2>8, <2>9
  <1>2. QED
    BY <1>1, TypeInit, TypeStep, GetInit, GetStep, ListInit, ListStep, OpenInit, OpenStep,
       PTL DEF Spec
=============================================================================
