--------------------------- MODULE FileSyncProofs ---------------------------
(***************************************************************************)
(* Theorems about adb push and sync, and the types of FileSync, for any    *)
(* set of files and directories, any sources and any capacity of the       *)
(* stream.                                                                 *)
(***************************************************************************)
EXTENDS FileSync, FiniteSetTheorems, SequenceTheorems, TLAPS

-----------------------------------------------------------------------------
(* FileSync: messages and channels *)

\* The messages of a command c: those about a file name one, and a pull asks
\* about sources only.
FsMessages(c) ==
  {m \in Message : /\ m.id \in {"SEND", "RECV", "LSTAT", "DATA", "DENT"} => m.f \in Files
                   /\ m.id = "LIST" => m.f \in Files \cup Dirs
                   /\ m.id \in {"STAT", "ATTR"} /\ c = "pull" => m.f \in Files \cup Dirs}

FsChannels ==
  /\ net \in [Side -> Seq(FsMessages(cmd))] /\ \A x \in Side : Len(net[x]) <= Capacity
  /\ out \in [Side -> Seq(FsMessages(cmd))]

\* The client is in the middle of a file only if it has one; a local copy that
\* is written exists.
FsClient ==
  /\ cpc \in {"large", "poll", "copydone", "creat", "recvdata"} => files # <<>>
  /\ cpc = "lnstat" => asked # <<>>
  /\ cpc = "srcstat" => cmd = "pull"
  /\ cpc = "start" => cmd = "push"
  /\ cpc = "recvdata" => local[Head(files)] \in Seq(Files)

\* So is the service.
FsService ==
  /\ spc \in {"file", "link", "drain", "abort"} => cur \in Files
  /\ spc = "file" => remote[cur] \in Seq(Files)

FsCommand == cmd \in {"push", "sync", "pull", "ls"} /\ check \in BOOLEAN /\ wanted \subseteq Files

FsClientTypes ==
  /\ cpc \in {"start", "dst", "next", "lstats", "send", "large", "poll", "copydone", "srcstat",
              "ls", "links", "lnstat", "recv", "creat", "recvdata", "quit", "shutdown",
              "done", "dead", "killed"}
  /\ srcs \in Seq(Files \cup Dirs) /\ files \in Seq(Files) /\ asked \in Seq(Files)
  /\ left \in Nat /\ ok \in BOOLEAN
  /\ local \in [Files -> Seq(Files) \cup {Absent}]
  /\ copied \subseteq Files /\ reported \subseteq Files

FsServiceTypes ==
  /\ remote \in [Files -> Seq(Files) \cup {Absent}]
  /\ spc \in {"idle", "file", "drain", "abort", "link", "linkdone", "read", "list",
              "closing", "closed"}
  /\ cur \in Path /\ rest \in Seq(Files) /\ failed \subseteq Files

FsShared == eof \in [Side -> BOOLEAN] /\ cut \in BOOLEAN /\ trouble \in BOOLEAN

FsInv ==
  /\ FsCommand /\ FsShared /\ FsChannels
  /\ FsClientTypes /\ FsClient
  /\ FsServiceTypes /\ FsService

LEMMA FsSides == "client" \in Side /\ "service" \in Side
BY DEF Side

\* What is left on the device of another version is behind what was pushed only
\* if it could not be unlinked.
FsRemains ==
  /\ old \in [Files -> Seq(Files)] /\ stuck \subseteq Files /\ unlisted \subseteq Files
  /\ \A f \in Files \ stuck : remote[f] # Absent => old[f] = <<>>

LEMMA FsInvTyped == FsInv /\ FsRemains => FileSyncTypeOK
<1> SUFFICES ASSUME FsInv, FsRemains PROVE FileSyncTypeOK
  OBVIOUS
<1>1. FsMessages(cmd) \subseteq Message
  BY DEF FsMessages
<1>2. net \in [Side -> Seq(Message)] /\ out \in [Side -> Seq(Message)]
  <2>1. \A s \in Seq(FsMessages(cmd)) : s \in Seq(Message)
    BY <1>1
  <2> QED BY <2>1 DEF FsInv, FsChannels
<1>3. \A x \in Side : Len(net[x]) <= Capacity
  BY DEF FsInv, FsChannels
<1> QED BY <1>2, <1>3 DEF FsInv, FsCommand, FsShared, FsClientTypes, FsServiceTypes, FsRemains, FileSyncTypeOK

\* Messages that are made
LEMMA FsMade ==
  ASSUME NEW c
  PROVE  /\ \A f \in Files, id \in {"SEND", "RECV", "LSTAT", "DATA", "DENT"} : Msg(id, f) \in FsMessages(c)
         /\ \A f \in Files \cup Dirs, id \in {"LIST", "STAT"} : Msg(id, f) \in FsMessages(c)
         /\ \A f \in Path, id \in {"DONE", "OKAY", "FAIL", "QUIT"} : Msg(id, f) \in FsMessages(c)
         /\ c # "pull" => Msg("STAT", Dst) \in FsMessages(c)
         /\ \A f \in Path, r \in {"same", "other", "none", "error"} :
              (c = "pull" => f \in Files \cup Dirs) => [Msg("ATTR", f) EXCEPT !.res = r] \in FsMessages(c)
         /\ \A m \in FsMessages(c) : [m EXCEPT !.half = TRUE] \in FsMessages(c)
<1> USE DEF FsMessages, Message, Msg, Path, Request
<1>1. \A f \in Files, id \in {"SEND", "RECV", "LSTAT", "DATA", "DENT"} : Msg(id, f) \in FsMessages(c)
  OBVIOUS
<1>2. \A f \in Files \cup Dirs, id \in {"LIST", "STAT"} : Msg(id, f) \in FsMessages(c)
  OBVIOUS
<1>3. \A f \in Path, id \in {"DONE", "OKAY", "FAIL", "QUIT"} : Msg(id, f) \in FsMessages(c)
  OBVIOUS
<1>4. c # "pull" => Msg("STAT", Dst) \in FsMessages(c)
  OBVIOUS
<1>5. ASSUME NEW f \in Path, NEW r \in {"same", "other", "none", "error"}, c = "pull" => f \in Files \cup Dirs
      PROVE  [Msg("ATTR", f) EXCEPT !.res = r] \in FsMessages(c)
  BY <1>5
<1>6. \A m \in FsMessages(c) : [m EXCEPT !.half = TRUE] \in FsMessages(c)
  OBVIOUS
<1> QED BY <1>1, <1>2, <1>3, <1>4, <1>5, <1>6

LEMMA FsOne == ASSUME NEW c, NEW m \in FsMessages(c) PROVE <<m>> \in Seq(FsMessages(c))
OBVIOUS

\* ReadFdExactly
LEMMA FsConsume ==
  ASSUME FsInv, NEW x \in Side, Gets(x), Consume(x)
  PROVE  /\ net' \in [Side -> Seq(FsMessages(cmd))] /\ \A y \in Side : Len(net'[y]) <= Capacity
         /\ Head(net[x]) \in FsMessages(cmd)
<1>1. net \in [Side -> Seq(FsMessages(cmd))] /\ net[x] \in Seq(FsMessages(cmd)) /\ net[x] # <<>>
      /\ Capacity \in Nat /\ \A y \in Side : Len(net[y]) <= Capacity
  BY FileSyncAssumption DEF FsInv, FsChannels, Gets
<1>2. Tail(net[x]) \in Seq(FsMessages(cmd)) /\ Len(Tail(net[x])) <= Len(net[x])
      /\ Len(Tail(net[x])) \in Nat /\ Len(net[x]) \in Nat /\ Head(net[x]) \in FsMessages(cmd)
  BY <1>1
<1>3. net' = [net EXCEPT ![x] = Tail(net[x])]
  BY DEF Consume
<1>4. \A y \in Side : net'[y] = IF y = x THEN Tail(net[x]) ELSE net[y]
  BY <1>1, <1>3
<1>5. net' \in [Side -> Seq(FsMessages(cmd))]
  BY <1>1, <1>2, <1>3
<1>6. Len(Tail(net[x])) <= Capacity
  BY <1>1, <1>2
<1> QED BY <1>1, <1>2, <1>4, <1>5, <1>6

\* WriteFdExactly begins
LEMMA FsSend ==
  ASSUME FsInv, NEW x \in Side, NEW msgs \in Seq(FsMessages(cmd)), Send(x, msgs)
  PROVE  out' \in [Side -> Seq(FsMessages(cmd))]
BY DEF FsInv, FsChannels, Send

\* A prefix of a channel, its last message cut or not
LEMMA FsCuts ==
  ASSUME NEW c, NEW s \in Seq(FsMessages(c)), NEW q \in Cuts(s)
  PROVE  q \in Seq(FsMessages(c)) /\ Len(q) <= Len(s)
<1>1. ASSUME NEW p \in Prefixes(s)
      PROVE  p \in Seq(FsMessages(c)) /\ Len(p) <= Len(s)
  BY <1>1 DEF Prefixes
<1>2. ASSUME NEW p \in Prefixes(s), p # <<>>
      PROVE  [p EXCEPT ![Len(p)].half = TRUE] \in Seq(FsMessages(c))
             /\ Len([p EXCEPT ![Len(p)].half = TRUE]) = Len(p)
  <2>1. p \in Seq(FsMessages(c)) /\ Len(p) \in 1..Len(p)
    BY <1>1, <1>2
  <2>2. p[Len(p)] \in FsMessages(c)
    BY <2>1
  <2>3. PICK e : e = [p[Len(p)] EXCEPT !.half = TRUE]
    OBVIOUS
  <2>4. e \in FsMessages(c)
    BY <2>2, <2>3, FsMade
  <2>5. [p EXCEPT ![Len(p)].half = TRUE] = [p EXCEPT ![Len(p)] = e]
    BY <2>1, <2>3
  <2>6. [p EXCEPT ![Len(p)] = e] \in Seq(FsMessages(c)) /\ Len([p EXCEPT ![Len(p)] = e]) = Len(p)
    BY <2>1, <2>4
  <2> QED BY <2>5, <2>6
<1>3. CASE q \in Prefixes(s)
  BY <1>1, <1>3
<1>4. CASE q \notin Prefixes(s)
  <2>1. PICK p \in Prefixes(s) : p # <<>> /\ q = [p EXCEPT ![Len(p)].half = TRUE]
    BY <1>4 DEF Cuts
  <2> QED BY <1>1, <1>2, <2>1
<1> QED BY <1>3, <1>4

LEMMA FsPrefix ==
  ASSUME NEW c, NEW s \in Seq(FsMessages(c)), NEW q \in Prefixes(s)
  PROVE  q \in Seq(FsMessages(c)) /\ Len(q) <= Len(s)
BY DEF Prefixes

LEMMA FsFilesOf == \A p \in Files \cup Dirs : FilesOf(p) \in Seq(Files)
BY FileSyncAssumption DEF FilesOf

\* local_build_list lists files of the directory, each position at most once.
LEMMA FsListings ==
  ASSUME NEW p \in Files \cup Dirs, NEW list \in Listings(p)
  PROVE  /\ list \in Seq(Files)
         /\ \E e \in [1..Len(list) -> 1..Len(FilesOf(p))] :
              /\ \A i, j \in 1..Len(list) : i < j => e[i] < e[j]
              /\ \A n \in 1..Len(list) : list[n] = FilesOf(p)[e[n]]
<1>1. CASE p \in Files
  <2>1. list = <<p>> /\ FilesOf(p) = <<p>>
    BY <1>1 DEF Listings, FilesOf
  <2>2. list \in Seq(Files) /\ Len(list) = 1 /\ list[1] = p
    BY <1>1, <2>1
  <2>3. PICK e : e = [n \in 1..1 |-> 1]
    OBVIOUS
  <2>4. e \in [1..1 -> 1..1] /\ e[1] = 1 /\ Len(FilesOf(p)) = 1
    BY <2>1, <2>3
  <2>5. \A i \in 1..Len(list) : i = 1
    BY <2>2
  <2>6. /\ e \in [1..Len(list) -> 1..Len(FilesOf(p))]
        /\ \A i, j \in 1..Len(list) : i < j => e[i] < e[j]
        /\ \A n \in 1..Len(list) : list[n] = FilesOf(p)[e[n]]
    BY <2>1, <2>2, <2>4, <2>5
  <2> QED BY <2>2, <2>6
<1>2. CASE p \notin Files
  <2>1. FilesOf(p) = DirFiles[p] /\ DirFiles[p] \in Seq(Files)
    BY <1>2, FileSyncAssumption DEF FilesOf
  <2>2. PICK e \in Picks(DirFiles[p]) : list = [n \in DOMAIN e |-> DirFiles[p][e[n]]]
    BY <1>2 DEF Listings
  <2>3. PICK k \in 0..Len(DirFiles[p]) : e \in [1..k -> 1..Len(DirFiles[p])]
    BY <2>2 DEF Picks
  <2>4. DOMAIN e = 1..k /\ k \in Nat /\ \A i, j \in 1..k : i < j => e[i] < e[j]
    <3>1. DOMAIN e = 1..k /\ k \in Nat
      BY <2>1, <2>3
    <3>2. \A i, j \in DOMAIN e : i < j => e[i] < e[j]
      BY <2>2 DEF Picks
    <3> QED BY <3>1, <3>2
  <2>5. \A n \in 1..k : DirFiles[p][e[n]] \in Files
    BY <2>1, <2>3
  <2>6. list \in Seq(Files) /\ Len(list) = k
    BY <2>2, <2>4, <2>5
  <2>7. \A n \in 1..k : list[n] = DirFiles[p][e[n]]
    BY <2>2, <2>4
  <2> QED BY <2>1, <2>3, <2>4, <2>6, <2>7
<1> QED BY <1>1, <1>2

LEMMA FsCompletes == \A f \in Files : Complete(f) \in Seq(Files)
<1> SUFFICES ASSUME NEW f \in Files PROVE Complete(f) \in Seq(Files)
  OBVIOUS
<1>1. Chunks[f] \in Nat
  BY FileSyncAssumption
<1> QED BY <1>1 DEF Complete

\* Init
LEMMA FsInvInit == FileSyncInit => FsInv
<1> SUFFICES ASSUME FileSyncInit PROVE FsInv
  OBVIOUS
<1>1. <<>> \in Seq(FsMessages(cmd)) /\ Len(<<>>) <= Capacity /\ <<>> \in Seq(Files)
  BY FileSyncAssumption
<1>2. FsChannels
  <2>1. net = [x \in Side |-> <<>>] /\ out = [x \in Side |-> <<>>]
    BY DEF FileSyncInit
  <2>2. net \in [Side -> Seq(FsMessages(cmd))] /\ out \in [Side -> Seq(FsMessages(cmd))]
    BY <1>1, <2>1
  <2>3. \A x \in Side : net[x] = <<>>
    BY <2>1
  <2> QED BY <1>1, <2>2, <2>3 DEF FsChannels
<1>3. srcs \in Seq(Files \cup Dirs)
  BY FileSyncAssumption DEF FileSyncInit
<1>4. wanted \subseteq Files
  <2>1. ASSUME NEW n \in 1..Len(srcs) PROVE ToSet(FilesOf(srcs[n])) \subseteq Files
    <3>1. srcs[n] \in Files \cup Dirs
      BY <1>3, <2>1
    <3>2. FilesOf(srcs[n]) \in Seq(Files)
      BY <3>1, FsFilesOf
    <3> QED BY <3>2 DEF ToSet
  <2> QED BY <2>1 DEF FileSyncInit
<1>5. \A f \in Files : Complete(f) \in Seq(Files)
  BY FsCompletes
<1>6. remote \in [Files -> Seq(Files) \cup {Absent}] /\ local \in [Files -> Seq(Files) \cup {Absent}]
  BY <1>5 DEF FileSyncInit
<1>7. FsCommand /\ FsShared /\ FsClientTypes /\ FsServiceTypes
  <2>1. FsCommand
    BY <1>4 DEF FsCommand, FileSyncInit
  <2>2. FsShared
    BY DEF FsShared, FileSyncInit
  <2>3. FsClientTypes
    BY <1>1, <1>3, <1>6 DEF FsClientTypes, FileSyncInit
  <2>4. FsServiceTypes
    BY <1>1, <1>6 DEF FsServiceTypes, FileSyncInit, Path
  <2> QED BY <2>1, <2>2, <2>3, <2>4
<1>8. FsClient /\ FsService
  BY DEF FsClient, FsService, FileSyncInit
<1> QED BY <1>2, <1>7, <1>8 DEF FsInv

\* A step of the client that leaves the service alone keeps the invariant if
\* it keeps the client's part of it and the channels.
LEMMA FsClientStep ==
  ASSUME FsInv, UNCHANGED command, UNCHANGED service, UNCHANGED failed,
         FsShared', FsChannels', FsClientTypes', FsClient'
  PROVE  FsInv'
<1>1. FsCommand'
  BY DEF FsInv, FsCommand, command
<1>2. FsServiceTypes' /\ FsService'
  BY DEF FsInv, FsServiceTypes, FsService, service
<1> QED BY <1>1, <1>2 DEF FsInv

LEMMA FsServiceStep ==
  ASSUME FsInv, UNCHANGED command, UNCHANGED client, UNCHANGED <<copied, reported>>,
         FsShared', FsChannels', FsServiceTypes', FsService'
  PROVE  FsInv'
<1>1. FsCommand'
  BY DEF FsInv, FsCommand, command
<1>2. FsClientTypes' /\ FsClient'
  BY DEF FsInv, FsClientTypes, FsClient, client, command
<1> QED BY <1>1, <1>2 DEF FsInv

LEMMA FsQuietStep ==
  ASSUME FsInv, UNCHANGED <<command, client, service, eof, cut, history>>, FsChannels'
  PROVE  FsInv'
<1>1. FsShared'
  BY DEF FsInv, FsShared, history
<1>2. FsServiceTypes' /\ FsService'
  BY DEF FsInv, FsServiceTypes, FsService, service, history
<1> QED BY <1>1, <1>2, FsServiceStep DEF history

LEMMA FsChannelStep ==
  ASSUME UNCHANGED command, net' \in [Side -> Seq(FsMessages(cmd))], \A y \in Side : Len(net'[y]) <= Capacity,
         out' \in [Side -> Seq(FsMessages(cmd))]
  PROVE  FsChannels'
BY DEF FsChannels, command

\* A step without a read or without a write
LEMMA FsNoRead ==
  ASSUME FsInv, UNCHANGED net
  PROVE  net' \in [Side -> Seq(FsMessages(cmd))] /\ \A y \in Side : Len(net'[y]) <= Capacity
BY DEF FsInv, FsChannels

LEMMA FsNoWrite ==
  ASSUME FsInv, UNCHANGED out
  PROVE  out' \in [Side -> Seq(FsMessages(cmd))]
BY DEF FsInv, FsChannels

LEMMA FsSendOne ==
  ASSUME FsInv, NEW x \in Side, NEW m \in FsMessages(cmd), Send(x, <<m>>)
  PROVE  out' \in [Side -> Seq(FsMessages(cmd))]
<1>1. <<m>> \in Seq(FsMessages(cmd))
  OBVIOUS
<1> QED BY <1>1, FsSend

-----------------------------------------------------------------------------
(* FileSync: the steps of the client *)

LEMMA FsStart == FsInv /\ Start => FsInv'
<1> SUFFICES ASSUME FsInv, Start PROVE FsInv'
  OBVIOUS
<1>1. FsChannels'
  <2>1. Msg("STAT", Dst) \in FsMessages(cmd)
    BY FsMade DEF Start, ClientIdle, FsInv, FsClient
  <2>2. out' \in [Side -> Seq(FsMessages(cmd))]
    BY <2>1, FsSides, FsSendOne DEF Start
  <2> QED BY <2>2, FsNoRead, FsChannelStep DEF Start
<1>2. FsShared'
  BY DEF FsInv, FsShared, Start, history
<1>3. FsClientTypes'
  BY DEF FsInv, FsClientTypes, Start, history
<1>4. FsClient'
  BY DEF FsInv, FsClient, Start, command
<1> QED BY <1>1, <1>2, <1>3, <1>4, FsClientStep DEF Start, history

LEMMA FsDstStat == FsInv /\ DstStat => FsInv'
<1> SUFFICES ASSUME FsInv, DstStat PROVE FsInv'
  OBVIOUS
<1>1. FsChannels'
  BY FsSides, FsConsume, FsNoWrite, FsChannelStep DEF DstStat
<1>2. PICK b \in BOOLEAN : /\ cpc' = IF b THEN "next" ELSE "quit"
                           /\ ok' = b
                           /\ trouble' = (trouble \/ ~b)
  <2>1. PICK fits \in BOOLEAN :
         LET good == Reply.res # "error" /\ fits IN
         /\ cpc' = IF good THEN "next" ELSE "quit"
         /\ ok' = good
         /\ trouble' = (trouble \/ ~good)
    BY DEF DstStat
  <2>2. PICK g \in BOOLEAN : g = (Reply.res # "error" /\ fits)
    OBVIOUS
  <2> QED BY <2>1, <2>2
<1>3. FsShared'
  BY <1>2 DEF FsInv, FsShared, DstStat
<1>4. FsClientTypes'
  BY <1>2 DEF FsInv, FsClientTypes, DstStat
<1>5. FsClient'
  BY <1>2 DEF FsInv, FsClient, DstStat, command
<1> QED BY <1>1, <1>3, <1>4, <1>5, FsClientStep DEF DstStat

\* The process ends
LEMMA FsEnds ==
  ASSUME FsInv, NEW pc \in {"done", "dead"}, ClientEnds(pc), UNCHANGED command, UNCHANGED service,
         UNCHANGED <<local, cut, copied, failed, trouble>>,
         ok' \in BOOLEAN, reported' \subseteq Files
  PROVE  FsInv'
<1>1. FsChannels'
  <2>1. <<>> \in Seq(FsMessages(cmd)) /\ Len(<<>>) = 0 /\ 0 <= Capacity
    BY FileSyncAssumption
  <2>2. net \in [Side -> Seq(FsMessages(cmd))] /\ (\A y \in Side : Len(net[y]) <= Capacity)
    /\ out \in [Side -> Seq(FsMessages(cmd))]
    BY DEF FsInv, FsChannels
  <2>3. net' = [net EXCEPT !["client"] = <<>>] /\ out' = [out EXCEPT !["client"] = <<>>]
    BY DEF ClientEnds
  <2>4. \A y \in Side : net'[y] = IF y = "client" THEN <<>> ELSE net[y]
    BY <2>2, <2>3
  <2>5. net' \in [Side -> Seq(FsMessages(cmd))] /\ out' \in [Side -> Seq(FsMessages(cmd))]
    BY <2>1, <2>2, <2>3
  <2> QED BY <2>1, <2>2, <2>4, <2>5, FsChannelStep
<1>2. FsShared'
  BY FsSides DEF FsInv, FsShared, ClientEnds
<1>3. FsClientTypes'
  BY DEF FsInv, FsClientTypes, ClientEnds
<1>4. FsClient'
  BY DEF FsInv, FsClient, ClientEnds
<1> QED BY <1>1, <1>2, <1>3, <1>4, FsClientStep

\* The next source is tried
LEMMA FsGivesUp ==
  ASSUME FsInv, GiveUp, UNCHANGED command
  PROVE  /\ cpc' = "next" /\ srcs' \in Seq(Files \cup Dirs) /\ files' \in Seq(Files)
         /\ asked' \in Seq(Files) /\ left' \in Nat /\ ok' \in BOOLEAN
         /\ FsClient' /\ eof' = eof
<1>1. srcs' \in Seq(Files \cup Dirs) /\ files' \in Seq(Files)
         /\ asked' \in Seq(Files) /\ left' \in Nat /\ ok' \in BOOLEAN
  <2>1. <<>> \in Seq(Files) /\ 0 \in Nat
    OBVIOUS
  <2>2. files' = <<>> /\ asked' = <<>> /\ left' = 0 /\ ok' = FALSE /\ srcs' = srcs
    BY DEF GiveUp
  <2>3. srcs \in Seq(Files \cup Dirs)
    BY DEF FsInv, FsClientTypes
  <2> QED BY <2>1, <2>2, <2>3
<1>2. cpc' = "next" /\ eof' = eof
  BY DEF GiveUp
<1>3. FsClient'
  BY <1>2 DEF FsClient
<1> QED BY <1>1, <1>2, <1>3

LEMMA FsStatFault == FsInv /\ StatFault => FsInv'
<1> SUFFICES ASSUME FsInv, StatFault PROVE FsInv'
  OBVIOUS
<1>1. reported' \subseteq Files /\ ok' \in BOOLEAN
  BY DEF FsInv, FsClientTypes, StatFault, history
<1> QED BY <1>1, FsEnds DEF StatFault, history

LEMMA FsNextSource == FsInv /\ NextSource => FsInv'
<1> SUFFICES ASSUME FsInv, NextSource PROVE FsInv'
  OBVIOUS
<1>1. srcs # <<>> /\ srcs \in Seq(Files \cup Dirs) /\ srcs' = Tail(srcs)
  BY DEF NextSource, FsInv, FsClientTypes
<1>2. Head(srcs) \in Files \cup Dirs /\ srcs' \in Seq(Files \cup Dirs)
  BY <1>1
<1>4. net' \in [Side -> Seq(FsMessages(cmd))] /\ \A y \in Side : Len(net'[y]) <= Capacity
  BY FsNoRead DEF NextSource
<1>5. /\ out' \in [Side -> Seq(FsMessages(cmd))]
      /\ files' \in Seq(Files) /\ asked' \in Seq(Files)
      /\ cpc' \in {"lstats", "send", "next", "srcstat", "ls"} /\ (cpc' = "srcstat" => cmd = "pull")
      /\ ok' \in BOOLEAN /\ trouble' \in BOOLEAN
  <2> USE DEF FsInv, FsClientTypes, FsShared
  <2>1. ASSUME NEW list \in Listings(Head(srcs)),
               IF check
                 THEN /\ asked' = list
                      /\ Send("client", [n \in 1..Len(list) |-> Msg("LSTAT", list[n])])
                      /\ cpc' = "lstats"
                      /\ UNCHANGED files
                 ELSE /\ files' = list
                      /\ NoSend
                      /\ cpc' = "send"
                      /\ UNCHANGED asked,
               UNCHANGED <<ok, trouble>>
        PROVE  /\ out' \in [Side -> Seq(FsMessages(cmd))]
               /\ files' \in Seq(Files) /\ asked' \in Seq(Files)
               /\ cpc' \in {"lstats", "send", "next", "srcstat", "ls"} /\ (cpc' = "srcstat" => cmd = "pull")
               /\ ok' \in BOOLEAN /\ trouble' \in BOOLEAN
    <3>0. list \in Seq(Files)
      BY <1>2, <2>1, FsListings
    <3>1. CASE check
      <4>2. \A n \in 1..Len(list) : Msg("LSTAT", list[n]) \in FsMessages(cmd)
        BY <3>0, FsMade
      <4>3. [n \in 1..Len(list) |-> Msg("LSTAT", list[n])] \in Seq(FsMessages(cmd))
        BY <3>0, <4>2
      <4>4. out' \in [Side -> Seq(FsMessages(cmd))]
        BY <2>1, <3>1, <4>3, FsSides, FsSend
      <4> QED BY <2>1, <3>0, <3>1, <4>4
    <3>2. CASE ~check
      BY <2>1, <3>0, <3>2, FsNoWrite DEF NoSend
    <3> QED BY <3>1, <3>2
  <2>2. CASE ok' = FALSE /\ trouble' = TRUE /\ NoSend /\ UNCHANGED <<cpc, files, asked>>
    BY <2>2, FsNoWrite DEF NoSend, NextSource, ClientIdle
  <2>3. CASE /\ cmd = "pull"
             /\ files' = IF Head(srcs) \in Files THEN <<Head(srcs)>> ELSE <<>>
             /\ Send("client", <<Msg("STAT", Head(srcs))>>)
             /\ cpc' = "srcstat"
             /\ UNCHANGED <<asked, ok, trouble>>
    <3>1. Msg("STAT", Head(srcs)) \in FsMessages(cmd)
      BY <1>2, FsMade
    <3>2. out' \in [Side -> Seq(FsMessages(cmd))]
      BY <2>3, <3>1, FsSides, FsSendOne
    <3> QED BY <2>3, <3>2
  <2>4. CASE /\ Send("client", <<Msg("LIST", Head(srcs))>>)
             /\ cpc' = "ls"
             /\ UNCHANGED <<files, asked, ok, trouble>>
    <3>1. Msg("LIST", Head(srcs)) \in FsMessages(cmd)
      BY <1>2, FsMade
    <3>2. out' \in [Side -> Seq(FsMessages(cmd))]
      BY <2>4, <3>1, FsSides, FsSendOne
    <3> QED BY <2>4, <3>2
  <2> QED BY <2>1, <2>2, <2>3, <2>4 DEF NextSource
<1>6. FsChannels'
  BY <1>4, <1>5, FsChannelStep DEF NextSource
<1>7. FsShared'
  BY <1>5 DEF FsInv, FsShared, NextSource
<1>8. FsClientTypes'
  BY <1>2, <1>5 DEF FsInv, FsClientTypes, NextSource
<1>9. FsClient'
  BY <1>5 DEF FsClient, NextSource, command
<1> QED BY <1>6, <1>7, <1>8, <1>9, FsClientStep DEF NextSource

LEMMA FsLstatReply == FsInv /\ LstatReply => FsInv'
<1> SUFFICES ASSUME FsInv, LstatReply PROVE FsInv'
  OBVIOUS
<1>1. files \in Seq(Files) /\ asked \in Seq(Files)
  BY DEF FsInv, FsClientTypes
<1>2. /\ net' \in [Side -> Seq(FsMessages(cmd))] /\ \A y \in Side : Len(net'[y]) <= Capacity
      /\ files' \in Seq(Files) /\ asked' \in Seq(Files) /\ cpc' \in {"send", "lstats"}
  <2>1. CASE asked = <<>>
    BY <1>1, <2>1, FsNoRead DEF LstatReply
  <2>2. CASE asked # <<>>
    <3>1. net' \in [Side -> Seq(FsMessages(cmd))] /\ \A y \in Side : Len(net'[y]) <= Capacity
      BY <2>2, FsSides, FsConsume DEF LstatReply
    <3>2. Head(asked) \in Files /\ Tail(asked) \in Seq(Files)
      BY <1>1, <2>2
    <3>3. Append(files, Head(asked)) \in Seq(Files)
      BY <1>1, <3>2
    <3> QED BY <1>1, <2>2, <3>1, <3>2, <3>3 DEF LstatReply, ClientIdle
  <2> QED BY <2>1, <2>2
<1>3. FsChannels'
  BY <1>2, FsNoWrite, FsChannelStep DEF LstatReply
<1>4. FsShared'
  BY DEF FsInv, FsShared, LstatReply, history
<1>5. FsClientTypes'
  BY <1>2 DEF FsInv, FsClientTypes, LstatReply, history
<1>6. FsClient'
  BY <1>2 DEF FsClient
<1> QED BY <1>3, <1>4, <1>5, <1>6, FsClientStep DEF LstatReply, history

LEMMA FsSendFile == FsInv /\ SendFile => FsInv'
<1> SUFFICES ASSUME FsInv, SendFile PROVE FsInv'
  OBVIOUS
<1>1. files \in Seq(Files) /\ files # <<>> /\ files' = files
  BY DEF FsInv, FsClientTypes, SendFile
<1>2. PICK f \in Files : f = Head(files)
  BY <1>1
<1>3. Chunks[f] \in Nat
  BY FileSyncAssumption
<1>4. /\ Msg("SEND", f) \in FsMessages(cmd) /\ Msg("DATA", f) \in FsMessages(cmd)
      /\ Msg("DONE", f) \in FsMessages(cmd)
  BY FsMade DEF Path
<1>5. /\ out' \in [Side -> Seq(FsMessages(cmd))]
      /\ cpc' \in {"large", "copydone"} /\ left' \in Nat
  <2>1. CASE Kind[f] = "large"
    <3>1. Send("client", <<Msg("SEND", f)>>) /\ cpc' = "large" /\ left' = Chunks[f]
      BY <1>2, <2>1 DEF SendFile
    <3> QED BY <1>3, <1>4, <3>1, FsSides, FsSendOne
  <2>2. CASE Kind[f] # "large"
    <3>1. Send("client", <<Msg("SEND", f), Msg("DATA", f), Msg("DONE", f)>>)
          /\ cpc' = "copydone" /\ left' = left
      BY <1>2, <2>2 DEF SendFile
    <3>2. <<Msg("SEND", f), Msg("DATA", f), Msg("DONE", f)>> \in Seq(FsMessages(cmd))
      BY <1>4
    <3>3. left \in Nat
      BY DEF FsInv, FsClientTypes
    <3> QED BY <3>1, <3>2, <3>3, FsSides, FsSend
  <2> QED BY <2>1, <2>2
<1>6. FsChannels'
  BY <1>5, FsNoRead, FsChannelStep DEF SendFile
<1>7. FsShared'
  BY DEF FsInv, FsShared, SendFile, history
<1>8. FsClientTypes'
  BY <1>5 DEF FsInv, FsClientTypes, SendFile, history
<1>9. FsClient'
  BY <1>1, <1>5 DEF FsClient
<1> QED BY <1>6, <1>7, <1>8, <1>9, FsClientStep DEF SendFile, history

LEMMA FsLocalReadFails == FsInv /\ LocalReadFails => FsInv'
<1> SUFFICES ASSUME FsInv, LocalReadFails PROVE FsInv'
  OBVIOUS
<1>1. files \in Seq(Files) /\ files # <<>>
  BY DEF FsInv, FsClientTypes, LocalReadFails
<1>2. Head(files) \in Files
  BY <1>1
<1>3. FsChannels'
  BY FsNoRead, FsNoWrite, FsChannelStep DEF LocalReadFails
<1>4. /\ cpc' = "next" /\ srcs' \in Seq(Files \cup Dirs) /\ files' \in Seq(Files)
      /\ asked' \in Seq(Files) /\ left' \in Nat /\ ok' \in BOOLEAN
      /\ FsClient' /\ eof' = eof
  BY FsGivesUp DEF LocalReadFails
<1>5. FsShared'
  BY <1>4 DEF FsInv, FsShared, LocalReadFails
<1>6. FsClientTypes'
  BY <1>2, <1>4 DEF FsInv, FsClientTypes, LocalReadFails
<1> QED BY <1>3, <1>4, <1>5, <1>6, FsClientStep DEF LocalReadFails

LEMMA FsLargeChunk == FsInv /\ LargeChunk => FsInv'
<1> SUFFICES ASSUME FsInv, LargeChunk PROVE FsInv'
  OBVIOUS
<1>1. files \in Seq(Files) /\ files # <<>> /\ files' = files /\ left \in Nat
  BY DEF FsInv, FsClientTypes, FsClient, LargeChunk, ClientIdle
<1>2. Head(files) \in Files
  BY <1>1
<1>3. Msg("DATA", Head(files)) \in FsMessages(cmd) /\ Msg("DONE", Head(files)) \in FsMessages(cmd)
  BY <1>2, FsMade DEF Path
<1>4. /\ out' \in [Side -> Seq(FsMessages(cmd))]
      /\ cpc' \in {"poll", "copydone"} /\ left' \in Nat
  <2>1. CASE ChunkLeft
    <3>1. Send("client", <<Msg("DATA", Head(files))>>) /\ left' = left - 1 /\ cpc' = "poll"
      BY <2>1 DEF LargeChunk
    <3>2. left' \in Nat
      BY <1>1, <2>1, <3>1 DEF ChunkLeft
    <3> QED BY <1>3, <3>1, <3>2, FsSides, FsSendOne
  <2>2. CASE ~ChunkLeft
    <3>1. Send("client", <<Msg("DONE", Head(files))>>) /\ left' = left /\ cpc' = "copydone"
      BY <2>2 DEF LargeChunk
    <3> QED BY <1>1, <1>3, <3>1, FsSides, FsSendOne
  <2> QED BY <2>1, <2>2
<1>5. FsChannels'
  BY <1>4, FsNoRead, FsChannelStep DEF LargeChunk
<1>6. FsShared'
  BY DEF FsInv, FsShared, LargeChunk, history
<1>7. FsClientTypes'
  BY <1>4 DEF FsInv, FsClientTypes, LargeChunk, history
<1>8. FsClient'
  BY <1>1, <1>4 DEF FsClient
<1> QED BY <1>5, <1>6, <1>7, <1>8, FsClientStep DEF LargeChunk, history

LEMMA FsLargePoll == FsInv /\ LargePoll => FsInv'
<1> SUFFICES ASSUME FsInv, LargePoll PROVE FsInv'
  OBVIOUS
<1>1. files \in Seq(Files) /\ files # <<>> /\ files' = files /\ left \in Nat
  BY DEF FsInv, FsClientTypes, FsClient, LargePoll, ClientIdle
<1>2. Msg("DONE", Head(files)) \in FsMessages(cmd)
  BY <1>1, FsMade DEF Path
<1>3. /\ out' \in [Side -> Seq(FsMessages(cmd))]
      /\ cpc' \in {"large", "copydone"} /\ left' \in Nat
  <2>1. CASE net["client"] # <<>> \/ eof["client"]
    <3>1. Send("client", <<Msg("DONE", Head(files))>>) /\ left' = 0 /\ cpc' = "copydone"
      BY <2>1 DEF LargePoll
    <3> QED BY <1>2, <3>1, FsSides, FsSendOne
  <2>2. CASE ~(net["client"] # <<>> \/ eof["client"])
    BY <1>1, <2>2, FsNoWrite DEF LargePoll, NoSend
  <2> QED BY <2>1, <2>2
<1>4. FsChannels'
  BY <1>3, FsNoRead, FsChannelStep DEF LargePoll
<1>5. FsShared'
  BY DEF FsInv, FsShared, LargePoll, history
<1>6. FsClientTypes'
  BY <1>3 DEF FsInv, FsClientTypes, LargePoll, history
<1>7. FsClient'
  BY <1>1, <1>3 DEF FsClient
<1> QED BY <1>4, <1>5, <1>6, <1>7, FsClientStep DEF LargePoll, history

LEMMA FsCopyOkay == FsInv /\ CopyOkay => FsInv'
<1> SUFFICES ASSUME FsInv, CopyOkay PROVE FsInv'
  OBVIOUS
<1>1. files \in Seq(Files) /\ files # <<>>
  BY DEF FsInv, FsClientTypes, FsClient, CopyOkay, ClientIdle
<1>2. Head(files) \in Files /\ Tail(files) \in Seq(Files)
  BY <1>1
<1>3. FsChannels'
  BY FsSides, FsConsume, FsNoWrite, FsChannelStep DEF CopyOkay
<1>4. FsShared'
  BY DEF FsInv, FsShared, CopyOkay
<1>5. FsClientTypes'
  BY <1>2 DEF FsInv, FsClientTypes, CopyOkay
<1>6. FsClient'
  BY DEF FsClient, CopyOkay
<1> QED BY <1>3, <1>4, <1>5, <1>6, FsClientStep DEF CopyOkay

LEMMA FsCopyFails == FsInv /\ CopyFails => FsInv'
<1> SUFFICES ASSUME FsInv, CopyFails PROVE FsInv'
  OBVIOUS
<1>1. files \in Seq(Files) /\ files # <<>>
  BY DEF FsInv, FsClientTypes, FsClient, CopyFails, ClientIdle
<1>2. Head(files) \in Files
  BY <1>1
<1>3. net' \in [Side -> Seq(FsMessages(cmd))] /\ \A y \in Side : Len(net'[y]) <= Capacity
  BY FsSides, FsConsume, FsNoRead DEF CopyFails
<1>4. FsChannels'
  BY <1>3, FsNoWrite, FsChannelStep DEF CopyFails
<1>5. /\ cpc' = "next" /\ srcs' \in Seq(Files \cup Dirs) /\ files' \in Seq(Files)
      /\ asked' \in Seq(Files) /\ left' \in Nat /\ ok' \in BOOLEAN
      /\ FsClient' /\ eof' = eof
  BY FsGivesUp DEF CopyFails
<1>6. FsShared'
  BY <1>5 DEF FsInv, FsShared, CopyFails
<1>7. reported' \subseteq Files
  BY <1>2 DEF FsInv, FsClientTypes, CopyFails
<1>8. FsClientTypes'
  BY <1>5, <1>7 DEF FsInv, FsClientTypes, CopyFails
<1> QED BY <1>4, <1>5, <1>6, <1>8, FsClientStep DEF CopyFails

LEMMA FsSrcStat == FsInv /\ SrcStat => FsInv'
<1> SUFFICES ASSUME FsInv, SrcStat PROVE FsInv'
  OBVIOUS
<1>1. /\ net' \in [Side -> Seq(FsMessages(cmd))] /\ \A y \in Side : Len(net'[y]) <= Capacity
      /\ Reply \in FsMessages(cmd)
  BY FsSides, FsConsume DEF SrcStat, Reply
<1>2. Reply.f \in Files \cup Dirs
  BY <1>1 DEF SrcStat, ClientIdle, FsInv, FsClient, FsMessages
<1>3. /\ out' \in [Side -> Seq(FsMessages(cmd))]
      /\ cpc' \in {"recv", "ls", "next"} /\ srcs' \in Seq(Files \cup Dirs) /\ files' \in Seq(Files)
      /\ asked' \in Seq(Files) /\ left' \in Nat /\ ok' \in BOOLEAN /\ eof' = eof
  <2>1. CASE cpc' = "recv" /\ NoSend /\ UNCHANGED <<srcs, files, asked, left, ok, eof>>
    BY <2>1, FsNoWrite DEF NoSend, FsInv, FsClientTypes
  <2>2. CASE cpc' = "ls" /\ Send("client", <<Msg("LIST", Reply.f)>>)
             /\ UNCHANGED <<srcs, files, asked, left, ok, eof>>
    <3>1. Msg("LIST", Reply.f) \in FsMessages(cmd)
      BY <1>2, FsMade
    <3>2. out' \in [Side -> Seq(FsMessages(cmd))]
      BY <2>2, <3>1, FsSides, FsSendOne
    <3> QED BY <2>2, <3>2 DEF FsInv, FsClientTypes
  <2>3. CASE GiveUp /\ NoSend
    BY <2>3, FsGivesUp, FsNoWrite DEF NoSend, SrcStat
  <2> QED BY <2>1, <2>2, <2>3 DEF SrcStat
<1>4. FsChannels'
  BY <1>1, <1>3, FsChannelStep DEF SrcStat
<1>5. FsShared'
  BY <1>3 DEF FsInv, FsShared, SrcStat, history
<1>6. FsClientTypes'
  BY <1>3 DEF FsInv, FsClientTypes, SrcStat, history
<1>7. FsClient'
  BY <1>3 DEF FsClient
<1> QED BY <1>4, <1>5, <1>6, <1>7, FsClientStep DEF SrcStat, history

LEMMA FsDent == FsInv /\ Dent => FsInv'
<1> SUFFICES ASSUME FsInv, Dent PROVE FsInv'
  OBVIOUS
<1>1. /\ net' \in [Side -> Seq(FsMessages(cmd))] /\ \A y \in Side : Len(net'[y]) <= Capacity
      /\ Reply \in FsMessages(cmd)
  BY FsSides, FsConsume DEF Dent, Reply
<1>2. Reply.f \in Files
  BY <1>1 DEF Dent, FsMessages
<1>3. files \in Seq(Files) /\ asked \in Seq(Files)
  BY DEF FsInv, FsClientTypes
<1>4. files' \in Seq(Files) /\ asked' \in Seq(Files)
  <2>1. Append(files, Reply.f) \in Seq(Files) /\ Append(asked, Reply.f) \in Seq(Files)
    BY <1>2, <1>3
  <2> QED BY <1>3, <2>1 DEF Dent
<1>5. FsChannels'
  BY <1>1, FsNoWrite, FsChannelStep DEF Dent
<1>6. FsShared'
  BY DEF FsInv, FsShared, Dent, history
<1>7. FsClientTypes'
  BY <1>4 DEF FsInv, FsClientTypes, Dent, history
<1>8. FsClient'
  BY DEF FsClient, Dent, ClientIdle
<1> QED BY <1>5, <1>6, <1>7, <1>8, FsClientStep DEF Dent, history

LEMMA FsListDone == FsInv /\ ListDone => FsInv'
<1> SUFFICES ASSUME FsInv, ListDone PROVE FsInv'
  OBVIOUS
<1>1. FsChannels'
  BY FsSides, FsConsume, FsNoWrite, FsChannelStep DEF ListDone
<1>2. files' \in Seq(Files) /\ asked' \in Seq(Files)
  <2>1. files \in Seq(Files) /\ asked \in Seq(Files) /\ <<>> \in Seq(Files)
    BY DEF FsInv, FsClientTypes
  <2> QED BY <2>1 DEF ListDone
<1>3. FsShared'
  BY DEF FsInv, FsShared, ListDone, history
<1>4. FsClientTypes'
  BY <1>2 DEF FsInv, FsClientTypes, ListDone, history
<1>5. FsClient'
  BY DEF FsClient, ListDone
<1> QED BY <1>1, <1>3, <1>4, <1>5, FsClientStep DEF ListDone, history

LEMMA FsListFails == FsInv /\ ListFails => FsInv'
<1> SUFFICES ASSUME FsInv, ListFails PROVE FsInv'
  OBVIOUS
<1>1. net' \in [Side -> Seq(FsMessages(cmd))] /\ \A y \in Side : Len(net'[y]) <= Capacity
  BY FsSides, FsConsume, FsNoRead DEF ListFails
<1>2. FsChannels'
  BY <1>1, FsNoWrite, FsChannelStep DEF ListFails
<1>3. /\ cpc' = "next" /\ srcs' \in Seq(Files \cup Dirs) /\ files' \in Seq(Files)
      /\ asked' \in Seq(Files) /\ left' \in Nat /\ ok' \in BOOLEAN
      /\ FsClient' /\ eof' = eof
  BY FsGivesUp DEF ListFails
<1>4. FsShared'
  BY <1>3 DEF FsInv, FsShared, ListFails, history
<1>5. FsClientTypes'
  BY <1>3 DEF FsInv, FsClientTypes, ListFails, history
<1> QED BY <1>2, <1>3, <1>4, <1>5, FsClientStep DEF ListFails, history

LEMMA FsStatLink == FsInv /\ StatLink => FsInv'
<1> SUFFICES ASSUME FsInv, StatLink PROVE FsInv'
  OBVIOUS
<1>1. asked \in Seq(Files)
  BY DEF FsInv, FsClientTypes
<1>2. out' \in [Side -> Seq(FsMessages(cmd))] /\ cpc' \in {"recv", "lnstat"}
      /\ (cpc' = "lnstat" => asked # <<>>)
  <2>1. CASE asked = <<>>
    BY <2>1, FsNoWrite DEF StatLink, NoSend
  <2>2. CASE asked # <<>>
    <3>1. Msg("STAT", Head(asked)) \in FsMessages(cmd)
      BY <1>1, <2>2, FsMade
    <3> QED BY <2>2, <3>1, FsSides, FsSendOne DEF StatLink
  <2> QED BY <2>1, <2>2
<1>3. FsChannels'
  BY <1>2, FsNoRead, FsChannelStep DEF StatLink
<1>4. FsShared'
  BY DEF FsInv, FsShared, StatLink, history
<1>5. FsClientTypes'
  BY <1>2 DEF FsInv, FsClientTypes, StatLink, history
<1>6. FsClient'
  BY <1>2 DEF FsClient, StatLink
<1> QED BY <1>3, <1>4, <1>5, <1>6, FsClientStep DEF StatLink, history

LEMMA FsLinkStat == FsInv /\ LinkStat => FsInv'
<1> SUFFICES ASSUME FsInv, LinkStat PROVE FsInv'
  OBVIOUS
<1>1. files \in Seq(Files) /\ asked \in Seq(Files) /\ asked # <<>>
  BY DEF FsInv, FsClientTypes, FsClient, LinkStat, ClientIdle
<1>2. Head(asked) \in Files /\ Tail(asked) \in Seq(Files)
  BY <1>1
<1>3. Append(files, Head(asked)) \in Seq(Files)
  BY <1>1, <1>2
<1>4. FsChannels'
  BY FsSides, FsConsume, FsNoWrite, FsChannelStep DEF LinkStat
<1>5. FsShared'
  BY DEF FsInv, FsShared, LinkStat, history
<1>6. FsClientTypes'
  BY <1>1, <1>2, <1>3 DEF FsInv, FsClientTypes, LinkStat, history
<1>7. FsClient'
  BY DEF FsClient, LinkStat
<1> QED BY <1>4, <1>5, <1>6, <1>7, FsClientStep DEF LinkStat, history

LEMMA FsRecvFile == FsInv /\ RecvFile => FsInv'
<1> SUFFICES ASSUME FsInv, RecvFile PROVE FsInv'
  OBVIOUS
<1>1. files \in Seq(Files) /\ files # <<>> /\ files' = files
  BY DEF FsInv, FsClientTypes, RecvFile
<1>2. Msg("RECV", Head(files)) \in FsMessages(cmd)
  BY <1>1, FsMade
<1>3. out' \in [Side -> Seq(FsMessages(cmd))]
  BY <1>2, FsSides, FsSendOne DEF RecvFile
<1>4. FsChannels'
  BY <1>3, FsNoRead, FsChannelStep DEF RecvFile
<1>5. FsShared'
  BY DEF FsInv, FsShared, RecvFile, history
<1>6. FsClientTypes'
  BY DEF FsInv, FsClientTypes, RecvFile, history
<1>7. FsClient'
  BY <1>1 DEF FsClient, RecvFile
<1> QED BY <1>4, <1>5, <1>6, <1>7, FsClientStep DEF RecvFile, history

LEMMA FsCreat == FsInv /\ Creat => FsInv'
<1> SUFFICES ASSUME FsInv, Creat PROVE FsInv'
  OBVIOUS
<1>1. files \in Seq(Files) /\ files # <<>> /\ local \in [Files -> Seq(Files) \cup {Absent}]
  BY DEF FsInv, FsClientTypes, FsClient, Creat, ClientIdle
<1>2. Head(files) \in Files
  BY <1>1
<1>3. FsChannels'
  BY FsNoRead, FsNoWrite, FsChannelStep DEF Creat
<1>4. CASE cpc' = "recvdata" /\ local' = [local EXCEPT ![Head(files)] = <<>>]
           /\ UNCHANGED <<srcs, files, asked, left, ok, eof, trouble>>
  <2>1. local' \in [Files -> Seq(Files) \cup {Absent}] /\ local'[Head(files)] = <<>>
    BY <1>1, <1>2, <1>4
  <2>2. FsShared'
    BY <1>4 DEF FsInv, FsShared, Creat
  <2>3. FsClientTypes'
    BY <1>4, <2>1 DEF FsInv, FsClientTypes, Creat
  <2>4. <<>> \in Seq(Files)
    OBVIOUS
  <2>5. FsClient'
    BY <1>1, <1>4, <2>1, <2>4 DEF FsClient
  <2> QED BY <1>3, <2>2, <2>3, <2>5, FsClientStep DEF Creat
<1>5. CASE GiveUp /\ trouble' = TRUE /\ UNCHANGED local
  <2>1. /\ cpc' = "next" /\ srcs' \in Seq(Files \cup Dirs) /\ files' \in Seq(Files)
        /\ asked' \in Seq(Files) /\ left' \in Nat /\ ok' \in BOOLEAN
        /\ FsClient' /\ eof' = eof
    BY <1>5, FsGivesUp DEF Creat
  <2>2. FsShared'
    BY <1>5, <2>1 DEF FsInv, FsShared, Creat
  <2>3. FsClientTypes'
    BY <1>5, <2>1 DEF FsInv, FsClientTypes, Creat
  <2> QED BY <1>3, <2>1, <2>2, <2>3, FsClientStep DEF Creat
<1> QED BY <1>4, <1>5 DEF Creat

LEMMA FsRecvData == FsInv /\ RecvData => FsInv'
<1> SUFFICES ASSUME FsInv, RecvData PROVE FsInv'
  OBVIOUS
<1>1. files \in Seq(Files) /\ files # <<>> /\ local \in [Files -> Seq(Files) \cup {Absent}]
      /\ local[Head(files)] \in Seq(Files)
  BY DEF FsInv, FsClientTypes, FsClient, RecvData, ClientIdle
<1>2. Head(files) \in Files
  BY <1>1
<1>3. /\ net' \in [Side -> Seq(FsMessages(cmd))] /\ \A y \in Side : Len(net'[y]) <= Capacity
      /\ Reply \in FsMessages(cmd)
  BY FsSides, FsConsume DEF RecvData, Reply
<1>4. Reply.f \in Files
  BY <1>3 DEF RecvData, FsMessages
<1>5. PICK l \in Seq(Files) : l = Append(local[Head(files)], Reply.f)
  <2>1. \A q \in Seq(Files), f \in Files : Append(q, f) \in Seq(Files)
    OBVIOUS
  <2> QED BY <1>1, <1>4, <2>1
<1>6. local' = [local EXCEPT ![Head(files)] = l]
  BY <1>5 DEF RecvData
<1>7. local' \in [Files -> Seq(Files) \cup {Absent}] /\ local'[Head(files)] = l
  BY <1>1, <1>2, <1>6
<1>8. FsChannels'
  BY <1>3, FsNoWrite, FsChannelStep DEF RecvData
<1>9. FsShared'
  BY DEF FsInv, FsShared, RecvData, history
<1>10. FsClientTypes'
  BY <1>7 DEF FsInv, FsClientTypes, RecvData, history
<1>11. FsClient'
  BY <1>1, <1>5, <1>7 DEF FsClient, RecvData, ClientIdle
<1> QED BY <1>8, <1>9, <1>10, <1>11, FsClientStep DEF RecvData, history

LEMMA FsRecvFails == FsInv /\ RecvFails => FsInv'
<1> SUFFICES ASSUME FsInv, RecvFails PROVE FsInv'
  OBVIOUS
<1>1. local' \in [Files -> Seq(Files) \cup {Absent}]
  BY DEF FsInv, FsClientTypes, RecvFails, LocalUnlinked
<1>2. net' \in [Side -> Seq(FsMessages(cmd))] /\ \A y \in Side : Len(net'[y]) <= Capacity
  BY FsSides, FsConsume, FsNoRead DEF RecvFails
<1>3. FsChannels'
  BY <1>2, FsNoWrite, FsChannelStep DEF RecvFails
<1>4. /\ cpc' = "next" /\ srcs' \in Seq(Files \cup Dirs) /\ files' \in Seq(Files)
      /\ asked' \in Seq(Files) /\ left' \in Nat /\ ok' \in BOOLEAN
      /\ FsClient' /\ eof' = eof
  BY FsGivesUp DEF RecvFails
<1>5. FsShared'
  <2>1. trouble' \in BOOLEAN
    BY DEF FsInv, FsShared, RecvFails
  <2> QED BY <1>4, <2>1 DEF FsInv, FsShared, RecvFails
<1>6. FsClientTypes'
  BY <1>1, <1>4 DEF FsInv, FsClientTypes, RecvFails
<1> QED BY <1>3, <1>4, <1>5, <1>6, FsClientStep DEF RecvFails

LEMMA FsRecvDone == FsInv /\ RecvDone => FsInv'
<1> SUFFICES ASSUME FsInv, RecvDone PROVE FsInv'
  OBVIOUS
<1>1. files \in Seq(Files) /\ files # <<>>
  BY DEF FsInv, FsClientTypes, FsClient, RecvDone, ClientIdle
<1>2. Head(files) \in Files /\ Tail(files) \in Seq(Files)
  BY <1>1
<1>3. FsChannels'
  BY FsSides, FsConsume, FsNoWrite, FsChannelStep DEF RecvDone
<1>4. /\ cpc' \in {"recv", "next"} /\ srcs' \in Seq(Files \cup Dirs) /\ files' \in Seq(Files)
      /\ asked' \in Seq(Files) /\ left' \in Nat /\ ok' \in BOOLEAN
      /\ eof' = eof /\ trouble' \in BOOLEAN
  <2>1. CASE cpc' = "recv" /\ files' = Tail(files)
             /\ UNCHANGED <<srcs, asked, left, ok, eof, trouble>>
    BY <1>2, <2>1 DEF FsInv, FsClientTypes, FsShared
  <2>2. CASE GiveUp /\ trouble' = TRUE
    BY <2>2, FsGivesUp DEF RecvDone
  <2> QED BY <2>1, <2>2 DEF RecvDone
<1>5. FsShared'
  BY <1>4 DEF FsInv, FsShared, RecvDone
<1>6. FsClientTypes'
  BY <1>2, <1>4 DEF FsInv, FsClientTypes, RecvDone
<1>7. FsClient'
  BY <1>4 DEF FsClient
<1> QED BY <1>3, <1>5, <1>6, <1>7, FsClientStep DEF RecvDone

LEMMA FsSourceDone == FsInv /\ SourceDone => FsInv'
<1> SUFFICES ASSUME FsInv, SourceDone PROVE FsInv'
  OBVIOUS
<1>1. FsChannels'
  BY FsNoRead, FsNoWrite, FsChannelStep DEF SourceDone
<1>2. FsShared'
  BY DEF FsInv, FsShared, SourceDone, history
<1>3. FsClientTypes'
  BY DEF FsInv, FsClientTypes, SourceDone, history
<1>4. FsClient'
  BY DEF FsClient, SourceDone
<1> QED BY <1>1, <1>2, <1>3, <1>4, FsClientStep DEF SourceDone, history

LEMMA FsQuit == FsInv /\ Quit => FsInv'
<1> SUFFICES ASSUME FsInv, Quit PROVE FsInv'
  OBVIOUS
<1>1. Msg("QUIT", Dst) \in FsMessages(cmd)
  BY FsMade DEF Path
<1>2. out' \in [Side -> Seq(FsMessages(cmd))]
  BY <1>1, FsSides, FsSendOne DEF Quit
<1>3. FsChannels'
  BY <1>2, FsNoRead, FsChannelStep DEF Quit
<1>4. FsShared'
  BY DEF FsInv, FsShared, Quit, history
<1>5. FsClientTypes'
  BY DEF FsInv, FsClientTypes, Quit, history
<1>6. FsClient'
  BY DEF FsClient, Quit
<1> QED BY <1>3, <1>4, <1>5, <1>6, FsClientStep DEF Quit, history

LEMMA FsShutdown == FsInv /\ Shutdown => FsInv'
<1> SUFFICES ASSUME FsInv, Shutdown PROVE FsInv'
  OBVIOUS
<1>1. reported' \subseteq Files /\ ok' \in BOOLEAN
  BY DEF FsInv, FsClientTypes, Shutdown, history
<1> QED BY <1>1, FsEnds DEF Shutdown, history

LEMMA FsClientWriteFails == FsInv /\ ClientWriteFails => FsInv'
<1> SUFFICES ASSUME FsInv, ClientWriteFails PROVE FsInv'
  OBVIOUS
<1>1. reported \subseteq Files /\ ok \in BOOLEAN /\ files \in Seq(Files) /\ asked \in Seq(Files)
  BY DEF FsInv, FsClientTypes
<1>2. CASE /\ cpc \in {"poll", "copydone"}
           /\ ClientEnds("dead") /\ ok' = FALSE
           /\ reported' = IF net["client"] # <<>> /\ Reply.id = "FAIL" /\ ~Reply.half
                            THEN reported \cup {Head(files)} ELSE reported
  <2>1. files # <<>>
    BY <1>2 DEF FsInv, FsClient
  <2>2. Head(files) \in Files
    BY <1>1, <2>1
  <2>3. reported' \subseteq Files
    BY <1>1, <1>2, <2>2
  <2> QED BY <1>2, <2>3, FsEnds DEF ClientWriteFails
<1>3. CASE cpc = "shutdown" /\ ClientEnds("done") /\ UNCHANGED <<ok, reported>>
  BY <1>1, <1>3, FsEnds DEF ClientWriteFails
<1>4. CASE /\ Send("client", <<>>) /\ UNCHANGED <<net, eof, reported>>
           /\ cpc' \in {"quit", "links", "next"} /\ ok' \in BOOLEAN
           /\ srcs' \in Seq(Files \cup Dirs) /\ files' \in Seq(Files)
           /\ asked' \in Seq(Files) /\ left' \in Nat
  <2>1. <<>> \in Seq(FsMessages(cmd))
    OBVIOUS
  <2>2. out' \in [Side -> Seq(FsMessages(cmd))]
    BY <1>4, <2>1, FsSides, FsSend
  <2>3. FsChannels'
    BY <1>4, <2>2, FsNoRead, FsChannelStep DEF ClientWriteFails
  <2>4. FsShared'
    BY <1>4 DEF FsInv, FsShared, ClientWriteFails
  <2>5. FsClientTypes'
    BY <1>4 DEF FsInv, FsClientTypes, ClientWriteFails
  <2>6. FsClient'
    BY <1>4 DEF FsClient
  <2> QED BY <2>3, <2>4, <2>5, <2>6, FsClientStep DEF ClientWriteFails
<1>5. CASE /\ cpc = "dst"
           /\ cpc' = "quit" /\ ok' = FALSE
           /\ Send("client", <<>>)
           /\ UNCHANGED <<srcs, files, asked, left, net, eof, reported>>
  BY <1>4, <1>5 DEF FsInv, FsClientTypes
<1>6. CASE /\ cpc = "lnstat"
           /\ cpc' = "links" /\ asked' = Tail(asked)
           /\ Send("client", <<>>)
           /\ UNCHANGED <<srcs, files, left, ok, net, eof, reported>>
  <2>1. asked # <<>>
    BY <1>6 DEF FsInv, FsClient
  <2>2. asked' \in Seq(Files)
    BY <1>1, <1>6, <2>1
  <2> QED BY <1>4, <1>6, <2>2 DEF FsInv, FsClientTypes
<1>7. CASE GiveUp /\ Send("client", <<>>) /\ UNCHANGED <<net, reported>>
  BY <1>4, <1>7, FsGivesUp DEF ClientWriteFails
<1> QED BY <1>2, <1>3, <1>5, <1>6, <1>7 DEF ClientWriteFails

\* A message gets into the stream
LEMMA FsTransmit == FsInv /\ (\E x \in Side : Transmit(x)) => FsInv'
<1> SUFFICES ASSUME FsInv, NEW x \in Side, Transmit(x) PROVE FsInv'
  OBVIOUS
<1>1. /\ net \in [Side -> Seq(FsMessages(cmd))] /\ out \in [Side -> Seq(FsMessages(cmd))]
      /\ (\A y \in Side : Len(net[y]) <= Capacity) /\ out[x] # <<>> /\ Capacity \in Nat
  BY FileSyncAssumption DEF FsInv, FsChannels, Transmit
<1>2. out[x] \in Seq(FsMessages(cmd))
  BY <1>1
<1>3. Head(out[x]) \in FsMessages(cmd) /\ Tail(out[x]) \in Seq(FsMessages(cmd))
  BY <1>1, <1>2
<1>4. PICK z \in Side : z = Other(x)
  BY DEF Other, Side
<1>5. PICK q : q = Append(net[z], Head(out[x]))
  OBVIOUS
<1>6. net[z] \in Seq(FsMessages(cmd)) /\ Len(net[z]) < Capacity
  BY <1>1, <1>4 DEF Transmit
<1>7. q \in Seq(FsMessages(cmd)) /\ Len(q) <= Capacity
  BY <1>1, <1>3, <1>5, <1>6
<1>8. net' = [net EXCEPT ![z] = q] /\ out' = [out EXCEPT ![x] = Tail(out[x])]
  BY <1>4, <1>5 DEF Transmit
<1>9. net' \in [Side -> Seq(FsMessages(cmd))] /\ out' \in [Side -> Seq(FsMessages(cmd))]
  BY <1>1, <1>3, <1>7, <1>8
<1>10. \A y \in Side : Len(net'[y]) <= Capacity
  BY <1>1, <1>7, <1>8
<1>11. FsChannels'
  BY <1>9, <1>10, FsChannelStep DEF Transmit
<1> QED BY <1>11, FsQuietStep DEF Transmit

LEMMA FsSwallow == FsInv /\ (\E x \in Side : Swallow(x)) => FsInv'
<1> SUFFICES ASSUME FsInv, NEW x \in Side, Swallow(x) PROVE FsInv'
  OBVIOUS
<1>1. /\ net \in [Side -> Seq(FsMessages(cmd))] /\ out \in [Side -> Seq(FsMessages(cmd))]
      /\ (\A y \in Side : Len(net[y]) <= Capacity) /\ out[x] # <<>> /\ Capacity \in Nat
  BY FileSyncAssumption DEF FsInv, FsChannels, Swallow
<1>2. out[x] \in Seq(FsMessages(cmd)) /\ net[x] \in Seq(FsMessages(cmd))
  BY <1>1
<1>3. Tail(out[x]) \in Seq(FsMessages(cmd))
  BY <1>1, <1>2
<1>4. out' = [out EXCEPT ![x] = Tail(out[x])]
  BY DEF Swallow
<1>5. out' \in [Side -> Seq(FsMessages(cmd))]
  BY <1>1, <1>3, <1>4
<1>6. net' \in [Side -> Seq(FsMessages(cmd))] /\ \A y \in Side : Len(net'[y]) <= Capacity
  <2>1. CASE UNCHANGED net
    BY <1>1, <2>1
  <2>2. ASSUME NEW q \in Prefixes(net[x]), net' = [net EXCEPT ![x] = q]
        PROVE  net' \in [Side -> Seq(FsMessages(cmd))] /\ \A y \in Side : Len(net'[y]) <= Capacity
    <3>1. q \in Seq(FsMessages(cmd)) /\ Len(q) <= Len(net[x])
      BY <1>2, <2>2, FsPrefix
    <3>2. Len(q) <= Capacity
      BY <1>1, <1>2, <3>1
    <3>3. \A y \in Side : net'[y] = IF y = x THEN q ELSE net[y]
      BY <1>1, <2>2
    <3> QED BY <1>1, <2>2, <3>1, <3>2, <3>3
  <2> QED BY <2>1, <2>2 DEF Swallow
<1>7. FsChannels'
  BY <1>5, <1>6, FsChannelStep DEF Swallow
<1> QED BY <1>7, FsQuietStep DEF Swallow

-----------------------------------------------------------------------------
(* FileSync: the steps of the service *)

\* A request that is read
LEMMA FsReceives ==
  ASSUME FsInv, Gets("service"), Consume("service")
  PROVE  /\ net' \in [Side -> Seq(FsMessages(cmd))] /\ \A y \in Side : Len(net'[y]) <= Capacity
         /\ Req \in FsMessages(cmd) /\ Req.f \in Path
         /\ (Req.id \in {"SEND", "RECV", "LSTAT", "DATA", "DENT"} => Req.f \in Files)
         /\ (Req.id = "LIST" => Req.f \in Files \cup Dirs)
         /\ (Req.id \in {"STAT", "ATTR"} /\ cmd = "pull" => Req.f \in Files \cup Dirs)
<1>1. /\ net' \in [Side -> Seq(FsMessages(cmd))] /\ \A y \in Side : Len(net'[y]) <= Capacity
      /\ Req \in FsMessages(cmd)
  BY FsSides, FsConsume DEF Req
<1> QED BY <1>1 DEF FsMessages, Message

LEMMA FsSays ==
  ASSUME FsInv, NEW f \in Path, NEW id \in {"DONE", "OKAY", "FAIL"}, Say(id, f)
  PROVE  out' \in [Side -> Seq(FsMessages(cmd))]
<1>1. Msg(id, f) \in FsMessages(cmd)
  BY FsMade
<1> QED BY <1>1, FsSides, FsSendOne DEF Say

LEMMA FsServeStat == FsInv /\ ServeStat => FsInv'
<1> SUFFICES ASSUME FsInv, ServeStat PROVE FsInv'
  OBVIOUS
<1>1. /\ net' \in [Side -> Seq(FsMessages(cmd))] /\ \A y \in Side : Len(net'[y]) <= Capacity
      /\ Req.f \in Path /\ (cmd = "pull" => Req.f \in Files \cup Dirs)
  BY FsReceives DEF ServeStat, Receives
<1>2. PICK r \in StatResult(Req.f) :
       /\ Send("service", <<[Msg("ATTR", Req.f) EXCEPT !.res = r]>>)
       /\ trouble' = (trouble \/ r = "error")
  BY DEF ServeStat
<1>3. r \in {"same", "other", "none", "error"}
  BY DEF StatResult
<1>4. [Msg("ATTR", Req.f) EXCEPT !.res = r] \in FsMessages(cmd)
  BY <1>1, <1>3, FsMade
<1>5. out' \in [Side -> Seq(FsMessages(cmd))]
  BY <1>2, <1>4, FsSides, FsSendOne
<1>6. FsChannels'
  BY <1>1, <1>5, FsChannelStep DEF ServeStat
<1>7. trouble' \in BOOLEAN
  BY <1>2 DEF FsInv, FsShared
<1>8. FsShared'
  BY <1>7 DEF FsInv, FsShared, ServeStat
<1>9. FsServiceTypes' /\ FsService'
  BY DEF FsInv, FsServiceTypes, FsService, ServeStat, service
<1> QED BY <1>6, <1>8, <1>9, FsServiceStep DEF ServeStat

LEMMA FsServeList == FsInv /\ ServeList => FsInv'
<1> SUFFICES ASSUME FsInv, ServeList PROVE FsInv'
  OBVIOUS
<1>1. /\ net' \in [Side -> Seq(FsMessages(cmd))] /\ \A y \in Side : Len(net'[y]) <= Capacity
      /\ Req.f \in Path /\ Req.f \in Files \cup Dirs
  BY FsReceives DEF ServeList, Receives
<1>2. FilesOf(Req.f) \in Seq(Files)
  BY <1>1, FsFilesOf
<1>3. /\ out' \in [Side -> Seq(FsMessages(cmd))] /\ trouble' \in BOOLEAN
      /\ rest' \in Seq(Files) /\ spc' \in {"list", "idle"}
  <2>1. CASE rest' = FilesOf(Req.f) /\ spc' = "list" /\ NoSend /\ UNCHANGED trouble
    BY <1>2, <2>1, FsNoWrite DEF NoSend, FsInv, FsShared
  <2>2. CASE Say("DONE", Req.f) /\ trouble' = TRUE /\ UNCHANGED <<rest, spc>>
    BY <1>1, <2>2, FsSays DEF FsInv, FsServiceTypes, ServeList, Receives
  <2> QED BY <2>1, <2>2 DEF ServeList
<1>4. FsChannels'
  BY <1>1, <1>3, FsChannelStep DEF ServeList
<1>5. FsShared'
  BY <1>3 DEF FsInv, FsShared, ServeList
<1>6. FsServiceTypes' /\ FsService'
  BY <1>3 DEF FsInv, FsServiceTypes, FsService, ServeList
<1> QED BY <1>4, <1>5, <1>6, FsServiceStep DEF ServeList

LEMMA FsListEntry == FsInv /\ ListEntry => FsInv'
<1> SUFFICES ASSUME FsInv, ListEntry PROVE FsInv'
  OBVIOUS
<1>1. rest \in Seq(Files) /\ Dst \in Path
  BY DEF FsInv, FsServiceTypes, Path
<1>2. /\ out' \in [Side -> Seq(FsMessages(cmd))] /\ trouble' \in BOOLEAN
      /\ rest' \in Seq(Files) /\ spc' \in {"list", "idle"}
  <2>1. CASE /\ rest # <<>> /\ rest' = Tail(rest)
             /\ Say("DENT", Head(rest))
             /\ UNCHANGED <<spc, trouble>>
    <3>1. Head(rest) \in Files /\ Tail(rest) \in Seq(Files)
      BY <1>1, <2>1
    <3>2. Msg("DENT", Head(rest)) \in FsMessages(cmd)
      BY <3>1, FsMade
    <3>3. out' \in [Side -> Seq(FsMessages(cmd))]
      BY <2>1, <3>2, FsSides, FsSendOne DEF Say
    <3> QED BY <2>1, <3>1, <3>3 DEF FsInv, FsShared, ListEntry, ServiceIdle
  <2>2. CASE /\ rest # <<>> /\ rest' = Tail(rest)
             /\ trouble' = TRUE
             /\ NoSend /\ UNCHANGED spc
    BY <1>1, <2>2, FsNoWrite DEF NoSend, ListEntry, ServiceIdle
  <2>3. CASE /\ rest = <<>>
             /\ Say("DONE", Dst) /\ spc' = "idle"
             /\ UNCHANGED <<rest, trouble>>
    BY <1>1, <2>3, FsSays DEF FsInv, FsShared
  <2> QED BY <2>1, <2>2, <2>3 DEF ListEntry
<1>3. FsChannels'
  BY <1>2, FsNoRead, FsChannelStep DEF ListEntry
<1>4. FsShared'
  BY <1>2 DEF FsInv, FsShared, ListEntry
<1>5. FsServiceTypes' /\ FsService'
  BY <1>2 DEF FsInv, FsServiceTypes, FsService, ListEntry
<1> QED BY <1>3, <1>4, <1>5, FsServiceStep DEF ListEntry

LEMMA FsDeviceFails ==
  ASSUME FsInv, NEW f \in Files, DeviceFails(f)
  PROVE  /\ out' \in [Side -> Seq(FsMessages(cmd))] /\ spc' = "drain"
         /\ failed' \subseteq Files /\ trouble' = TRUE
<1>1. f \in Path
  BY DEF Path
<1>2. out' \in [Side -> Seq(FsMessages(cmd))]
  BY <1>1, FsSays DEF DeviceFails
<1> QED BY <1>2 DEF DeviceFails, AfterFailure, FsInv, FsServiceTypes

LEMMA FsServeSend == FsInv /\ ServeSend => FsInv'
<1> SUFFICES ASSUME FsInv, ServeSend PROVE FsInv'
  OBVIOUS
<1>1. /\ net' \in [Side -> Seq(FsMessages(cmd))] /\ \A y \in Side : Len(net'[y]) <= Capacity
      /\ Req.f \in Files
  BY FsReceives DEF ServeSend, Receives
<1>2. PICK created \in {Absent, <<>>} :
       /\ remote' = [remote EXCEPT ![Req.f] = created]
       /\ \/ /\ Kind[Req.f] = "link" /\ created = Absent
             /\ spc' = "link"
             /\ NoSend /\ UNCHANGED <<failed, trouble>>
          \/ /\ Kind[Req.f] # "link" /\ created = <<>>
             /\ spc' = "file"
             /\ NoSend /\ UNCHANGED <<failed, trouble>>
          \/ Kind[Req.f] # "link" /\ DeviceFails(Req.f)
  BY DEF ServeSend
<1>3. remote' \in [Files -> Seq(Files) \cup {Absent}] /\ remote'[Req.f] = created
  <2>1. <<>> \in Seq(Files)
    OBVIOUS
  <2>2. created \in Seq(Files) \cup {Absent}
    BY <2>1
  <2>3. remote \in [Files -> Seq(Files) \cup {Absent}]
    BY DEF FsInv, FsServiceTypes
  <2> QED BY <1>1, <1>2, <2>2, <2>3
<1>4. /\ out' \in [Side -> Seq(FsMessages(cmd))] /\ trouble' \in BOOLEAN /\ failed' \subseteq Files
      /\ spc' \in {"link", "file", "drain"} /\ (spc' = "file" => created = <<>>)
  <2>1. CASE spc' = "link" /\ NoSend /\ UNCHANGED <<failed, trouble>>
    BY <2>1, FsNoWrite DEF NoSend, FsInv, FsShared, FsServiceTypes
  <2>2. CASE created = <<>> /\ spc' = "file" /\ NoSend /\ UNCHANGED <<failed, trouble>>
    BY <2>2, FsNoWrite DEF NoSend, FsInv, FsShared, FsServiceTypes
  <2>3. CASE DeviceFails(Req.f)
    BY <1>1, <2>3, FsDeviceFails
  <2> QED BY <1>2, <2>1, <2>2, <2>3
<1>5. FsChannels'
  BY <1>1, <1>4, FsChannelStep DEF ServeSend
<1>6. FsShared'
  BY <1>4 DEF FsInv, FsShared, ServeSend
<1>7. FsServiceTypes'
  BY <1>1, <1>3, <1>4 DEF FsInv, FsServiceTypes, ServeSend, Path
<1>8. FsService'
  <2>1. <<>> \in Seq(Files)
    OBVIOUS
  <2> QED BY <1>1, <1>3, <1>4, <2>1 DEF FsService, ServeSend
<1> QED BY <1>5, <1>6, <1>7, <1>8, FsServiceStep DEF ServeSend

LEMMA FsFileData == FsInv /\ FileData => FsInv'
<1> SUFFICES ASSUME FsInv, FileData PROVE FsInv'
  OBVIOUS
<1>1. /\ net' \in [Side -> Seq(FsMessages(cmd))] /\ \A y \in Side : Len(net'[y]) <= Capacity
      /\ Req.f \in Files
  BY FsReceives DEF FileData, Receives
<1>2. cur \in Files /\ remote \in [Files -> Seq(Files) \cup {Absent}] /\ remote[cur] \in Seq(Files)
      /\ spc = "file" /\ cur' = cur
  BY DEF FsInv, FsService, FsServiceTypes, FileData, Receives
<1>3. /\ out' \in [Side -> Seq(FsMessages(cmd))] /\ trouble' \in BOOLEAN /\ failed' \subseteq Files
      /\ remote' \in [Files -> Seq(Files) \cup {Absent}] /\ remote'[cur] \in Seq(Files)
      /\ spc' \in {"file", "drain"}
  <2>1. CASE /\ remote' = [remote EXCEPT ![cur] = Append(@, Req.f)]
             /\ NoSend /\ UNCHANGED <<spc, failed, trouble>>
    <3>1. PICK l \in Seq(Files) : l = Append(remote[cur], Req.f)
      <4>1. \A q \in Seq(Files), f \in Files : Append(q, f) \in Seq(Files)
        OBVIOUS
      <4> QED BY <1>1, <1>2, <4>1
    <3>2. remote' = [remote EXCEPT ![cur] = l]
      BY <2>1, <3>1
    <3>3. remote' \in [Files -> Seq(Files) \cup {Absent}] /\ remote'[cur] \in Seq(Files)
      BY <1>2, <3>1, <3>2
    <3> QED BY <1>2, <2>1, <3>3, FsNoWrite DEF NoSend, FsInv, FsShared, FsServiceTypes
  <2>2. CASE DeviceFails(cur) /\ UNCHANGED remote
    BY <1>2, <2>2, FsDeviceFails
  <2> QED BY <2>1, <2>2 DEF FileData
<1>4. FsChannels'
  BY <1>1, <1>3, FsChannelStep DEF FileData
<1>5. FsShared'
  BY <1>3 DEF FsInv, FsShared, FileData
<1>6. FsServiceTypes'
  BY <1>3 DEF FsInv, FsServiceTypes, FileData
<1>7. FsService'
  BY <1>2, <1>3 DEF FsService
<1> QED BY <1>4, <1>5, <1>6, <1>7, FsServiceStep DEF FileData

LEMMA FsFileDone == FsInv /\ FileDone => FsInv'
<1> SUFFICES ASSUME FsInv, FileDone PROVE FsInv'
  OBVIOUS
<1>1. net' \in [Side -> Seq(FsMessages(cmd))] /\ \A y \in Side : Len(net'[y]) <= Capacity
  BY FsReceives DEF FileDone, Receives
<1>2. cur \in Files /\ cur \in Path
  BY DEF FsInv, FsService, FileDone, Receives, Path
<1>3. /\ out' \in [Side -> Seq(FsMessages(cmd))] /\ trouble' \in BOOLEAN /\ failed' \subseteq Files
      /\ spc' \in {"idle", "drain"}
  <2>1. CASE Say("OKAY", cur) /\ spc' = AfterOkay /\ UNCHANGED <<failed, trouble>>
    <3>1. out' \in [Side -> Seq(FsMessages(cmd))]
      BY <1>2, <2>1, FsSays
    <3> QED BY <2>1, <3>1 DEF AfterOkay, FsInv, FsShared, FsServiceTypes
  <2>2. CASE DeviceFails(cur)
    BY <1>2, <2>2, FsDeviceFails
  <2> QED BY <2>1, <2>2 DEF FileDone
<1>4. FsChannels'
  BY <1>1, <1>3, FsChannelStep DEF FileDone
<1>5. FsShared'
  BY <1>3 DEF FsInv, FsShared, FileDone
<1>6. FsServiceTypes'
  BY <1>3 DEF FsInv, FsServiceTypes, FileDone
<1>7. FsService'
  BY <1>2, <1>3 DEF FsService, FileDone
<1> QED BY <1>4, <1>5, <1>6, <1>7, FsServiceStep DEF FileDone

LEMMA FsFileInvalid == FsInv /\ FileInvalid => FsInv'
<1> SUFFICES ASSUME FsInv, FileInvalid PROVE FsInv'
  OBVIOUS
<1>1. cur \in Path
  BY DEF FsInv, FsServiceTypes
<1>2. /\ net' \in [Side -> Seq(FsMessages(cmd))] /\ \A y \in Side : Len(net'[y]) <= Capacity
      /\ spc' \in {"abort", "drain"}
  BY FsReceives, FsNoRead DEF FileInvalid, Receives
<1>3. out' \in [Side -> Seq(FsMessages(cmd))]
  BY <1>1, FsSays, FsNoWrite DEF FileInvalid, NoSend
<1>4. FsChannels'
  BY <1>2, <1>3, FsChannelStep DEF FileInvalid
<1>5. FsShared'
  BY DEF FsInv, FsShared, FileInvalid, history
<1>6. FsServiceTypes' /\ FsService'
  BY <1>2 DEF FsInv, FsServiceTypes, FsService, FileInvalid, history
<1> QED BY <1>4, <1>5, <1>6, FsServiceStep DEF FileInvalid, history

LEMMA FsDrain == FsInv /\ Drain => FsInv'
<1> SUFFICES ASSUME FsInv, Drain PROVE FsInv'
  OBVIOUS
<1>1. net' \in [Side -> Seq(FsMessages(cmd))] /\ \A y \in Side : Len(net'[y]) <= Capacity
  BY FsReceives DEF Drain
<1>2. FsChannels'
  BY <1>1, FsNoWrite, FsChannelStep DEF Drain
<1>3. FsShared'
  BY DEF FsInv, FsShared, Drain, history
<1>4. FsServiceTypes' /\ FsService'
  <2>1. cur \in Files /\ cur' = cur /\ spc' \in {"drain", "abort"}
    BY DEF FsInv, FsService, Drain, ServiceIdle
  <2> QED BY <2>1 DEF FsInv, FsServiceTypes, FsService, Drain, history
<1> QED BY <1>2, <1>3, <1>4, FsServiceStep DEF Drain, history

\* The stream is closed
LEMMA FsCloses ==
  ASSUME FsInv, CloseStream, UNCHANGED out, UNCHANGED command
  PROVE  /\ FsChannels' /\ spc' = "closed" /\ cur' \in Path /\ rest' \in Seq(Files)
         /\ eof' \in [Side -> BOOLEAN] /\ FsService'
<1>1. /\ net \in [Side -> Seq(FsMessages(cmd))] /\ (\A y \in Side : Len(net[y]) <= Capacity)
      /\ Capacity \in Nat
  BY FileSyncAssumption DEF FsInv, FsChannels
<1>2. net' \in [Side -> Seq(FsMessages(cmd))] /\ \A y \in Side : Len(net'[y]) <= Capacity
  <2>1. CASE UNCHANGED net
    BY <1>1, <2>1
  <2>2. ASSUME NEW q \in Prefixes(net["client"]), net' = [client |-> q, service |-> <<>>]
        PROVE  net' \in [Side -> Seq(FsMessages(cmd))] /\ \A y \in Side : Len(net'[y]) <= Capacity
    <3>1. net["client"] \in Seq(FsMessages(cmd)) /\ Len(net["client"]) <= Capacity
      BY <1>1, FsSides
    <3>2. q \in Seq(FsMessages(cmd)) /\ Len(q) <= Len(net["client"])
      BY <2>2, <3>1, FsPrefix
    <3>3. Len(q) <= Capacity /\ <<>> \in Seq(FsMessages(cmd)) /\ Len(<<>>) <= Capacity
      BY <1>1, <3>1, <3>2
    <3>4. DOMAIN net' = Side /\ net'["client"] = q /\ net'["service"] = <<>>
      BY <2>2 DEF Side
    <3>5. net' = [y \in Side |-> net'[y]]
      BY <2>2, <3>4 DEF Side
    <3>6. \A y \in Side : net'[y] \in Seq(FsMessages(cmd)) /\ Len(net'[y]) <= Capacity
      BY <3>2, <3>3, <3>4 DEF Side
    <3> QED BY <3>5, <3>6
  <2> QED BY <2>1, <2>2 DEF CloseStream
<1>3. FsChannels'
  BY <1>2, FsNoWrite, FsChannelStep
<1>4. rest' \in Seq(Files) /\ cur' \in Path
  BY DEF CloseStream, Path
<1>5. eof' \in [Side -> BOOLEAN]
  BY DEF CloseStream, FsInv, FsShared
<1>6. spc' = "closed" /\ FsService'
  BY DEF CloseStream, FsService
<1> QED BY <1>3, <1>4, <1>5, <1>6

LEMMA FsAbort == FsInv /\ Abort => FsInv'
<1> SUFFICES ASSUME FsInv, Abort PROVE FsInv'
  OBVIOUS
<1>1. /\ FsChannels' /\ spc' = "closed" /\ cur' \in Path /\ rest' \in Seq(Files)
      /\ eof' \in [Side -> BOOLEAN] /\ FsService'
  BY FsCloses DEF Abort
<1>2. remote' \in [Files -> Seq(Files) \cup {Absent}]
  BY DEF Abort, Unlinked, FsInv, FsServiceTypes
<1>3. FsShared'
  BY <1>1 DEF FsInv, FsShared, Abort, history
<1>4. FsServiceTypes'
  BY <1>1, <1>2 DEF FsInv, FsServiceTypes, Abort, history
<1> QED BY <1>1, <1>3, <1>4, FsServiceStep DEF Abort, history

LEMMA FsClose == FsInv /\ Close => FsInv'
<1> SUFFICES ASSUME FsInv, Close PROVE FsInv'
  OBVIOUS
<1>1. /\ FsChannels' /\ spc' = "closed" /\ cur' \in Path /\ rest' \in Seq(Files)
      /\ eof' \in [Side -> BOOLEAN] /\ FsService'
  BY FsCloses DEF Close
<1>2. FsShared'
  BY <1>1 DEF FsInv, FsShared, Close, history
<1>3. FsServiceTypes'
  BY <1>1 DEF FsInv, FsServiceTypes, Close, history
<1> QED BY <1>1, <1>2, <1>3, FsServiceStep DEF Close, history

LEMMA FsLinkData == FsInv /\ LinkData => FsInv'
<1> SUFFICES ASSUME FsInv, LinkData PROVE FsInv'
  OBVIOUS
<1>1. net' \in [Side -> Seq(FsMessages(cmd))] /\ \A y \in Side : Len(net'[y]) <= Capacity
  BY FsReceives DEF LinkData, Receives
<1>2. cur \in Files /\ cur \in Path /\ Complete(cur) \in Seq(Files)
      /\ remote \in [Files -> Seq(Files) \cup {Absent}]
  BY FsCompletes DEF FsInv, FsService, FsServiceTypes, LinkData, Receives, Path
<1>3. /\ out' \in [Side -> Seq(FsMessages(cmd))] /\ trouble' \in BOOLEAN /\ failed' \subseteq Files
      /\ remote' \in [Files -> Seq(Files) \cup {Absent}] /\ spc' \in {"linkdone", "closing"}
  <2>1. CASE /\ remote' = [remote EXCEPT ![cur] = Complete(cur)]
             /\ spc' = "linkdone" /\ NoSend /\ UNCHANGED <<failed, trouble>>
    BY <1>2, <2>1, FsNoWrite DEF NoSend, FsInv, FsShared, FsServiceTypes
  <2>2. CASE Say("FAIL", cur) /\ spc' = "closing" /\ failed' = failed \cup {cur} /\ trouble' = TRUE /\ UNCHANGED remote
    BY <1>2, <2>2, FsSays DEF FsInv, FsServiceTypes
  <2> QED BY <2>1, <2>2 DEF LinkData
<1>4. FsChannels'
  BY <1>1, <1>3, FsChannelStep DEF LinkData
<1>5. FsShared'
  BY <1>3 DEF FsInv, FsShared, LinkData
<1>6. FsServiceTypes' /\ FsService'
  BY <1>3 DEF FsInv, FsServiceTypes, FsService, LinkData
<1> QED BY <1>4, <1>5, <1>6, FsServiceStep DEF LinkData

LEMMA FsLinkDone == FsInv /\ LinkDone => FsInv'
<1> SUFFICES ASSUME FsInv, LinkDone PROVE FsInv'
  OBVIOUS
<1>1. net' \in [Side -> Seq(FsMessages(cmd))] /\ \A y \in Side : Len(net'[y]) <= Capacity
  BY FsReceives DEF LinkDone, Receives
<1>2. cur \in Path
  BY DEF FsInv, FsServiceTypes
<1>3. out' \in [Side -> Seq(FsMessages(cmd))]
  BY <1>2, FsSays DEF LinkDone
<1>4. FsChannels'
  BY <1>1, <1>3, FsChannelStep DEF LinkDone
<1>5. FsShared'
  BY DEF FsInv, FsShared, LinkDone, history
<1>6. FsServiceTypes' /\ FsService'
  BY DEF FsInv, FsServiceTypes, FsService, LinkDone, history
<1> QED BY <1>4, <1>5, <1>6, FsServiceStep DEF LinkDone, history

LEMMA FsLinkFails == FsInv /\ LinkFails => FsInv'
<1> SUFFICES ASSUME FsInv, LinkFails PROVE FsInv'
  OBVIOUS
<1>1. cur \in Path
  BY DEF FsInv, FsServiceTypes
<1>2. net' \in [Side -> Seq(FsMessages(cmd))] /\ \A y \in Side : Len(net'[y]) <= Capacity
  BY FsReceives, FsNoRead DEF LinkFails
<1>3. out' \in [Side -> Seq(FsMessages(cmd))]
  BY <1>1, FsSays, FsNoWrite DEF LinkFails, NoSend
<1>4. FsChannels'
  BY <1>2, <1>3, FsChannelStep DEF LinkFails
<1>5. FsShared'
  BY DEF FsInv, FsShared, LinkFails, history
<1>6. FsServiceTypes' /\ FsService'
  BY DEF FsInv, FsServiceTypes, FsService, LinkFails, history
<1> QED BY <1>4, <1>5, <1>6, FsServiceStep DEF LinkFails, history

LEMMA FsServeRecv == FsInv /\ ServeRecv => FsInv'
<1> SUFFICES ASSUME FsInv, ServeRecv PROVE FsInv'
  OBVIOUS
<1>1. /\ net' \in [Side -> Seq(FsMessages(cmd))] /\ \A y \in Side : Len(net'[y]) <= Capacity
      /\ Req.f \in Files /\ Req.f \in Path
  BY FsReceives DEF ServeRecv, Receives
<1>2. remote[Req.f] # Absent => remote[Req.f] \in Seq(Files)
  BY <1>1 DEF FsInv, FsServiceTypes
<1>3. /\ out' \in [Side -> Seq(FsMessages(cmd))] /\ trouble' \in BOOLEAN
      /\ rest' \in Seq(Files) /\ cur' \in Path /\ spc' \in {"read", "closing"}
  <2>1. CASE /\ remote[Req.f] # Absent
             /\ spc' = "read" /\ cur' = Req.f /\ rest' = remote[Req.f]
             /\ NoSend /\ UNCHANGED trouble
    BY <1>1, <1>2, <2>1, FsNoWrite DEF NoSend, FsInv, FsShared
  <2>2. CASE /\ Say("FAIL", Req.f) /\ spc' = "closing" /\ trouble' = TRUE
             /\ UNCHANGED <<cur, rest>>
    BY <1>1, <2>2, FsSays DEF FsInv, FsServiceTypes
  <2> QED BY <2>1, <2>2 DEF ServeRecv
<1>4. FsChannels'
  BY <1>1, <1>3, FsChannelStep DEF ServeRecv
<1>5. FsShared'
  BY <1>3 DEF FsInv, FsShared, ServeRecv
<1>6. FsServiceTypes' /\ FsService'
  BY <1>3 DEF FsInv, FsServiceTypes, FsService, ServeRecv
<1> QED BY <1>4, <1>5, <1>6, FsServiceStep DEF ServeRecv

LEMMA FsSendChunk == FsInv /\ SendChunk => FsInv'
<1> SUFFICES ASSUME FsInv, SendChunk PROVE FsInv'
  OBVIOUS
<1>1. rest \in Seq(Files) /\ cur \in Path
  BY DEF FsInv, FsServiceTypes
<1>2. /\ out' \in [Side -> Seq(FsMessages(cmd))] /\ trouble' \in BOOLEAN
      /\ rest' \in Seq(Files) /\ spc' \in {"read", "idle", "closing"}
  <2>1. CASE /\ rest # <<>> /\ Say("DATA", Head(rest)) /\ rest' = Tail(rest)
             /\ UNCHANGED <<spc, trouble>>
    <3>1. Head(rest) \in Files /\ Tail(rest) \in Seq(Files)
      BY <1>1, <2>1
    <3>2. Msg("DATA", Head(rest)) \in FsMessages(cmd)
      BY <3>1, FsMade
    <3>3. out' \in [Side -> Seq(FsMessages(cmd))]
      BY <2>1, <3>2, FsSides, FsSendOne DEF Say
    <3> QED BY <2>1, <3>1, <3>3 DEF FsInv, FsShared, SendChunk, ServiceIdle
  <2>2. CASE Say("DONE", cur) /\ spc' = "idle" /\ UNCHANGED <<rest, trouble>>
    BY <1>1, <2>2, FsSays DEF FsInv, FsShared
  <2>3. CASE /\ Send("service", <<ReadError>>) /\ spc' = "closing" /\ rest' = <<>>
             /\ trouble' = TRUE
    <3>1. ReadError \in FsMessages(cmd)
      BY <1>1, FsMade DEF ReadError
    <3>2. out' \in [Side -> Seq(FsMessages(cmd))]
      BY <2>3, <3>1, FsSides, FsSendOne
    <3>3. rest' \in Seq(Files)
      BY <2>3
    <3> QED BY <2>3, <3>2, <3>3
  <2> QED BY <2>1, <2>2, <2>3 DEF SendChunk
<1>3. FsChannels'
  BY <1>2, FsNoRead, FsChannelStep DEF SendChunk
<1>4. FsShared'
  BY <1>2 DEF FsInv, FsShared, SendChunk
<1>5. FsServiceTypes' /\ FsService'
  BY <1>2 DEF FsInv, FsServiceTypes, FsService, SendChunk
<1> QED BY <1>3, <1>4, <1>5, FsServiceStep DEF SendChunk

LEMMA FsServeQuit == FsInv /\ ServeQuit => FsInv'
<1> SUFFICES ASSUME FsInv, ServeQuit PROVE FsInv'
  OBVIOUS
<1>1. net' \in [Side -> Seq(FsMessages(cmd))] /\ \A y \in Side : Len(net'[y]) <= Capacity
  BY FsReceives DEF ServeQuit, Receives
<1>2. FsChannels'
  BY <1>1, FsNoWrite, FsChannelStep DEF ServeQuit
<1>3. FsShared'
  BY DEF FsInv, FsShared, ServeQuit, history
<1>4. FsServiceTypes' /\ FsService'
  BY DEF FsInv, FsServiceTypes, FsService, ServeQuit, AfterQuit, history
<1> QED BY <1>2, <1>3, <1>4, FsServiceStep DEF ServeQuit, history

LEMMA FsBadRequest == FsInv /\ BadRequest => FsInv'
<1> SUFFICES ASSUME FsInv, BadRequest PROVE FsInv'
  OBVIOUS
<1>1. net' \in [Side -> Seq(FsMessages(cmd))] /\ \A y \in Side : Len(net'[y]) <= Capacity
  BY FsReceives, FsNoRead DEF BadRequest
<1>2. Dst \in Path
  BY DEF Path
<1>3. out' \in [Side -> Seq(FsMessages(cmd))]
  BY <1>2, FsSays DEF BadRequest
<1>4. FsChannels'
  BY <1>1, <1>3, FsChannelStep DEF BadRequest
<1>5. FsShared'
  BY DEF FsInv, FsShared, BadRequest, history
<1>6. FsServiceTypes' /\ FsService'
  BY DEF FsInv, FsServiceTypes, FsService, BadRequest, history
<1> QED BY <1>4, <1>5, <1>6, FsServiceStep DEF BadRequest, history

LEMMA FsServiceWriteFails == FsInv /\ ServiceWriteFails => FsInv'
<1> SUFFICES ASSUME FsInv, ServiceWriteFails PROVE FsInv'
  OBVIOUS
<1>1. <<>> \in Seq(FsMessages(cmd)) /\ <<>> \in Seq(Files)
  OBVIOUS
<1>2. out' \in [Side -> Seq(FsMessages(cmd))]
  BY <1>1, FsSides, FsSend DEF ServiceWriteFails
<1>3. FsChannels'
  BY <1>2, FsNoRead, FsChannelStep DEF ServiceWriteFails
<1>4. FsShared'
  BY DEF FsInv, FsShared, ServiceWriteFails, history
<1>5. FsServiceTypes' /\ FsService'
  BY <1>1 DEF FsInv, FsServiceTypes, FsService, ServiceWriteFails, history
<1> QED BY <1>3, <1>4, <1>5, FsServiceStep DEF ServiceWriteFails, history

-----------------------------------------------------------------------------
(* FileSync: the rest of the world *)

LEMMA FsKill == FsInv /\ Kill => FsInv'
<1> SUFFICES ASSUME FsInv, Kill PROVE FsInv'
  OBVIOUS
<1>1. /\ net \in [Side -> Seq(FsMessages(cmd))] /\ (\A y \in Side : Len(net[y]) <= Capacity)
      /\ Capacity \in Nat /\ out \in [Side -> Seq(FsMessages(cmd))]
  BY FileSyncAssumption DEF FsInv, FsChannels
<1>2. <<>> \in Seq(FsMessages(cmd)) /\ Len(<<>>) <= Capacity /\ <<>> \in Seq(Files)
      /\ <<>> \in Seq(Files \cup Dirs)
  BY <1>1
<1>3. net["service"] \in Seq(FsMessages(cmd)) /\ out["client"] \in Seq(FsMessages(cmd))
  BY <1>1, FsSides
<1>4. net' \in [Side -> Seq(FsMessages(cmd))] /\ \A y \in Side : Len(net'[y]) <= Capacity
  <2>1. CASE net' = [net EXCEPT !["client"] = <<>>]
    BY <1>1, <1>2, <2>1
  <2>2. CASE /\ out["client"] # <<>>
             /\ Len(net["service"]) < Capacity
             /\ net' = [client |-> <<>>,
                   service |-> Append(net["service"], [Head(out["client"]) EXCEPT !.half = TRUE])]
    <3>1. PICK m \in FsMessages(cmd) : m = Head(out["client"])
      BY <1>3, <2>2
    <3>2. PICK h \in FsMessages(cmd) : h = [m EXCEPT !.half = TRUE]
      BY FsMade
    <3>3. PICK q : q = Append(net["service"], h)
      OBVIOUS
    <3>4. q \in Seq(FsMessages(cmd)) /\ Len(q) <= Capacity
      BY <1>1, <1>3, <2>2, <3>3
    <3>5. net' = [client |-> <<>>, service |-> q]
      BY <2>2, <3>1, <3>2, <3>3
    <3>6. DOMAIN net' = Side /\ net'["client"] = <<>> /\ net'["service"] = q
      BY <3>5 DEF Side
    <3>7. net' = [y \in Side |-> net'[y]]
      BY <3>5, <3>6 DEF Side
    <3>8. \A y \in Side : net'[y] \in Seq(FsMessages(cmd)) /\ Len(net'[y]) <= Capacity
      BY <1>2, <3>4, <3>6 DEF Side
    <3> QED BY <3>7, <3>8
  <2> QED BY <2>1, <2>2 DEF Kill
<1>5. out' \in [Side -> Seq(FsMessages(cmd))]
  BY <1>1, <1>2 DEF Kill
<1>6. FsChannels'
  BY <1>4, <1>5, FsChannelStep DEF Kill
<1>7. FsShared'
  BY DEF FsInv, FsShared, Kill
<1>8. FsClientTypes'
  BY <1>2 DEF FsInv, FsClientTypes, Kill
<1>9. FsClient'
  BY DEF FsClient, Kill
<1> QED BY <1>6, <1>7, <1>8, <1>9, FsClientStep DEF Kill

LEMMA FsBreak == FsInv /\ Break => FsInv'
<1> SUFFICES ASSUME FsInv, Break PROVE FsInv'
  OBVIOUS
<1>1. /\ net["client"] \in Seq(FsMessages(cmd)) /\ Len(net["client"]) <= Capacity
      /\ net["service"] \in Seq(FsMessages(cmd)) /\ Len(net["service"]) <= Capacity
      /\ Capacity \in Nat
  BY FileSyncAssumption, FsSides DEF FsInv, FsChannels
<1>2. PICK c \in Cuts(net["client"]), s \in Cuts(net["service"]) :
         net' = [client |-> c, service |-> s]
  BY DEF Break
<1>3. c \in Seq(FsMessages(cmd)) /\ Len(c) <= Len(net["client"])
  BY <1>1, FsCuts
<1>4. s \in Seq(FsMessages(cmd)) /\ Len(s) <= Len(net["service"])
  BY <1>1, FsCuts
<1>5. Len(c) <= Capacity /\ Len(s) <= Capacity
  BY <1>1, <1>3, <1>4
<1>6. DOMAIN net' = Side /\ net'["client"] = c /\ net'["service"] = s
  BY <1>2 DEF Side
<1>7. net' = [y \in Side |-> net'[y]]
  BY <1>2, <1>6 DEF Side
<1>8. \A y \in Side : net'[y] \in Seq(FsMessages(cmd)) /\ Len(net'[y]) <= Capacity
  BY <1>3, <1>4, <1>5, <1>6 DEF Side
<1>9. net' \in [Side -> Seq(FsMessages(cmd))]
  BY <1>7, <1>8
<1>10. FsChannels'
  BY <1>8, <1>9, FsNoWrite, FsChannelStep DEF Break
<1>11. FsShared'
  BY DEF FsShared, Break
<1>12. FsServiceTypes' /\ FsService'
  BY DEF FsInv, FsServiceTypes, FsService, Break, service
<1> QED BY <1>10, <1>11, <1>12, FsServiceStep DEF Break

LEMMA FsInvStep == FsInv /\ [FileSyncNext]_fileSyncVars => FsInv'
<1> SUFFICES ASSUME FsInv, [FileSyncNext]_fileSyncVars PROVE FsInv'
  OBVIOUS
<1>1. CASE Client
  BY <1>1, FsSides, FsStart, FsDstStat, FsStatFault, FsNextSource, FsLstatReply, FsSendFile,
     FsLocalReadFails, FsLargeChunk, FsLargePoll, FsCopyOkay, FsCopyFails, FsSrcStat, FsDent,
     FsListDone, FsListFails, FsStatLink, FsLinkStat, FsRecvFile, FsCreat, FsRecvData,
     FsRecvFails, FsRecvDone, FsSourceDone, FsQuit, FsShutdown, FsClientWriteFails,
     FsTransmit, FsSwallow
     DEF Client
<1>2. CASE Service
  BY <1>2, FsSides, FsServeStat, FsServeList, FsListEntry, FsServeSend, FsFileData, FsFileDone,
     FsFileInvalid, FsDrain, FsAbort, FsClose, FsLinkData, FsLinkDone, FsLinkFails,
     FsServeRecv, FsSendChunk, FsServeQuit, FsBadRequest, FsServiceWriteFails,
     FsTransmit, FsSwallow
     DEF Service
<1>3. CASE UNCHANGED fileSyncVars
  <2>1. FsChannels'
    BY <1>3, FsNoRead, FsNoWrite, FsChannelStep DEF fileSyncVars
  <2> QED BY <1>3, <2>1, FsQuietStep DEF fileSyncVars
<1>4. CASE Kill \/ Break
  BY <1>4, FsKill, FsBreak
<1> QED BY <1>1, <1>2, <1>3, <1>4 DEF FileSyncNext, DrainSpins, Finished

LEMMA FsNoSeq == Absent \notin Seq(Files)
<1> SUFFICES ASSUME Absent \in Seq(Files) PROVE FALSE
  OBVIOUS
<1>1. Len(Absent) = 1 /\ Absent[1] = "absent"
  BY DEF Absent
<1>2. Absent[1] \in Files
  BY <1>1
<1> QED BY <1>1, <1>2, FileSyncAssumption

LEMMA FsRemainsInit == FileSyncInit => FsRemains
<1> SUFFICES ASSUME FileSyncInit PROVE FsRemains
  OBVIOUS
<1>1. \A f \in Files : Version(f) \in Seq(Files) /\ <<>> \in Seq(Files)
  BY FsCompletes DEF Version
<1>2. PICK same \in SUBSET Files :
        /\ remote = [f \in Files |-> IF f \in same THEN Complete(f) ELSE Absent]
        /\ \E other \in SUBSET (Outdated \ same) :
             old = [f \in Files |-> IF f \in other THEN Version(f) ELSE <<>>]
  BY DEF FileSyncInit
<1>3. PICK other \in SUBSET (Outdated \ same) :
        old = [f \in Files |-> IF f \in other THEN Version(f) ELSE <<>>]
  BY <1>2
<1> QED BY <1>1, <1>2, <1>3 DEF FsRemains, FileSyncInit

\* Only a push's service touches what is there, and only the two unlinks add to
\* what is stuck.
LEMMA FsRemainsService ==
  ASSUME FsInv, FsRemains, Service
  PROVE  FsRemains'
<1> USE DEF FsRemains
<1>0. remote \in [Files -> Seq(Files) \cup {Absent}]
  BY DEF FsInv, FsServiceTypes
<1>1. CASE ServeSend
  <2>1. Req.f \in Files
    BY <1>1, FsReceives DEF ServeSend, Receives
  <2>2. PICK created : remote' = [remote EXCEPT ![Req.f] = created]
    BY <1>1 DEF ServeSend
  <2>3. unlisted' = unlisted
    BY <1>1 DEF ServeSend
  <2>4. CASE old' = [old EXCEPT ![Req.f] = <<>>] /\ UNCHANGED stuck
    BY <1>0, <2>1, <2>2, <2>3, <2>4
  <2>5. CASE old' = [old EXCEPT ![Req.f] = Content(Req.f)] /\ stuck' = stuck \cup {Req.f}
    <3>1. Content(Req.f) \in Seq(Files)
      <4>1. old[Req.f] \in Seq(Files) /\ <<>> \in Seq(Files)
        BY <2>1
      <4>2. CASE remote[Req.f] = Absent
        BY <4>1, <4>2 DEF Content
      <4>3. CASE remote[Req.f] # Absent
        <5>1. remote[Req.f] \in Seq(Files)
          BY <1>0, <2>1, <4>3
        <5> QED BY <4>1, <4>3, <5>1 DEF Content
      <4> QED BY <4>2, <4>3
    <3> QED BY <1>0, <2>1, <2>2, <2>3, <2>5, <3>1
  <2> QED BY <1>1, <2>4, <2>5 DEF ServeSend, UnlinkFirst
<1>2. CASE FileData
  <2>1. cur \in Files /\ remote[cur] # Absent
    BY <1>2, FsNoSeq DEF FileData, Receives, FsInv, FsService
  <2>2. stuck' = stuck /\ unlisted' = unlisted
    BY <1>2 DEF FileData
  <2>3. CASE UNCHANGED <<remote, old>>
    BY <2>2, <2>3
  <2>4. CASE /\ remote' = [remote EXCEPT ![cur] = Append(@, Req.f)]
             /\ old' = [old EXCEPT ![cur] = IF @ = <<>> THEN @ ELSE Tail(@)]
    <3>1. PICK o : o = IF old[cur] = <<>> THEN old[cur] ELSE Tail(old[cur])
      OBVIOUS
    <3>2. o \in Seq(Files) /\ (old[cur] = <<>> => o = <<>>)
      BY <2>1, <3>1
    <3>3. old' = [old EXCEPT ![cur] = o]
      BY <2>4, <3>1
    <3> QED BY <1>0, <2>1, <2>2, <2>4, <3>2, <3>3
  <2> QED BY <1>2, <2>3, <2>4 DEF FileData
<1>3. CASE Abort
  <2>1. cur \in Files /\ unlisted' = unlisted
    BY <1>3 DEF Abort, ServiceIdle, FsInv, FsService
  <2>2. CASE remote' = Unlinked /\ old' = [old EXCEPT ![cur] = <<>>] /\ UNCHANGED stuck
    BY <1>0, <2>1, <2>2 DEF Unlinked
  <2>3. CASE stuck' = stuck \cup {cur} /\ UNCHANGED <<remote, old>>
    BY <2>1, <2>3
  <2> QED BY <1>3, <2>2, <2>3 DEF Abort
<1>4. CASE LinkData
  <2>1. cur \in Files
    BY <1>4 DEF LinkData, Receives, FsInv, FsService
  <2>2. UNCHANGED remains
    BY <1>4 DEF LinkData
  <2>3. CASE UNCHANGED remote
    BY <2>2, <2>3 DEF remains
  <2>4. CASE old[cur] = <<>> /\ remote' = [remote EXCEPT ![cur] = Complete(cur)]
    BY <1>0, <2>1, <2>2, <2>4 DEF remains
  <2> QED BY <1>4, <2>3, <2>4 DEF LinkData
<1>5. CASE UNCHANGED <<remote, remains>>
  BY <1>5 DEF remains
<1>6. ServeStat \/ ServeList \/ ListEntry \/ FileDone \/ FileInvalid \/ Drain => UNCHANGED <<remote, remains>>
  BY DEF ServeStat, ServeList, ListEntry, FileDone, FileInvalid, Drain, service
<1>7. Close \/ LinkDone \/ LinkFails \/ ServeRecv \/ SendChunk \/ ServeQuit => UNCHANGED <<remote, remains>>
  BY DEF Close, LinkDone, LinkFails, ServeRecv, SendChunk, ServeQuit, service
<1>8. BadRequest \/ ServiceWriteFails \/ Transmit("service") \/ Swallow("service") => UNCHANGED <<remote, remains>>
  BY DEF BadRequest, ServiceWriteFails, Transmit, Swallow, service
<1> QED BY <1>1, <1>2, <1>3, <1>4, <1>5, <1>6, <1>7, <1>8 DEF Service

LEMMA FsRemainsClient ==
  ASSUME FsInv, FsRemains, Client
  PROVE  FsRemains'
<1> USE DEF FsRemains
<1>1. CASE NextSource
  <2>1. old' = old /\ stuck' = stuck /\ remote' = remote
    BY <1>1 DEF NextSource, service
  <2>2. unlisted' \subseteq Files
    <3>1. Head(srcs) \in Files \cup Dirs
      BY <1>1 DEF NextSource, FsInv, FsClientTypes
    <3>2. ToSet(FilesOf(Head(srcs))) \subseteq Files
      BY <3>1, FsFilesOf DEF ToSet
    <3> QED BY <1>1, <3>2 DEF NextSource
  <2> QED BY <2>1, <2>2
<1>2. CASE RecvFails
  <2>1. old' = old /\ unlisted' = unlisted /\ remote' = remote
    BY <1>2 DEF RecvFails, service
  <2>2. Head(files) \in Files
    BY <1>2 DEF RecvFails, ClientIdle, FsInv, FsClient, FsClientTypes
  <2>3. stuck' = stuck \/ stuck' = stuck \cup {Head(files)}
    BY <1>2 DEF RecvFails
  <2> QED BY <2>1, <2>2, <2>3
<1>3. CASE UNCHANGED <<remote, remains>>
  BY <1>3 DEF remains
<1>4. Start \/ DstStat \/ StatFault \/ LstatReply \/ SendFile \/ LocalReadFails \/ LargeChunk \/ LargePoll => UNCHANGED <<remote, remains>>
  BY DEF Start, DstStat, StatFault, LstatReply, SendFile, LocalReadFails, LargeChunk, LargePoll, service
<1>5. CopyOkay \/ CopyFails \/ SrcStat \/ Dent \/ ListDone \/ ListFails \/ StatLink \/ LinkStat => UNCHANGED <<remote, remains>>
  BY DEF CopyOkay, CopyFails, SrcStat, Dent, ListDone, ListFails, StatLink, LinkStat, service
<1>6. RecvFile \/ Creat \/ RecvData \/ RecvDone \/ SourceDone \/ Quit \/ Shutdown => UNCHANGED <<remote, remains>>
  BY DEF RecvFile, Creat, RecvData, RecvDone, SourceDone, Quit, Shutdown, service
<1>7. ClientWriteFails \/ Transmit("client") \/ Swallow("client") => UNCHANGED <<remote, remains>>
  BY DEF ClientWriteFails, Transmit, Swallow, service
<1> QED BY <1>1, <1>2, <1>3, <1>4, <1>5, <1>6, <1>7 DEF Client

LEMMA FsRemainsStep == ASSUME FsInv, FsRemains, [FileSyncNext]_fileSyncVars PROVE FsRemains'
<1>1. Kill \/ Break \/ UNCHANGED fileSyncVars => UNCHANGED <<remote, remains>>
  BY DEF Kill, Break, service, fileSyncVars
<1>2. CASE UNCHANGED <<remote, remains>>
  BY <1>2 DEF FsRemains, remains
<1> QED BY <1>1, <1>2, FsRemainsService, FsRemainsClient DEF FileSyncNext, DrainSpins, Finished

\* The state of a transfer keeps its type: what file_sync_client.cpp and
\* file_sync_service.cpp send each other, the queues of both directions within
\* the capacity of the stream, and the files on both sides.
THEOREM FileSyncTypeCorrect == FileSyncSpec => []FileSyncTypeOK
<1>1. FileSyncSpec => [](FsInv /\ FsRemains)
  BY FsInvInit, FsInvStep, FsRemainsInit, FsRemainsStep, PTL DEF FileSyncSpec
<1> QED BY <1>1, FsInvTyped, PTL

-----------------------------------------------------------------------------
(* FileSync: the conversation *)

\* What will reach the service and the client, if nothing is lost: a write to
\* a stream that has ended gets nowhere.
ToService == net["service"] \o (IF eof["client"] THEN <<>> ELSE out["client"])
ToClient == net["client"] \o (IF eof["service"] THEN <<>> ELSE out["service"])

\* q is what is left of s: its end, or the payload of its last message, is lost.
Shorter(q, s) ==
  /\ Len(q) <= Len(s)
  /\ \A n \in 1..Len(q) : q[n].id = s[n].id /\ q[n].f = s[n].f /\ q[n].res = s[n].res

LEMMA FsViews ==
  ASSUME FsInv
  PROVE  /\ net["service"] \in Seq(FsMessages(cmd)) /\ out["service"] \in Seq(FsMessages(cmd))
         /\ net["client"] \in Seq(FsMessages(cmd)) /\ out["client"] \in Seq(FsMessages(cmd))
         /\ ToService \in Seq(FsMessages(cmd)) /\ ToClient \in Seq(FsMessages(cmd))
         /\ <<>> \in Seq(FsMessages(cmd))
<1>1. net["service"] \in Seq(FsMessages(cmd)) /\ out["service"] \in Seq(FsMessages(cmd))
      /\ net["client"] \in Seq(FsMessages(cmd)) /\ out["client"] \in Seq(FsMessages(cmd))
  BY FsSides DEF FsInv, FsChannels
<1>2. <<>> \in Seq(FsMessages(cmd))
  OBVIOUS
<1> QED BY <1>1, <1>2 DEF ToService, ToClient

\* A message is read.
LEMMA FsReads ==
  ASSUME FsInv, NEW x \in Side, Gets(x), Consume(x), UNCHANGED out, UNCHANGED eof
  PROVE  /\ x = "client" => /\ ToClient # <<>> /\ Head(net[x]) = ToClient[1] /\ ToClient' = Tail(ToClient)
                            /\ ToService' = ToService
         /\ x = "service" => /\ ToService # <<>> /\ Head(net[x]) = ToService[1]
                             /\ ToService' = Tail(ToService) /\ ToClient' = ToClient
<1>1. net \in [Side -> Seq(FsMessages(cmd))] /\ net[x] \in Seq(FsMessages(cmd)) /\ net[x] # <<>>
  BY DEF FsInv, FsChannels, Gets
<1>2. net' = [net EXCEPT ![x] = Tail(net[x])]
  BY DEF Consume
<1>3. ASSUME NEW s \in Seq(FsMessages(cmd))
      PROVE  /\ net[x] \o s # <<>> /\ Head(net[x]) = (net[x] \o s)[1]
             /\ Tail(net[x]) \o s = Tail(net[x] \o s)
  BY <1>1
<1>4. CASE x = "client"
  <2>1. net'["client"] = Tail(net["client"]) /\ net'["service"] = net["service"]
    BY <1>1, <1>2, <1>4, FsSides
  <2>2. PICK s \in Seq(FsMessages(cmd)) : s = IF eof["service"] THEN <<>> ELSE out["service"]
    BY FsViews
  <2>3. ToClient = net["client"] \o s /\ ToClient' = net'["client"] \o s
    BY <2>2 DEF ToClient
  <2>4. ToService' = ToService
    BY <2>1 DEF ToService
  <2> QED BY <1>3, <1>4, <2>1, <2>3, <2>4
<1>5. CASE x = "service"
  <2>1. net'["service"] = Tail(net["service"]) /\ net'["client"] = net["client"]
    BY <1>1, <1>2, <1>5, FsSides
  <2>2. PICK s \in Seq(FsMessages(cmd)) : s = IF eof["client"] THEN <<>> ELSE out["client"]
    BY FsViews
  <2>3. ToService = net["service"] \o s /\ ToService' = net'["service"] \o s
    BY <2>2 DEF ToService
  <2>4. ToClient' = ToClient
    BY <2>1 DEF ToClient
  <2> QED BY <1>3, <1>5, <2>1, <2>3, <2>4
<1> QED BY <1>4, <1>5 DEF Side

\* Messages are written.
LEMMA FsWrites ==
  ASSUME FsInv, NEW x \in Side, NEW msgs \in Seq(FsMessages(cmd)), out[x] = <<>>, Send(x, msgs), UNCHANGED net, UNCHANGED eof
  PROVE  /\ x = "client" => /\ ToService' = IF eof["client"] THEN ToService ELSE ToService \o msgs
                            /\ ToClient' = ToClient
         /\ x = "service" => /\ ToClient' = IF eof["service"] THEN ToClient ELSE ToClient \o msgs
                             /\ ToService' = ToService
<1>1. out \in [Side -> Seq(FsMessages(cmd))] /\ out' = [out EXCEPT ![x] = msgs]
  BY DEF FsInv, FsChannels, Send
<1>2. \A s \in Seq(FsMessages(cmd)) : s \o <<>> = s
  OBVIOUS
<1>3. CASE x = "client"
  BY <1>1, <1>2, <1>3, FsSides, FsViews DEF ToService, ToClient
<1>4. CASE x = "service"
  BY <1>1, <1>2, <1>4, FsSides, FsViews DEF ToService, ToClient
<1> QED BY <1>3, <1>4 DEF Side

\* A message is read and answered.
LEMMA FsAnswers ==
  ASSUME FsInv, NEW x \in Side, NEW msgs \in Seq(FsMessages(cmd)), Gets(x), Consume(x), Send(x, msgs), UNCHANGED eof
  PROVE  /\ x = "client" => /\ ToClient # <<>> /\ Head(net[x]) = ToClient[1] /\ ToClient' = Tail(ToClient)
                            /\ ToService' = IF eof["client"] THEN ToService ELSE ToService \o msgs
         /\ x = "service" => /\ ToService # <<>> /\ Head(net[x]) = ToService[1]
                             /\ ToService' = Tail(ToService)
                             /\ ToClient' = IF eof["service"] THEN ToClient ELSE ToClient \o msgs
<1>1. out \in [Side -> Seq(FsMessages(cmd))] /\ out' = [out EXCEPT ![x] = msgs] /\ out[x] = <<>>
      /\ net \in [Side -> Seq(FsMessages(cmd))] /\ net[x] \in Seq(FsMessages(cmd)) /\ net[x] # <<>>
      /\ net' = [net EXCEPT ![x] = Tail(net[x])]
  BY DEF FsInv, FsChannels, Send, Gets, Consume
<1>2. \A s \in Seq(FsMessages(cmd)) : s \o <<>> = s
  OBVIOUS
<1>3. ASSUME NEW s \in Seq(FsMessages(cmd))
      PROVE  /\ net[x] \o s # <<>> /\ Head(net[x]) = (net[x] \o s)[1]
             /\ Tail(net[x]) \o s = Tail(net[x] \o s)
  <2>1. PICK q \in Seq(FsMessages(cmd)) : q = net[x] /\ q # <<>>
    BY <1>1
  <2>2. q \o s # <<>> /\ Head(q) = (q \o s)[1]
    BY <2>1
  <2>3. Tail(q) \o s = Tail(q \o s)
    BY <2>1, SMTT(30)
  <2> QED BY <2>1, <2>2, <2>3
<1>4. CASE x = "client"
  <2>1. net'["client"] = Tail(net["client"]) /\ net'["service"] = net["service"]
        /\ out'["client"] = msgs /\ out'["service"] = out["service"]
    BY <1>1, <1>4, FsSides
  <2>2. PICK s \in Seq(FsMessages(cmd)) : s = IF eof["service"] THEN <<>> ELSE out["service"]
    BY FsViews
  <2>3. ToClient = net["client"] \o s /\ ToClient' = net'["client"] \o s
    BY <2>1, <2>2 DEF ToClient
  <2>4. ToService = net["service"]
    BY <1>1, <1>2, <1>4, FsViews DEF ToService
  <2>5. ToService' = IF eof["client"] THEN ToService ELSE ToService \o msgs
    BY <1>2, <2>1, <2>4, FsViews DEF ToService
  <2> QED BY <1>3, <1>4, <2>1, <2>3, <2>5
<1>5. CASE x = "service"
  <2>1. net'["service"] = Tail(net["service"]) /\ net'["client"] = net["client"]
        /\ out'["service"] = msgs /\ out'["client"] = out["client"]
    BY <1>1, <1>5, FsSides
  <2>2. PICK s \in Seq(FsMessages(cmd)) : s = IF eof["client"] THEN <<>> ELSE out["client"]
    BY FsViews
  <2>3. ToService = net["service"] \o s /\ ToService' = net'["service"] \o s
    BY <2>1, <2>2 DEF ToService
  <2>4. ToClient = net["client"]
    BY <1>1, <1>2, <1>5, FsViews DEF ToClient
  <2>5. ToClient' = IF eof["service"] THEN ToClient ELSE ToClient \o msgs
    BY <1>2, <2>1, <2>4, FsViews DEF ToClient
  <2> QED BY <1>3, <1>5, <2>1, <2>3, <2>5
<1> QED BY <1>4, <1>5 DEF Side

\* Nothing is read or written.
LEMMA FsStill ==
  ASSUME UNCHANGED net, UNCHANGED out, UNCHANGED eof
  PROVE  ToService' = ToService /\ ToClient' = ToClient
BY DEF ToService, ToClient

\* What is left of a channel.
LEMMA FsCutShorter ==
  ASSUME NEW c, NEW s \in Seq(FsMessages(c)), NEW t \in Seq(FsMessages(c)), NEW q \in Cuts(s)
  PROVE  Shorter(q, s \o t)
<1>1. ASSUME NEW p \in Prefixes(s)
      PROVE  /\ p \in Seq(FsMessages(c)) /\ Len(p) <= Len(s)
             /\ \A n \in 1..Len(p) : p[n] = s[n] /\ p[n] \in FsMessages(c)
  BY <1>1 DEF Prefixes
<1>2. \A n \in 1..Len(s) : (s \o t)[n] = s[n]
  OBVIOUS
<1>3. Len(s) <= Len(s \o t)
  OBVIOUS
<1>4. CASE q \in Prefixes(s)
  <2>1. Len(q) \in Nat /\ Len(s) \in Nat /\ Len(s \o t) \in Nat
    BY <1>1, <1>4
  <2> QED BY <1>1, <1>2, <1>3, <1>4, <2>1 DEF Shorter
<1>5. CASE q \notin Prefixes(s)
  <2>1. PICK p \in Prefixes(s) : p # <<>> /\ q = [p EXCEPT ![Len(p)].half = TRUE]
    BY <1>5 DEF Cuts
  <2>2. p \in Seq(FsMessages(c)) /\ Len(p) <= Len(s) /\ Len(p) \in 1..Len(p) /\ p[Len(p)] \in FsMessages(c)
    BY <1>1, <2>1
  <2>3. PICK e : e = [p[Len(p)] EXCEPT !.half = TRUE]
    OBVIOUS
  <2>4. e.id = p[Len(p)].id /\ e.f = p[Len(p)].f /\ e.res = p[Len(p)].res /\ e \in FsMessages(c)
    <3>1. e \in FsMessages(c)
      BY <2>2, <2>3, FsMade
    <3> QED BY <2>2, <2>3, <3>1 DEF FsMessages, Message
  <2>5. q = [p EXCEPT ![Len(p)] = e]
    BY <2>1, <2>2, <2>3
  <2>6. Len(q) = Len(p) /\ \A n \in 1..Len(p) : q[n] = IF n = Len(p) THEN e ELSE p[n]
    BY <2>2, <2>4, <2>5
  <2>7. Len(p) \in Nat /\ Len(s) \in Nat /\ Len(s \o t) \in Nat
    BY <2>2
  <2>8. \A n \in 1..Len(q) : q[n].id = s[n].id /\ q[n].f = s[n].f /\ q[n].res = s[n].res
    BY <1>1, <2>4, <2>6
  <2> QED BY <1>2, <1>3, <2>2, <2>6, <2>7, <2>8 DEF Shorter
<1> QED BY <1>4, <1>5

LEMMA FsPrefixShorter ==
  ASSUME NEW c, NEW s \in Seq(FsMessages(c)), NEW t \in Seq(FsMessages(c)), NEW q \in Prefixes(s)
  PROVE  Shorter(q, s \o t) /\ \A n \in 1..Len(q) : q[n] = s[n]
<1>1. q \in Cuts(s)
  BY DEF Cuts
<1>2. \A n \in 1..Len(q) : q[n] = s[n]
  BY DEF Prefixes
<1> QED BY <1>1, <1>2, FsCutShorter

\* Who is gone, and who is not writing.
FsGone ==
  /\ eof["client"] <=> (cut \/ spc = "closed")
  /\ eof["service"] <=> (cut \/ ~Running)
  /\ spc = "closed" => out["service"] = <<>> /\ net["service"] = <<>>
  /\ ~Running => out["client"] = <<>> /\ net["client"] = <<>>
  /\ spc \in {"file", "link", "linkdone"} => out["service"] = <<>>
  /\ cpc \in {"next", "send", "quit", "start", "links", "recv", "recvdata"} => out["client"] = <<>>

\* The channels of the other side.
LEMMA FsOwnEnd ==
  ASSUME FsInv
  PROVE  /\ Consume("client") => net'["service"] = net["service"]
         /\ Consume("service") => net'["client"] = net["client"]
         /\ \A m : Send("client", m) => out'["service"] = out["service"] /\ out'["client"] = m
         /\ \A m : Send("service", m) => out'["client"] = out["client"] /\ out'["service"] = m
<1>1. net \in [Side -> Seq(FsMessages(cmd))] /\ out \in [Side -> Seq(FsMessages(cmd))]
  BY DEF FsInv, FsChannels
<1> QED BY <1>1, FsSides DEF Consume, Send

\* A step of the running client that leaves it running, and of the service
\* that does not close the stream.
LEMMA FsClientStays ==
  ASSUME FsGone, UNCHANGED <<spc, eof, cut>>, Running, Running',
         net'["service"] = net["service"], out'["service"] = out["service"],
         cpc' \in {"next", "send", "quit", "start", "links", "recv", "recvdata"} => out'["client"] = <<>>
  PROVE  FsGone'
BY DEF FsGone

LEMMA FsServiceStays ==
  ASSUME FsGone, UNCHANGED <<cpc, eof, cut>>, spc # "closed", spc' # "closed",
         net'["client"] = net["client"], out'["client"] = out["client"],
         spc' \in {"file", "link", "linkdone"} => out'["service"] = <<>>
  PROVE  FsGone'
BY DEF FsGone, Running

LEMMA FsGoneClient ==
  ASSUME FsInv, FsGone,
         \/ Start \/ DstStat \/ NextSource \/ LstatReply
         \/ SendFile \/ LocalReadFails \/ LargeChunk \/ LargePoll \/ CopyOkay \/ CopyFails
         \/ SrcStat \/ Dent \/ ListDone \/ ListFails \/ StatLink \/ LinkStat
         \/ RecvFile \/ Creat \/ RecvData \/ RecvFails \/ RecvDone
         \/ SourceDone \/ Quit
  PROVE  FsGone'
<1> USE DEF ClientIdle, Running, GiveUp, NoSend, service, history
<1>1. UNCHANGED <<spc, eof, cut>> /\ Running
  BY DEF Start, DstStat, NextSource, LstatReply, SendFile, LocalReadFails, LargeChunk, LargePoll, CopyOkay,
         CopyFails, SrcStat, Dent, ListDone, ListFails, StatLink, LinkStat, RecvFile, Creat, RecvData,
         RecvFails, RecvDone, SourceDone, Quit
<1>2. Running'
  BY DEF Start, DstStat, NextSource, LstatReply, SendFile, LocalReadFails, LargeChunk, LargePoll, CopyOkay,
         CopyFails, SrcStat, Dent, ListDone, ListFails, StatLink, LinkStat, RecvFile, Creat, RecvData,
         RecvFails, RecvDone, SourceDone, Quit
<1>3. net'["service"] = net["service"]
  <2>1. Consume("client") \/ UNCHANGED net
    BY DEF Start, DstStat, NextSource, LstatReply, SendFile, LocalReadFails, LargeChunk, LargePoll, CopyOkay,
         CopyFails, SrcStat, Dent, ListDone, ListFails, StatLink, LinkStat, RecvFile, Creat, RecvData,
         RecvFails, RecvDone, SourceDone, Quit
  <2> QED BY <2>1, FsOwnEnd
<1>4. out'["service"] = out["service"]
  <2>1. (\E m : Send("client", m)) \/ UNCHANGED out
    BY DEF Start, DstStat, NextSource, LstatReply, SendFile, LocalReadFails, LargeChunk, LargePoll, CopyOkay,
         CopyFails, SrcStat, Dent, ListDone, ListFails, StatLink, LinkStat, RecvFile, Creat, RecvData,
         RecvFails, RecvDone, SourceDone, Quit
  <2> QED BY <2>1, FsOwnEnd
<1>5. cpc' \in {"next", "send", "quit", "start", "links", "recv", "recvdata"} => out'["client"] = <<>>
  <2>1. cpc' \in {"next", "send", "quit", "start", "links", "recv", "recvdata"} => out["client"] = <<>> /\ UNCHANGED out
    BY DEF Start, DstStat, NextSource, LstatReply, SendFile, LocalReadFails, LargeChunk, LargePoll, CopyOkay,
         CopyFails, SrcStat, Dent, ListDone, ListFails, StatLink, LinkStat, RecvFile, Creat, RecvData,
         RecvFails, RecvDone, SourceDone, Quit
  <2> QED BY <2>1
<1> QED BY <1>1, <1>2, <1>3, <1>4, <1>5, FsClientStays

LEMMA FsGoneService ==
  ASSUME FsInv, FsGone,
         \/ ServeStat \/ ServeList \/ ListEntry \/ ServeSend \/ FileData \/ FileDone \/ FileInvalid
         \/ Drain \/ LinkData \/ LinkDone \/ LinkFails
         \/ ServeRecv \/ SendChunk \/ ServeQuit \/ BadRequest \/ ServiceWriteFails
  PROVE  FsGone'
<1> USE DEF ServiceIdle, Receives, Say, NoSend, service, client, history, DeviceFails, AfterFailure, AfterOkay,
            AfterQuit
<1>1. UNCHANGED <<cpc, eof, cut>>
  BY DEF ServeStat, ServeList, ListEntry, ServeSend, FileData, FileDone, FileInvalid, Drain, LinkData, LinkDone,
         LinkFails, ServeRecv, SendChunk, ServeQuit, BadRequest, ServiceWriteFails
<1>2. spc # "closed" /\ spc' # "closed"
  <2>1. CASE ServiceWriteFails
    BY <2>1 DEF ServiceWriteFails, FsGone
  <2> QED
    BY <2>1 DEF ServeStat, ServeList, ListEntry, ServeSend, FileData, FileDone, FileInvalid, Drain, LinkData,
         LinkDone, LinkFails, ServeRecv, SendChunk, ServeQuit, BadRequest
<1>3. net'["client"] = net["client"]
  <2>1. Consume("service") \/ UNCHANGED net
    BY DEF ServeStat, ServeList, ListEntry, ServeSend, FileData, FileDone, FileInvalid, Drain, LinkData, LinkDone,
         LinkFails, ServeRecv, SendChunk, ServeQuit, BadRequest, ServiceWriteFails
  <2> QED BY <2>1, FsOwnEnd
<1>4. out'["client"] = out["client"]
  <2>1. (\E m : Send("service", m)) \/ UNCHANGED out
    BY DEF ServeStat, ServeList, ListEntry, ServeSend, FileData, FileDone, FileInvalid, Drain, LinkData, LinkDone,
         LinkFails, ServeRecv, SendChunk, ServeQuit, BadRequest, ServiceWriteFails
  <2> QED BY <2>1, FsOwnEnd
<1>5. spc' \in {"file", "link", "linkdone"} => out'["service"] = <<>>
  <2>1. spc' \in {"file", "link", "linkdone"} => out["service"] = <<>> /\ UNCHANGED out
    BY DEF ServeStat, ServeList, ListEntry, ServeSend, FileData, FileDone, FileInvalid, Drain, LinkData, LinkDone,
         LinkFails, ServeRecv, SendChunk, ServeQuit, BadRequest, ServiceWriteFails, Gets
  <2> QED BY <2>1
<1> QED BY <1>1, <1>2, <1>3, <1>4, <1>5, FsServiceStays

\* The client ends.
LEMMA FsClientGone ==
  ASSUME FsInv, FsGone, NEW pc \in {"done", "dead"}, ClientEnds(pc), UNCHANGED <<spc, cut>>, Running
  PROVE  FsGone' /\ ToClient' = <<>> /\ ToService' = net["service"]
<1>1. net \in [Side -> Seq(FsMessages(cmd))] /\ out \in [Side -> Seq(FsMessages(cmd))] /\ eof \in [Side -> BOOLEAN]
  BY DEF FsInv, FsChannels, FsShared
<1>2. /\ net'["client"] = <<>> /\ net'["service"] = net["service"]
      /\ out'["client"] = <<>> /\ out'["service"] = out["service"]
      /\ eof'["service"] = TRUE /\ eof'["client"] = eof["client"] /\ cpc' = pc
  BY <1>1, FsSides DEF ClientEnds
<1>3. FsGone'
  BY <1>2 DEF FsGone, Running
<1>4. \A s \in Seq(FsMessages(cmd)) : s \o <<>> = s
  OBVIOUS
<1>5. ToClient' = <<>>
  BY <1>2 DEF ToClient
<1>6. ToService' = net["service"]
  BY <1>2, <1>4, FsViews DEF ToService
<1> QED BY <1>3, <1>5, <1>6

LEMMA FsNetShorter ==
  ASSUME FsInv
  PROVE  Shorter(net["service"], ToService) /\ Shorter(net["client"], ToClient)
<1>1. ASSUME NEW s \in Seq(FsMessages(cmd)), NEW t \in Seq(FsMessages(cmd)) PROVE Shorter(s, s \o t)
  <2>1. \A n \in 1..Len(s) : (s \o t)[n] = s[n]
    OBVIOUS
  <2>2. Len(s) <= Len(s \o t)
    OBVIOUS
  <2> QED BY <2>1, <2>2 DEF Shorter
<1> QED BY <1>1, FsViews DEF ToService, ToClient

\* The service closes the stream.
LEMMA FsClosed ==
  ASSUME FsInv, FsGone, CloseStream, UNCHANGED <<cpc, cut, out>>, out["service"] = <<>>
  PROVE  /\ FsGone' /\ ToService' = <<>> /\ Shorter(ToClient', ToClient)
         /\ \A n \in 1..Len(ToClient') : ToClient'[n] = ToClient[n]
         /\ net["service"] = <<>> => ToClient' = ToClient
<1>1. net \in [Side -> Seq(FsMessages(cmd))] /\ out \in [Side -> Seq(FsMessages(cmd))] /\ eof \in [Side -> BOOLEAN]
  BY DEF FsInv, FsChannels, FsShared
<1>2. /\ net'["service"] = <<>> /\ net'["client"] \in Prefixes(net["client"])
      /\ net["service"] = <<>> => net'["client"] = net["client"]
  <2>1. CASE net["service"] = <<>>
    <3>1. net["client"] \in Prefixes(net["client"])
      BY FsViews DEF Prefixes
    <3> QED BY <2>1, <3>1 DEF CloseStream
  <2>2. CASE net["service"] # <<>>
    BY <2>2 DEF CloseStream
  <2> QED BY <2>1, <2>2
<1>3. eof'["client"] = TRUE /\ eof'["service"] = eof["service"] /\ spc' = "closed"
  BY <1>1, FsSides DEF CloseStream
<1>4. \A s \in Seq(FsMessages(cmd)) : s \o <<>> = s
  OBVIOUS
<1>5. ToService' = <<>>
  BY <1>2, <1>3 DEF ToService
<1>6. ToClient = net["client"]
  BY <1>4, FsViews DEF ToClient
<1>7. net'["client"] \in Seq(FsMessages(cmd))
  BY <1>2, FsPrefix, FsViews
<1>8. ToClient' = net'["client"]
  BY <1>3, <1>4, <1>7 DEF ToClient
<1>9. net["client"] \o <<>> = net["client"]
  BY FsViews
<1>10. Shorter(ToClient', ToClient) /\ \A n \in 1..Len(ToClient') : ToClient'[n] = ToClient[n]
  <2>1. Shorter(net'["client"], net["client"] \o <<>>) /\ \A n \in 1..Len(net'["client"]) : net'["client"][n] = net["client"][n]
    BY <1>2, FsViews, FsPrefixShorter
  <2> QED BY <1>6, <1>8, <1>9, <2>1
<1>11. FsGone'
  <2>1. ~Running => net'["client"] = <<>>
    <3> SUFFICES ASSUME ~Running PROVE net'["client"] = <<>>
      OBVIOUS
    <3>1. net["client"] = <<>>
      BY DEF FsGone
    <3>2. Len(net'["client"]) <= Len(net["client"])
      BY <1>2, FsPrefix, FsViews
    <3> QED BY <1>7, <3>1, <3>2
  <2>2. Running' <=> Running
    BY DEF Running
  <2> QED BY <1>2, <1>3, <2>1, <2>2 DEF FsGone
<1> QED BY <1>2, <1>5, <1>6, <1>8, <1>10, <1>11

\* A write to a stream that has ended.
LEMMA FsSwallowed ==
  ASSUME FsInv, FsGone, NEW x \in Side, Swallow(x)
  PROVE  /\ FsGone' /\ ToService' = ToService /\ Shorter(ToClient', ToClient)
         /\ \A n \in 1..Len(ToClient') : ToClient'[n] = ToClient[n]
         /\ x = "service" => ToClient' = ToClient
<1>1. net \in [Side -> Seq(FsMessages(cmd))] /\ out \in [Side -> Seq(FsMessages(cmd))]
  BY DEF FsInv, FsChannels
<1>2. \A s \in Seq(FsMessages(cmd)) : s \o <<>> = s
  OBVIOUS
<1>3. eof' = eof /\ cut' = cut /\ spc' = spc /\ cpc' = cpc
  BY DEF Swallow, service, client
<1>4. CASE x = "client"
  <2>1. PICK q \in Prefixes(net["client"]) : net' = [net EXCEPT !["client"] = q]
    BY <1>4 DEF Swallow
  <2>2. net'["service"] = net["service"] /\ net'["client"] = q /\ out'["service"] = out["service"]
    BY <1>1, <1>4, <2>1, FsSides DEF Swallow
  <2>3. eof["client"] /\ out["client"] # <<>>
    BY <1>4 DEF Swallow
  <2>4. eof["service"] \/ out["service"] = <<>>
    BY <2>3 DEF FsGone
  <2>5. ToService' = ToService
    BY <1>3, <2>2, <2>3 DEF ToService
  <2>6. q \in Seq(FsMessages(cmd))
    BY FsPrefix, FsViews
  <2>7. ToClient = net["client"] /\ ToClient' = q
    BY <1>2, <1>3, <2>2, <2>4, <2>6, FsViews DEF ToClient
  <2>8. net["client"] \o <<>> = net["client"]
    BY FsViews
  <2>9. Shorter(ToClient', ToClient) /\ \A n \in 1..Len(ToClient') : ToClient'[n] = ToClient[n]
    <3>1. Shorter(q, net["client"] \o <<>>) /\ \A n \in 1..Len(q) : q[n] = net["client"][n]
      BY FsViews, FsPrefixShorter
    <3> QED BY <2>7, <2>8, <3>1
  <2>10. Running /\ Running'
    BY <1>3, <2>3 DEF FsGone, Running
  <2>11. FsGone'
    BY <1>3, <2>2, <2>3, <2>10, FsClientStays DEF FsGone
  <2> QED BY <1>4, <2>5, <2>9, <2>11
<1>5. CASE x = "service"
  <2>1. net' = net /\ out'["client"] = out["client"] /\ eof["service"] /\ out["service"] # <<>>
    BY <1>1, <1>5, FsSides DEF Swallow
  <2>2. ToService' = ToService /\ ToClient' = ToClient
    BY <1>3, <2>1 DEF ToService, ToClient
  <2>3. spc # "closed"
    BY <2>1 DEF FsGone
  <2>4. FsGone'
    BY <1>3, <2>1, <2>3, FsServiceStays DEF FsGone
  <2>5. Shorter(ToClient, ToClient)
    BY FsViews DEF Shorter
  <2> QED BY <2>2, <2>4, <2>5
<1> QED BY <1>4, <1>5 DEF Side

LEMMA FsTransmitted ==
  ASSUME FsInv, FsGone, NEW x \in Side, Transmit(x)
  PROVE  FsGone' /\ ToService' = ToService /\ ToClient' = ToClient
<1>1. net \in [Side -> Seq(FsMessages(cmd))] /\ out \in [Side -> Seq(FsMessages(cmd))]
  BY DEF FsInv, FsChannels
<1>2. eof' = eof /\ cut' = cut /\ spc' = spc /\ cpc' = cpc
  BY DEF Transmit, service, client
<1>3. ASSUME NEW s \in Seq(FsMessages(cmd)), NEW t \in Seq(FsMessages(cmd)), t # <<>>
      PROVE  Append(s, Head(t)) \o Tail(t) = s \o t
  BY <1>3
<1>4. CASE x = "client"
  <2>1. /\ net'["service"] = Append(net["service"], Head(out["client"])) /\ net'["client"] = net["client"]
        /\ out'["client"] = Tail(out["client"]) /\ out'["service"] = out["service"]
        /\ ~eof["client"] /\ out["client"] # <<>>
    BY <1>1, <1>4, FsSides DEF Transmit, Other
  <2>2. ToService' = ToService
    BY <1>2, <1>3, <2>1, FsViews DEF ToService
  <2>3. ToClient' = ToClient
    BY <1>2, <2>1 DEF ToClient
  <2>4. FsGone'
    BY <1>2, <2>1 DEF FsGone, Running
  <2> QED BY <2>2, <2>3, <2>4
<1>5. CASE x = "service"
  <2>1. /\ net'["client"] = Append(net["client"], Head(out["service"])) /\ net'["service"] = net["service"]
        /\ out'["service"] = Tail(out["service"]) /\ out'["client"] = out["client"]
        /\ ~eof["service"] /\ out["service"] # <<>>
    BY <1>1, <1>5, FsSides DEF Transmit, Other
  <2>2. ToClient' = ToClient
    BY <1>2, <1>3, <2>1, FsViews DEF ToClient
  <2>3. ToService' = ToService
    BY <1>2, <2>1 DEF ToService
  <2>4. FsGone'
    BY <1>2, <2>1 DEF FsGone, Running
  <2> QED BY <2>2, <2>3, <2>4
<1> QED BY <1>4, <1>5 DEF Side

LEMMA FsKilled ==
  ASSUME FsInv, FsGone, Kill
  PROVE  FsGone' /\ ToClient' = <<>> /\ Shorter(ToService', ToService)
<1>1. net \in [Side -> Seq(FsMessages(cmd))] /\ out \in [Side -> Seq(FsMessages(cmd))] /\ eof \in [Side -> BOOLEAN]
  BY DEF FsInv, FsChannels, FsShared
<1>2. /\ out'["client"] = <<>> /\ out'["service"] = out["service"] /\ cpc' = "killed"
      /\ eof'["service"] = TRUE /\ eof'["client"] = eof["client"] /\ spc' = spc /\ cut' = cut
  BY <1>1, FsSides DEF Kill, service
<1>3. net'["client"] = <<>> /\ \/ net'["service"] = net["service"]
                               \/ /\ out["client"] # <<>> /\ ~eof["client"]
                                  /\ net'["service"] = Append(net["service"], [Head(out["client"]) EXCEPT !.half = TRUE])
  BY <1>1, FsSides DEF Kill
<1>4. \A s \in Seq(FsMessages(cmd)) : s \o <<>> = s
  OBVIOUS
<1>5. ToClient' = <<>>
  BY <1>2, <1>3 DEF ToClient
<1>6. CASE net'["service"] = net["service"]
  <2>1. ToService' = net["service"]
    BY <1>2, <1>4, <1>6, FsViews DEF ToService
  <2>2. FsGone'
    BY <1>2, <1>3, <1>6 DEF FsGone, Running
  <2> QED BY <1>5, <2>1, <2>2, FsNetShorter
<1>7. CASE /\ out["client"] # <<>> /\ ~eof["client"]
           /\ net'["service"] = Append(net["service"], [Head(out["client"]) EXCEPT !.half = TRUE])
  <2>1. PICK m \in FsMessages(cmd) : m = Head(out["client"])
    BY <1>7, FsViews
  <2>2. PICK h \in FsMessages(cmd) : h = [m EXCEPT !.half = TRUE]
    BY FsMade
  <2>3. h.id = m.id /\ h.f = m.f /\ h.res = m.res
    BY <2>2 DEF FsMessages, Message
  <2>4. net'["service"] = Append(net["service"], h)
    BY <1>7, <2>1, <2>2
  <2>5. Append(net["service"], h) \in Seq(FsMessages(cmd))
    BY FsViews
  <2>6. ToService' = Append(net["service"], h)
    BY <1>2, <1>4, <2>4, <2>5 DEF ToService
  <2>7. ToService = net["service"] \o out["client"]
    BY <1>7 DEF ToService
  <2>8. PICK s \in Seq(FsMessages(cmd)), t \in Seq(FsMessages(cmd)) : s = net["service"] /\ t = out["client"] /\ t # <<>>
    BY <1>7, FsViews
  <2>9. Len(Append(s, h)) <= Len(s \o t)
    <3>1. Len(t) \in Nat /\ Len(t) > 0 /\ Len(s) \in Nat
      BY <2>8
    <3>2. Len(Append(s, h)) = Len(s) + 1 /\ Len(s \o t) = Len(s) + Len(t)
      OBVIOUS
    <3> QED BY <3>1, <3>2
  <2>10. \A n \in 1..Len(Append(s, h)) : IF n = Len(s) + 1 THEN Append(s, h)[n] = h /\ (s \o t)[n] = m
                                                           ELSE Append(s, h)[n] = (s \o t)[n]
    <3>1. Len(t) \in Nat /\ Len(t) > 0 /\ Len(s) \in Nat /\ t[1] = m
      BY <2>1, <2>8
    <3>2. Len(Append(s, h)) = Len(s) + 1 /\ Append(s, h)[Len(s) + 1] = h
      OBVIOUS
    <3>3. \A n \in 1..Len(s) : Append(s, h)[n] = s[n] /\ (s \o t)[n] = s[n]
      OBVIOUS
    <3>4. (s \o t)[Len(s) + 1] = t[1]
      BY <3>1
    <3> QED BY <3>1, <3>2, <3>3, <3>4
  <2>11. Shorter(ToService', ToService)
    BY <2>3, <2>6, <2>7, <2>8, <2>9, <2>10 DEF Shorter
  <2>12. spc # "closed"
    BY <1>7 DEF FsGone
  <2>13. FsGone'
    BY <1>2, <1>3, <2>12 DEF FsGone, Running
  <2> QED BY <1>5, <2>11, <2>13
<1> QED BY <1>3, <1>6, <1>7

LEMMA FsBroken ==
  ASSUME FsInv, FsGone, Break
  PROVE  FsGone' /\ Shorter(ToClient', ToClient) /\ Shorter(ToService', ToService)
<1>1. PICK c \in Cuts(net["client"]), s \in Cuts(net["service"]) :
         net' = [client |-> c, service |-> s]
  BY DEF Break
<1>2. net'["client"] = c /\ net'["service"] = s
  BY <1>1
<1>3. c \in Seq(FsMessages(cmd)) /\ s \in Seq(FsMessages(cmd))
  BY FsCuts, FsViews
<1>4. eof'["client"] = TRUE /\ eof'["service"] = TRUE /\ cut' = TRUE
  BY FsSides DEF Break
<1>5. \A q \in Seq(FsMessages(cmd)) : q \o <<>> = q
  OBVIOUS
<1>6. ToClient' = c /\ ToService' = s
  BY <1>2, <1>3, <1>4, <1>5 DEF ToClient, ToService
<1>7. Shorter(c, ToClient)
  <2>1. PICK t \in Seq(FsMessages(cmd)) : t = IF eof["service"] THEN <<>> ELSE out["service"]
    BY FsViews
  <2>2. ToClient = net["client"] \o t
    BY <2>1 DEF ToClient
  <2> QED BY <2>2, FsCutShorter, FsViews
<1>8. Shorter(s, ToService)
  <2>1. PICK t \in Seq(FsMessages(cmd)) : t = IF eof["client"] THEN <<>> ELSE out["client"]
    BY FsViews
  <2>2. ToService = net["service"] \o t
    BY <2>1 DEF ToService
  <2> QED BY <2>2, FsCutShorter, FsViews
<1>9. FsGone'
  <2>1. Running /\ spc # "closed" /\ UNCHANGED <<cpc, spc, out>>
    BY DEF Break, client, service
  <2> QED BY <1>4, <2>1 DEF FsGone, Running
<1> QED BY <1>6, <1>7, <1>8, <1>9

\* A read that fails: nothing is left to be read.
LEMMA FsNothing ==
  ASSUME FsInv, FsGone
  PROVE  /\ ReadFails("client") => ToClient = <<>> /\ eof["client"]
         /\ ReadFails("service") => ToService = <<>> /\ eof["service"]
<1>1. ASSUME ReadFails("client") PROVE ToClient = <<>> /\ eof["client"]
  <2>1. net["client"] = <<>> /\ eof["client"]
    BY <1>1 DEF ReadFails
  <2>2. eof["service"] \/ out["service"] = <<>>
    BY <2>1 DEF FsGone
  <2> QED BY <2>1, <2>2 DEF ToClient
<1>2. ASSUME ReadFails("service") PROVE ToService = <<>> /\ eof["service"]
  <2>1. net["service"] = <<>> /\ eof["service"]
    BY <1>2 DEF ReadFails
  <2>2. eof["client"] \/ out["client"] = <<>>
    BY <2>1 DEF FsGone
  <2> QED BY <2>1, <2>2 DEF ToService
<1> QED BY <1>1, <1>2

LEMMA FsGets ==
  ASSUME FsInv
  PROVE  /\ Gets("client") => ToClient # <<>> /\ Reply = ToClient[1]
         /\ Gets("service") => ToService # <<>> /\ Req = ToService[1]
<1>1. ASSUME NEW s \in Seq(FsMessages(cmd)), NEW t \in Seq(FsMessages(cmd)), s # <<>>
      PROVE  s \o t # <<>> /\ Head(s) = (s \o t)[1]
  BY <1>1
<1> QED BY <1>1, FsViews DEF Gets, Reply, Req, ToClient, ToService

\* A write that fails.
LEMMA FsUnsent ==
  ASSUME FsInv, FsGone, NEW x \in Side, eof[x], Send(x, <<>>), UNCHANGED net, UNCHANGED eof
  PROVE  ToService' = ToService /\ ToClient' = ToClient
<1>1. x = "client" => out'["service"] = out["service"]
  BY FsOwnEnd
<1>2. x = "service" => out'["client"] = out["client"]
  BY FsOwnEnd
<1> QED BY <1>1, <1>2 DEF ToService, ToClient, Side

LEMMA FsEnded ==
  ASSUME FsInv, FsGone, NEW pc \in {"done", "dead"}, ClientEnds(pc), UNCHANGED <<spc, cut>>, Running,
         out["client"] = <<>> \/ eof["client"]
  PROVE  FsGone' /\ ToClient' = <<>> /\ ToService' = ToService
<1>1. \A s \in Seq(FsMessages(cmd)) : s \o <<>> = s
  OBVIOUS
<1>2. ToService = net["service"]
  BY <1>1, FsViews DEF ToService
<1> QED BY <1>2, FsClientGone

LEMMA FvStatFault ==
  ASSUME FsInv, FsGone, StatFault
  PROVE  /\ FsGone' /\ ToClient' = <<>> /\ ToService' = ToService /\ cpc' = "dead" /\ eof'["client"] = eof["client"]
         /\ (ToClient = <<>> /\ eof["client"]) \/ (ToClient # <<>> /\ ToClient[1].id # "ATTR")
<1>1. out["client"] = <<>> /\ ClientEnds("dead") /\ UNCHANGED <<spc, cut>> /\ Running
  BY DEF StatFault, ReadFails, Gets, service, Running
<1>2. FsGone' /\ ToClient' = <<>> /\ ToService' = ToService
  BY <1>1, FsEnded
<1>3. (ToClient = <<>> /\ eof["client"]) \/ (ToClient # <<>> /\ ToClient[1].id # "ATTR")
  BY FsGets, FsNothing DEF StatFault
<1>4. eof \in [Side -> BOOLEAN]
  BY DEF FsInv, FsShared
<1> QED BY <1>1, <1>2, <1>3, <1>4 DEF ClientEnds, Side

LEMMA FvShutdown ==
  ASSUME FsInv, FsGone, Shutdown
  PROVE  /\ FsGone' /\ ToClient' = <<>> /\ ToService' = ToService /\ cpc' = "done" /\ eof'["client"] = eof["client"]
         /\ ToClient # <<>> \/ eof["client"]
<1>1. out["client"] = <<>> /\ ClientEnds("done") /\ UNCHANGED <<spc, cut>> /\ Running
  BY DEF Shutdown, ClientIdle, service, Running
<1>2. FsGone' /\ ToClient' = <<>> /\ ToService' = ToService
  BY <1>1, FsEnded
<1>3. ToClient # <<>> \/ eof["client"]
  <2>1. Gets("client") \/ eof["client"]
    BY <1>1 DEF Shutdown, Gets
  <2> QED BY <2>1, FsGets
<1>4. eof \in [Side -> BOOLEAN]
  BY DEF FsInv, FsShared
<1> QED BY <1>1, <1>2, <1>3, <1>4 DEF ClientEnds, Side

LEMMA FvClientWriteFails ==
  ASSUME FsInv, FsGone, ClientWriteFails
  PROVE  /\ FsGone' /\ ToService' = ToService /\ eof["client"] /\ eof'["client"] = eof["client"]
         /\ ToClient' = ToClient \/ ToClient' = <<>>
<1>0. out["client"] # <<>> /\ eof["client"] /\ UNCHANGED <<spc, cut>> /\ Running /\ eof \in [Side -> BOOLEAN]
  BY DEF ClientWriteFails, service, Running, FsGone, FsInv, FsShared
<1>1. CASE ClientEnds("dead") \/ ClientEnds("done")
  <2>1. PICK pc \in {"done", "dead"} : ClientEnds(pc)
    BY <1>1
  <2>2. FsGone' /\ ToClient' = <<>> /\ ToService' = ToService
    BY <1>0, <2>1, FsEnded
  <2> QED BY <1>0, <2>1, <2>2 DEF ClientEnds, Side
<1>2. CASE Send("client", <<>>) /\ UNCHANGED <<net, eof>> /\ cpc' \in {"quit", "links", "next"}
  <2>1. ToService' = ToService /\ ToClient' = ToClient
    BY <1>0, <1>2, FsSides, FsUnsent
  <2>2. out'["service"] = out["service"] /\ out'["client"] = <<>>
    BY <1>2, FsOwnEnd
  <2>3. FsGone'
    BY <1>0, <1>2, <2>2, FsClientStays DEF Running
  <2> QED BY <1>0, <1>2, <2>1, <2>3
<1> QED BY <1>1, <1>2 DEF ClientWriteFails, GiveUp

LEMMA FvServiceWriteFails ==
  ASSUME FsInv, FsGone, ServiceWriteFails
  PROVE  ToService' = ToService /\ ToClient' = ToClient /\ eof["service"]
BY FsSides, FsUnsent DEF ServiceWriteFails

LEMMA FvCloses ==
  ASSUME FsInv, FsGone, Abort \/ Close
  PROVE  /\ FsGone' /\ ToService' = <<>> /\ Shorter(ToClient', ToClient)
         /\ \A n \in 1..Len(ToClient') : ToClient'[n] = ToClient[n]
         /\ ToService = <<>> => ToClient' = ToClient
<1>1. CloseStream /\ UNCHANGED <<cpc, cut, out>> /\ out["service"] = <<>>
  BY DEF Abort, Close, ServiceIdle, client
<1>2. ToService = <<>> => net["service"] = <<>>
  BY FsViews DEF ToService
<1> QED BY <1>1, <1>2, FsClosed

LEMMA FsGoneInit == FileSyncInit => FsGone
BY FsSides DEF FileSyncInit, FsGone, Running

LEMMA FsGoneStep == FsInv /\ FsGone /\ [FileSyncNext]_fileSyncVars => FsGone'
<1> SUFFICES ASSUME FsInv, FsGone, [FileSyncNext]_fileSyncVars PROVE FsGone'
  OBVIOUS
<1>1. CASE Client
  BY <1>1, FsSides, FsGoneClient, FvStatFault, FvShutdown, FvClientWriteFails, FsTransmitted, FsSwallowed DEF Client
<1>2. CASE Service
  BY <1>2, FsSides, FsGoneService, FvCloses, FsTransmitted, FsSwallowed DEF Service
<1>3. CASE UNCHANGED fileSyncVars
  BY <1>3 DEF fileSyncVars, client, service, FsGone, Running
<1>4. CASE Kill \/ Break
  BY <1>4, FsKilled, FsBroken
<1> QED BY <1>1, <1>2, <1>3, <1>4 DEF FileSyncNext, DrainSpins, Finished

\* What the client will read once the service has written m, the service once
\* the client has written msgs.
Said(m) == IF eof["service"] THEN ToClient ELSE Append(ToClient, m)
Wrote(msgs) == IF eof["client"] THEN ToService ELSE ToService \o msgs

LEMMA FvTakes ==
  ASSUME FsInv, Gets("service"), Consume("service"), UNCHANGED eof
  PROVE  /\ ToService # <<>> /\ Req = ToService[1] /\ ToService[1] \in FsMessages(cmd)
         /\ UNCHANGED out => ToService' = Tail(ToService) /\ ToClient' = ToClient
         /\ \A m \in FsMessages(cmd) : Send("service", <<m>>) => ToService' = Tail(ToService) /\ ToClient' = Said(m)
<1>1. ToService # <<>> /\ Req = ToService[1]
  BY FsGets
<1>2. ToService[1] \in FsMessages(cmd)
  BY <1>1, FsViews
<1>3. UNCHANGED out => ToService' = Tail(ToService) /\ ToClient' = ToClient
  BY FsReads, FsSides
<1>4. ASSUME NEW m \in FsMessages(cmd), Send("service", <<m>>)
      PROVE  ToService' = Tail(ToService) /\ ToClient' = Said(m)
  <2>1. <<m>> \in Seq(FsMessages(cmd))
    OBVIOUS
  <2>2. ToService' = Tail(ToService) /\ ToClient' = IF eof["service"] THEN ToClient ELSE ToClient \o <<m>>
    BY <1>4, <2>1, FsAnswers, FsSides
  <2>3. ToClient \o <<m>> = Append(ToClient, m)
    BY FsViews
  <2> QED BY <2>2, <2>3 DEF Said
<1> QED BY <1>1, <1>2, <1>3, <1>4

LEMMA FvSays ==
  ASSUME FsInv, out["service"] = <<>>, UNCHANGED net, UNCHANGED eof
  PROVE  \A m \in FsMessages(cmd) : Send("service", <<m>>) => ToService' = ToService /\ ToClient' = Said(m)
<1> SUFFICES ASSUME NEW m \in FsMessages(cmd), Send("service", <<m>>) PROVE ToService' = ToService /\ ToClient' = Said(m)
  OBVIOUS
<1>1. <<m>> \in Seq(FsMessages(cmd))
  OBVIOUS
<1>2. ToService' = ToService /\ ToClient' = IF eof["service"] THEN ToClient ELSE ToClient \o <<m>>
  BY <1>1, FsWrites, FsSides
<1>3. ToClient \o <<m>> = Append(ToClient, m)
  BY FsViews
<1> QED BY <1>2, <1>3 DEF Said

Attr(f, r) == [Msg("ATTR", f) EXCEPT !.res = r]

LEMMA FvServeStat ==
  ASSUME FsInv, ServeStat
  PROVE  /\ spc = "idle" /\ ToService # <<>> /\ ToService[1].id \in {"STAT", "LSTAT"} /\ ~ToService[1].half
         /\ ToService[1].f \in Path /\ ToService[1] \in FsMessages(cmd)
         /\ ToService' = Tail(ToService)
         /\ UNCHANGED <<command, client, service, eof, cut, copied, failed, reported>>
         /\ \E r \in StatResult(ToService[1].f) :
              /\ ToClient' = Said(Attr(ToService[1].f, r)) /\ trouble' = (trouble \/ r = "error")
              /\ Attr(ToService[1].f, r) \in FsMessages(cmd)
<1>1. /\ spc = "idle" /\ Gets("service") /\ Consume("service") /\ UNCHANGED <<command, client, service, eof, cut, copied, failed, reported>>
      /\ Req.id \in {"STAT", "LSTAT"} /\ ~Req.half
  BY DEF ServeStat, Receives
<1>2. ToService # <<>> /\ Req = ToService[1] /\ ToService[1] \in FsMessages(cmd)
  BY <1>1, FvTakes
<1>3. ToService[1].f \in Path /\ (cmd = "pull" => ToService[1].f \in Files \cup Dirs)
  BY <1>1, <1>2, FileSyncAssumption DEF FsMessages, Message
<1>4. PICK r \in StatResult(Req.f) : /\ Send("service", <<Attr(Req.f, r)>>)
                                    /\ trouble' = (trouble \/ r = "error")
  BY DEF ServeStat, Attr
<1>5. r \in {"same", "other", "none", "error"}
  BY <1>4 DEF StatResult
<1>6. Attr(Req.f, r) \in FsMessages(cmd)
  BY <1>2, <1>3, <1>5, FsMade DEF Attr
<1>7. ToService' = Tail(ToService) /\ ToClient' = Said(Attr(Req.f, r))
  BY <1>1, <1>4, <1>6, FvTakes
<1> QED BY <1>1, <1>2, <1>3, <1>4, <1>6, <1>7

LEMMA FvServeSend ==
  ASSUME FsInv, ServeSend
  PROVE  \E f \in Files :
         /\ spc = "idle" /\ ToService # <<>> /\ ToService[1].id = "SEND" /\ ~ToService[1].half
         /\ ToService[1].f = f /\ ToService' = Tail(ToService) /\ cur' = f
         /\ UNCHANGED <<command, client, rest, eof, cut, copied, reported>>
         /\ \E c \in {Absent, <<>>} : remote' = [remote EXCEPT ![f] = c]
         /\ \/ Kind[f] = "link" /\ remote'[f] = Absent /\ spc' = "link" /\ ToClient' = ToClient
               /\ UNCHANGED <<failed, trouble>>
            \/ Kind[f] # "link" /\ remote'[f] = <<>> /\ spc' = "file" /\ ToClient' = ToClient
               /\ UNCHANGED <<failed, trouble>>
            \/ /\ Kind[f] # "link" /\ spc' = "drain" /\ ToClient' = Said(Msg("FAIL", f))
               /\ Msg("FAIL", f) \in FsMessages(cmd)
               /\ failed' = failed \cup {f} /\ trouble' = TRUE
<1>1. /\ spc = "idle" /\ Gets("service") /\ Consume("service") /\ UNCHANGED <<command, client, rest, eof, cut, copied, reported>>
      /\ Req.id = "SEND" /\ ~Req.half /\ cur' = Req.f
  BY DEF ServeSend, Receives
<1>2. ToService # <<>> /\ Req = ToService[1] /\ ToService[1] \in FsMessages(cmd)
  BY <1>1, FvTakes
<1>3. PICK f \in Files : f = Req.f
  BY <1>1, <1>2 DEF FsMessages
<1>4. PICK c \in {Absent, <<>>} :
       /\ remote' = [remote EXCEPT ![f] = c]
       /\ \/ /\ Kind[f] = "link" /\ c = Absent
             /\ spc' = "link"
             /\ NoSend /\ UNCHANGED <<failed, trouble>>
          \/ /\ Kind[f] # "link" /\ c = <<>>
             /\ spc' = "file"
             /\ NoSend /\ UNCHANGED <<failed, trouble>>
          \/ Kind[f] # "link" /\ DeviceFails(f)
  BY <1>3 DEF ServeSend
<1>5. remote \in [Files -> Seq(Files) \cup {Absent}]
  BY DEF FsInv, FsServiceTypes
<1>6. remote'[f] = c
  BY <1>4, <1>5
<1>7. Msg("FAIL", f) \in FsMessages(cmd)
  BY FsMade DEF Path
<1>8. NoSend => ToService' = Tail(ToService) /\ ToClient' = ToClient
  BY <1>1, FvTakes DEF NoSend
<1>9. DeviceFails(f) => /\ ToService' = Tail(ToService) /\ ToClient' = Said(Msg("FAIL", f)) /\ spc' = "drain"
                        /\ failed' = failed \cup {f} /\ trouble' = TRUE
  BY <1>1, <1>7, FvTakes DEF DeviceFails, Say, AfterFailure
<1>10. ToService' = Tail(ToService)
  BY <1>4, <1>8, <1>9
<1>11. \E e \in {Absent, <<>>} : remote' = [remote EXCEPT ![f] = e]
  BY <1>4
<1>12. \/ Kind[f] = "link" /\ remote'[f] = Absent /\ spc' = "link" /\ ToClient' = ToClient
               /\ UNCHANGED <<failed, trouble>>
       \/ Kind[f] # "link" /\ remote'[f] = <<>> /\ spc' = "file" /\ ToClient' = ToClient
               /\ UNCHANGED <<failed, trouble>>
       \/ /\ Kind[f] # "link" /\ spc' = "drain" /\ ToClient' = Said(Msg("FAIL", f))
          /\ Msg("FAIL", f) \in FsMessages(cmd)
          /\ failed' = failed \cup {f} /\ trouble' = TRUE
  BY <1>4, <1>6, <1>7, <1>8, <1>9
<1> QED BY <1>1, <1>2, <1>3, <1>10, <1>11, <1>12

LEMMA FvFileData ==
  ASSUME FsInv, FileData
  PROVE  /\ spc = "file" /\ cur \in Files /\ ToService # <<>> /\ ToService[1].id = "DATA" /\ ~ToService[1].half
         /\ ToService' = Tail(ToService)
         /\ UNCHANGED <<command, client, cur, rest, eof, cut, copied, reported>>
         /\ \/ /\ remote' = [remote EXCEPT ![cur] = Append(remote[cur], ToService[1].f)] /\ spc' = "file"
               /\ ToClient' = ToClient /\ UNCHANGED <<failed, trouble>>
            \/ /\ spc' = "drain" /\ ToClient' = Said(Msg("FAIL", cur)) /\ UNCHANGED remote
               /\ Msg("FAIL", cur) \in FsMessages(cmd)
               /\ failed' = failed \cup {cur} /\ trouble' = TRUE
<1>1. /\ spc = "file" /\ Gets("service") /\ Consume("service") /\ UNCHANGED <<command, client, cur, rest, eof, cut, copied, reported>>
      /\ Req.id = "DATA" /\ ~Req.half
  BY DEF FileData, Receives
<1>2. ToService # <<>> /\ Req = ToService[1]
  BY <1>1, FvTakes
<1>3. cur \in Files
  BY <1>1 DEF FsInv, FsService
<1>4. Msg("FAIL", cur) \in FsMessages(cmd)
  BY <1>3, FsMade DEF Path
<1>5. CASE /\ remote' = [remote EXCEPT ![cur] = Append(@, Req.f)]
           /\ NoSend /\ UNCHANGED <<spc, failed, trouble>>
  BY <1>1, <1>2, <1>3, <1>5, FvTakes DEF NoSend
<1>6. CASE DeviceFails(cur) /\ UNCHANGED remote
  BY <1>1, <1>2, <1>3, <1>4, <1>6, FvTakes DEF DeviceFails, Say, AfterFailure
<1> QED BY <1>5, <1>6 DEF FileData

LEMMA FvFileDone ==
  ASSUME FsInv, FileDone
  PROVE  /\ spc = "file" /\ cur \in Files /\ ToService # <<>> /\ ToService[1].id = "DONE" /\ ~ToService[1].half
         /\ ToService' = Tail(ToService)
         /\ UNCHANGED <<command, client, cur, rest, remote, eof, cut, copied, reported>>
         /\ \/ /\ spc' = "idle" /\ ToClient' = Said(Msg("OKAY", cur)) /\ UNCHANGED <<failed, trouble>>
               /\ Msg("OKAY", cur) \in FsMessages(cmd)
            \/ /\ spc' = "drain" /\ ToClient' = Said(Msg("FAIL", cur))
               /\ Msg("FAIL", cur) \in FsMessages(cmd)
               /\ failed' = failed \cup {cur} /\ trouble' = TRUE
<1>1. /\ spc = "file" /\ Gets("service") /\ Consume("service")
      /\ UNCHANGED <<command, client, cur, rest, remote, eof, cut, copied, reported>>
      /\ Req.id = "DONE" /\ ~Req.half
  BY DEF FileDone, Receives
<1>2. ToService # <<>> /\ Req = ToService[1]
  BY <1>1, FvTakes
<1>3. cur \in Files
  BY <1>1 DEF FsInv, FsService
<1>4. Msg("FAIL", cur) \in FsMessages(cmd) /\ Msg("OKAY", cur) \in FsMessages(cmd)
  BY <1>3, FsMade DEF Path
<1>5. CASE Say("OKAY", cur) /\ spc' = AfterOkay /\ UNCHANGED <<failed, trouble>>
  BY <1>1, <1>2, <1>3, <1>4, <1>5, FvTakes DEF Say, AfterOkay
<1>6. CASE DeviceFails(cur)
  BY <1>1, <1>2, <1>3, <1>4, <1>6, FvTakes DEF DeviceFails, Say, AfterFailure
<1> QED BY <1>5, <1>6 DEF FileDone

LEMMA FvFileInvalid ==
  ASSUME FsInv, FsGone, FileInvalid
  PROVE  /\ spc = "file" /\ cur \in Files
         /\ UNCHANGED <<command, client, cur, rest, remote, eof, cut, history>>
         /\ \/ /\ ToService # <<>> /\ ToService' = Tail(ToService) /\ spc' = "abort"
               /\ ToService[1].half \/ ToService[1].id \in Request
            \/ ToService = <<>> /\ ToService' = <<>> /\ spc' = "drain" /\ eof["service"]
         /\ ToClient' = ToClient \/ (ToClient' = Said(Msg("FAIL", cur)) /\ Msg("FAIL", cur) \in FsMessages(cmd))
<1>1. spc = "file" /\ UNCHANGED <<command, client, cur, rest, remote, eof, cut, history>>
  BY DEF FileInvalid
<1>3. cur \in Files
  BY <1>1 DEF FsInv, FsService
<1>4. Msg("FAIL", cur) \in FsMessages(cmd)
  BY <1>3, FsMade DEF Path
<1>5. CASE /\ Gets("service") /\ Consume("service") /\ spc' = "abort" /\ (Req.half \/ Req.id \in Request)
           /\ Say("FAIL", cur) \/ NoSend
  BY <1>1, <1>3, <1>4, <1>5, FvTakes DEF Say, NoSend
<1>6. CASE ReadFails("service") /\ spc' = "drain" /\ UNCHANGED <<net, out>>
  BY <1>1, <1>3, <1>6, FsNothing, FsStill
<1> QED BY <1>5, <1>6 DEF FileInvalid, Receives

LEMMA FvDrain ==
  ASSUME FsInv, Drain
  PROVE  /\ spc = "drain" /\ ToService # <<>> /\ ToService' = Tail(ToService) /\ ToClient' = ToClient
         /\ spc' = IF Throws(ToService[1]) THEN "drain" ELSE "abort"
         /\ UNCHANGED <<command, client, cur, rest, remote, out, eof, cut, history>>
<1>1. /\ spc = "drain" /\ Gets("service") /\ Consume("service") /\ UNCHANGED <<command, client, cur, rest, remote, out, eof, cut, history>>
      /\ spc' = IF Throws(Req) THEN "drain" ELSE "abort"
  BY DEF Drain, ServiceIdle
<1> QED BY <1>1, FvTakes

LEMMA FvLinkData ==
  ASSUME FsInv, LinkData
  PROVE  /\ spc = "link" /\ cur \in Files /\ ToService # <<>> /\ ToService[1].id = "DATA" /\ ~ToService[1].half
         /\ ToService' = Tail(ToService)
         /\ UNCHANGED <<command, client, cur, rest, eof, cut, copied, reported>>
         /\ \/ /\ remote' = [remote EXCEPT ![cur] = Complete(cur)] /\ spc' = "linkdone"
               /\ ToClient' = ToClient /\ UNCHANGED <<failed, trouble>>
            \/ /\ spc' = "closing" /\ ToClient' = Said(Msg("FAIL", cur)) /\ UNCHANGED remote
               /\ Msg("FAIL", cur) \in FsMessages(cmd) /\ failed' = failed \cup {cur} /\ trouble' = TRUE
<1>1. /\ spc = "link" /\ Gets("service") /\ Consume("service")
      /\ UNCHANGED <<command, client, cur, rest, eof, cut, copied, reported>>
      /\ Req.id = "DATA" /\ ~Req.half
  BY DEF LinkData, Receives
<1>2. ToService # <<>> /\ Req = ToService[1]
  BY <1>1, FvTakes
<1>3. cur \in Files
  BY <1>1 DEF FsInv, FsService
<1>4. Msg("FAIL", cur) \in FsMessages(cmd)
  BY <1>3, FsMade DEF Path
<1>5. CASE /\ remote' = [remote EXCEPT ![cur] = Complete(cur)]
           /\ spc' = "linkdone" /\ NoSend /\ UNCHANGED <<failed, trouble>>
  BY <1>1, <1>2, <1>3, <1>5, FvTakes DEF NoSend
<1>6. CASE /\ Say("FAIL", cur) /\ spc' = "closing"
           /\ failed' = failed \cup {cur} /\ trouble' = TRUE /\ UNCHANGED remote
  BY <1>1, <1>2, <1>3, <1>4, <1>6, FvTakes DEF Say
<1> QED BY <1>5, <1>6 DEF LinkData

LEMMA FvLinkDone ==
  ASSUME FsInv, LinkDone
  PROVE  /\ spc = "linkdone" /\ ToService # <<>> /\ ToService[1].id = "DONE" /\ ~ToService[1].half
         /\ ToService' = Tail(ToService) /\ spc' = "idle" /\ ToClient' = Said(Msg("OKAY", cur))
         /\ Msg("OKAY", cur) \in FsMessages(cmd)
         /\ UNCHANGED <<command, client, cur, rest, remote, eof, cut, history>>
<1>1. /\ spc = "linkdone" /\ Gets("service") /\ Consume("service")
      /\ UNCHANGED <<command, client, cur, rest, remote, eof, cut, history>>
      /\ Req.id = "DONE" /\ ~Req.half /\ spc' = "idle" /\ Say("OKAY", cur)
  BY DEF LinkDone, Receives
<1>2. cur \in Path
  BY DEF FsInv, FsServiceTypes
<1>3. Msg("OKAY", cur) \in FsMessages(cmd)
  BY <1>2, FsMade
<1> QED BY <1>1, <1>3, FvTakes DEF Say

LEMMA FvLinkFails ==
  ASSUME FsInv, FsGone, LinkFails
  PROVE  /\ spc \in {"link", "linkdone"} /\ spc' = "closing"
         /\ UNCHANGED <<command, client, cur, rest, remote, eof, cut, history>>
         /\ \/ /\ ToService # <<>> /\ ToService' = Tail(ToService)
               /\ ToService[1].half \/ ToService[1].id # IF spc = "link" THEN "DATA" ELSE "DONE"
            \/ ToService = <<>> /\ ToService' = <<>> /\ eof["service"]
         /\ ToClient' = ToClient \/ (ToClient' = Said(Msg("FAIL", cur)) /\ Msg("FAIL", cur) \in FsMessages(cmd))
<1>1. spc \in {"link", "linkdone"} /\ spc' = "closing" /\ UNCHANGED <<command, client, cur, rest, remote, eof, cut, history>>
  BY DEF LinkFails
<1>2. cur \in Path
  BY DEF FsInv, FsServiceTypes
<1>3. Msg("FAIL", cur) \in FsMessages(cmd)
  BY <1>2, FsMade
<1>4. CASE /\ Gets("service") /\ (Req.half \/ Req.id # IF spc = "link" THEN "DATA" ELSE "DONE")
           /\ Consume("service") /\ (NoSend \/ Say("FAIL", cur))
  BY <1>1, <1>3, <1>4, FvTakes DEF Say, NoSend
<1>5. CASE ReadFails("service") /\ UNCHANGED <<net, out>>
  BY <1>1, <1>5, FsNothing, FsStill
<1> QED BY <1>4, <1>5 DEF LinkFails

LEMMA FvServeQuit ==
  ASSUME FsInv, ServeQuit
  PROVE  /\ spc = "idle" /\ ToService # <<>> /\ ToService[1].id = "QUIT" /\ ToService' = Tail(ToService)
         /\ spc' = "closing" /\ ToClient' = ToClient
         /\ UNCHANGED <<command, client, cur, rest, remote, out, eof, cut, history>>
<1>1. /\ spc = "idle" /\ Gets("service") /\ Consume("service") /\ spc' = "closing" /\ Req.id = "QUIT"
      /\ UNCHANGED <<command, client, cur, rest, remote, out, eof, cut, history>>
  BY DEF ServeQuit, Receives, AfterQuit
<1> QED BY <1>1, FvTakes

LEMMA FvBadRequest ==
  ASSUME FsInv, FsGone, BadRequest
  PROVE  /\ spc = "idle" /\ spc' = "closing" /\ ToClient' = Said(Msg("FAIL", Dst)) /\ Msg("FAIL", Dst) \in FsMessages(cmd)
         /\ UNCHANGED <<command, client, cur, rest, remote, eof, cut, history>>
         /\ \/ /\ ToService # <<>> /\ ToService' = Tail(ToService)
               /\ ToService[1].half \/ ToService[1].id \notin Request
            \/ ToService = <<>> /\ ToService' = <<>> /\ eof["service"]
<1>1. /\ spc = "idle" /\ spc' = "closing" /\ UNCHANGED <<command, client, cur, rest, remote, eof, cut, history>>
      /\ Say("FAIL", Dst)
  BY DEF BadRequest
<1>2. Msg("FAIL", Dst) \in FsMessages(cmd)
  BY FsMade DEF Path
<1>3. CASE Gets("service") /\ (Req.half \/ Req.id \notin Request) /\ Consume("service")
  BY <1>1, <1>2, <1>3, FvTakes DEF Say
<1>4. CASE ReadFails("service") /\ UNCHANGED net
  <2>1. out["service"] = <<>>
    BY <1>4 DEF ReadFails
  <2>2. ToService' = ToService /\ ToClient' = Said(Msg("FAIL", Dst))
    BY <1>1, <1>2, <1>4, <2>1, FvSays DEF Say
  <2> QED BY <1>1, <1>2, <1>4, <2>2, FsNothing
<1> QED BY <1>3, <1>4 DEF BadRequest

LEMMA FvServeList ==
  ASSUME FsInv, ServeList
  PROVE  /\ spc = "idle" /\ ToService # <<>> /\ ToService[1].id = "LIST" /\ ~ToService[1].half
         /\ ToService[1].f \in Files \cup Dirs /\ ToService' = Tail(ToService)
         /\ UNCHANGED <<command, client, cur, remote, eof, cut, copied, failed, reported>>
         /\ \/ rest' = FilesOf(ToService[1].f) /\ spc' = "list" /\ ToClient' = ToClient /\ UNCHANGED trouble
            \/ /\ ToClient' = Said(Msg("DONE", ToService[1].f)) /\ Msg("DONE", ToService[1].f) \in FsMessages(cmd)
               /\ trouble' = TRUE /\ UNCHANGED <<rest, spc>>
<1>1. /\ spc = "idle" /\ Gets("service") /\ Consume("service")
      /\ UNCHANGED <<command, client, cur, remote, eof, cut, copied, failed, reported>>
      /\ Req.id = "LIST" /\ ~Req.half
  BY DEF ServeList, Receives
<1>2. ToService # <<>> /\ Req = ToService[1] /\ ToService[1] \in FsMessages(cmd)
  BY <1>1, FvTakes
<1>3. Req.f \in Files \cup Dirs
  BY <1>1, <1>2 DEF FsMessages
<1>4. Msg("DONE", Req.f) \in FsMessages(cmd)
  BY <1>3, FsMade DEF Path
<1>5. CASE rest' = FilesOf(Req.f) /\ spc' = "list" /\ NoSend /\ UNCHANGED trouble
  BY <1>1, <1>2, <1>3, <1>5, FvTakes DEF NoSend
<1>6. CASE Say("DONE", Req.f) /\ trouble' = TRUE /\ UNCHANGED <<rest, spc>>
  BY <1>1, <1>2, <1>3, <1>4, <1>6, FvTakes DEF Say
<1> QED BY <1>5, <1>6 DEF ServeList

LEMMA FvListEntry ==
  ASSUME FsInv, ListEntry
  PROVE  /\ spc = "list" /\ ToService' = ToService
         /\ UNCHANGED <<command, client, cur, remote, eof, cut, copied, failed, reported>>
         /\ \/ /\ rest # <<>> /\ rest' = Tail(rest) /\ ToClient' = Said(Msg("DENT", Head(rest)))
               /\ Msg("DENT", Head(rest)) \in FsMessages(cmd)
               /\ UNCHANGED <<spc, trouble>>
            \/ rest # <<>> /\ rest' = Tail(rest) /\ ToClient' = ToClient /\ trouble' = TRUE /\ UNCHANGED spc
            \/ /\ rest = <<>> /\ ToClient' = Said(Msg("DONE", Dst)) /\ spc' = "idle" /\ UNCHANGED <<rest, trouble>>
               /\ Msg("DONE", Dst) \in FsMessages(cmd)
<1>1. /\ spc = "list" /\ out["service"] = <<>> /\ UNCHANGED net
      /\ UNCHANGED <<command, client, cur, remote, eof, cut, copied, failed, reported>>
  BY DEF ListEntry, ServiceIdle
<1>2. rest \in Seq(Files)
  BY DEF FsInv, FsServiceTypes
<1>3. Msg("DONE", Dst) \in FsMessages(cmd)
  BY FsMade DEF Path
<1>4. CASE /\ rest # <<>> /\ rest' = Tail(rest)
           /\ Say("DENT", Head(rest))
           /\ UNCHANGED <<spc, trouble>>
  <2>1. Head(rest) \in Files
    BY <1>2, <1>4
  <2>2. Msg("DENT", Head(rest)) \in FsMessages(cmd)
    BY <2>1, FsMade
  <2> QED BY <1>1, <1>4, <2>2, FvSays DEF Say
<1>5. CASE /\ rest # <<>> /\ rest' = Tail(rest)
           /\ trouble' = TRUE
           /\ NoSend /\ UNCHANGED spc
  BY <1>1, <1>5, FsStill DEF NoSend
<1>6. CASE /\ rest = <<>>
           /\ Say("DONE", Dst) /\ spc' = "idle"
           /\ UNCHANGED <<rest, trouble>>
  BY <1>1, <1>3, <1>6, FvSays DEF Say
<1> QED BY <1>4, <1>5, <1>6 DEF ListEntry

LEMMA FvServeRecv ==
  ASSUME FsInv, ServeRecv
  PROVE  /\ spc = "idle" /\ ToService # <<>> /\ ToService[1].id = "RECV" /\ ~ToService[1].half
         /\ ToService[1].f \in Files /\ ToService' = Tail(ToService)
         /\ UNCHANGED <<command, client, remote, eof, cut, copied, failed, reported>>
         /\ \/ /\ spc' = "read" /\ rest' = remote[ToService[1].f] /\ ToClient' = ToClient
               /\ UNCHANGED trouble
            \/ /\ ToClient' = Said(Msg("FAIL", ToService[1].f)) /\ Msg("FAIL", ToService[1].f) \in FsMessages(cmd)
               /\ spc' = "closing" /\ trouble' = TRUE /\ UNCHANGED <<cur, rest>>
<1>1. /\ spc = "idle" /\ Gets("service") /\ Consume("service")
      /\ UNCHANGED <<command, client, remote, eof, cut, copied, failed, reported>>
      /\ Req.id = "RECV" /\ ~Req.half
  BY DEF ServeRecv, Receives
<1>2. ToService # <<>> /\ Req = ToService[1] /\ ToService[1] \in FsMessages(cmd)
  BY <1>1, FvTakes
<1>3. Req.f \in Files
  BY <1>1, <1>2 DEF FsMessages
<1>4. Msg("FAIL", Req.f) \in FsMessages(cmd)
  BY <1>3, FsMade DEF Path
<1>5. CASE spc' = "read" /\ rest' = remote[Req.f] /\ NoSend /\ UNCHANGED trouble
  BY <1>1, <1>2, <1>3, <1>5, FvTakes DEF NoSend
<1>6. CASE Say("FAIL", Req.f) /\ spc' = "closing" /\ trouble' = TRUE /\ UNCHANGED <<cur, rest>>
  BY <1>1, <1>2, <1>3, <1>4, <1>6, FvTakes DEF Say
<1> QED BY <1>5, <1>6 DEF ServeRecv

LEMMA FvSendChunk ==
  ASSUME FsInv, SendChunk
  PROVE  /\ spc = "read" /\ ToService' = ToService
         /\ UNCHANGED <<command, client, cur, remote, eof, cut, copied, failed, reported>>
         /\ \/ /\ rest # <<>> /\ rest' = Tail(rest) /\ ToClient' = Said(Msg("DATA", Head(rest)))
               /\ Msg("DATA", Head(rest)) \in FsMessages(cmd)
               /\ UNCHANGED <<spc, trouble>>
            \/ /\ rest = <<>> /\ ToClient' = Said(Msg("DONE", cur)) /\ spc' = "idle" /\ UNCHANGED <<rest, trouble>>
               /\ Msg("DONE", cur) \in FsMessages(cmd)
            \/ /\ ToClient' = Said(Msg("FAIL", cur)) /\ Msg("FAIL", cur) \in FsMessages(cmd)
               /\ spc' = "closing" /\ trouble' = TRUE
<1>1. /\ spc = "read" /\ out["service"] = <<>> /\ UNCHANGED net
      /\ UNCHANGED <<command, client, cur, remote, eof, cut, copied, failed, reported>>
  BY DEF SendChunk, ServiceIdle
<1>2. rest \in Seq(Files) /\ cur \in Path
  BY DEF FsInv, FsServiceTypes
<1>3. Msg("DONE", cur) \in FsMessages(cmd) /\ Msg("FAIL", cur) \in FsMessages(cmd)
  BY <1>2, FsMade
<1>4. CASE rest # <<>> /\ Say("DATA", Head(rest)) /\ rest' = Tail(rest) /\ UNCHANGED <<spc, trouble>>
  <2>1. Head(rest) \in Files
    BY <1>2, <1>4
  <2>2. Msg("DATA", Head(rest)) \in FsMessages(cmd)
    BY <2>1, FsMade
  <2> QED BY <1>1, <1>4, <2>2, FvSays DEF Say
<1>5. CASE rest = <<>> /\ Say("DONE", cur) /\ spc' = "idle" /\ UNCHANGED <<rest, trouble>>
  BY <1>1, <1>3, <1>5, FvSays DEF Say
<1>6. CASE Send("service", <<ReadError>>) /\ spc' = "closing" /\ rest' = <<>> /\ trouble' = TRUE
  BY <1>1, <1>3, <1>6, FvSays DEF ReadError
<1> QED BY <1>4, <1>5, <1>6 DEF SendChunk

-----------------------------------------------------------------------------
(* What the client's steps do to the conversation *)

LEMMA FvGot ==
  ASSUME FsInv, Gets("client"), Consume("client"), UNCHANGED out, UNCHANGED eof
  PROVE  /\ ToClient # <<>> /\ Reply = ToClient[1] /\ ToClient' = Tail(ToClient) /\ ToService' = ToService
         /\ ToClient[1] \in FsMessages(cmd)
<1>1. ToClient # <<>> /\ Reply = ToClient[1] /\ ToClient[1] \in FsMessages(cmd)
  BY FsGets, FsViews
<1> QED BY <1>1, FsReads, FsSides

LEMMA FvWrites ==
  ASSUME FsInv, out["client"] = <<>>, UNCHANGED net, UNCHANGED eof
  PROVE  \A msgs \in Seq(FsMessages(cmd)) : Send("client", msgs) => ToService' = Wrote(msgs) /\ ToClient' = ToClient
BY FsWrites, FsSides DEF Wrote

LEMMA FvStart ==
  ASSUME FsInv, Start
  PROVE  /\ ToService' = Wrote(<<Msg("STAT", Dst)>>) /\ ToClient' = ToClient
         /\ Msg("STAT", Dst) \in FsMessages(cmd)
<1>1. cmd = "push"
  BY DEF Start, ClientIdle, FsInv, FsClient
<1>2. Msg("STAT", Dst) \in FsMessages(cmd)
  BY <1>1, FsMade
<1>3. <<Msg("STAT", Dst)>> \in Seq(FsMessages(cmd))
  BY <1>2
<1> QED BY <1>2, <1>3, FvWrites DEF Start, ClientIdle

LEMMA FvDstStat ==
  ASSUME FsInv, DstStat
  PROVE  /\ ToClient # <<>> /\ ToClient[1].id = "ATTR" /\ ToClient' = Tail(ToClient) /\ ToService' = ToService
         /\ \/ cpc' = "next" /\ ok' = TRUE /\ trouble' = trouble
            \/ cpc' = "quit" /\ ok' = FALSE /\ trouble' = TRUE
<1>1. Gets("client") /\ Consume("client") /\ UNCHANGED out /\ UNCHANGED eof /\ Reply.id = "ATTR"
  BY DEF DstStat
<1>2. \/ cpc' = "next" /\ ok' = TRUE /\ trouble' = trouble
      \/ cpc' = "quit" /\ ok' = FALSE /\ trouble' = TRUE
  <2>1. PICK fits \in BOOLEAN :
         LET good == Reply.res # "error" /\ fits IN
         /\ cpc' = IF good THEN "next" ELSE "quit"
         /\ ok' = good
         /\ trouble' = (trouble \/ ~good)
    BY DEF DstStat
  <2>2. PICK g \in BOOLEAN : g = (Reply.res # "error" /\ fits)
    OBVIOUS
  <2>3. trouble \in BOOLEAN
    BY DEF FsInv, FsShared
  <2> QED BY <2>1, <2>2, <2>3
<1> QED BY <1>1, <1>2, FvGot

\* The LSTAT requests for the files of a directory
Lstats(s) == [n \in 1..Len(s) |-> Msg("LSTAT", s[n])]

LEMMA FvLstats == \A s \in Seq(Files) : Lstats(s) \in Seq(FsMessages(cmd)) /\ Len(Lstats(s)) = Len(s)
<1> SUFFICES ASSUME NEW s \in Seq(Files) PROVE Lstats(s) \in Seq(FsMessages(cmd)) /\ Len(Lstats(s)) = Len(s)
  OBVIOUS
<1>1. \A n \in 1..Len(s) : Msg("LSTAT", s[n]) \in FsMessages(cmd)
  BY FsMade
<1> QED BY <1>1 DEF Lstats

LEMMA FvNextPush ==
  ASSUME FsInv, NextSource, cmd \in {"push", "sync"}
  PROVE  /\ srcs # <<>> /\ Head(srcs) \in Files \cup Dirs /\ FilesOf(Head(srcs)) \in Seq(Files) /\ ToClient' = ToClient
         /\ \/ \E list \in Seq(Files) :
                 /\ list \in Listings(Head(srcs))
                 /\ unlisted' = unlisted \cup (ToSet(FilesOf(Head(srcs))) \ ToSet(list))
                 /\ UNCHANGED <<ok, trouble>>
                 /\ \/ /\ asked' = list /\ cpc' = "lstats" /\ UNCHANGED files
                       /\ ToService' = Wrote(Lstats(asked'))
                    \/ files' = list /\ cpc' = "send" /\ UNCHANGED asked /\ ToService' = ToService
            \/ /\ ok' = FALSE /\ trouble' = TRUE /\ UNCHANGED <<cpc, files, asked, unlisted>>
               /\ ToService' = ToService
<1>1. out["client"] = <<>> /\ UNCHANGED net /\ UNCHANGED eof /\ srcs # <<>>
  BY DEF NextSource, ClientIdle
<1>2. Head(srcs) \in Files \cup Dirs
  BY <1>1 DEF FsInv, FsClientTypes
<1>3. FilesOf(Head(srcs)) \in Seq(Files)
  BY <1>2, FsFilesOf
<1>4. ASSUME NEW list \in Listings(Head(srcs)),
             unlisted' = unlisted \cup (ToSet(FilesOf(Head(srcs))) \ ToSet(list)),
             IF check
               THEN /\ asked' = list
                    /\ Send("client", [n \in 1..Len(list) |-> Msg("LSTAT", list[n])])
                    /\ cpc' = "lstats"
                    /\ UNCHANGED files
               ELSE /\ files' = list
                    /\ NoSend
                    /\ cpc' = "send"
                    /\ UNCHANGED asked,
             UNCHANGED <<ok, trouble>>
      PROVE  /\ list \in Seq(Files) /\ ToClient' = ToClient
             /\ \/ /\ asked' = list /\ cpc' = "lstats" /\ UNCHANGED files
                   /\ ToService' = Wrote(Lstats(asked'))
                \/ files' = list /\ cpc' = "send" /\ UNCHANGED asked /\ ToService' = ToService
  <2>0. list \in Seq(Files)
    BY <1>2, <1>4, FsListings
  <2>1. CASE check
    <3>1. Send("client", Lstats(list)) /\ asked' = list /\ cpc' = "lstats" /\ UNCHANGED files
      <4>1. Lstats(list) = [n \in 1..Len(list) |-> Msg("LSTAT", list[n])]
        BY DEF Lstats
      <4>2. PICK q : q = [n \in 1..Len(list) |-> Msg("LSTAT", list[n])]
        OBVIOUS
      <4>3. Send("client", q) /\ asked' = list /\ cpc' = "lstats" /\ UNCHANGED files
        BY <1>4, <2>1, <4>2
      <4> QED BY <4>1, <4>2, <4>3
    <3>2. Lstats(list) \in Seq(FsMessages(cmd))
      BY <2>0, FvLstats
    <3>3. ToService' = Wrote(Lstats(list)) /\ ToClient' = ToClient
      BY <1>1, <3>1, <3>2, FvWrites
    <3> QED BY <2>0, <3>1, <3>3
  <2>2. CASE ~check
    <3>1. ToService' = ToService /\ ToClient' = ToClient
      BY <1>1, <1>4, <2>2, FsStill DEF NoSend
    <3> QED BY <1>4, <2>0, <2>2, <3>1
  <2> QED BY <2>1, <2>2
<1>5. CASE ok' = FALSE /\ trouble' = TRUE /\ NoSend /\ UNCHANGED <<cpc, files, asked, unlisted>>
  <2>1. ToService' = ToService /\ ToClient' = ToClient
    BY <1>1, <1>5, FsStill DEF NoSend
  <2> QED BY <1>1, <1>2, <1>3, <1>5, <2>1
<1>6. CASE ~(ok' = FALSE /\ trouble' = TRUE /\ NoSend /\ UNCHANGED <<cpc, files, asked, unlisted>>)
  <2>1. PICK list \in Listings(Head(srcs)) :
          /\ unlisted' = unlisted \cup (ToSet(FilesOf(Head(srcs))) \ ToSet(list))
          /\ IF check
               THEN /\ asked' = list
                    /\ Send("client", [n \in 1..Len(list) |-> Msg("LSTAT", list[n])])
                    /\ cpc' = "lstats"
                    /\ UNCHANGED files
               ELSE /\ files' = list
                    /\ NoSend
                    /\ cpc' = "send"
                    /\ UNCHANGED asked
          /\ UNCHANGED <<ok, trouble>>
    BY <1>6 DEF NextSource
  <2>2. /\ list \in Seq(Files) /\ ToClient' = ToClient
        /\ \/ /\ asked' = list /\ cpc' = "lstats" /\ UNCHANGED files
              /\ ToService' = Wrote(Lstats(asked'))
           \/ files' = list /\ cpc' = "send" /\ UNCHANGED asked /\ ToService' = ToService
    BY <1>4, <2>1
  <2> QED BY <1>1, <1>2, <1>3, <2>1, <2>2
<1> QED BY <1>5, <1>6

LEMMA FvNextPull ==
  ASSUME FsInv, NextSource, cmd \notin {"push", "sync"}
  PROVE  /\ srcs # <<>> /\ Head(srcs) \in Files \cup Dirs /\ ToClient' = ToClient /\ UNCHANGED <<asked, ok, trouble>>
         /\ \/ /\ cmd = "pull" /\ cpc' = "srcstat"
               /\ files' = IF Head(srcs) \in Files THEN <<Head(srcs)>> ELSE <<>>
               /\ ToService' = Wrote(<<Msg("STAT", Head(srcs))>>) /\ Msg("STAT", Head(srcs)) \in FsMessages(cmd)
            \/ /\ cmd = "ls" /\ cpc' = "ls" /\ UNCHANGED files
               /\ ToService' = Wrote(<<Msg("LIST", Head(srcs))>>) /\ Msg("LIST", Head(srcs)) \in FsMessages(cmd)
<1>1. out["client"] = <<>> /\ UNCHANGED net /\ UNCHANGED eof /\ srcs # <<>>
  BY DEF NextSource, ClientIdle
<1>2. Head(srcs) \in Files \cup Dirs
  BY <1>1 DEF FsInv, FsClientTypes
<1>3. Msg("STAT", Head(srcs)) \in FsMessages(cmd) /\ Msg("LIST", Head(srcs)) \in FsMessages(cmd)
  BY <1>2, FsMade
<1>4. <<Msg("STAT", Head(srcs))>> \in Seq(FsMessages(cmd)) /\ <<Msg("LIST", Head(srcs))>> \in Seq(FsMessages(cmd))
  BY <1>3
<1>5. CASE /\ cmd = "pull"
           /\ files' = IF Head(srcs) \in Files THEN <<Head(srcs)>> ELSE <<>>
           /\ Send("client", <<Msg("STAT", Head(srcs))>>)
           /\ cpc' = "srcstat"
           /\ UNCHANGED <<asked, ok, trouble>>
  BY <1>1, <1>2, <1>3, <1>4, <1>5, FvWrites
<1>6. CASE /\ cmd = "ls"
           /\ Send("client", <<Msg("LIST", Head(srcs))>>)
           /\ cpc' = "ls"
           /\ UNCHANGED <<files, asked, ok, trouble>>
  BY <1>1, <1>2, <1>3, <1>4, <1>6, FvWrites
<1> QED BY <1>5, <1>6 DEF NextSource

LEMMA FvLstatReply ==
  ASSUME FsInv, LstatReply
  PROVE  /\ ToService' = ToService
         /\ \/ asked = <<>> /\ cpc' = "send" /\ UNCHANGED <<files, asked>> /\ ToClient' = ToClient
            \/ /\ asked # <<>> /\ ToClient # <<>> /\ ToClient[1].id = "ATTR" /\ ToClient' = Tail(ToClient)
               /\ files' = IF UpToDate(ToClient[1]) THEN files ELSE Append(files, Head(asked))
               /\ asked' = Tail(asked) /\ UNCHANGED cpc
<1>1. UNCHANGED out /\ UNCHANGED eof
  BY DEF LstatReply
<1>2. CASE asked = <<>>
  BY <1>1, <1>2, FsStill DEF LstatReply
<1>3. CASE asked # <<>>
  BY <1>1, <1>3, FvGot DEF LstatReply
<1> QED BY <1>2, <1>3

LEMMA FvSendFile ==
  ASSUME FsInv, SendFile
  PROVE  /\ files # <<>> /\ Head(files) \in Files /\ ToClient' = ToClient
         /\ \/ /\ Kind[Head(files)] = "large" /\ cpc' = "large" /\ left' = Chunks[Head(files)]
               /\ ToService' = Wrote(<<Msg("SEND", Head(files))>>)
            \/ /\ Kind[Head(files)] # "large" /\ cpc' = "copydone" /\ UNCHANGED left
               /\ ToService' = Wrote(<<Msg("SEND", Head(files)), Msg("DATA", Head(files)), Msg("DONE", Head(files))>>)
         /\ \A id \in {"SEND", "DATA", "DONE"} : Msg(id, Head(files)) \in FsMessages(cmd)
<1>1. out["client"] = <<>> /\ UNCHANGED net /\ UNCHANGED eof /\ files # <<>>
  BY DEF SendFile, ClientIdle
<1>2. Head(files) \in Files
  BY <1>1 DEF FsInv, FsClientTypes
<1>3. \A id \in {"SEND", "DATA", "DONE"} : Msg(id, Head(files)) \in FsMessages(cmd)
  BY <1>2, FsMade DEF Path
<1>4. <<Msg("SEND", Head(files))>> \in Seq(FsMessages(cmd))
  BY <1>3
<1>5. <<Msg("SEND", Head(files)), Msg("DATA", Head(files)), Msg("DONE", Head(files))>> \in Seq(FsMessages(cmd))
  BY <1>3
<1>6. CASE Kind[Head(files)] = "large"
  BY <1>1, <1>2, <1>3, <1>4, <1>6, FvWrites DEF SendFile
<1>7. CASE Kind[Head(files)] # "large"
  BY <1>1, <1>2, <1>3, <1>5, <1>7, FvWrites DEF SendFile
<1> QED BY <1>6, <1>7

LEMMA FvLocalReadFails == ASSUME LocalReadFails PROVE ToService' = ToService /\ ToClient' = ToClient /\ UNCHANGED <<net, out, eof>>
BY FsStill DEF LocalReadFails, GiveUp

LEMMA FvLargeChunk ==
  ASSUME FsInv, LargeChunk
  PROVE  /\ files # <<>> /\ Head(files) \in Files /\ ToClient' = ToClient
         /\ \/ left > 0 /\ left' = left - 1 /\ cpc' = "poll" /\ ToService' = Wrote(<<Msg("DATA", Head(files))>>)
            \/ left = 0 /\ left' = left /\ cpc' = "copydone" /\ ToService' = Wrote(<<Msg("DONE", Head(files))>>)
         /\ \A id \in {"SEND", "DATA", "DONE"} : Msg(id, Head(files)) \in FsMessages(cmd)
<1>1. out["client"] = <<>> /\ UNCHANGED net /\ UNCHANGED eof /\ files # <<>>
  BY DEF LargeChunk, ClientIdle, FsInv, FsClient
<1>2. Head(files) \in Files /\ left \in Nat
  BY <1>1 DEF FsInv, FsClientTypes
<1>3. \A id \in {"SEND", "DATA", "DONE"} : Msg(id, Head(files)) \in FsMessages(cmd)
  BY <1>2, FsMade DEF Path
<1>4. <<Msg("DATA", Head(files))>> \in Seq(FsMessages(cmd)) /\ <<Msg("DONE", Head(files))>> \in Seq(FsMessages(cmd))
  BY <1>3
<1>5. CASE left > 0
  BY <1>1, <1>2, <1>3, <1>4, <1>5, FvWrites DEF LargeChunk, ChunkLeft
<1>6. CASE ~(left > 0)
  <2>1. left = 0
    BY <1>2, <1>6
  <2> QED BY <1>1, <1>2, <1>3, <1>4, <1>6, <2>1, FvWrites DEF LargeChunk, ChunkLeft
<1> QED BY <1>5, <1>6

LEMMA FvLargePoll ==
  ASSUME FsInv, LargePoll
  PROVE  /\ files # <<>> /\ Head(files) \in Files /\ ToClient' = ToClient
         /\ \/ /\ ToClient # <<>> \/ eof["client"]
               /\ left' = 0 /\ cpc' = "copydone" /\ ToService' = Wrote(<<Msg("DONE", Head(files))>>)
            \/ ~eof["client"] /\ cpc' = "large" /\ left' = left /\ ToService' = ToService
         /\ Msg("DONE", Head(files)) \in FsMessages(cmd)
<1>1. out["client"] = <<>> /\ UNCHANGED net /\ UNCHANGED eof /\ files # <<>>
  BY DEF LargePoll, ClientIdle, FsInv, FsClient
<1>2. Head(files) \in Files
  BY <1>1 DEF FsInv, FsClientTypes
<1>3. Msg("DONE", Head(files)) \in FsMessages(cmd)
  BY <1>2, FsMade DEF Path
<1>4. <<Msg("DONE", Head(files))>> \in Seq(FsMessages(cmd))
  BY <1>3
<1>5. CASE net["client"] # <<>> \/ eof["client"]
  <2>1. ToClient # <<>> \/ eof["client"]
    <3>1. Gets("client") \/ eof["client"]
      BY <1>1, <1>5 DEF Gets
    <3> QED BY <3>1, FsGets
  <2> QED BY <1>1, <1>2, <1>3, <1>4, <1>5, <2>1, FvWrites DEF LargePoll
<1>6. CASE ~(net["client"] # <<>> \/ eof["client"])
  <2>1. ToService' = ToService /\ ToClient' = ToClient
    BY <1>1, <1>6, FsStill DEF LargePoll, NoSend
  <2> QED BY <1>1, <1>2, <1>3, <1>6, <2>1 DEF LargePoll
<1> QED BY <1>5, <1>6

LEMMA FvCopyOkay ==
  ASSUME FsInv, CopyOkay
  PROVE  ToClient # <<>> /\ ToClient[1].id = "OKAY" /\ ToClient' = Tail(ToClient) /\ ToService' = ToService
BY FvGot DEF CopyOkay

LEMMA FvCopyFails ==
  ASSUME FsInv, FsGone, CopyFails
  PROVE  /\ ToService' = ToService /\ eof' = eof
         /\ \/ /\ ToClient # <<>> /\ ToClient[1].id # "OKAY" /\ ToClient' = Tail(ToClient)
               /\ reported' = IF ToClient[1].id = "FAIL" /\ ~ToClient[1].half THEN reported \cup {Head(files)}
                                                                             ELSE reported
            \/ ToClient = <<>> /\ eof["client"] /\ ToClient' = ToClient /\ UNCHANGED reported
<1>1. UNCHANGED out /\ UNCHANGED eof
  BY DEF CopyFails, GiveUp
<1>2. CASE /\ Gets("client") /\ Reply.id # "OKAY"
           /\ Consume("client")
           /\ reported' = IF Reply.id = "FAIL" /\ ~Reply.half THEN reported \cup {Head(files)}
                                                              ELSE reported
  BY <1>1, <1>2, FvGot
<1>3. CASE ReadFails("client") /\ UNCHANGED <<net, reported>>
  BY <1>1, <1>3, FsNothing, FsStill
<1> QED BY <1>2, <1>3 DEF CopyFails

LEMMA FvSourceDone == ASSUME SourceDone PROVE ToService' = ToService /\ ToClient' = ToClient
BY FsStill DEF SourceDone

LEMMA FvQuit ==
  ASSUME FsInv, Quit
  PROVE  /\ ToService' = Wrote(<<Msg("QUIT", Dst)>>) /\ ToClient' = ToClient
         /\ Msg("QUIT", Dst) \in FsMessages(cmd)
<1>1. out["client"] = <<>> /\ UNCHANGED net /\ UNCHANGED eof
  BY DEF Quit, ClientIdle
<1>2. Msg("QUIT", Dst) \in FsMessages(cmd)
  BY FsMade DEF Path
<1>3. <<Msg("QUIT", Dst)>> \in Seq(FsMessages(cmd))
  BY <1>2
<1> QED BY <1>1, <1>2, <1>3, FvWrites DEF Quit

Pushes == cmd \in {"push", "sync"}

Failing == spc \in {"drain", "abort", "closing", "closed"}

\* Every message of q is one of ids.
Ids(q, ids) == \A n \in 1..Len(q) : q[n].id \in ids

\* Each command has steps and requests of its own.
FsPlaces ==
  /\ Pushes => cpc \in {"start", "dst", "next", "lstats", "send", "large", "poll", "copydone", "quit",
                        "shutdown", "done", "dead", "killed"}
  /\ cmd = "pull" => cpc \in {"next", "srcstat", "ls", "links", "lnstat", "recv", "creat", "recvdata",
                              "shutdown", "done", "dead", "killed"}
  /\ cmd = "ls" => cpc \in {"next", "ls", "quit", "shutdown", "done", "dead", "killed"}

AskIds ==
  IF Pushes THEN {"STAT", "LSTAT", "SEND", "DATA", "DONE", "QUIT"}
  ELSE IF cmd = "pull" THEN {"STAT", "LIST", "RECV", "QUIT"} ELSE {"LIST", "QUIT"}

FsAsks ==
  /\ Ids(ToService, AskIds)
  /\ Pushes => spc \notin {"list", "read"}
  /\ ~Pushes => spc \in {"idle", "list", "read", "closing", "closed"}

\* Pushes leave the local files alone, the other commands the remote ones.
FsSources ==
  /\ cmd # "pull" => \A f \in Files : local[f] = Absent
  /\ ~Pushes => failed = {} /\ \A f \in Files : remote[f] = Complete(f)

LEMMA FsPlacesInit == FileSyncInit => FsPlaces
BY DEF FileSyncInit, FsPlaces, Pushes

LEMMA FsPlacesClient == FsInv /\ FsPlaces /\ Client => FsPlaces'
<1> SUFFICES ASSUME FsInv, FsPlaces, Client PROVE FsPlaces'
  OBVIOUS
<1>1. cmd' = cmd /\ cmd \in {"push", "sync", "pull", "ls"}
  <2>1. UNCHANGED command
    BY DEF Client, Start, DstStat, StatFault, NextSource, LstatReply, SendFile, LocalReadFails, LargeChunk, LargePoll,
         CopyOkay, CopyFails, SrcStat, Dent, ListDone, ListFails, StatLink, LinkStat, RecvFile, Creat, RecvData,
         RecvFails, RecvDone, SourceDone, Quit, Shutdown, ClientWriteFails, Transmit, Swallow
  <2> QED BY <2>1 DEF command, FsInv, FsCommand
<1>2. CASE Transmit("client") \/ Swallow("client")
  BY <1>1, <1>2 DEF Transmit, Swallow, client, FsPlaces, Pushes
<1>3. CASE ClientWriteFails
  <2>1. cpc' \in {"dead", "done", "quit", "links", "next"} /\ (cpc' = "quit" => cpc = "dst") /\ (cpc' = "links" => cpc = "lnstat")
    BY <1>3 DEF ClientWriteFails, ClientEnds, GiveUp
  <2> QED BY <1>1, <2>1 DEF FsPlaces, Pushes
<1>4. CASE StatFault \/ Shutdown
  BY <1>1, <1>4 DEF StatFault, Shutdown, ClientEnds, FsPlaces, Pushes
<1>5. CASE Start \/ DstStat \/ LstatReply \/ SendFile \/ LocalReadFails \/ LargeChunk \/ LargePoll \/ CopyOkay \/ CopyFails
  <2>1. /\ cpc \in {"start", "dst", "lstats", "send", "large", "poll", "copydone"}
        /\ cpc' \in {"dst", "next", "quit", "lstats", "send", "large", "copydone", "poll"}
    BY <1>5 DEF Start, DstStat, LstatReply, SendFile, LocalReadFails, LargeChunk, LargePoll,
         CopyOkay, CopyFails, ClientIdle, GiveUp
  <2> QED BY <1>1, <2>1 DEF FsPlaces, Pushes
<1>6. CASE SrcStat \/ StatLink \/ LinkStat \/ RecvFile \/ Creat \/ RecvData \/ RecvFails \/ RecvDone
  <2>1. /\ cpc \in {"srcstat", "links", "lnstat", "recv", "creat", "recvdata"}
        /\ cpc' \in {"recv", "ls", "next", "lnstat", "links", "creat", "recvdata"}
    BY <1>6 DEF SrcStat, StatLink, LinkStat, RecvFile, Creat, RecvData, RecvFails, RecvDone, ClientIdle, GiveUp
  <2> QED BY <1>1, <2>1 DEF FsPlaces, Pushes
<1>7. CASE NextSource
  <2>1. \/ cmd \in {"push", "sync"} /\ cpc' \in {"lstats", "send", "next"}
        \/ cmd = "pull" /\ cpc' = "srcstat"
        \/ cmd = "ls" /\ cpc' = "ls"
    BY <1>7 DEF NextSource, ClientIdle
  <2> QED BY <1>1, <2>1 DEF FsPlaces, Pushes
<1>8. CASE Dent \/ ListDone \/ ListFails
  <2>1. cpc = "ls" /\ (cpc' \in {"ls", "next"} \/ (cmd = "pull" /\ cpc' = "links") \/ (cmd # "pull" /\ cpc' = "quit"))
    BY <1>8 DEF Dent, ListDone, ListFails, ClientIdle, GiveUp
  <2> QED BY <1>1, <2>1 DEF FsPlaces, Pushes
<1>9. CASE SourceDone \/ Quit
  BY <1>1, <1>9 DEF SourceDone, Quit, FsPlaces, Pushes
<1> QED BY <1>2, <1>3, <1>4, <1>5, <1>6, <1>7, <1>8, <1>9 DEF Client

\* What the service and the world leave alone
LEMMA FsServiceFrame ==
  ASSUME Service
  PROVE  UNCHANGED <<command, client, copied, reported, cut>>
BY DEF Service, ServeStat, ServeList, ListEntry, ServeSend, FileData, FileDone, FileInvalid, Drain, Abort, Close,
       LinkData, LinkDone, LinkFails, ServeRecv, SendChunk, ServeQuit, BadRequest, ServiceWriteFails, Transmit,
       Swallow, history

LEMMA FsClientFrame ==
  ASSUME Client
  PROVE  UNCHANGED <<command, service, failed, cut>>
BY DEF Client, Start, DstStat, StatFault, NextSource, LstatReply, SendFile, LocalReadFails, LargeChunk, LargePoll,
         CopyOkay, CopyFails, SrcStat, Dent, ListDone, ListFails, StatLink, LinkStat, RecvFile, Creat, RecvData,
         RecvFails, RecvDone, SourceDone, Quit, Shutdown, ClientWriteFails, Transmit, Swallow, history

LEMMA FsPlacesStep == FsInv /\ FsPlaces /\ [FileSyncNext]_fileSyncVars => FsPlaces'
<1> SUFFICES ASSUME FsInv, FsPlaces, [FileSyncNext]_fileSyncVars PROVE FsPlaces'
  OBVIOUS
<1>1. CASE Client
  BY <1>1, FsPlacesClient
<1>2. CASE Service
  BY <1>2, FsServiceFrame DEF command, client, FsPlaces, Pushes
<1>3. CASE UNCHANGED fileSyncVars \/ Break
  BY <1>3 DEF fileSyncVars, Break, command, client, FsPlaces, Pushes
<1>4. CASE Kill
  BY <1>4 DEF Kill, command, FsPlaces, Pushes
<1> QED BY <1>1, <1>2, <1>3, <1>4 DEF FileSyncNext, DrainSpins, Finished

-----------------------------------------------------------------------------
(* Sequences of messages *)

LEMMA FsIdsTail ==
  ASSUME NEW c, NEW s \in Seq(FsMessages(c)), s # <<>>, NEW ids, Ids(s, ids)
  PROVE  Ids(Tail(s), ids)
BY DEF Ids

LEMMA FsIdsShorter ==
  ASSUME NEW s, NEW q, Len(q) \in Nat, Len(s) \in Nat, Shorter(q, s), NEW ids, Ids(s, ids)
  PROVE  Ids(q, ids)
BY DEF Ids, Shorter

LEMMA FsIdsJoin ==
  ASSUME NEW c, NEW s \in Seq(FsMessages(c)), NEW t \in Seq(FsMessages(c)), NEW ids, Ids(s, ids), Ids(t, ids)
  PROVE  Ids(s \o t, ids)
<1> SUFFICES ASSUME NEW n \in 1..Len(s \o t) PROVE (s \o t)[n].id \in ids
  BY DEF Ids
<1>1. CASE n <= Len(s)
  BY <1>1 DEF Ids
<1>2. CASE n > Len(s)
  <2>1. (s \o t)[n] = t[n - Len(s)] /\ n - Len(s) \in 1..Len(t)
    BY <1>2
  <2> QED BY <2>1 DEF Ids
<1> QED BY <1>1, <1>2

LEMMA FsIdsAppend ==
  ASSUME NEW c, NEW s \in Seq(FsMessages(c)), NEW m \in FsMessages(c), NEW ids, Ids(s, ids), m.id \in ids
  PROVE  Ids(Append(s, m), ids)
BY DEF Ids

\* What a message made by Msg is
LEMMA FsMsg == \A id, f : Msg(id, f).id = id /\ Msg(id, f).f = f /\ Msg(id, f).half = FALSE
BY DEF Msg

LEMMA FsAttr == \A f, r : Attr(f, r).id = "ATTR" /\ Attr(f, r).f = f /\ Attr(f, r).res = r /\ Attr(f, r).half = FALSE
BY DEF Attr, Msg

LEMMA FvSrcStat ==
  ASSUME FsInv, SrcStat
  PROVE  /\ ToClient # <<>> /\ ToClient[1].id = "ATTR" /\ ToClient' = Tail(ToClient) /\ cmd = "pull"
         /\ \/ /\ Found(ToClient[1]) /\ files # <<>> /\ cpc' = "recv" /\ ToService' = ToService
               /\ UNCHANGED <<srcs, files, asked, left, ok, eof>>
            \/ /\ Found(ToClient[1]) /\ files = <<>> /\ cpc' = "ls" /\ UNCHANGED <<srcs, files, asked, left, ok, eof>>
               /\ ToService' = Wrote(<<Msg("LIST", ToClient[1].f)>>) /\ Msg("LIST", ToClient[1].f) \in FsMessages(cmd)
            \/ ~Found(ToClient[1]) /\ GiveUp /\ ToService' = ToService
<1>1. cpc = "srcstat" /\ Gets("client") /\ Consume("client") /\ eof' = eof /\ Reply.id = "ATTR"
  BY DEF SrcStat, ClientIdle, GiveUp
<1>2. cmd = "pull"
  BY <1>1 DEF FsInv, FsClient
<1>3. ToClient # <<>> /\ Reply = ToClient[1]
  BY <1>1, FsGets
<1>4. ToClient[1] \in FsMessages(cmd)
  BY <1>3, FsViews
<1>5. Msg("LIST", ToClient[1].f) \in FsMessages(cmd)
  <2>1. ToClient[1].f \in Files \cup Dirs
    BY <1>1, <1>2, <1>3, <1>4 DEF FsMessages
  <2> QED BY <2>1, FsMade
<1>6. <<Msg("LIST", ToClient[1].f)>> \in Seq(FsMessages(cmd))
  BY <1>5
<1>7. NoSend => ToClient' = Tail(ToClient) /\ ToService' = ToService
  BY <1>1, FvGot DEF NoSend
<1>8. CASE Found(Reply) /\ files # <<>> /\ cpc' = "recv" /\ NoSend /\ UNCHANGED <<srcs, files, asked, left, ok, eof>>
  BY <1>1, <1>2, <1>3, <1>7, <1>8
<1>9. CASE /\ Found(Reply) /\ files = <<>>
           /\ cpc' = "ls"
           /\ Send("client", <<Msg("LIST", Reply.f)>>)
           /\ UNCHANGED <<srcs, files, asked, left, ok, eof>>
  <2>1. Send("client", <<Msg("LIST", ToClient[1].f)>>)
    BY <1>3, <1>9
  <2>2. ToClient' = Tail(ToClient) /\ ToService' = Wrote(<<Msg("LIST", ToClient[1].f)>>)
    BY <1>1, <1>6, <2>1, FsAnswers, FsSides DEF Wrote
  <2> QED BY <1>1, <1>2, <1>3, <1>5, <1>9, <2>2
<1>10. CASE ~Found(Reply) /\ GiveUp /\ NoSend
  BY <1>1, <1>2, <1>3, <1>7, <1>10
<1> QED BY <1>8, <1>9, <1>10 DEF SrcStat

LEMMA FvDent ==
  ASSUME FsInv, Dent
  PROVE  /\ ToClient # <<>> /\ ToClient[1].id = "DENT" /\ ToClient' = Tail(ToClient) /\ ToService' = ToService
         /\ \/ asked' = Append(asked, ToClient[1].f) /\ UNCHANGED files
            \/ files' = Append(files, ToClient[1].f) /\ UNCHANGED asked
<1>1. Gets("client") /\ Consume("client") /\ UNCHANGED out /\ UNCHANGED eof /\ Reply.id = "DENT"
  BY DEF Dent
<1>2. ToClient # <<>> /\ Reply = ToClient[1] /\ ToClient' = Tail(ToClient) /\ ToService' = ToService
  BY <1>1, FvGot
<1> QED BY <1>1, <1>2 DEF Dent

LEMMA FvListDone ==
  ASSUME FsInv, ListDone
  PROVE  ToClient # <<>> /\ ToClient[1].id = "DONE" /\ ToClient' = Tail(ToClient) /\ ToService' = ToService
BY FvGot DEF ListDone

LEMMA FvListFails ==
  ASSUME FsInv, FsGone, ListFails
  PROVE  /\ ToService' = ToService /\ eof' = eof
         /\ \/ /\ ToClient # <<>> /\ ToClient' = Tail(ToClient)
               /\ ToClient[1].half \/ ToClient[1].id \notin {"DENT", "DONE"}
            \/ ToClient = <<>> /\ eof["client"] /\ ToClient' = ToClient
<1>1. UNCHANGED out /\ UNCHANGED eof
  BY DEF ListFails, GiveUp
<1>2. CASE Gets("client") /\ (Reply.half \/ Reply.id \notin {"DENT", "DONE"}) /\ Consume("client")
  BY <1>1, <1>2, FvGot
<1>3. CASE ReadFails("client") /\ UNCHANGED net
  BY <1>1, <1>3, FsNothing, FsStill
<1> QED BY <1>2, <1>3 DEF ListFails

LEMMA FvStatLink ==
  ASSUME FsInv, StatLink
  PROVE  /\ ToClient' = ToClient
         /\ \/ asked = <<>> /\ cpc' = "recv" /\ ToService' = ToService
            \/ /\ asked # <<>> /\ cpc' = "lnstat" /\ ToService' = Wrote(<<Msg("STAT", Head(asked))>>)
               /\ Msg("STAT", Head(asked)) \in FsMessages(cmd)
<1>1. out["client"] = <<>> /\ UNCHANGED net /\ UNCHANGED eof
  BY DEF StatLink, ClientIdle
<1>2. CASE asked = <<>>
  BY <1>1, <1>2, FsStill DEF StatLink, NoSend
<1>3. CASE asked # <<>>
  <2>1. Head(asked) \in Files \cup Dirs
    BY <1>3 DEF FsInv, FsClientTypes
  <2>2. Msg("STAT", Head(asked)) \in FsMessages(cmd)
    BY <2>1, FsMade
  <2>3. <<Msg("STAT", Head(asked))>> \in Seq(FsMessages(cmd))
    BY <2>2
  <2> QED BY <1>1, <1>3, <2>2, <2>3, FvWrites DEF StatLink
<1> QED BY <1>2, <1>3

LEMMA FvLinkStat ==
  ASSUME FsInv, LinkStat
  PROVE  /\ ToClient # <<>> /\ ToClient[1].id = "ATTR" /\ ToClient' = Tail(ToClient) /\ ToService' = ToService
         /\ files' = IF Found(ToClient[1]) THEN Append(files, Head(asked)) ELSE files
<1>1. Gets("client") /\ Consume("client") /\ UNCHANGED out /\ UNCHANGED eof /\ Reply.id = "ATTR"
  BY DEF LinkStat
<1>2. ToClient # <<>> /\ Reply = ToClient[1] /\ ToClient' = Tail(ToClient) /\ ToService' = ToService
  BY <1>1, FvGot
<1> QED BY <1>1, <1>2 DEF LinkStat

LEMMA FvRecvFile ==
  ASSUME FsInv, RecvFile
  PROVE  /\ ToClient' = ToClient /\ files # <<>> /\ Head(files) \in Files
         /\ ToService' = Wrote(<<Msg("RECV", Head(files))>>) /\ Msg("RECV", Head(files)) \in FsMessages(cmd)
<1>1. out["client"] = <<>> /\ UNCHANGED net /\ UNCHANGED eof /\ files # <<>>
  BY DEF RecvFile, ClientIdle
<1>2. Head(files) \in Files
  BY <1>1 DEF FsInv, FsClientTypes
<1>3. Msg("RECV", Head(files)) \in FsMessages(cmd)
  BY <1>2, FsMade
<1>4. <<Msg("RECV", Head(files))>> \in Seq(FsMessages(cmd))
  BY <1>3
<1> QED BY <1>1, <1>2, <1>3, <1>4, FvWrites DEF RecvFile

LEMMA FvCreat == ASSUME Creat PROVE ToService' = ToService /\ ToClient' = ToClient /\ eof' = eof
<1>1. UNCHANGED net /\ UNCHANGED out /\ UNCHANGED eof
  BY DEF Creat, GiveUp
<1> QED BY <1>1, FsStill

LEMMA FvRecvData ==
  ASSUME FsInv, RecvData
  PROVE  /\ ToClient # <<>> /\ ToClient[1].id = "DATA" /\ ToClient' = Tail(ToClient) /\ ToService' = ToService
         /\ local' = [local EXCEPT ![Head(files)] = Append(local[Head(files)], ToClient[1].f)]
<1>1. Gets("client") /\ Consume("client") /\ UNCHANGED out /\ UNCHANGED eof /\ Reply.id = "DATA"
  BY DEF RecvData
<1>2. ToClient # <<>> /\ Reply = ToClient[1] /\ ToClient' = Tail(ToClient) /\ ToService' = ToService
  BY <1>1, FvGot
<1>3. local' = [local EXCEPT ![Head(files)] = Append(@, Reply.f)]
  BY DEF RecvData
<1> QED BY <1>1, <1>2, <1>3

LEMMA FvRecvFails ==
  ASSUME FsInv, FsGone, RecvFails
  PROVE  /\ ToService' = ToService /\ eof' = eof
         /\ \/ /\ ToClient # <<>> /\ ToClient' = Tail(ToClient) /\ ToClient[1].id # "DONE"
               /\ trouble' = (trouble \/ ToClient[1].id = "DATA")
            \/ ToClient = <<>> /\ eof["client"] /\ ToClient' = ToClient /\ UNCHANGED trouble
<1>1. UNCHANGED out /\ UNCHANGED eof
  BY DEF RecvFails, GiveUp
<1>2. CASE /\ Gets("client") /\ Reply.id # "DONE" /\ Consume("client")
           /\ trouble' = (trouble \/ Reply.id = "DATA")
  BY <1>1, <1>2, FvGot
<1>3. CASE ReadFails("client") /\ UNCHANGED <<net, trouble>>
  BY <1>1, <1>3, FsNothing, FsStill
<1> QED BY <1>2, <1>3 DEF RecvFails

LEMMA FvRecvDone ==
  ASSUME FsInv, RecvDone
  PROVE  ToClient # <<>> /\ ToClient[1].id = "DONE" /\ ToClient' = Tail(ToClient) /\ ToService' = ToService /\ eof' = eof
<1>1. Gets("client") /\ Consume("client") /\ UNCHANGED out /\ UNCHANGED eof /\ Reply.id = "DONE"
  BY DEF RecvDone, GiveUp
<1> QED BY <1>1, FvGot

-----------------------------------------------------------------------------

LEMMA FsAsksSame ==
  ASSUME FsAsks, ToService' = ToService, UNCHANGED <<cmd, spc>>
  PROVE  FsAsks'
BY DEF FsAsks, AskIds, Pushes, Ids

LEMMA FsAsksMore ==
  ASSUME FsInv, FsAsks, NEW msgs \in Seq(FsMessages(cmd)), Ids(msgs, AskIds),
         ToService' = Wrote(msgs), UNCHANGED <<cmd, spc>>
  PROVE  FsAsks'
<1>1. AskIds' = AskIds
  BY DEF AskIds, Pushes
<1>2. Ids(ToService \o msgs, AskIds)
  BY FsIdsJoin, FsViews DEF FsAsks
<1>3. Ids(ToService', AskIds)
  BY <1>2 DEF FsAsks, Wrote
<1> QED BY <1>1, <1>3 DEF FsAsks, Pushes, Ids

LEMMA FsAsksOne ==
  ASSUME FsInv, FsAsks, NEW id, NEW f, id \in AskIds, Msg(id, f) \in FsMessages(cmd),
         ToService' = Wrote(<<Msg(id, f)>>), UNCHANGED <<cmd, spc>>
  PROVE  FsAsks'
<1>1. <<Msg(id, f)>> \in Seq(FsMessages(cmd))
  OBVIOUS
<1>2. Ids(<<Msg(id, f)>>, AskIds)
  BY FsMsg DEF Ids
<1> QED BY <1>1, <1>2, FsAsksMore

LEMMA FsAsksLess ==
  ASSUME FsInv, FsAsks, \/ ToService # <<>> /\ ToService' = Tail(ToService)
                        \/ ToService' = <<>>
                        \/ ToService' = ToService,
         UNCHANGED cmd, spc' \notin {"list", "read"}, ~Pushes => spc' \in {"idle", "closing", "closed"}
  PROVE  FsAsks'
<1>1. AskIds' = AskIds
  BY DEF AskIds, Pushes
<1>2. Ids(ToService', AskIds)
  <2>1. CASE ToService # <<>> /\ ToService' = Tail(ToService)
    <3>1. Ids(Tail(ToService), AskIds)
      BY <2>1, FsIdsTail, FsViews DEF FsAsks
    <3> QED BY <2>1, <3>1
  <2>2. CASE ToService' = <<>>
    BY <2>2 DEF Ids
  <2>3. CASE ToService' = ToService
    BY <2>3 DEF FsAsks
  <2> QED BY <2>1, <2>2, <2>3
<1> QED BY <1>1, <1>2 DEF FsAsks, Pushes, Ids

LEMMA FsAsksInit == FileSyncInit => FsAsks
<1> SUFFICES ASSUME FileSyncInit PROVE FsAsks
  OBVIOUS
<1>1. net["service"] = <<>> /\ out["client"] = <<>>
  BY FsSides DEF FileSyncInit
<1>2. ToService = <<>>
  BY <1>1 DEF ToService
<1> QED BY <1>2 DEF FsAsks, FileSyncInit, Ids

LEMMA FsAsksClient == FsInv /\ FsGone /\ FsPlaces /\ FsAsks /\ Client => FsAsks'
<1> SUFFICES ASSUME FsInv, FsGone, FsPlaces, FsAsks, Client PROVE FsAsks'
  OBVIOUS
<1>1. UNCHANGED <<cmd, spc>>
  BY FsClientFrame DEF command, service
<1>2. CASE \/ DstStat \/ StatFault \/ LstatReply \/ LocalReadFails \/ CopyOkay \/ CopyFails \/ Dent \/ ListDone
           \/ ListFails \/ LinkStat \/ Creat \/ RecvData \/ RecvFails \/ RecvDone \/ SourceDone \/ Shutdown
           \/ ClientWriteFails \/ Transmit("client") \/ Swallow("client")
  <2>1. ToService' = ToService
    BY <1>2, FsSides, FvDstStat, FvStatFault, FvLstatReply, FvLocalReadFails, FvCopyOkay, FvCopyFails, FvDent,
       FvListDone, FvListFails, FvLinkStat, FvCreat, FvRecvData, FvRecvFails, FvRecvDone, FvSourceDone, FvShutdown,
       FvClientWriteFails, FsTransmitted, FsSwallowed
  <2> QED BY <1>1, <2>1, FsAsksSame
<1>3. CASE Start
  <2>1. "STAT" \in AskIds
    BY <1>3 DEF Start, ClientIdle, AskIds, Pushes, FsInv, FsClient
  <2> QED BY <1>1, <1>3, <2>1, FvStart, FsAsksOne
<1>4. CASE NextSource
  <2>1. CASE Pushes
    <3>1. \/ ToService' = ToService
          \/ asked' \in Seq(Files) /\ ToService' = Wrote(Lstats(asked'))
      BY <1>4, <2>1, FvNextPush DEF Pushes
    <3>2. ASSUME asked' \in Seq(Files), ToService' = Wrote(Lstats(asked')) PROVE FsAsks'
      <4>1. PICK a \in Seq(Files) : a = asked'
        BY <3>2
      <4>2. Lstats(a) \in Seq(FsMessages(cmd)) /\ Len(Lstats(a)) = Len(a)
        BY FvLstats
      <4>3. \A n \in 1..Len(a) : Lstats(a)[n] = Msg("LSTAT", a[n])
        BY DEF Lstats
      <4>4. "LSTAT" \in AskIds
        BY <2>1 DEF AskIds
      <4>5. Ids(Lstats(a), AskIds)
        BY <4>2, <4>3, <4>4, FsMsg DEF Ids
      <4> QED BY <1>1, <3>2, <4>1, <4>2, <4>5, FsAsksMore
    <3> QED BY <1>1, <3>1, <3>2, FsAsksSame
  <2>2. CASE ~Pushes
    <3>1. \/ ToService' = Wrote(<<Msg("STAT", Head(srcs))>>) /\ Msg("STAT", Head(srcs)) \in FsMessages(cmd) /\ cmd = "pull"
          \/ ToService' = Wrote(<<Msg("LIST", Head(srcs))>>) /\ Msg("LIST", Head(srcs)) \in FsMessages(cmd) /\ cmd = "ls"
      BY <1>4, <2>2, FvNextPull DEF Pushes
    <3>2. (cmd = "pull" => "STAT" \in AskIds) /\ "LIST" \in AskIds
      BY <2>2 DEF AskIds, Pushes
    <3> QED BY <1>1, <3>1, <3>2, FsAsksOne
  <2> QED BY <2>1, <2>2
<1>5. CASE SendFile
  <2>1. Pushes
    BY <1>5 DEF SendFile, ClientIdle, FsPlaces, Pushes, FsInv, FsCommand
  <2>2. "SEND" \in AskIds /\ "DATA" \in AskIds /\ "DONE" \in AskIds
    BY <2>1 DEF AskIds
  <2>3. CASE ToService' = Wrote(<<Msg("SEND", Head(files))>>)
    BY <1>1, <1>5, <2>2, <2>3, FvSendFile, FsAsksOne
  <2>4. CASE ToService' = Wrote(<<Msg("SEND", Head(files)), Msg("DATA", Head(files)), Msg("DONE", Head(files))>>)
    <3>1. PICK q : q = <<Msg("SEND", Head(files)), Msg("DATA", Head(files)), Msg("DONE", Head(files))>>
      OBVIOUS
    <3>2. q \in Seq(FsMessages(cmd))
      BY <1>5, <3>1, FvSendFile
    <3>3. Ids(q, AskIds)
      BY <2>2, <3>1, FsMsg DEF Ids
    <3> QED BY <1>1, <2>4, <3>1, <3>2, <3>3, FsAsksMore
  <2> QED BY <1>5, <2>3, <2>4, FvSendFile
<1>6. CASE LargeChunk \/ LargePoll
  <2>1. Pushes
    BY <1>6 DEF LargeChunk, LargePoll, ClientIdle, FsPlaces, Pushes, FsInv, FsCommand
  <2>2. "DATA" \in AskIds /\ "DONE" \in AskIds
    BY <2>1 DEF AskIds
  <2>3. Msg("DONE", Head(files)) \in FsMessages(cmd) /\ (LargeChunk => Msg("DATA", Head(files)) \in FsMessages(cmd))
    BY <1>6, FvLargeChunk, FvLargePoll
  <2>4. \/ ToService' = Wrote(<<Msg("DONE", Head(files))>>)
        \/ ToService' = Wrote(<<Msg("DATA", Head(files))>>) /\ LargeChunk
        \/ ToService' = ToService
    BY <1>6, FvLargeChunk, FvLargePoll
  <2> QED BY <1>1, <2>2, <2>3, <2>4, FsAsksOne, FsAsksSame
<1>7. CASE SrcStat \/ StatLink \/ RecvFile
  <2>1. cmd = "pull"
    BY <1>7, FvSrcStat DEF StatLink, RecvFile, ClientIdle, FsPlaces, Pushes, FsInv, FsCommand
  <2>2. "STAT" \in AskIds /\ "LIST" \in AskIds /\ "RECV" \in AskIds
    BY <2>1 DEF AskIds, Pushes
  <2>3. CASE SrcStat
    BY <1>1, <2>2, <2>3, FvSrcStat, FsAsksOne, FsAsksSame
  <2>4. CASE StatLink
    BY <1>1, <2>2, <2>4, FvStatLink, FsAsksOne, FsAsksSame
  <2>5. CASE RecvFile
    BY <1>1, <2>2, <2>5, FvRecvFile, FsAsksOne
  <2> QED BY <1>7, <2>3, <2>4, <2>5
<1>8. CASE Quit
  <2>1. "QUIT" \in AskIds
    BY DEF AskIds
  <2> QED BY <1>1, <1>8, <2>1, FvQuit, FsAsksOne
<1> QED BY <1>2, <1>3, <1>4, <1>5, <1>6, <1>7, <1>8 DEF Client

LEMMA FsAsked ==
  ASSUME FsInv, FsAsks, ToService # <<>>
  PROVE  /\ ToService[1].id \in AskIds
         /\ Pushes => ToService[1].id \in {"STAT", "LSTAT", "SEND", "DATA", "DONE", "QUIT"}
         /\ ~Pushes => ToService[1].id \in {"STAT", "LIST", "RECV", "QUIT"}
<1>1. 1 \in 1..Len(ToService)
  BY FsViews
<1> QED BY <1>1 DEF FsAsks, Ids, AskIds

LEMMA FsAsksService == FsInv /\ FsGone /\ FsAsks /\ Service => FsAsks'
<1> SUFFICES ASSUME FsInv, FsGone, FsAsks, Service PROVE FsAsks'
  OBVIOUS
<1>1. UNCHANGED cmd
  BY FsServiceFrame DEF command
<1>2. CASE Transmit("service") \/ Swallow("service")
  BY <1>1, <1>2, FsSides, FsTransmitted, FsSwallowed, FsAsksSame DEF Transmit, Swallow, service
<1>3. CASE Abort \/ Close
  BY <1>1, <1>3, FvCloses, FsAsksLess DEF Abort, Close, CloseStream
<1>4. CASE ServeStat
  BY <1>1, <1>4, FvServeStat, FsAsksLess DEF service
<1>5. CASE ServeSend
  <2>1. Pushes
    BY <1>5, FvServeSend, FsAsked
  <2> QED BY <1>1, <1>5, <2>1, FvServeSend, FsAsksLess
<1>6. CASE FileData \/ FileDone
  <2>1. Pushes
    BY <1>6, FvFileData, FvFileDone DEF FsAsks
  <2> QED BY <1>1, <1>6, <2>1, FvFileData, FvFileDone, FsAsksLess
<1>7. CASE FileInvalid
  <2>1. Pushes
    BY <1>7, FvFileInvalid DEF FsAsks
  <2> QED BY <1>1, <1>7, <2>1, FvFileInvalid, FsAsksLess
<1>8. CASE Drain
  <2>1. Pushes
    BY <1>8, FvDrain DEF FsAsks
  <2> QED BY <1>1, <1>8, <2>1, FvDrain, FsAsksLess
<1>9. CASE LinkData \/ LinkDone \/ LinkFails
  <2>1. Pushes
    BY <1>9, FvLinkData, FvLinkDone, FvLinkFails DEF FsAsks
  <2> QED BY <1>1, <1>9, <2>1, FvLinkData, FvLinkDone, FvLinkFails, FsAsksLess
<1>10. CASE ServeQuit \/ BadRequest
  BY <1>1, <1>10, FvServeQuit, FvBadRequest, FsAsksLess
<1>11. CASE ServiceWriteFails
  <2>1. spc' \in {spc, "closing"}
    BY <1>11 DEF ServiceWriteFails
  <2>2. ToService' = ToService
    BY <1>11, FvServiceWriteFails
  <2> QED BY <1>1, <2>1, <2>2, FsAsksSame, FsAsksLess
<1>12. CASE ServeList
  <2>1. ~Pushes
    BY <1>12, FvServeList, FsAsked
  <2>2. Ids(ToService', AskIds) /\ spc' \in {"idle", "list"}
    BY <1>12, FvServeList, FsIdsTail, FsViews DEF FsAsks
  <2> QED BY <1>1, <2>1, <2>2 DEF FsAsks, AskIds, Pushes, Ids
<1>13. CASE ServeRecv
  <2>1. ~Pushes
    BY <1>13, FvServeRecv, FsAsked
  <2>2. Ids(ToService', AskIds) /\ spc' \in {"read", "closing"}
    BY <1>13, FvServeRecv, FsIdsTail, FsViews DEF FsAsks
  <2> QED BY <1>1, <2>1, <2>2 DEF FsAsks, AskIds, Pushes, Ids
<1>14. CASE ListEntry \/ SendChunk
  <2>1. ~Pushes
    BY <1>14, FvListEntry, FvSendChunk DEF FsAsks
  <2>2. ToService' = ToService /\ spc' \in {"idle", "list", "read", "closing"}
    BY <1>14, FvListEntry, FvSendChunk
  <2> QED BY <1>1, <2>1, <2>2 DEF FsAsks, AskIds, Pushes, Ids
<1> QED BY <1>2, <1>3, <1>4, <1>5, <1>6, <1>7, <1>8, <1>9, <1>10, <1>11, <1>12, <1>13, <1>14 DEF Service

LEMMA FsAsksStep ==
  ASSUME FsInv, FsInv', FsGone, FsPlaces, FsAsks, [FileSyncNext]_fileSyncVars
  PROVE  FsAsks'
<1>1. CASE Client
  BY <1>1, FsAsksClient
<1>2. CASE Service
  BY <1>2, FsAsksService
<1>3. CASE UNCHANGED fileSyncVars
  <2>1. ToService' = ToService
    BY <1>3, FsStill DEF fileSyncVars
  <2> QED BY <1>3, <2>1, FsAsksSame DEF fileSyncVars, command, service
<1>4. CASE Kill \/ Break
  <2>1. Shorter(ToService', ToService)
    BY <1>4, FsKilled, FsBroken
  <2>2. Len(ToService) \in Nat /\ Len(ToService') \in Nat
    BY FsViews
  <2>3. Ids(ToService', AskIds)
    BY <2>1, <2>2, FsIdsShorter DEF FsAsks
  <2>4. UNCHANGED <<cmd, spc>>
    BY <1>4 DEF Kill, Break, command, service
  <2> QED BY <2>3, <2>4 DEF FsAsks, AskIds, Pushes, Ids
<1> QED BY <1>1, <1>2, <1>3, <1>4 DEF FileSyncNext, DrainSpins, Finished

LEMMA FsSourcesInit == FileSyncInit => FsSources
<1> SUFFICES ASSUME FileSyncInit PROVE FsSources
  OBVIOUS
<1>1. \A f \in Files : local[f] = Absent
  BY DEF FileSyncInit
<1>2. ASSUME ~Pushes PROVE failed = {} /\ \A f \in Files : remote[f] = Complete(f)
  <2>1. ~check
    BY <1>2 DEF FileSyncInit, Pushes
  <2>2. PICK same : /\ ~check => same = IF cmd = "push" THEN {} ELSE Files
                    /\ remote = [f \in Files |-> IF f \in same THEN Complete(f) ELSE Absent]
    BY DEF FileSyncInit
  <2>3. same = Files
    BY <1>2, <2>1, <2>2 DEF Pushes
  <2> QED BY <2>2, <2>3 DEF FileSyncInit
<1> QED BY <1>1, <1>2 DEF FsSources

LEMMA FsSourcesStep ==
  ASSUME FsInv, FsGone, FsPlaces, FsAsks, FsSources, [FileSyncNext]_fileSyncVars
  PROVE  FsSources'
<1>1. CASE Client
  <2>1. UNCHANGED <<cmd, remote, failed>>
    BY <1>1, FsClientFrame DEF command, service
  <2>2. cmd # "pull" => local' = local
    <3>1. CASE Creat \/ RecvData \/ RecvFails
      BY <3>1 DEF Creat, RecvData, RecvFails, ClientIdle, FsPlaces, Pushes, FsInv, FsCommand
    <3>2. CASE ~(Creat \/ RecvData \/ RecvFails)
      BY <1>1, <3>2 DEF Client, Start, DstStat, StatFault, NextSource, LstatReply, SendFile, LocalReadFails, LargeChunk,
         LargePoll, CopyOkay, CopyFails, SrcStat, Dent, ListDone, ListFails, StatLink, LinkStat, RecvFile,
         RecvDone, SourceDone, Quit, Shutdown, ClientWriteFails, Transmit, Swallow, client
    <3> QED BY <3>1, <3>2
  <2> QED BY <2>1, <2>2 DEF FsSources, Pushes
<1>2. CASE Service
  <2>1. UNCHANGED <<cmd, local>>
    BY <1>2, FsServiceFrame DEF command, client
  <2>2. ~Pushes => UNCHANGED <<remote, failed>>
    <3> SUFFICES ASSUME ~Pushes PROVE UNCHANGED <<remote, failed>>
      OBVIOUS
    <3>1. spc \notin {"file", "link", "linkdone", "drain", "abort"}
      BY DEF FsAsks
    <3>2. ~ServeSend
      BY FvServeSend, FsAsked
    <3> QED BY <1>2, <3>1, <3>2 DEF Service, ServeStat, ServeList, ListEntry, FileData, FileDone, FileInvalid, Drain, Abort,
         Close, LinkData, LinkDone, LinkFails, ServeRecv, SendChunk, ServeQuit, BadRequest, ServiceWriteFails,
         Transmit, Swallow, history, service, Receives, ServiceIdle
  <2> QED BY <2>1, <2>2 DEF FsSources, Pushes
<1>3. CASE UNCHANGED fileSyncVars \/ Break
  BY <1>3 DEF fileSyncVars, Break, command, client, service, history, FsSources, Pushes
<1>4. CASE Kill
  BY <1>4 DEF Kill, command, service, FsSources, Pushes
<1> QED BY <1>1, <1>2, <1>3, <1>4 DEF FileSyncNext, DrainSpins, Finished

-----------------------------------------------------------------------------
(* The messages of one file *)

\* A file takes SEND, a DATA for each chunk, and DONE.
Script(f, n) == IF n = 1 THEN "SEND" ELSE IF n = Chunks[f] + 2 THEN "DONE" ELSE "DATA"

\* How many of them the service has taken, at pc and with r on the disk.
Taken(pc, r) ==
  IF pc = "idle" THEN 0 ELSE IF pc = "file" THEN 1 + Len(r) ELSE IF pc = "link" THEN 1 ELSE 2

\* The service is in the middle of f, or about to begin it, and s are the next
\* messages of f.
Fed(f, pc, c, r, s) ==
  /\ pc \in {"idle", "file", "link", "linkdone"}
  /\ Taken(pc, r) + Len(s) <= Chunks[f] + 2
  /\ \A n \in 1..Len(s) : s[n].f = f /\ s[n].id = Script(f, Taken(pc, r) + n)
  /\ pc = "idle" => s # <<>>
  /\ pc # "idle" => c = f /\ (Kind[f] = "link" <=> pc # "file")
  /\ pc = "file" => r \in Seq(Files) /\ \A n \in 1..Len(r) : r[n] = f
  /\ pc = "linkdone" => r = Complete(f)

\* The service is in a file, or about to begin one, that another request and
\* not DONE follows, or (e = 1) nothing yet.
Doomed(e, pc, s) ==
  \E k \in 1..Len(s) + e :
     /\ \A n \in 1..k - 1 : \/ s[n].id = "DATA"
                            \/ n = 1 /\ pc = "idle" /\ s[1].id = "SEND" /\ Kind[s[1].f] # "link"
     /\ k <= Len(s) => s[k].id \in Request
     /\ pc = "file" \/ (pc = "idle" /\ k > 1 /\ s[1].id = "SEND")

\* The service waits for a request, and no file is coming.
Calm(pc, s) == pc = "idle" /\ \A n \in 1..Len(s) : s[n].id \notin {"SEND", "DATA", "DONE"}

LEMMA FsTail ==
  ASSUME NEW c, NEW s \in Seq(FsMessages(c)), s # <<>>
  PROVE  /\ Tail(s) \in Seq(FsMessages(c)) /\ Len(Tail(s)) = Len(s) - 1 /\ Len(s) \in Nat /\ Len(s) >= 1
         /\ \A n \in 1..Len(s) - 1 : Tail(s)[n] = s[n + 1] /\ n + 1 \in 1..Len(s)
         /\ s[1] \in FsMessages(c)
BY DEF FsMessages

LEMMA FsEmpty == ASSUME NEW S, NEW q \in Seq(S), Len(q) = 0 PROVE q = <<>>
OBVIOUS

LEMMA FsSum == ASSUME NEW a \in Nat, NEW b \in Nat, NEW d \in Nat, b >= 1, a + b <= d, a + 1 = d PROVE b = 1
OBVIOUS

LEMMA FsJoin ==
  ASSUME NEW c, NEW s \in Seq(FsMessages(c)), NEW t \in Seq(FsMessages(c))
  PROVE  /\ s \o t \in Seq(FsMessages(c)) /\ Len(s \o t) = Len(s) + Len(t) /\ Len(s) \in Nat /\ Len(t) \in Nat
         /\ \A n \in 1..Len(s) : (s \o t)[n] = s[n]
         /\ \A n \in 1..Len(t) : (s \o t)[Len(s) + n] = t[n]
OBVIOUS

LEMMA FsChunks == \A f \in Files : /\ Chunks[f] \in Nat /\ (Kind[f] # "large" => Chunks[f] = 1)
                                   /\ Kind[f] \in {"small", "large", "link"}
BY FileSyncAssumption

\* SEND is taken.
LEMMA FedSend ==
  ASSUME NEW c, NEW f \in Files, NEW g, NEW r, NEW s \in Seq(FsMessages(c)), Fed(f, "idle", g, r, s)
  PROVE  /\ s # <<>> /\ s[1].id = "SEND" /\ s[1].f = f
         /\ Kind[f] = "link" => Fed(f, "link", f, Absent, Tail(s))
         /\ Kind[f] # "link" => Fed(f, "file", f, <<>>, Tail(s))
         /\ Taken("link", Absent) + Len(Tail(s)) = Taken("idle", r) + Len(s)
         /\ Taken("file", <<>>) + Len(Tail(s)) = Taken("idle", r) + Len(s)
<1>1. s # <<>> /\ Len(s) <= Chunks[f] + 2 /\ \A n \in 1..Len(s) : s[n].f = f /\ s[n].id = Script(f, n)
  BY DEF Fed, Taken
<1>2. /\ Len(Tail(s)) = Len(s) - 1 /\ Len(s) \in Nat /\ Len(s) >= 1
      /\ \A n \in 1..Len(s) - 1 : Tail(s)[n] = s[n + 1] /\ n + 1 \in 1..Len(s)
  BY <1>1, FsTail
<1>3. s[1].id = "SEND" /\ s[1].f = f
  BY <1>1, <1>2 DEF Script
<1>4. \A n \in 1..Len(Tail(s)) : Tail(s)[n].f = f /\ Tail(s)[n].id = Script(f, 1 + n)
  BY <1>1, <1>2
<1>5. <<>> \in Seq(Files) /\ Len(<<>>) = 0
  OBVIOUS
<1>6. Taken("link", Absent) = 1 /\ Taken("file", <<>>) = 1 /\ Taken("idle", r) = 0
  BY <1>5 DEF Taken
<1>7. Chunks[f] \in Nat
  BY FsChunks
<1>8. Kind[f] = "link" => Fed(f, "link", f, Absent, Tail(s))
  BY <1>1, <1>2, <1>4, <1>6, <1>7 DEF Fed
<1>9. Kind[f] # "link" => Fed(f, "file", f, <<>>, Tail(s))
  BY <1>1, <1>2, <1>4, <1>5, <1>6, <1>7 DEF Fed
<1> QED BY <1>1, <1>2, <1>3, <1>6, <1>8, <1>9

\* A chunk is taken.
LEMMA FedData ==
  ASSUME NEW c, NEW f \in Files, NEW r, NEW s \in Seq(FsMessages(c)), Fed(f, "file", f, r, s), s # <<>>
  PROVE  /\ Fed(f, "file", f, Append(r, s[1].f), Tail(s))
         /\ Taken("file", Append(r, s[1].f)) + Len(Tail(s)) = Taken("file", r) + Len(s)
<1>1. /\ 1 + Len(r) + Len(s) <= Chunks[f] + 2 /\ r \in Seq(Files) /\ (\A n \in 1..Len(r) : r[n] = f) /\ Kind[f] # "link"
      /\ \A n \in 1..Len(s) : s[n].f = f /\ s[n].id = Script(f, 1 + Len(r) + n)
  BY DEF Fed, Taken
<1>2. /\ Len(Tail(s)) = Len(s) - 1 /\ Len(s) \in Nat /\ Len(s) >= 1
      /\ \A n \in 1..Len(s) - 1 : Tail(s)[n] = s[n + 1] /\ n + 1 \in 1..Len(s)
  BY FsTail
<1>3. s[1].f = f
  BY <1>1, <1>2
<1>4. PICK q : q = Append(r, f)
  OBVIOUS
<1>5. q \in Seq(Files) /\ Len(q) = Len(r) + 1 /\ (\A n \in 1..Len(q) : q[n] = f) /\ Len(r) \in Nat
  BY <1>1, <1>4
<1>6. \A n \in 1..Len(Tail(s)) : Tail(s)[n].f = f /\ Tail(s)[n].id = Script(f, 1 + Len(q) + n)
  <2> SUFFICES ASSUME NEW n \in 1..Len(Tail(s)) PROVE Tail(s)[n].f = f /\ Tail(s)[n].id = Script(f, 1 + Len(q) + n)
    OBVIOUS
  <2>1. Tail(s)[n] = s[n + 1] /\ n + 1 \in 1..Len(s)
    BY <1>2
  <2>2. 1 + Len(q) + n = 1 + Len(r) + (n + 1)
    BY <1>2, <1>5
  <2> QED BY <1>1, <2>1, <2>2
<1>7. Taken("file", q) = 1 + Len(q) /\ Taken("file", r) = 1 + Len(r)
  BY DEF Taken
<1>8. Chunks[f] \in Nat
  BY FsChunks
<1>9. Taken("file", q) + Len(Tail(s)) = Taken("file", r) + Len(s) /\ Taken("file", q) + Len(Tail(s)) <= Chunks[f] + 2
  <2>1. 1 + Len(r) + Len(s) <= Chunks[f] + 2 /\ Len(Tail(s)) = Len(s) - 1 /\ Len(s) \in Nat /\ Len(q) = Len(r) + 1
        /\ Len(r) \in Nat /\ Chunks[f] \in Nat
    BY <1>1, <1>2, <1>5, <1>8
  <2> QED BY <1>7, <2>1
<1>10. Fed(f, "file", f, q, Tail(s))
  BY <1>1, <1>5, <1>6, <1>7, <1>9 DEF Fed
<1> QED BY <1>3, <1>4, <1>9, <1>10

\* DONE is taken.
LEMMA FedDone ==
  ASSUME NEW c, NEW f \in Files, NEW r, NEW s \in Seq(FsMessages(c)), Fed(f, "file", f, r, s), s # <<>>, s[1].id = "DONE"
  PROVE  r = Complete(f) /\ Tail(s) = <<>> /\ Len(s) = 1 /\ Taken("file", r) + Len(s) = Chunks[f] + 2
<1>1. /\ 1 + Len(r) + Len(s) <= Chunks[f] + 2 /\ r \in Seq(Files) /\ (\A n \in 1..Len(r) : r[n] = f)
      /\ \A n \in 1..Len(s) : s[n].id = Script(f, 1 + Len(r) + n)
  BY DEF Fed, Taken
<1>2. Len(s) \in Nat /\ Len(s) >= 1 /\ Len(r) \in Nat /\ Chunks[f] \in Nat
  BY <1>1, FsTail, FsChunks
<1>3. s[1].id = Script(f, 1 + Len(r) + 1)
  BY <1>1, <1>2
<1>4. 1 + Len(r) + 1 = Chunks[f] + 2
  BY <1>2, <1>3 DEF Script
<1>5. Len(r) = Chunks[f] /\ Len(s) = 1
  <2>1. 1 + Len(r) + Len(s) <= Chunks[f] + 2
    BY <1>1
  <2>2. 1 + Len(r) \in Nat /\ Chunks[f] + 2 \in Nat
    BY <1>2
  <2>3. Len(s) = 1
    BY <1>2, <1>4, <2>1, <2>2, FsSum
  <2> QED BY <1>2, <1>4, <2>3
<1>6. r = Complete(f)
  BY <1>1, <1>2, <1>5 DEF Complete
<1>7. Tail(s) = <<>>
  <2>1. Tail(s) \in Seq(FsMessages(c)) /\ Len(Tail(s)) = 0
    BY <1>5, FsTail
  <2> QED BY <2>1, FsEmpty
<1> QED BY <1>1, <1>2, <1>4, <1>5, <1>6, <1>7 DEF Taken

\* The target of a link, and DONE, are taken.
LEMMA FedLink ==
  ASSUME NEW c, NEW f \in Files, NEW r, NEW s \in Seq(FsMessages(c)), Fed(f, "link", f, r, s), s # <<>>
  PROVE  /\ s[1].id = "DATA" /\ Fed(f, "linkdone", f, Complete(f), Tail(s))
         /\ Taken("linkdone", Complete(f)) + Len(Tail(s)) = Taken("link", r) + Len(s)
<1>1. 1 + Len(s) <= Chunks[f] + 2 /\ Kind[f] = "link" /\ \A n \in 1..Len(s) : s[n].f = f /\ s[n].id = Script(f, 1 + n)
  BY DEF Fed, Taken
<1>2. /\ Len(Tail(s)) = Len(s) - 1 /\ Len(s) \in Nat /\ Len(s) >= 1
      /\ \A n \in 1..Len(s) - 1 : Tail(s)[n] = s[n + 1] /\ n + 1 \in 1..Len(s)
  BY FsTail
<1>3. Chunks[f] = 1
  BY <1>1, FsChunks
<1>4. s[1].id = "DATA"
  <2>1. s[1].id = Script(f, 1 + 1)
    BY <1>1, <1>2
  <2> QED BY <1>3, <2>1 DEF Script
<1>5. \A n \in 1..Len(Tail(s)) : Tail(s)[n].f = f /\ Tail(s)[n].id = Script(f, 2 + n)
  <2> SUFFICES ASSUME NEW n \in 1..Len(Tail(s)) PROVE Tail(s)[n].f = f /\ Tail(s)[n].id = Script(f, 2 + n)
    OBVIOUS
  <2>1. Tail(s)[n] = s[n + 1] /\ n + 1 \in 1..Len(s)
    BY <1>2
  <2>2. 2 + n = 1 + (n + 1)
    BY <1>2
  <2> QED BY <1>1, <2>1, <2>2
<1>6. Taken("linkdone", Complete(f)) = 2 /\ Taken("link", r) = 1
  BY DEF Taken
<1>7. Taken("linkdone", Complete(f)) + Len(Tail(s)) = Taken("link", r) + Len(s)
      /\ Taken("linkdone", Complete(f)) + Len(Tail(s)) <= Chunks[f] + 2
  BY <1>1, <1>2, <1>3, <1>6
<1>8. Fed(f, "linkdone", f, Complete(f), Tail(s))
  BY <1>1, <1>5, <1>6, <1>7 DEF Fed
<1> QED BY <1>4, <1>7, <1>8

LEMMA FedLinkDone ==
  ASSUME NEW c, NEW f \in Files, NEW r, NEW s \in Seq(FsMessages(c)), Fed(f, "linkdone", f, r, s), s # <<>>
  PROVE  s[1].id = "DONE" /\ r = Complete(f) /\ Tail(s) = <<>> /\ Taken("linkdone", r) + Len(s) = Chunks[f] + 2
<1>1. /\ 2 + Len(s) <= Chunks[f] + 2 /\ Kind[f] = "link" /\ (\A n \in 1..Len(s) : s[n].id = Script(f, 2 + n))
      /\ r = Complete(f)
  BY DEF Fed, Taken
<1>2. Len(s) \in Nat /\ Len(s) >= 1
  BY FsTail
<1>3. Chunks[f] = 1
  BY <1>1, FsChunks
<1>4. Len(s) = 1
  <2>1. 2 + Len(s) <= Chunks[f] + 2
    BY <1>1
  <2>2. 2 + Len(s) <= 3 /\ 2 \in Nat /\ 3 \in Nat /\ 2 + 1 = 3
    BY <1>3, <2>1
  <2> QED BY <1>2, <2>2, FsSum
<1>5. s[1].id = Script(f, 3)
  BY <1>1, <1>2
<1>6. s[1].id = "DONE"
  BY <1>3, <1>5 DEF Script
<1>7. Tail(s) = <<>>
  <2>1. Tail(s) \in Seq(FsMessages(c)) /\ Len(Tail(s)) = 0
    BY <1>4, FsTail
  <2> QED BY <2>1, FsEmpty
<1> QED BY <1>1, <1>3, <1>4, <1>6, <1>7 DEF Taken

\* The end of the messages is lost.
LEMMA FedShorter ==
  ASSUME NEW c, NEW f, NEW pc, NEW g, NEW r, NEW s \in Seq(FsMessages(c)), NEW q \in Seq(FsMessages(c)), Shorter(q, s),
         Fed(f, pc, g, r, s), pc # "idle" \/ q # <<>>, Taken(pc, r) \in Nat, f \in Files
  PROVE  Fed(f, pc, g, r, q)
<1>1. Len(q) \in Nat /\ Len(s) \in Nat /\ Chunks[f] \in Nat
  BY FsChunks
<1>2. Taken(pc, r) + Len(q) <= Chunks[f] + 2
  BY <1>1 DEF Fed, Shorter
<1>3. \A n \in 1..Len(q) : q[n].f = f /\ q[n].id = Script(f, Taken(pc, r) + n)
  <2>1. \A n \in 1..Len(s) : s[n].f = f /\ s[n].id = Script(f, Taken(pc, r) + n)
    BY DEF Fed
  <2>2. \A n \in 1..Len(q) : q[n].id = s[n].id /\ q[n].f = s[n].f /\ n \in 1..Len(s)
    BY <1>1 DEF Shorter
  <2> QED BY <2>1, <2>2
<1> QED BY <1>2, <1>3 DEF Fed

\* One more message of the file is written.
LEMMA FedMore ==
  ASSUME NEW c, NEW f \in Files, NEW pc, NEW g, NEW r, NEW s \in Seq(FsMessages(c)), Fed(f, pc, g, r, s),
         Taken(pc, r) \in Nat, Taken(pc, r) + Len(s) <= Chunks[f] + 1, NEW m \in FsMessages(c), m.f = f,
         m.id = Script(f, Taken(pc, r) + Len(s) + 1)
  PROVE  Fed(f, pc, g, r, s \o <<m>>) /\ Taken(pc, r) + Len(s \o <<m>>) = Taken(pc, r) + Len(s) + 1
<1>1. PICK q : q = s \o <<m>>
  OBVIOUS
<1>2. /\ q \in Seq(FsMessages(c)) /\ Len(q) = Len(s) + 1 /\ Len(s) \in Nat /\ Chunks[f] \in Nat
      /\ (\A n \in 1..Len(s) : q[n] = s[n]) /\ q[Len(s) + 1] = m
  BY <1>1, FsChunks
<1>3. Taken(pc, r) + Len(q) <= Chunks[f] + 2 /\ Taken(pc, r) + Len(q) = Taken(pc, r) + Len(s) + 1
  BY <1>2
<1>4. \A n \in 1..Len(q) : q[n].f = f /\ q[n].id = Script(f, Taken(pc, r) + n)
  <2> SUFFICES ASSUME NEW n \in 1..Len(q) PROVE q[n].f = f /\ q[n].id = Script(f, Taken(pc, r) + n)
    OBVIOUS
  <2>1. CASE n = Len(s) + 1
    <3>1. Taken(pc, r) + n = Taken(pc, r) + Len(s) + 1
      BY <1>2, <2>1
    <3> QED BY <1>2, <2>1, <3>1
  <2>2. CASE n # Len(s) + 1
    <3>1. n \in 1..Len(s)
      BY <1>2, <2>2
    <3> QED BY <1>2, <3>1 DEF Fed
  <2> QED BY <2>1, <2>2
<1>5. q # <<>>
  BY <1>2
<1> QED BY <1>1, <1>3, <1>4, <1>5 DEF Fed

LEMMA FedStart ==
  ASSUME NEW f \in Files, NEW g, NEW r
  PROVE  /\ Fed(f, "idle", g, r, <<Msg("SEND", f)>>) /\ Taken("idle", r) + Len(<<Msg("SEND", f)>>) = 1
         /\ Kind[f] # "large" =>
              /\ Fed(f, "idle", g, r, <<Msg("SEND", f), Msg("DATA", f), Msg("DONE", f)>>)
              /\ Taken("idle", r) + Len(<<Msg("SEND", f), Msg("DATA", f), Msg("DONE", f)>>) = Chunks[f] + 2
<1>1. Chunks[f] \in Nat /\ (Kind[f] # "large" => Chunks[f] = 1) /\ Taken("idle", r) = 0
  BY FsChunks DEF Taken
<1>2. Script(f, 1) = "SEND" /\ (Chunks[f] = 1 => Script(f, 2) = "DATA" /\ Script(f, 3) = "DONE")
  BY DEF Script
<1>3. PICK m1, m2, m3 : m1 = Msg("SEND", f) /\ m2 = Msg("DATA", f) /\ m3 = Msg("DONE", f)
  OBVIOUS
<1>4. m1.id = "SEND" /\ m1.f = f /\ m2.id = "DATA" /\ m2.f = f /\ m3.id = "DONE" /\ m3.f = f
  BY <1>3, FsMsg
<1>5. Fed(f, "idle", g, r, <<m1>>) /\ Taken("idle", r) + Len(<<m1>>) = 1
  BY <1>1, <1>2, <1>4 DEF Fed
<1>6. Kind[f] # "large" => /\ Fed(f, "idle", g, r, <<m1, m2, m3>>)
                           /\ Taken("idle", r) + Len(<<m1, m2, m3>>) = Chunks[f] + 2
  <2> SUFFICES ASSUME Kind[f] # "large" PROVE /\ Fed(f, "idle", g, r, <<m1, m2, m3>>)
                           /\ Taken("idle", r) + Len(<<m1, m2, m3>>) = Chunks[f] + 2
    OBVIOUS
  <2>1. PICK q : q = <<m1, m2, m3>>
    OBVIOUS
  <2>2. Len(q) = 3 /\ q[1] = m1 /\ q[2] = m2 /\ q[3] = m3 /\ q # <<>>
    BY <2>1
  <2>3. \A n \in 1..Len(q) : q[n].f = f /\ q[n].id = Script(f, 0 + n)
    BY <1>1, <1>2, <1>4, <2>2
  <2>4. Taken("idle", r) + Len(q) = Chunks[f] + 2
    BY <1>1, <2>2
  <2>5. Fed(f, "idle", g, r, q)
    BY <1>1, <2>2, <2>3, <2>4 DEF Fed
  <2> QED BY <2>1, <2>4, <2>5
<1> QED BY <1>3, <1>5, <1>6

-----------------------------------------------------------------------------
(* A file that will not be finished *)

LEMMA DoomedWeaker == ASSUME NEW pc, NEW s, Len(s) \in Nat, Doomed(0, pc, s) PROVE Doomed(1, pc, s)
<1>1. 1..Len(s) + 0 \subseteq 1..Len(s) + 1
  OBVIOUS
<1> QED BY <1>1 DEF Doomed

LEMMA DoomedSend ==
  ASSUME NEW c, NEW e \in {0, 1}, NEW s \in Seq(FsMessages(c)), Doomed(e, "idle", s)
  PROVE  s # <<>> /\ s[1].id = "SEND" /\ Kind[s[1].f] # "link" /\ Doomed(e, "file", Tail(s))
<1>1. PICK k \in 1..Len(s) + e :
     /\ \A n \in 1..k - 1 : \/ s[n].id = "DATA"
                            \/ n = 1 /\ s[1].id = "SEND" /\ Kind[s[1].f] # "link"
     /\ k <= Len(s) => s[k].id \in Request
     /\ k > 1 /\ s[1].id = "SEND"
  BY DEF Doomed
<1>2. Len(s) \in Nat /\ k \in Nat /\ k <= Len(s) + 1 /\ k > 1
  BY <1>1
<1>3. s # <<>>
  BY <1>2
<1>4. 1 \in 1..k - 1
  BY <1>2
<1>5. s[1].id = "SEND" /\ Kind[s[1].f] # "link"
  BY <1>1, <1>4
<1>6. /\ Len(Tail(s)) = Len(s) - 1
      /\ \A n \in 1..Len(s) - 1 : Tail(s)[n] = s[n + 1]
  BY <1>3, FsTail
<1>7. \A n \in 1..k - 2 : Tail(s)[n].id = "DATA"
  <2> SUFFICES ASSUME NEW n \in 1..k - 2 PROVE Tail(s)[n].id = "DATA"
    OBVIOUS
  <2>1. n + 1 \in 1..k - 1 /\ n + 1 # 1 /\ n \in 1..Len(s) - 1
    BY <1>2
  <2> QED BY <1>1, <1>6, <2>1
<1>8. k - 1 <= Len(Tail(s)) => Tail(s)[k - 1].id \in Request
  <2> SUFFICES ASSUME k - 1 <= Len(Tail(s)) PROVE Tail(s)[k - 1].id \in Request
    OBVIOUS
  <2>1. k - 1 \in 1..Len(s) - 1 /\ (k - 1) + 1 = k /\ k <= Len(s)
    BY <1>2, <1>6
  <2> QED BY <1>1, <1>6, <2>1
<1>9. k - 1 \in 1..Len(Tail(s)) + e /\ (k - 1) - 1 = k - 2
  BY <1>1, <1>2, <1>6
<1>10. Doomed(e, "file", Tail(s))
  <2>1. PICK j : j = k - 1
    OBVIOUS
  <2>2. j \in 1..Len(Tail(s)) + e /\ (\A n \in 1..j - 1 : Tail(s)[n].id = "DATA") /\ (j <= Len(Tail(s)) => Tail(s)[j].id \in Request)
    BY <1>7, <1>8, <1>9, <2>1
  <2> QED BY <2>2 DEF Doomed
<1> QED BY <1>3, <1>5, <1>10

LEMMA DoomedData ==
  ASSUME NEW c, NEW e \in {0, 1}, NEW s \in Seq(FsMessages(c)), Doomed(e, "file", s), s # <<>>
  PROVE  /\ s[1].id \in Request \cup {"DATA"}
         /\ s[1].id = "DATA" => Doomed(e, "file", Tail(s))
<1>1. PICK k \in 1..Len(s) + e :
     /\ \A n \in 1..k - 1 : s[n].id = "DATA"
     /\ k <= Len(s) => s[k].id \in Request
  BY DEF Doomed
<1>2. Len(s) \in Nat /\ Len(s) >= 1 /\ k \in Nat /\ k <= Len(s) + e /\ k >= 1
  BY <1>1, FsTail
<1>3. CASE k = 1
  <2>1. s[1].id \in Request
    BY <1>1, <1>2, <1>3
  <2>2. "DATA" \notin Request
    BY DEF Request
  <2> QED BY <2>1, <2>2
<1>4. CASE k > 1
  <2>1. 1 \in 1..k - 1
    BY <1>2, <1>4
  <2>2. s[1].id = "DATA"
    BY <1>1, <2>1
  <2>3. /\ Len(Tail(s)) = Len(s) - 1
        /\ \A n \in 1..Len(s) - 1 : Tail(s)[n] = s[n + 1]
    BY FsTail
  <2>4. \A n \in 1..k - 2 : Tail(s)[n].id = "DATA"
    <3> SUFFICES ASSUME NEW n \in 1..k - 2 PROVE Tail(s)[n].id = "DATA"
      OBVIOUS
    <3>1. n + 1 \in 1..k - 1 /\ n \in 1..Len(s) - 1
      BY <1>2, <1>4
    <3> QED BY <1>1, <2>3, <3>1
  <2>5. k - 1 <= Len(Tail(s)) => Tail(s)[k - 1].id \in Request
    <3> SUFFICES ASSUME k - 1 <= Len(Tail(s)) PROVE Tail(s)[k - 1].id \in Request
      OBVIOUS
    <3>1. k - 1 \in 1..Len(s) - 1 /\ (k - 1) + 1 = k /\ k <= Len(s)
      BY <1>2, <1>4, <2>3
    <3> QED BY <1>1, <2>3, <3>1
  <2>6. k - 1 \in 1..Len(Tail(s)) + e /\ (k - 1) - 1 = k - 2
    BY <1>2, <1>4, <2>3
  <2>7. Doomed(e, "file", Tail(s))
    <3>1. PICK j : j = k - 1
      OBVIOUS
    <3>2. j \in 1..Len(Tail(s)) + e /\ (\A n \in 1..j - 1 : Tail(s)[n].id = "DATA") /\ (j <= Len(Tail(s)) => Tail(s)[j].id \in Request)
      BY <2>4, <2>5, <2>6, <3>1
    <3> QED BY <3>2 DEF Doomed
  <2> QED BY <2>2, <2>7
<1> QED BY <1>2, <1>3, <1>4

LEMMA DoomedShorter ==
  ASSUME NEW c, NEW pc, NEW s \in Seq(FsMessages(c)), NEW q \in Seq(FsMessages(c)), Shorter(q, s), Doomed(1, pc, s),
         pc # "idle" \/ q # <<>>
  PROVE  Doomed(1, pc, q)
<1>1. PICK k \in 1..Len(s) + 1 :
     /\ \A n \in 1..k - 1 : \/ s[n].id = "DATA"
                            \/ n = 1 /\ pc = "idle" /\ s[1].id = "SEND" /\ Kind[s[1].f] # "link"
     /\ k <= Len(s) => s[k].id \in Request
     /\ pc = "file" \/ (pc = "idle" /\ k > 1 /\ s[1].id = "SEND")
  BY DEF Doomed
<1>2. Len(s) \in Nat /\ Len(q) \in Nat /\ Len(q) <= Len(s) /\ k \in Nat /\ k >= 1
  BY <1>1 DEF Shorter
<1>3. \A n \in 1..Len(q) : q[n].id = s[n].id /\ q[n].f = s[n].f
  BY DEF Shorter
<1>4. q # <<>> => 1 \in 1..Len(q)
  BY <1>2
<1>5. PICK j : j = IF k <= Len(q) THEN k ELSE Len(q) + 1
  OBVIOUS
<1>6. j \in 1..Len(q) + 1 /\ j <= k /\ j - 1 <= Len(q) /\ (j <= Len(q) => j = k) /\ (pc = "idle" /\ k > 1 => j > 1)
  <2>1. pc = "idle" => Len(q) >= 1
    BY <1>2
  <2> QED BY <1>2, <1>5, <2>1
<1>7. \A n \in 1..j - 1 : \/ q[n].id = "DATA"
                          \/ n = 1 /\ pc = "idle" /\ q[1].id = "SEND" /\ Kind[q[1].f] # "link"
  <2> SUFFICES ASSUME NEW n \in 1..j - 1
               PROVE  \/ q[n].id = "DATA"
                      \/ n = 1 /\ pc = "idle" /\ q[1].id = "SEND" /\ Kind[q[1].f] # "link"
    OBVIOUS
  <2>1. n \in 1..k - 1 /\ n \in 1..Len(q)
    BY <1>2, <1>6
  <2> QED BY <1>1, <1>3, <2>1
<1>8. j <= Len(q) => q[j].id \in Request
  <2> SUFFICES ASSUME j <= Len(q) PROVE q[j].id \in Request
    OBVIOUS
  <2>1. j = k /\ j \in 1..Len(q) /\ k <= Len(s)
    BY <1>2, <1>6
  <2> QED BY <1>1, <1>3, <2>1
<1>9. pc = "file" \/ (pc = "idle" /\ j > 1 /\ q[1].id = "SEND")
  BY <1>1, <1>3, <1>4, <1>6
<1> QED BY <1>6, <1>7, <1>8, <1>9 DEF Doomed

\* More is written: once another request has been, anything.
LEMMA DoomedMore ==
  ASSUME NEW c, NEW pc, NEW e \in {0, 1}, NEW s \in Seq(FsMessages(c)), NEW t \in Seq(FsMessages(c)), Doomed(e, pc, s),
         e = 1 => t # <<>> /\ t[1].id \in Request
  PROVE  Doomed(0, pc, s \o t)
<1>1. PICK k \in 1..Len(s) + e :
     /\ \A n \in 1..k - 1 : \/ s[n].id = "DATA"
                            \/ n = 1 /\ pc = "idle" /\ s[1].id = "SEND" /\ Kind[s[1].f] # "link"
     /\ k <= Len(s) => s[k].id \in Request
     /\ pc = "file" \/ (pc = "idle" /\ k > 1 /\ s[1].id = "SEND")
  BY DEF Doomed
<1>2. PICK q \in Seq(FsMessages(c)) : q = s \o t
  BY FsJoin
<1>3. /\ Len(q) = Len(s) + Len(t) /\ Len(s) \in Nat /\ Len(t) \in Nat
      /\ \A n \in 1..Len(s) : q[n] = s[n]
      /\ \A n \in 1..Len(t) : q[Len(s) + n] = t[n]
  BY <1>2, FsJoin
<1>4. k \in 1..Len(q) + 0 /\ k - 1 <= Len(s) /\ k \in Nat
  <2>1. e = 1 => Len(t) >= 1
    BY <1>3
  <2> QED BY <1>1, <1>3, <2>1
<1>5. \A n \in 1..k - 1 : q[n] = s[n]
  BY <1>3, <1>4
<1>6. q[k].id \in Request
  <2>1. CASE k <= Len(s)
    <3>1. k \in 1..Len(s)
      BY <1>4, <2>1
    <3> QED BY <1>1, <1>3, <2>1, <3>1
  <2>2. CASE k > Len(s)
    <3>1. k = Len(s) + 1 /\ e = 1
      BY <1>1, <1>3, <2>2
    <3>2. 1 \in 1..Len(t)
      BY <1>3, <3>1
    <3> QED BY <1>3, <3>1, <3>2
  <2> QED BY <1>3, <1>4, <2>1, <2>2
<1>7. \A n \in 1..k - 1 : \/ q[n].id = "DATA"
                          \/ n = 1 /\ pc = "idle" /\ q[1].id = "SEND" /\ Kind[q[1].f] # "link"
  BY <1>1, <1>5
<1>8. pc = "file" \/ (pc = "idle" /\ k > 1 /\ q[1].id = "SEND")
  <2>1. k > 1 => 1 \in 1..k - 1
    BY <1>4
  <2> QED BY <1>1, <1>5, <2>1
<1>9. Doomed(0, pc, q)
  BY <1>4, <1>6, <1>7, <1>8 DEF Doomed
<1> QED BY <1>2, <1>9

\* The client stops in the middle of a file.
LEMMA DoomedStop ==
  ASSUME NEW c, NEW f \in Files, NEW pc, NEW g, NEW r, NEW s \in Seq(FsMessages(c)), Fed(f, pc, g, r, s), Kind[f] = "large",
         Taken(pc, r) \in Nat, Taken(pc, r) + Len(s) <= Chunks[f] + 1
  PROVE  Doomed(1, pc, s)
<1>1. /\ pc \in {"idle", "file"} /\ (pc = "idle" => s # <<>> /\ Taken(pc, r) = 0) /\ (pc = "file" => Taken(pc, r) >= 1)
      /\ \A n \in 1..Len(s) : s[n].f = f /\ s[n].id = Script(f, Taken(pc, r) + n)
  <2>1. pc \in {"idle", "file"}
    BY DEF Fed
  <2>2. pc = "file" => r \in Seq(Files)
    BY DEF Fed
  <2>3. pc = "file" => Taken(pc, r) >= 1
    <3>1. pc = "file" => Len(r) \in Nat
      BY <2>2
    <3> QED BY <3>1 DEF Taken
  <2> QED BY <2>1, <2>3 DEF Fed, Taken
<1>2. Len(s) \in Nat /\ Chunks[f] \in Nat
  BY FsChunks
<1>3. ASSUME NEW n \in 1..Len(s)
      PROVE  s[n].id = IF pc = "idle" /\ n = 1 THEN "SEND" ELSE "DATA"
  <2>1. s[n].id = Script(f, Taken(pc, r) + n)
    BY <1>1
  <2>2. Taken(pc, r) + n # Chunks[f] + 2 /\ (Taken(pc, r) + n = 1 <=> pc = "idle" /\ n = 1)
    BY <1>1, <1>2
  <2> QED BY <2>1, <2>2 DEF Script
<1>4. \A n \in 1..(Len(s) + 1) - 1 : \/ s[n].id = "DATA"
                                     \/ n = 1 /\ pc = "idle" /\ s[1].id = "SEND" /\ Kind[s[1].f] # "link"
  <2> SUFFICES ASSUME NEW n \in 1..(Len(s) + 1) - 1
               PROVE  \/ s[n].id = "DATA"
                      \/ n = 1 /\ pc = "idle" /\ s[1].id = "SEND" /\ Kind[s[1].f] # "link"
    OBVIOUS
  <2>1. n \in 1..Len(s)
    BY <1>2
  <2> QED BY <1>1, <1>3, <2>1
<1>5. pc = "idle" => Len(s) + 1 > 1 /\ s[1].id = "SEND"
  <2>1. pc = "idle" => 1 \in 1..Len(s)
    BY <1>1, <1>2
  <2> QED BY <1>2, <1>3, <2>1
<1>6. PICK k : k = Len(s) + 1
  OBVIOUS
<1>7. k \in 1..Len(s) + 1 /\ ~(k <= Len(s))
  BY <1>2, <1>6
<1> QED BY <1>1, <1>4, <1>5, <1>6, <1>7 DEF Doomed

-----------------------------------------------------------------------------
(* What the service does with what it is sent *)

\* n messages of f have been written.
Sends(f, n, pc, c, r, s) == Fed(f, pc, c, r, s) /\ Taken(pc, r) + Len(s) = n

LEMMA FedTaken ==
  ASSUME NEW f, NEW pc, NEW c, NEW r, NEW s, Fed(f, pc, c, r, s) PROVE Taken(pc, r) \in Nat
<1>1. pc = "file" => Len(r) \in Nat
  BY DEF Fed
<1> QED BY <1>1 DEF Taken

\* The steps after which a pushing service is not failing.
LEMMA FsServes ==
  ASSUME FsInv, FsGone, FsAsks, Pushes, Service, ~Failing'
  PROVE  \/ ToService' = ToService /\ ToClient' = ToClient /\ UNCHANGED service
         \/ ServeStat
         \/ ServeSend /\ spc' \in {"link", "file"}
         \/ FileData /\ spc' = "file"
         \/ FileDone /\ spc' = "idle"
         \/ LinkData /\ spc' = "linkdone"
         \/ LinkDone
<1>1. CASE Transmit("service") \/ Swallow("service")
  <2>1. ToService' = ToService /\ ToClient' = ToClient
    BY <1>1, FsSides, FsTransmitted, FsSwallowed
  <2> QED BY <1>1, <2>1 DEF Transmit, Swallow
<1>2. CASE ServeList \/ ServeRecv
  <2>1. ToService # <<>> /\ ToService[1].id \in {"LIST", "RECV"}
    BY <1>2, FvServeList, FvServeRecv
  <2> QED BY <2>1, FsAsked
<1>3. CASE ListEntry \/ SendChunk
  BY <1>3, FvListEntry, FvSendChunk DEF FsAsks
<1>4. CASE FileInvalid \/ LinkFails \/ ServeQuit \/ BadRequest
  BY <1>4, FvFileInvalid, FvLinkFails, FvServeQuit, FvBadRequest DEF Failing
<1>5. CASE Drain \/ Abort \/ Close
  BY <1>5 DEF Drain, Abort, Close, CloseStream, Failing
<1>6. CASE ServiceWriteFails
  BY <1>6 DEF ServiceWriteFails, Failing
<1>7. CASE ServeSend
  BY <1>7, FvServeSend DEF Failing
<1>8. CASE FileData
  BY <1>8, FvFileData DEF Failing
<1>9. CASE FileDone
  BY <1>9, FvFileDone DEF Failing
<1>10. CASE LinkData
  BY <1>10, FvLinkData DEF Failing
<1> QED BY <1>1, <1>2, <1>3, <1>4, <1>5, <1>6, <1>7, <1>8, <1>9, <1>10 DEF Service

LEMMA FsRemote == FsInv => remote \in [Files -> Seq(Files) \cup {Absent}]
BY DEF FsInv, FsServiceTypes

\* In the middle of a file
LEMMA ServesFed ==
  ASSUME FsInv, FsGone, FsAsks, Pushes, Service, ~Failing', NEW f \in Files, NEW n,
         Sends(f, n, spc, cur, remote[f], ToService)
  PROVE  \/ Sends(f, n, spc', cur', remote'[f], ToService') /\ ToClient' = ToClient
         \/ /\ n = Chunks[f] + 2 /\ spc' = "idle" /\ ToService' = <<>> /\ remote'[f] = Complete(f)
            /\ ToClient' = Said(Msg("OKAY", f)) /\ Msg("OKAY", f) \in FsMessages(cmd)
<1> USE DEF Sends
<1>1. ToService \in Seq(FsMessages(cmd)) /\ remote \in [Files -> Seq(Files) \cup {Absent}]
  BY FsViews, FsRemote
<1>2. PICK s : s = ToService
  OBVIOUS
<1>3. CASE ToService' = ToService /\ ToClient' = ToClient /\ UNCHANGED service
  BY <1>3 DEF service
<1>4. CASE ServeStat
  <2>1. spc = "idle" /\ ToService[1].id \in {"STAT", "LSTAT"}
    BY <1>4, FvServeStat
  <2> QED BY <1>1, <2>1, FedSend
<1>5. CASE ServeSend /\ spc' \in {"link", "file"}
  <2>1. PICK g \in Files :
         /\ spc = "idle" /\ ToService # <<>> /\ ToService[1].id = "SEND"
         /\ ToService[1].f = g /\ ToService' = Tail(ToService) /\ cur' = g
         /\ \E c \in {Absent, <<>>} : remote' = [remote EXCEPT ![g] = c]
         /\ \/ Kind[g] = "link" /\ remote'[g] = Absent /\ spc' = "link" /\ ToClient' = ToClient
            \/ Kind[g] # "link" /\ remote'[g] = <<>> /\ spc' = "file" /\ ToClient' = ToClient
    BY <1>5, FvServeSend
  <2>2. Fed(f, "idle", cur, remote[f], ToService) /\ Taken("idle", remote[f]) + Len(ToService) = n
    BY <2>1
  <2>3. /\ ToService[1].f = f
        /\ Kind[f] = "link" => Fed(f, "link", f, Absent, Tail(ToService))
        /\ Kind[f] # "link" => Fed(f, "file", f, <<>>, Tail(ToService))
        /\ Taken("link", Absent) + Len(Tail(ToService)) = n
        /\ Taken("file", <<>>) + Len(Tail(ToService)) = n
    BY <1>1, <2>2, FedSend
  <2>4. g = f
    BY <2>1, <2>3
  <2>5. CASE Kind[f] = "link"
    <3>1. remote'[f] = Absent /\ spc' = "link" /\ ToClient' = ToClient
      BY <2>1, <2>4, <2>5
    <3> QED BY <2>1, <2>3, <2>4, <2>5, <3>1
  <2>6. CASE Kind[f] # "link"
    <3>1. remote'[f] = <<>> /\ spc' = "file" /\ ToClient' = ToClient
      BY <2>1, <2>4, <2>6
    <3> QED BY <2>1, <2>3, <2>4, <2>6, <3>1
  <2> QED BY <2>5, <2>6
<1>6. CASE FileData /\ spc' = "file"
  <2>1. /\ spc = "file" /\ ToService # <<>> /\ ToService' = Tail(ToService) /\ cur' = cur
        /\ remote' = [remote EXCEPT ![cur] = Append(remote[cur], ToService[1].f)] /\ ToClient' = ToClient
    BY <1>6, FvFileData
  <2>2. cur = f
    BY <2>1 DEF Fed
  <2>3. remote'[f] = Append(remote[f], ToService[1].f)
    BY <1>1, <2>1, <2>2
  <2> QED BY <1>1, <1>6, <2>1, <2>2, <2>3, FedData
<1>7. CASE FileDone /\ spc' = "idle"
  <2>1. /\ spc = "file" /\ ToService # <<>> /\ ToService[1].id = "DONE" /\ ToService' = Tail(ToService) /\ cur' = cur
        /\ remote' = remote /\ ToClient' = Said(Msg("OKAY", cur)) /\ Msg("OKAY", cur) \in FsMessages(cmd)
    BY <1>7, FvFileDone
  <2>2. cur = f
    BY <2>1 DEF Fed
  <2> QED BY <1>1, <1>7, <2>1, <2>2, FedDone
<1>8. CASE LinkData /\ spc' = "linkdone"
  <2>1. /\ spc = "link" /\ ToService # <<>> /\ ToService' = Tail(ToService) /\ cur' = cur
        /\ remote' = [remote EXCEPT ![cur] = Complete(cur)] /\ ToClient' = ToClient
    BY <1>8, FvLinkData
  <2>2. cur = f
    BY <2>1 DEF Fed
  <2>3. remote'[f] = Complete(f)
    BY <1>1, <2>1, <2>2
  <2> QED BY <1>1, <1>8, <2>1, <2>2, <2>3, FedLink
<1>9. CASE LinkDone
  <2>1. /\ spc = "linkdone" /\ ToService # <<>> /\ ToService' = Tail(ToService) /\ spc' = "idle"
        /\ remote' = remote /\ ToClient' = Said(Msg("OKAY", cur)) /\ Msg("OKAY", cur) \in FsMessages(cmd)
    BY <1>9, FvLinkDone
  <2>2. cur = f
    BY <2>1 DEF Fed
  <2> QED BY <1>1, <2>1, <2>2, FedLinkDone
<1> QED BY <1>3, <1>4, <1>5, <1>6, <1>7, <1>8, <1>9, FsServes

\* The file whose turn it is
Turn(pc, c, s) == IF pc = "file" THEN c ELSE s[1].f

\* In the middle of a file that is not finished
LEMMA ServesDoomed ==
  ASSUME FsInv, FsGone, FsAsks, Pushes, Service, ~Failing', NEW e \in {0, 1}, Doomed(e, spc, ToService)
  PROVE  /\ Doomed(e, spc', ToService') /\ ToClient' = ToClient
         /\ Turn(spc', cur', ToService') = Turn(spc, cur, ToService)
<1>1. ToService \in Seq(FsMessages(cmd)) /\ spc \in {"idle", "file"}
  BY FsViews DEF Doomed
<1>3. CASE ToService' = ToService /\ ToClient' = ToClient /\ UNCHANGED service
  BY <1>3 DEF service, Turn
<1>4. CASE ServeStat
  <2>1. spc = "idle" /\ ToService[1].id \in {"STAT", "LSTAT"}
    BY <1>4, FvServeStat
  <2> QED BY <1>1, <2>1, DoomedSend
<1>5. CASE ServeSend /\ spc' \in {"link", "file"}
  <2>1. PICK g \in Files :
         /\ spc = "idle" /\ ToService # <<>>
         /\ ToService[1].f = g /\ ToService' = Tail(ToService) /\ cur' = g
         /\ \/ Kind[g] = "link"
            \/ Kind[g] # "link" /\ spc' = "file" /\ ToClient' = ToClient
    BY <1>5, FvServeSend
  <2> QED BY <1>1, <2>1, DoomedSend DEF Turn
<1>6. CASE FileData /\ spc' = "file"
  <2>1. /\ spc = "file" /\ ToService # <<>> /\ ToService[1].id = "DATA" /\ ToService' = Tail(ToService)
        /\ ToClient' = ToClient /\ cur' = cur
    BY <1>6, FvFileData
  <2> QED BY <1>1, <1>6, <2>1, DoomedData DEF Turn
<1>7. CASE FileDone /\ spc' = "idle"
  <2>1. spc = "file" /\ ToService # <<>> /\ ToService[1].id = "DONE"
    BY <1>7, FvFileDone
  <2>2. "DONE" \notin Request \cup {"DATA"}
    BY DEF Request
  <2> QED BY <1>1, <2>1, <2>2, DoomedData
<1>8. CASE LinkData \/ LinkDone
  BY <1>1, <1>8, FvLinkData, FvLinkDone
<1> QED BY <1>3, <1>4, <1>5, <1>6, <1>7, <1>8, FsServes

\* Between two files
LEMMA ServesRest ==
  ASSUME FsInv, FsGone, FsAsks, Pushes, Service, ~Failing', spc = "idle", ToService = <<>>
  PROVE  spc' = "idle" /\ ToService' = <<>> /\ ToClient' = ToClient /\ UNCHANGED service
<1>1. CASE ToService' = ToService /\ ToClient' = ToClient /\ UNCHANGED service
  BY <1>1 DEF service
<1>2. CASE ServeStat \/ ServeSend
  BY <1>2, FvServeStat, FvServeSend
<1>3. CASE FileData \/ FileDone \/ LinkData \/ LinkDone
  BY <1>3, FvFileData, FvFileDone, FvLinkData, FvLinkDone
<1> QED BY <1>1, <1>2, <1>3, FsServes

\* A request that is no SEND
LEMMA ServesRequest ==
  ASSUME FsInv, FsGone, FsAsks, Pushes, Service, ~Failing', spc = "idle", ToService # <<>>,
         ToService[1].id # "SEND"
  PROVE  /\ UNCHANGED service
         /\ \/ ToService' = ToService /\ ToClient' = ToClient
            \/ /\ ToService[1].id \in {"STAT", "LSTAT"} /\ ToService' = Tail(ToService)
               /\ \E r \in StatResult(ToService[1].f) :
                    ToClient' = Said(Attr(ToService[1].f, r)) /\ Attr(ToService[1].f, r) \in FsMessages(cmd)
<1>1. CASE ToService' = ToService /\ ToClient' = ToClient /\ UNCHANGED service
  BY <1>1
<1>2. CASE ServeStat
  BY <1>2, FvServeStat
<1>3. CASE ServeSend \/ FileData \/ FileDone \/ LinkData \/ LinkDone
  BY <1>3, FvServeSend, FvFileData, FvFileDone, FvLinkData, FvLinkDone
<1> QED BY <1>1, <1>2, <1>3, FsServes

-----------------------------------------------------------------------------
(* The conversation of a push, while neither side has failed *)

Open == Running /\ ~eof["client"] /\ ~Failing

\* The service waits for a request, and none is under way.
Between == spc = "idle" /\ ToService = <<>>

\* n messages of f have been written and are not all taken.
InFile(f, n) == Sends(f, n, spc, cur, remote[f], ToService)

\* The client stopped in the middle of a file.
Lost(e) == trouble /\ ~ok /\ Doomed(e, spc, ToService) /\ Turn(spc, cur, ToService) \in reported

\* The stat of the destination is on its way, or answered.
AskedStat ==
  /\ spc = "idle"
  /\ \/ Len(ToService) = 1 /\ ToService[1].id = "STAT" /\ ToClient = <<>>
     \/ ToService = <<>> /\ Len(ToClient) = 1 /\ ToClient[1].id = "ATTR"

\* So are the lstats of the files of a directory.
AskedAll ==
  /\ spc = "idle" /\ Ids(ToService, {"LSTAT"}) /\ Ids(ToClient, {"ATTR"})
  /\ Len(ToClient) + Len(ToService) = Len(asked)
  /\ \A n \in 1..Len(ToService) : ToService[n].f = asked[Len(ToClient) + n]

Quitting == spc = "idle" /\ Len(ToService) = 1 /\ ToService[1].id = "QUIT"

FsTalk ==
  Pushes /\ Open =>
    /\ cpc \in {"start", "quit"} => Between /\ ToClient = <<>>
    /\ cpc = "dst" => AskedStat
    /\ cpc \in {"next", "send"} => ToClient = <<>> /\ (Between \/ Lost(1))
    /\ cpc = "shutdown" => ToClient = <<>> /\ (Quitting \/ Lost(0))
    /\ cpc \in {"large", "poll"} =>
         \E f \in Files : /\ f = Head(files) /\ Kind[f] = "large" /\ left <= Chunks[f] /\ ToClient = <<>>
                          /\ InFile(f, 1 + Chunks[f] - left) \/ Lost(0)
    /\ cpc = "copydone" =>
         \/ Between /\ Len(ToClient) = 1 /\ ToClient[1].id = "OKAY"
         \/ \E f \in Files : f = Head(files) /\ ToClient = <<>> /\ (InFile(f, Chunks[f] + 2) \/ Lost(0))
    /\ cpc = "lstats" => AskedAll \/ (ToClient = <<>> /\ Lost(1))

LEMMA FsTalkInit == FileSyncInit => FsTalk
<1> SUFFICES ASSUME FileSyncInit PROVE FsTalk
  OBVIOUS
<1>1. spc = "idle" /\ cpc \in {"start", "next"}
  BY DEF FileSyncInit
<1>2. net["service"] = <<>> /\ net["client"] = <<>> /\ out["service"] = <<>> /\ out["client"] = <<>>
  BY FsSides DEF FileSyncInit
<1>3. ToService = <<>> /\ ToClient = <<>>
  BY <1>2 DEF ToService, ToClient
<1> QED BY <1>1, <1>3 DEF FsTalk, Between

LEMMA FsTroubleStays == ASSUME [FileSyncNext]_fileSyncVars, trouble PROVE trouble'
<1>1. CASE Client
  BY <1>1 DEF Client, Start, DstStat, StatFault, NextSource, LstatReply, SendFile, LocalReadFails, LargeChunk,
         LargePoll, CopyOkay, CopyFails, SrcStat, Dent, ListDone, ListFails, StatLink, LinkStat, RecvFile, Creat,
         RecvData, RecvFails, RecvDone, SourceDone, Quit, Shutdown, ClientWriteFails, Transmit, Swallow, history
<1>2. CASE Service
  BY <1>2 DEF Service, ServeStat, ServeList, ListEntry, ServeSend, FileData, FileDone, FileInvalid, Drain, Abort,
         Close, LinkData, LinkDone, LinkFails, ServeRecv, SendChunk, ServeQuit, BadRequest, ServiceWriteFails,
         Transmit, Swallow, history, DeviceFails
<1>3. CASE Kill \/ Break
  BY <1>3 DEF Kill, Break
<1> QED BY <1>1, <1>2, <1>3 DEF FileSyncNext, DrainSpins, Finished, fileSyncVars, history

\* While the conversation goes on it went on before.
LEMMA FsOpenService ==
  ASSUME FsInv, FsGone, Service, Open'
  PROVE  Open /\ ~eof["service"] /\ UNCHANGED <<command, client>> /\ ~Failing'
<1>1. UNCHANGED <<command, client>>
  BY FsServiceFrame
<1>2. Running
  BY <1>1 DEF Open, Running, client
<1>3. ~Abort /\ ~Close
  BY DEF Abort, Close, CloseStream, Open, Failing
<1>4. eof' = eof
  BY <1>3 DEF Service, ServeStat, ServeList, ListEntry, ServeSend, FileData, FileDone, FileInvalid, Drain,
         LinkData, LinkDone, LinkFails, ServeRecv, SendChunk, ServeQuit, BadRequest, ServiceWriteFails,
         Transmit, Swallow
<1>5. ~Failing
  BY <1>3 DEF Open, Failing, Service, ServeStat, ServeList, ListEntry, ServeSend, FileData, FileDone, FileInvalid, Drain,
         LinkData, LinkDone, LinkFails, ServeRecv, SendChunk, ServeQuit, BadRequest, ServiceWriteFails,
         Transmit, Swallow, service, Receives, ServiceIdle
<1>6. ~cut
  BY <1>4 DEF FsGone, Open
<1> QED BY <1>1, <1>2, <1>4, <1>5, <1>6 DEF FsGone, Open

LEMMA FsOpenClient ==
  ASSUME FsInv, Client, Open'
  PROVE  Open /\ UNCHANGED <<command, service>> /\ UNCHANGED eof
<1>1. UNCHANGED <<command, service>>
  BY FsClientFrame
<1>2. ~Shutdown /\ ~StatFault
  BY DEF Shutdown, StatFault, ClientEnds, Open, Running
<1>3. eof' = eof
  BY <1>2 DEF Open, Running, Client, Start, DstStat, NextSource, LstatReply, SendFile, LocalReadFails, LargeChunk,
         LargePoll, CopyOkay, CopyFails, SrcStat, Dent, ListDone, ListFails, StatLink, LinkStat, RecvFile, Creat,
         RecvData, RecvFails, RecvDone, SourceDone, Quit, ClientWriteFails, Transmit, Swallow, GiveUp, ClientEnds
<1>4. Running
  BY <1>2 DEF Open, Running, Client, Start, DstStat, NextSource, LstatReply, SendFile, LocalReadFails, LargeChunk,
         LargePoll, CopyOkay, CopyFails, SrcStat, Dent, ListDone, ListFails, StatLink, LinkStat, RecvFile, Creat,
         RecvData, RecvFails, RecvDone, SourceDone, Quit, ClientWriteFails, Transmit, Swallow, client, ClientIdle
<1> QED BY <1>1, <1>3, <1>4 DEF Open, Failing, service

LEMMA FsOne1 ==
  ASSUME NEW c, NEW s \in Seq(FsMessages(c)), Len(s) = 1 PROVE s # <<>> /\ Tail(s) = <<>>
<1>1. s # <<>>
  OBVIOUS
<1>2. Tail(s) \in Seq(FsMessages(c)) /\ Len(Tail(s)) = Len(s) - 1
  BY <1>1, FsTail
<1>3. Len(Tail(s)) = 0
  BY <1>2
<1> QED BY <1>1, <1>2, <1>3, FsEmpty

LEMMA FsSaid ==
  ASSUME FsInv, ~eof["service"], NEW m \in FsMessages(cmd)
  PROVE  /\ Said(m) \in Seq(FsMessages(cmd)) /\ Len(Said(m)) = Len(ToClient) + 1
         /\ Said(m)[Len(ToClient) + 1] = m /\ \A n \in 1..Len(ToClient) : Said(m)[n] = ToClient[n]
         /\ ToClient = <<>> => Len(Said(m)) = 1 /\ Said(m)[1] = m
<1>1. ToClient \in Seq(FsMessages(cmd))
  BY FsViews
<1> QED BY <1>1 DEF Said

LEMMA FsTalkService ==
  ASSUME FsInv, FsGone, FsAsks, FsTalk, Service
  PROVE  FsTalk'
<1> SUFFICES ASSUME Pushes', Open' PROVE FsTalk'
  BY DEF FsTalk
<1>1. Open /\ ~eof["service"] /\ UNCHANGED <<command, client>> /\ ~Failing'
  BY FsOpenService
<1>2. Pushes /\ UNCHANGED <<cpc, files, asked, left, ok>>
  BY <1>1 DEF command, client, Pushes
<1>3. trouble => trouble'
  BY FsTroubleStays DEF FileSyncNext
<1>4. ToService \in Seq(FsMessages(cmd)) /\ ToClient \in Seq(FsMessages(cmd))
  BY FsViews
<1>5. ASSUME NEW e \in {0, 1}, Lost(e) PROVE Lost(e)' /\ ToClient' = ToClient
  <2>1. /\ Doomed(e, spc', ToService') /\ ToClient' = ToClient
        /\ Turn(spc', cur', ToService') = Turn(spc, cur, ToService)
    BY <1>1, <1>2, <1>5, ServesDoomed DEF Lost
  <2>2. reported' = reported
    BY FsServiceFrame
  <2> QED BY <1>2, <1>3, <1>5, <2>1, <2>2 DEF Lost, Doomed, Turn
<1>6. ASSUME Between PROVE Between' /\ ToClient' = ToClient
  BY <1>1, <1>2, <1>6, ServesRest DEF Between
<1>7. CASE cpc \in {"start", "quit"}
  BY <1>1, <1>2, <1>6, <1>7 DEF FsTalk
<1>8. CASE cpc = "dst"
  <2>1. AskedStat
    BY <1>1, <1>2, <1>8 DEF FsTalk
  <2>2. CASE ToService = <<>>
    BY <1>2, <1>6, <1>8, <2>1, <2>2 DEF FsTalk, AskedStat, Between
  <2>3. CASE ToService # <<>>
    <3>1. Len(ToService) = 1 /\ ToService[1].id = "STAT" /\ ToClient = <<>> /\ spc = "idle"
      BY <2>1, <2>3 DEF AskedStat
    <3>2. UNCHANGED service
      BY <1>1, <1>2, <2>3, <3>1, ServesRequest
    <3>3. CASE ToService' = ToService /\ ToClient' = ToClient
      BY <1>2, <1>8, <3>1, <3>2, <3>3 DEF FsTalk, AskedStat, service
    <3>4. CASE ~(ToService' = ToService /\ ToClient' = ToClient)
      <4>1. PICK r : /\ ToService' = Tail(ToService) /\ ToClient' = Said(Attr(ToService[1].f, r))
                     /\ Attr(ToService[1].f, r) \in FsMessages(cmd)
        BY <1>1, <1>2, <2>3, <3>1, <3>4, ServesRequest
      <4>2. ToService' = <<>>
        BY <1>4, <3>1, <4>1, FsOne1
      <4>3. Len(ToClient') = 1 /\ ToClient'[1].id = "ATTR"
        BY <1>1, <3>1, <4>1, FsSaid, FsAttr
      <4> QED BY <1>2, <1>8, <3>1, <3>2, <4>2, <4>3 DEF FsTalk, AskedStat, service
    <3> QED BY <3>3, <3>4
  <2> QED BY <2>2, <2>3
<1>9. CASE cpc \in {"next", "send"}
  <2>1. ToClient = <<>> /\ (Between \/ Lost(1))
    BY <1>1, <1>2, <1>9 DEF FsTalk
  <2> QED BY <1>2, <1>5, <1>6, <1>9, <2>1 DEF FsTalk
<1>10. CASE cpc = "shutdown"
  <2>1. ToClient = <<>> /\ (Quitting \/ Lost(0))
    BY <1>1, <1>2, <1>10 DEF FsTalk
  <2>2. CASE Lost(0)
    BY <1>2, <1>5, <1>10, <2>1, <2>2 DEF FsTalk
  <2>3. CASE Quitting
    <3>1. ToService # <<>>
      BY <1>4, <2>3, FsOne1 DEF Quitting
    <3>2. UNCHANGED service /\ ToService' = ToService /\ ToClient' = ToClient
      BY <1>1, <1>2, <2>3, <3>1, ServesRequest DEF Quitting
    <3> QED BY <1>2, <1>10, <2>1, <2>3, <3>2 DEF FsTalk, Quitting, service
  <2> QED BY <2>1, <2>2, <2>3
<1>11. CASE cpc \in {"large", "poll"}
  <2>1. PICK f \in Files : /\ f = Head(files) /\ Kind[f] = "large" /\ left <= Chunks[f] /\ ToClient = <<>>
                           /\ InFile(f, 1 + Chunks[f] - left) \/ Lost(0)
    BY <1>1, <1>2, <1>11 DEF FsTalk
  <2>2. 1 + Chunks[f] - left # Chunks[f] + 2
    <3>1. Chunks[f] \in Nat /\ left \in Nat
      BY FsChunks DEF FsInv, FsClientTypes
    <3> QED BY <3>1
  <2>3. CASE Lost(0)
    BY <1>2, <1>5, <1>11, <2>1, <2>3 DEF FsTalk
  <2>4. CASE InFile(f, 1 + Chunks[f] - left)
    <3>1. InFile(f, 1 + Chunks[f] - left)' /\ ToClient' = ToClient
      BY <1>1, <1>2, <2>2, <2>4, ServesFed DEF InFile
    <3> QED BY <1>2, <1>11, <2>1, <3>1 DEF FsTalk
  <2> QED BY <2>1, <2>3, <2>4
<1>12. CASE cpc = "copydone"
  <2>1. CASE Between /\ Len(ToClient) = 1 /\ ToClient[1].id = "OKAY"
    BY <1>2, <1>6, <1>12, <2>1 DEF FsTalk
  <2>2. CASE ~(Between /\ Len(ToClient) = 1 /\ ToClient[1].id = "OKAY")
    <3>1. PICK f \in Files : f = Head(files) /\ ToClient = <<>> /\ (InFile(f, Chunks[f] + 2) \/ Lost(0))
      BY <1>1, <1>2, <1>12, <2>2 DEF FsTalk
    <3>2. CASE Lost(0)
      BY <1>2, <1>5, <1>12, <3>1, <3>2 DEF FsTalk
    <3>3. CASE InFile(f, Chunks[f] + 2)
      <4>1. CASE InFile(f, Chunks[f] + 2)' /\ ToClient' = ToClient
        BY <1>2, <1>12, <3>1, <4>1 DEF FsTalk
      <4>2. CASE ~(InFile(f, Chunks[f] + 2)' /\ ToClient' = ToClient)
        <5>1. spc' = "idle" /\ ToService' = <<>> /\ ToClient' = Said(Msg("OKAY", f)) /\ Msg("OKAY", f) \in FsMessages(cmd)
          BY <1>1, <1>2, <3>3, <4>2, ServesFed DEF InFile
        <5>2. Len(ToClient') = 1 /\ ToClient'[1].id = "OKAY"
          BY <1>1, <3>1, <5>1, FsSaid, FsMsg
        <5> QED BY <1>2, <1>12, <5>1, <5>2 DEF FsTalk, Between
      <4> QED BY <4>1, <4>2
    <3> QED BY <3>1, <3>2, <3>3
  <2> QED BY <2>1, <2>2
<1>13. CASE cpc = "lstats"
  <2>1. CASE ToClient = <<>> /\ Lost(1)
    BY <1>2, <1>5, <1>13, <2>1 DEF FsTalk
  <2>2. CASE AskedAll
    <3>1. CASE ToService = <<>>
      <4>1. spc' = "idle" /\ ToService' = <<>> /\ ToClient' = ToClient
        BY <1>6, <2>2, <3>1 DEF Between, AskedAll
      <4> QED BY <1>2, <1>13, <2>2, <3>1, <4>1 DEF FsTalk, AskedAll, Ids
    <3>2. CASE ToService # <<>>
      <4>1. 1 \in 1..Len(ToService) /\ Len(ToService) \in Nat /\ Len(ToClient) \in Nat
        BY <1>4, <3>2, FsTail
      <4>2. ToService[1].id = "LSTAT" /\ spc = "idle"
        BY <2>2, <4>1 DEF AskedAll, Ids
      <4>3. UNCHANGED service
        BY <1>1, <1>2, <3>2, <4>2, ServesRequest
      <4>4. CASE ToService' = ToService /\ ToClient' = ToClient
        BY <1>2, <1>13, <2>2, <4>3, <4>4 DEF FsTalk, AskedAll, service, Ids
      <4>5. CASE ~(ToService' = ToService /\ ToClient' = ToClient)
        <5>1. PICK r : /\ ToService' = Tail(ToService) /\ ToClient' = Said(Attr(ToService[1].f, r))
                       /\ Attr(ToService[1].f, r) \in FsMessages(cmd)
          BY <1>1, <1>2, <3>2, <4>2, <4>5, ServesRequest
        <5>2. Ids(ToService', {"LSTAT"})
          BY <1>4, <2>2, <3>2, <5>1, FsIdsTail DEF AskedAll
        <5>3. PICK m : m = Attr(ToService[1].f, r)
          OBVIOUS
        <5>4. Len(ToClient') = Len(ToClient) + 1 /\ ToClient'[Len(ToClient) + 1].id = "ATTR"
              /\ \A n \in 1..Len(ToClient) : ToClient'[n] = ToClient[n]
          BY <1>1, <5>1, FsSaid, FsAttr
        <5>5. Ids(ToClient', {"ATTR"})
          <6> SUFFICES ASSUME NEW n \in 1..Len(ToClient') PROVE ToClient'[n].id = "ATTR"
            BY DEF Ids
          <6>1. n = Len(ToClient) + 1 \/ n \in 1..Len(ToClient)
            BY <4>1, <5>4
          <6> QED BY <2>2, <5>4, <6>1 DEF AskedAll, Ids
        <5>6. Len(ToService') = Len(ToService) - 1 /\ \A n \in 1..Len(ToService) - 1 : /\ ToService'[n] = ToService[n + 1]
                                                                                       /\ n + 1 \in 1..Len(ToService)
          BY <1>4, <3>2, <5>1, FsTail
        <5>7. Len(ToClient') + Len(ToService') = Len(asked)
          <6>1. Len(ToClient) + Len(ToService) = Len(asked)
            BY <2>2 DEF AskedAll
          <6>2. Len(ToService) \in Nat /\ Len(ToClient) \in Nat
            BY <4>1
          <6>3. Len(ToClient') = Len(ToClient) + 1 /\ Len(ToService') = Len(ToService) - 1
            BY <5>4, <5>6
          <6>4. Len(ToClient') + Len(ToService') = Len(ToClient) + Len(ToService)
            BY <6>2, <6>3
          <6> QED BY <6>1, <6>4
        <5>8. \A n \in 1..Len(ToService') : ToService'[n].f = asked[Len(ToClient') + n]
          <6> SUFFICES ASSUME NEW n \in 1..Len(ToService') PROVE ToService'[n].f = asked[Len(ToClient') + n]
            OBVIOUS
          <6>1. ToService'[n] = ToService[n + 1] /\ n + 1 \in 1..Len(ToService)
            BY <5>6
          <6>2. Len(ToClient') + n = Len(ToClient) + (n + 1)
            BY <4>1, <5>4
          <6>3. ToService[n + 1].f = asked[Len(ToClient) + (n + 1)]
            BY <2>2, <6>1 DEF AskedAll
          <6> QED BY <6>1, <6>2, <6>3
        <5> QED BY <1>2, <1>13, <4>2, <4>3, <5>2, <5>5, <5>7, <5>8 DEF FsTalk, AskedAll, service, Ids
      <4> QED BY <4>4, <4>5
    <3> QED BY <3>1, <3>2
  <2> QED BY <1>1, <1>2, <1>13, <2>1, <2>2 DEF FsTalk
<1>14. CASE cpc \notin {"start", "quit", "dst", "next", "send", "shutdown", "large", "poll", "copydone", "lstats"}
  BY <1>2, <1>14 DEF FsTalk
<1> QED BY <1>7, <1>8, <1>9, <1>10, <1>11, <1>12, <1>13, <1>14

\* What the client writes while the conversation goes on
LEMMA FsWrote ==
  ASSUME FsInv, ~eof["client"], NEW msgs \in Seq(FsMessages(cmd))
  PROVE  Wrote(msgs) = ToService \o msgs /\ (ToService = <<>> => Wrote(msgs) = msgs)
<1>1. ToService \in Seq(FsMessages(cmd))
  BY FsViews
<1>2. ToService = <<>> => ToService \o msgs = msgs
  OBVIOUS
<1> QED BY <1>1, <1>2 DEF Wrote

LEMMA FsReportedStays == ASSUME Client PROVE reported \subseteq reported'
<1>1. reported' = reported \/ reported' = reported \cup {Head(files)}
  BY DEF Client, Start, DstStat, StatFault, NextSource, LstatReply, SendFile, LocalReadFails, LargeChunk, LargePoll,
      CopyOkay, CopyFails, SrcStat, Dent, ListDone, ListFails, StatLink, LinkStat, RecvFile, Creat, RecvData, RecvFails,
      RecvDone, SourceDone, Quit, Shutdown, ClientWriteFails, Transmit, Swallow, GiveUp, history
<1> QED BY <1>1

\* Another request after a file that was left
LEMMA FsLostMore ==
  ASSUME FsInv, ~eof["client"], NEW e \in {0, 1}, Lost(e), NEW msgs \in Seq(FsMessages(cmd)),
         e = 1 => msgs # <<>> /\ msgs[1].id \in Request,
         ToService' = Wrote(msgs), trouble', ~ok', Client
  PROVE  Lost(0)'
<1>1. ToService \in Seq(FsMessages(cmd))
  BY FsViews
<1>2. ToService' = ToService \o msgs
  BY FsWrote
<1>3. Doomed(0, spc, ToService \o msgs)
  BY <1>1, DoomedMore DEF Lost
<1>4. spc' = spc /\ cur' = cur /\ reported \subseteq reported'
  BY FsClientFrame, FsReportedStays DEF service
<1>5. Turn(spc, cur, ToService \o msgs) = Turn(spc, cur, ToService)
  <2>1. CASE spc = "file"
    BY <2>1 DEF Turn
  <2>2. CASE spc # "file"
    <3>1. ToService # <<>>
      BY <1>1, <2>2, DoomedSend DEF Lost, Doomed
    <3>2. 1 \in 1..Len(ToService)
      BY <1>1, <3>1, FsTail
    <3>3. (ToService \o msgs)[1] = ToService[1]
      BY <1>1, <3>2, FsJoin
    <3> QED BY <3>3 DEF Turn
  <2> QED BY <2>1, <2>2
<1> QED BY <1>2, <1>3, <1>4, <1>5 DEF Lost, Doomed, Turn

LEMMA FsLostSame ==
  ASSUME FsInv, NEW e \in {0, 1}, Lost(e), ToService' = ToService, trouble', ~ok', Client
  PROVE  Lost(e)' /\ Lost(1)'
<1>1. Len(ToService) \in Nat
  BY FsViews
<1>2. Doomed(1, spc, ToService) /\ Doomed(e, spc, ToService)
  BY <1>1, DoomedWeaker DEF Lost
<1>4. spc' = spc /\ cur' = cur /\ reported \subseteq reported'
  BY FsClientFrame, FsReportedStays DEF service
<1> QED BY <1>2, <1>4 DEF Lost, Doomed, Turn

LEMMA FsTalkStart == ASSUME FsInv, FsTalk, Pushes, Open, Open', Start PROVE FsTalk'
<1>1. ToService = <<>> /\ spc = "idle" /\ ToClient = <<>>
  BY DEF Start, ClientIdle, FsTalk, Between
<1>2. PICK m : m = Msg("STAT", Dst)
  OBVIOUS
<1>3. m \in FsMessages(cmd) /\ m.id = "STAT" /\ ToService' = Wrote(<<m>>) /\ ToClient' = ToClient
  BY <1>2, FvStart, FsMsg
<1>4. ToService' = <<m>>
  BY <1>1, <1>3, FsOne, FsWrote DEF Open
<1>5. Len(ToService') = 1 /\ ToService'[1].id = "STAT"
  BY <1>3, <1>4
<1>6. cpc' = "dst" /\ spc' = spc
  BY DEF Start, service
<1> QED BY <1>1, <1>3, <1>5, <1>6 DEF FsTalk, AskedStat

LEMMA FsTalkDstStat == ASSUME FsInv, FsTalk, Pushes, Open, Open', DstStat PROVE FsTalk'
<1>1. ToClient # <<>> /\ ToClient' = Tail(ToClient) /\ ToService' = ToService /\ cpc' \in {"next", "quit"} /\ spc' = spc
  BY FvDstStat DEF DstStat, service
<1>2. AskedStat
  BY DEF FsTalk, DstStat, ClientIdle
<1>3. ToService = <<>> /\ Len(ToClient) = 1 /\ spc = "idle"
  BY <1>1, <1>2 DEF AskedStat
<1>4. ToClient' = <<>>
  BY <1>1, <1>3, FsViews, FsOne1
<1> QED BY <1>1, <1>3, <1>4 DEF FsTalk, Between

LEMMA FsTalkNext == ASSUME FsInv, FsTalk, Pushes, Open, Open', NextSource PROVE FsTalk'
<1>0. Client
  BY DEF Client
<1>1. ToClient = <<>> /\ (Between \/ Lost(1)) /\ spc' = spc /\ cpc = "next" /\ ToClient' = ToClient
  BY FvNextPush DEF FsTalk, NextSource, ClientIdle, service, Pushes
<1>2. CASE cpc' = "lstats"
  <2>1. /\ asked' \in Seq(Files) /\ UNCHANGED <<ok, trouble>> /\ ToService' = Wrote(Lstats(asked'))
    BY <1>1, <1>2, FvNextPush DEF Pushes
  <2>2. PICK a \in Seq(Files) : a = asked'
    BY <2>1
  <2>3. Lstats(a) \in Seq(FsMessages(cmd)) /\ Len(Lstats(a)) = Len(a) /\ Len(a) \in Nat
    BY FvLstats
  <2>4. \A n \in 1..Len(a) : Lstats(a)[n].id = "LSTAT" /\ Lstats(a)[n].f = a[n]
    BY FsMsg DEF Lstats
  <2>5. CASE Between
    <3>1. ToService' = Lstats(a)
      BY <2>1, <2>2, <2>3, <2>5, FsWrote DEF Between, Open
    <3>2. Len(ToClient') = 0
      BY <1>1
    <3>3. Ids(ToService', {"LSTAT"}) /\ Ids(ToClient', {"ATTR"})
      BY <2>3, <2>4, <3>1, <3>2 DEF Ids
    <3>4. \A n \in 1..Len(a) : a[0 + n] = a[n]
      BY <2>3
    <3>5. \A n \in 1..Len(ToService') : ToService'[n].f = a[Len(ToClient') + n]
      BY <2>3, <2>4, <3>1, <3>2, <3>4
    <3>6. Len(ToClient') + Len(ToService') = Len(a)
      BY <2>3, <3>1, <3>2
    <3>7. spc' = "idle"
      BY <1>1, <2>5 DEF Between
    <3> QED BY <1>2, <2>2, <3>3, <3>5, <3>6, <3>7 DEF FsTalk, AskedAll, Ids
  <2>6. CASE Lost(1)
    <3>1. trouble' /\ ~ok'
      BY <2>1, <2>6 DEF Lost
    <3>2. CASE a = <<>>
      <4>1. Lstats(a) = <<>>
        BY <2>3, <3>2, FsEmpty
      <4>2. ToService' = ToService
        <5>1. ToService \o <<>> = ToService
          BY FsViews
        <5> QED BY <2>1, <2>2, <4>1, <5>1 DEF Wrote
      <4> QED BY <1>0, <1>1, <1>2, <2>6, <3>1, <4>2, FsLostSame DEF FsTalk
    <3>3. CASE a # <<>>
      <4>1. Lstats(a) # <<>> /\ Lstats(a)[1].id = "LSTAT"
        <5>1. Len(a) >= 1
          BY <2>2, <3>3
        <5> QED BY <2>3, <2>4, <5>1
      <4>2. "LSTAT" \in Request
        BY DEF Request
      <4>3. Lost(0)'
        BY <1>0, <1>1, <2>1, <2>2, <2>3, <2>6, <3>1, <4>1, <4>2, FsLostMore DEF Open
      <4>4. Lost(1)'
        <5>1. Len(ToService') \in Nat
          <6>1. ToService' = ToService \o Lstats(a)
            BY <2>1, <2>2, <2>3, FsWrote DEF Open
          <6>2. ToService \o Lstats(a) \in Seq(FsMessages(cmd))
            BY <2>3, FsViews, FsJoin
          <6> QED BY <6>1, <6>2
        <5>2. Doomed(0, spc', ToService')
          BY <4>3 DEF Lost, Doomed
        <5>3. Doomed(1, spc', ToService')
          BY <5>1, <5>2, DoomedWeaker
        <5> QED BY <4>3, <5>3 DEF Lost, Doomed, Turn
      <4> QED BY <1>1, <1>2, <4>4 DEF FsTalk
    <3> QED BY <3>2, <3>3
  <2> QED BY <1>1, <2>5, <2>6
<1>3. CASE cpc' # "lstats"
  <2>1. /\ ToService' = ToService /\ cpc' \in {"next", "send"}
        /\ ok' = ok \/ ok' = FALSE
        /\ trouble' = trouble \/ trouble' = TRUE
    BY <1>1, <1>3, FvNextPush DEF Pushes
  <2>2. CASE Between
    BY <1>1, <2>1, <2>2 DEF FsTalk, Between
  <2>3. CASE Lost(1)
    <3>1. ~ok'
      <4>1. CASE ok' = ok
        BY <2>3, <4>1 DEF Lost
      <4>2. CASE ok' = FALSE
        BY <4>2
      <4> QED BY <2>1, <4>1, <4>2
    <3>2. trouble'
      BY <2>3, FsTroubleStays DEF Lost, FileSyncNext, Client
    <3> QED BY <1>0, <1>1, <2>1, <2>3, <3>1, <3>2, FsLostSame DEF FsTalk
  <2> QED BY <1>1, <2>2, <2>3
<1> QED BY <1>2, <1>3

LEMMA FsTalkLstatReply == ASSUME FsInv, FsTalk, Pushes, Open, Open', LstatReply PROVE FsTalk'
<1>0. Client
  BY DEF Client
<1>1. ToService' = ToService /\ spc' = spc /\ UNCHANGED <<ok, trouble>> /\ cpc = "lstats"
  BY FvLstatReply DEF LstatReply, service, history, ClientIdle
<1>2. AskedAll \/ (ToClient = <<>> /\ Lost(1))
  BY <1>1 DEF FsTalk
<1>3. ToService \in Seq(FsMessages(cmd)) /\ ToClient \in Seq(FsMessages(cmd)) /\ asked \in Seq(Files)
  BY FsViews DEF FsInv, FsClientTypes
<1>4. CASE asked = <<>> /\ cpc' = "send" /\ ToClient' = ToClient
  <2>1. CASE AskedAll
    <3>1. Len(ToClient) + Len(ToService) = 0 /\ Len(ToClient) \in Nat /\ Len(ToService) \in Nat /\ spc = "idle"
      BY <1>3, <1>4, <2>1 DEF AskedAll
    <3>2. Len(ToClient) = 0 /\ Len(ToService) = 0
      BY <3>1
    <3>3. ToClient = <<>> /\ ToService = <<>>
      BY <1>3, <3>2, FsEmpty
    <3> QED BY <1>1, <1>4, <3>1, <3>3 DEF FsTalk, Between
  <2>2. CASE ToClient = <<>> /\ Lost(1)
    <3>1. trouble' /\ ~ok'
      BY <1>1, <2>2 DEF Lost
    <3> QED BY <1>0, <1>1, <1>4, <2>2, <3>1, FsLostSame DEF FsTalk
  <2> QED BY <1>2, <2>1, <2>2
<1>5. CASE /\ asked # <<>> /\ ToClient # <<>> /\ ToClient[1].id = "ATTR" /\ ToClient' = Tail(ToClient)
           /\ asked' = Tail(asked) /\ cpc' = cpc
  <2>1. AskedAll
    BY <1>2, <1>5
  <2>2. /\ Len(ToClient') = Len(ToClient) - 1 /\ Len(ToClient) \in Nat /\ Len(ToClient) >= 1 /\ Len(ToService) \in Nat
    BY <1>3, <1>5, FsTail
  <2>3. PICK a \in Seq(Files) : a = asked'
    <3>1. Tail(asked) \in Seq(Files)
      BY <1>3, <1>5
    <3> QED BY <1>5, <3>1
  <2>4. Len(a) = Len(asked) - 1 /\ \A n \in 1..Len(asked) - 1 : a[n] = asked[n + 1]
    BY <1>3, <1>5, <2>3
  <2>5. Ids(ToClient', {"ATTR"})
    BY <1>3, <1>5, <2>1, FsIdsTail DEF AskedAll
  <2>6. Len(ToClient) + Len(ToService) = Len(asked)
    BY <2>1 DEF AskedAll
  <2>7. Len(asked) \in Nat
    BY <1>3
  <2>8. Len(ToClient') + Len(ToService) = Len(a)
    <3>1. Len(ToClient') = Len(ToClient) - 1 /\ Len(a) = Len(asked) - 1
      BY <2>2, <2>4
    <3>2. Len(ToClient') + Len(ToService) = Len(ToClient) + Len(ToService) - 1
      BY <2>2, <3>1
    <3> QED BY <2>6, <3>1, <3>2
  <2>9. \A n \in 1..Len(ToService) : ToService[n].f = a[Len(ToClient') + n]
    <3> SUFFICES ASSUME NEW n \in 1..Len(ToService) PROVE ToService[n].f = a[Len(ToClient') + n]
      OBVIOUS
    <3>1. ToService[n].f = asked[Len(ToClient) + n]
      BY <2>1 DEF AskedAll
    <3>2. PICK j : j = Len(ToClient') + n
      OBVIOUS
    <3>3. Len(ToClient') = Len(ToClient) - 1
      BY <2>2
    <3>4. j = Len(ToClient) - 1 + n
      BY <3>2, <3>3
    <3>5. j \in Int /\ j >= 1 /\ j <= Len(ToClient) + Len(ToService) - 1 /\ j + 1 = Len(ToClient) + n
      BY <2>2, <3>4
    <3>6. j \in 1..Len(asked) - 1 /\ j + 1 = Len(ToClient) + n
      BY <2>6, <2>7, <3>5
    <3> QED BY <2>4, <3>1, <3>2, <3>6
  <2>10. Ids(ToService', {"LSTAT"}) /\ spc = "idle"
    BY <1>1, <2>1 DEF AskedAll
  <2> QED BY <1>1, <1>5, <2>3, <2>5, <2>8, <2>9, <2>10 DEF FsTalk, AskedAll, Ids
<1> QED BY <1>4, <1>5, FvLstatReply

LEMMA FsTalkSendFile == ASSUME FsInv, FsTalk, Pushes, Open, Open', SendFile PROVE FsTalk'
<1>0. Client
  BY DEF Client
<1>1. ToClient = <<>> /\ (Between \/ Lost(1)) /\ UNCHANGED <<spc, cur, remote, ok, trouble, files>> /\ ToClient' = ToClient
  BY FvSendFile DEF FsTalk, SendFile, ClientIdle, service, history
<1>2. PICK f \in Files : f = Head(files)
  BY FvSendFile
<1>3. PICK m1, m2, m3 : m1 = Msg("SEND", f) /\ m2 = Msg("DATA", f) /\ m3 = Msg("DONE", f)
  OBVIOUS
<1>4. m1 \in FsMessages(cmd) /\ m2 \in FsMessages(cmd) /\ m3 \in FsMessages(cmd) /\ m1.id = "SEND"
  BY <1>2, <1>3, FvSendFile, FsMsg
<1>5. <<m1>> \in Seq(FsMessages(cmd)) /\ <<m1, m2, m3>> \in Seq(FsMessages(cmd)) /\ "SEND" \in Request
  BY <1>4 DEF Request
<1>6. CASE Kind[f] = "large" /\ cpc' = "large" /\ left' = Chunks[f] /\ ToService' = Wrote(<<m1>>)
  <2>1. Chunks[f] \in Nat /\ left' <= Chunks[f]
    BY <1>6, FsChunks
  <2>2. CASE Between
    <3>1. ToService' = <<m1>>
      BY <1>5, <1>6, <2>2, FsWrote DEF Between, Open
    <3>2. Sends(f, 1, "idle", cur, remote[f], <<m1>>)
      BY <1>3, FedStart DEF Sends
    <3>3. 1 + Chunks[f] - left' = 1
      BY <1>6, <2>1
    <3>4. InFile(f, 1 + Chunks[f] - left)'
      BY <1>1, <2>2, <3>1, <3>2, <3>3 DEF InFile, Between
    <3> QED BY <1>1, <1>2, <1>6, <2>1, <3>4 DEF FsTalk
  <2>3. CASE Lost(1)
    <3>1. trouble' /\ ~ok'
      BY <1>1, <2>3 DEF Lost
    <3>2. <<m1>> # <<>> /\ <<m1>>[1].id \in Request
      BY <1>4, <1>5
    <3>3. Lost(0)'
      BY <1>0, <1>1, <1>5, <1>6, <2>3, <3>1, <3>2, FsLostMore DEF Open
    <3> QED BY <1>1, <1>2, <1>6, <2>1, <3>3 DEF FsTalk
  <2> QED BY <1>1, <2>2, <2>3
<1>7. CASE Kind[f] # "large" /\ cpc' = "copydone" /\ ToService' = Wrote(<<m1, m2, m3>>)
  <2>2. CASE Between
    <3>1. ToService' = <<m1, m2, m3>>
      BY <1>5, <1>7, <2>2, FsWrote DEF Between, Open
    <3>2. Sends(f, Chunks[f] + 2, "idle", cur, remote[f], <<m1, m2, m3>>)
      BY <1>3, <1>7, FedStart DEF Sends
    <3>4. InFile(f, Chunks[f] + 2)'
      BY <1>1, <2>2, <3>1, <3>2 DEF InFile, Between
    <3> QED BY <1>1, <1>2, <1>7, <3>4 DEF FsTalk
  <2>3. CASE Lost(1)
    <3>1. trouble' /\ ~ok'
      BY <1>1, <2>3 DEF Lost
    <3>2. <<m1, m2, m3>> # <<>> /\ <<m1, m2, m3>>[1].id \in Request
      BY <1>4, <1>5
    <3>3. Lost(0)'
      BY <1>0, <1>1, <1>5, <1>7, <2>3, <3>1, <3>2, FsLostMore DEF Open
    <3> QED BY <1>1, <1>2, <1>7, <3>3 DEF FsTalk
  <2> QED BY <1>1, <2>2, <2>3
<1> QED BY <1>2, <1>3, <1>6, <1>7, FvSendFile

LEMMA FsTalkReadFails == ASSUME FsInv, FsTalk, Pushes, Open, Open', LocalReadFails PROVE FsTalk'
<1>0. Client
  BY DEF Client
<1>1. /\ UNCHANGED <<spc, cur, remote>> /\ ToClient' = ToClient /\ ToService' = ToService /\ cpc' = "next"
      /\ ~ok' /\ trouble'
  BY FvLocalReadFails DEF LocalReadFails, GiveUp, service
<1>2. CASE cpc = "send"
  <2>1. ToClient = <<>> /\ (Between \/ Lost(1))
    BY <1>2 DEF FsTalk
  <2>2. CASE Between
    BY <1>1, <2>1, <2>2 DEF FsTalk, Between
  <2>3. CASE Lost(1)
    BY <1>0, <1>1, <2>1, <2>3, FsLostSame DEF FsTalk
  <2> QED BY <2>1, <2>2, <2>3
<1>3. CASE cpc = "large"
  <2>1. PICK f \in Files : /\ f = Head(files) /\ Kind[f] = "large" /\ left <= Chunks[f] /\ ToClient = <<>>
                           /\ InFile(f, 1 + Chunks[f] - left) \/ Lost(0)
    BY <1>3 DEF FsTalk
  <2>2. CASE Lost(0)
    BY <1>0, <1>1, <2>1, <2>2, FsLostSame DEF FsTalk
  <2>3. CASE InFile(f, 1 + Chunks[f] - left)
    <3>1. Fed(f, spc, cur, remote[f], ToService) /\ Taken(spc, remote[f]) + Len(ToService) = 1 + Chunks[f] - left
      BY <2>3 DEF InFile, Sends
    <3>2. Chunks[f] \in Nat /\ left \in Nat
      BY FsChunks DEF FsInv, FsClientTypes
    <3>3. 1 + Chunks[f] - left <= Chunks[f] + 1
      BY <3>2
    <3>4. Doomed(1, spc, ToService)
      BY <2>1, <3>1, <3>3, FsViews, FedTaken, DoomedStop
    <3>5. Turn(spc, cur, ToService) = f
      <4>1. CASE spc = "file"
        BY <3>1, <4>1 DEF Turn, Fed
      <4>2. CASE spc = "idle"
        BY <3>1, <4>2, FsViews, FedSend DEF Turn
      <4> QED BY <3>4, <4>1, <4>2 DEF Doomed
    <3>6. f \in reported'
      BY <2>1 DEF LocalReadFails
    <3>7. Lost(1)'
      BY <1>1, <3>4, <3>5, <3>6 DEF Lost, Doomed, Turn
    <3> QED BY <1>1, <2>1, <3>7 DEF FsTalk
  <2> QED BY <2>1, <2>2, <2>3
<1> QED BY <1>2, <1>3 DEF LocalReadFails, ClientIdle

LEMMA FsTalkLargeChunk == ASSUME FsInv, FsTalk, Pushes, Open, Open', LargeChunk PROVE FsTalk'
<1>0. Client
  BY DEF Client
<1>1. UNCHANGED <<spc, cur, remote, ok, trouble, files>> /\ ToClient' = ToClient /\ cpc = "large"
  BY FvLargeChunk DEF LargeChunk, ClientIdle, service, history
<1>2. PICK f \in Files : /\ f = Head(files) /\ Kind[f] = "large" /\ left <= Chunks[f] /\ ToClient = <<>>
                         /\ InFile(f, 1 + Chunks[f] - left) \/ Lost(0)
  BY <1>1 DEF FsTalk
<1>3. Chunks[f] \in Nat /\ left \in Nat
  BY FsChunks DEF FsInv, FsClientTypes
<1>4. ASSUME NEW id \in {"DATA", "DONE"}, ToService' = Wrote(<<Msg(id, f)>>)
      PROVE  /\ Lost(0) => Lost(0)'
             /\ \A k : k = 1 + Chunks[f] - left /\ InFile(f, k) /\ k <= Chunks[f] + 1 /\ id = Script(f, k + 1) =>
                  InFile(f, k + 1)'
  <2>1. PICK m : m = Msg(id, f)
    OBVIOUS
  <2>2. m \in FsMessages(cmd) /\ m.id = id /\ m.f = f
    BY <1>2, <2>1, FvLargeChunk, FsMsg
  <2>3. <<m>> \in Seq(FsMessages(cmd))
    BY <2>2, FsOne
  <2>4. ToService' = ToService \o <<m>>
    BY <1>4, <2>1, <2>3, FsWrote DEF Open
  <2>5. Lost(0) => Lost(0)'
    <3> SUFFICES ASSUME Lost(0) PROVE Lost(0)'
      OBVIOUS
    <3>1. trouble' /\ ~ok'
      BY <1>1 DEF Lost
    <3>2. 0 \in {0, 1} /\ ~(0 = 1)
      OBVIOUS
    <3>3. ToService' = Wrote(<<m>>) /\ spc' = spc /\ ~eof["client"]
      BY <1>1, <1>4, <2>1 DEF Open
    <3> QED BY <1>0, <2>3, <3>1, <3>2, <3>3, FsLostMore
  <2>6. ASSUME NEW k, k = 1 + Chunks[f] - left, InFile(f, k), k <= Chunks[f] + 1, id = Script(f, k + 1)
        PROVE  InFile(f, k + 1)'
    <3>1. Fed(f, spc, cur, remote[f], ToService) /\ Taken(spc, remote[f]) + Len(ToService) = k /\ Taken(spc, remote[f]) \in Nat
      BY <2>6, FedTaken DEF InFile, Sends
    <3>2. Fed(f, spc, cur, remote[f], ToService \o <<m>>) /\ Taken(spc, remote[f]) + Len(ToService \o <<m>>) = k + 1
      <4>1. ToService \in Seq(FsMessages(cmd))
        BY FsViews
      <4>2. m.id = Script(f, Taken(spc, remote[f]) + Len(ToService) + 1) /\ Taken(spc, remote[f]) + Len(ToService) <= Chunks[f] + 1
        BY <2>2, <2>6, <3>1
      <4> QED BY <2>2, <3>1, <4>1, <4>2, FedMore
    <3> QED BY <1>1, <2>4, <3>2 DEF InFile, Sends
  <2> QED BY <2>5, <2>6
<1>5. CASE left > 0 /\ left' = left - 1 /\ cpc' = "poll" /\ ToService' = Wrote(<<Msg("DATA", f)>>)
  <2>1. CASE Lost(0)
    <3>1. left' <= Chunks[f]
      BY <1>2, <1>3, <1>5
    <3> QED BY <1>1, <1>2, <1>4, <1>5, <2>1, <3>1 DEF FsTalk
  <2>2. CASE InFile(f, 1 + Chunks[f] - left)
    <3>1. PICK k : k = 1 + Chunks[f] - left
      OBVIOUS
    <3>2. k + 1 = 1 + Chunks[f] - left' /\ left' <= Chunks[f] /\ k <= Chunks[f] + 1
      BY <1>2, <1>3, <1>5, <3>1
    <3>3. "DATA" = Script(f, k + 1)
      <4>1. k + 1 # 1 /\ k + 1 # Chunks[f] + 2
        BY <1>2, <1>3, <1>5, <3>1
      <4> QED BY <4>1 DEF Script
    <3>4. InFile(f, k + 1)'
      BY <1>4, <1>5, <2>2, <3>1, <3>2, <3>3
    <3>5. InFile(f, 1 + Chunks[f] - left)'
      BY <3>2, <3>4 DEF InFile
    <3> QED BY <1>1, <1>2, <1>5, <3>2, <3>5 DEF FsTalk
  <2> QED BY <1>2, <2>1, <2>2
<1>6. CASE left = 0 /\ cpc' = "copydone" /\ ToService' = Wrote(<<Msg("DONE", f)>>)
  <2>1. CASE Lost(0)
    BY <1>1, <1>2, <1>4, <1>6, <2>1 DEF FsTalk
  <2>2. CASE InFile(f, 1 + Chunks[f] - left)
    <3>1. PICK k : k = 1 + Chunks[f] - left
      OBVIOUS
    <3>2. k + 1 = Chunks[f] + 2 /\ k <= Chunks[f] + 1 /\ k + 1 # 1
      BY <1>2, <1>3, <1>6, <3>1
    <3>3. "DONE" = Script(f, k + 1)
      BY <3>2 DEF Script
    <3>4. InFile(f, k + 1)'
      BY <1>4, <1>6, <2>2, <3>1, <3>2, <3>3
    <3>5. InFile(f, Chunks[f] + 2)'
      BY <3>2, <3>4
    <3> QED BY <1>1, <1>2, <1>6, <3>5 DEF FsTalk
  <2> QED BY <1>2, <2>1, <2>2
<1> QED BY <1>2, <1>5, <1>6, FvLargeChunk

LEMMA FsTalkLargePoll == ASSUME FsInv, FsTalk, Pushes, Open, Open', LargePoll PROVE FsTalk'
<1>0. Client
  BY DEF Client
<1>1. UNCHANGED <<spc, cur, remote, ok, trouble, files>> /\ ToClient' = ToClient /\ cpc = "poll"
  BY FvLargePoll DEF LargePoll, ClientIdle, service, history
<1>2. PICK f \in Files : /\ f = Head(files) /\ Kind[f] = "large" /\ left <= Chunks[f] /\ ToClient = <<>>
                         /\ InFile(f, 1 + Chunks[f] - left) \/ Lost(0)
  BY <1>1 DEF FsTalk
<1>3. cpc' = "large" /\ left' = left /\ ToService' = ToService
  BY <1>2, FvLargePoll DEF Open
<1>4. InFile(f, 1 + Chunks[f] - left) => InFile(f, 1 + Chunks[f] - left)'
  BY <1>1, <1>3 DEF InFile
<1>5. Lost(0) => Lost(0)'
  <2> SUFFICES ASSUME Lost(0) PROVE Lost(0)'
    OBVIOUS
  <2>1. trouble' /\ ~ok'
    BY <1>1 DEF Lost
  <2> QED BY <1>0, <1>1, <1>3, <2>1, FsLostSame
<1> QED BY <1>1, <1>2, <1>3, <1>4, <1>5 DEF FsTalk

LEMMA FsTalkCopyOkay == ASSUME FsInv, FsTalk, Pushes, Open, Open', CopyOkay PROVE FsTalk'
<1>1. ToClient # <<>> /\ ToClient' = Tail(ToClient) /\ ToService' = ToService /\ spc' = spc /\ cpc' = "send" /\ cpc = "copydone"
  BY FvCopyOkay DEF CopyOkay, ClientIdle, service
<1>2. Between /\ Len(ToClient) = 1
  BY <1>1 DEF FsTalk
<1>3. ToClient' = <<>>
  BY <1>1, <1>2, FsViews, FsOne1
<1> QED BY <1>1, <1>2, <1>3 DEF FsTalk, Between

LEMMA FsTalkCopyFails == ASSUME FsInv, FsGone, FsTalk, Pushes, Open, Open', CopyFails PROVE FALSE
<1>1. (ToClient # <<>> /\ ToClient[1].id # "OKAY") \/ eof["client"]
  BY FvCopyFails
<1>2. cpc = "copydone"
  BY DEF CopyFails, ClientIdle
<1>3. ToClient # <<>> => ToClient[1].id = "OKAY"
  BY <1>2 DEF FsTalk
<1> QED BY <1>1, <1>3 DEF Open

LEMMA FsTalkSourceDone == ASSUME FsInv, FsPlaces, FsTalk, Pushes, Open, Open', SourceDone PROVE FsTalk'
<1>0. Client
  BY DEF Client
<1>1. ToClient' = ToClient /\ ToService' = ToService /\ UNCHANGED <<spc, ok, trouble>> /\ cpc' = "next"
  BY FvSourceDone DEF SourceDone, service, history
<1>2. cpc \in {"send", "recv"}
  BY DEF SourceDone, ClientIdle
<1>3. CASE cpc = "send"
  <2>1. ToClient = <<>> /\ (Between \/ Lost(1))
    BY <1>3 DEF FsTalk
  <2>2. CASE Between
    BY <1>1, <2>1, <2>2 DEF FsTalk, Between
  <2>3. CASE Lost(1)
    <3>1. trouble' /\ ~ok'
      BY <1>1, <2>3 DEF Lost
    <3> QED BY <1>0, <1>1, <2>1, <2>3, <3>1, FsLostSame DEF FsTalk
  <2> QED BY <2>1, <2>2, <2>3
<1>4. cpc # "recv"
  BY DEF FsPlaces
<1> QED BY <1>2, <1>3, <1>4

LEMMA FsTalkQuit == ASSUME FsInv, FsTalk, Pushes, Open, Open', Quit PROVE FsTalk'
<1>0. Client
  BY DEF Client
<1>1. UNCHANGED <<spc, ok, trouble>> /\ ToClient' = ToClient /\ cpc \in {"quit", "next"} /\ cpc' = "shutdown"
  BY FvQuit DEF Quit, ClientIdle, service, history
<1>2. ToClient = <<>> /\ (Between \/ Lost(1))
  BY <1>1 DEF FsTalk
<1>3. PICK m : m = Msg("QUIT", Dst)
  OBVIOUS
<1>4. m \in FsMessages(cmd) /\ m.id = "QUIT" /\ ToService' = Wrote(<<m>>)
  BY <1>3, FvQuit, FsMsg
<1>5. <<m>> \in Seq(FsMessages(cmd)) /\ "QUIT" \in Request /\ <<m>> # <<>> /\ <<m>>[1] = m
  BY <1>4, FsOne DEF Request
<1>6. CASE Between
  <2>1. ToService' = <<m>>
    BY <1>4, <1>5, <1>6, FsWrote DEF Between, Open
  <2>2. Len(ToService') = 1 /\ ToService'[1].id = "QUIT"
    BY <1>4, <2>1
  <2> QED BY <1>1, <1>2, <1>6, <2>2 DEF FsTalk, Quitting, Between
<1>7. CASE Lost(1)
  <2>1. trouble' /\ ~ok'
    BY <1>1, <1>7 DEF Lost
  <2>2. Lost(0)'
    BY <1>0, <1>1, <1>4, <1>5, <1>7, <2>1, FsLostMore DEF Open
  <2> QED BY <1>1, <1>2, <2>2 DEF FsTalk
<1> QED BY <1>2, <1>6, <1>7

\* The steps of a client that pushes
LEMMA FsPushClient ==
  ASSUME FsInv, FsPlaces, Pushes, Client
  PROVE  \/ Start \/ DstStat \/ StatFault \/ NextSource \/ LstatReply
         \/ SendFile \/ LocalReadFails \/ LargeChunk \/ LargePoll \/ CopyOkay \/ CopyFails
         \/ SourceDone \/ Quit \/ Shutdown \/ ClientWriteFails
         \/ Transmit("client") \/ Swallow("client")
<1>1. cpc \notin {"srcstat", "ls", "links", "lnstat", "recv", "creat", "recvdata"}
  BY DEF FsPlaces
<1>2. ~(SrcStat \/ Dent \/ ListDone \/ ListFails \/ StatLink \/ LinkStat \/ RecvFile \/ Creat \/ RecvData \/ RecvFails \/ RecvDone)
  BY <1>1 DEF SrcStat, Dent, ListDone, ListFails, StatLink, LinkStat, RecvFile, Creat, RecvData, RecvFails, RecvDone, ClientIdle
<1> QED BY <1>2 DEF Client

LEMMA FsTalkSame ==
  ASSUME FsTalk, ToService' = ToService, ToClient' = ToClient, UNCHANGED <<command, client, service, eof, trouble, reported>>
  PROVE  FsTalk'
<1>1. UNCHANGED <<cmd, cpc, files, asked, left, ok, spc, cur, remote>>
  BY DEF command, client, service
<1>2. (Pushes' <=> Pushes) /\ (Open' <=> Open) /\ (Between' <=> Between) /\ (AskedStat' <=> AskedStat) /\ (AskedAll' <=> AskedAll)
  BY <1>1 DEF Pushes, Open, Running, Failing, Between, AskedStat, AskedAll, Ids
<1>3. (Quitting' <=> Quitting)
  BY <1>1 DEF Quitting
<1>4. (Lost(0)' <=> Lost(0)) /\ (Lost(1)' <=> Lost(1))
  BY <1>1 DEF Lost, Doomed, Turn
<1>5. \A f, n : InFile(f, n)' <=> InFile(f, n)
  BY <1>1 DEF InFile
<1>6. \A f : InFile(f, 1 + Chunks[f] - left)' <=> InFile(f, 1 + Chunks[f] - left)
  BY <1>1, <1>5 DEF InFile
<1> QED BY <1>1, <1>2, <1>3, <1>4, <1>5, <1>6 DEF FsTalk

LEMMA FsTalkClient == ASSUME FsInv, FsGone, FsPlaces, FsTalk, Client PROVE FsTalk'
<1> SUFFICES ASSUME Pushes', Open' PROVE FsTalk'
  BY DEF FsTalk
<1>1. Open /\ UNCHANGED <<command, service>> /\ UNCHANGED eof /\ Pushes
  BY FsOpenClient DEF Pushes, command
<1>2. ~StatFault /\ ~Shutdown
  BY DEF Shutdown, StatFault, ClientEnds, Open, Running
<1>3. ~ClientWriteFails /\ ~Swallow("client")
  BY <1>1 DEF ClientWriteFails, Swallow, Open
<1>4. CASE Transmit("client")
  <2>1. ToService' = ToService /\ ToClient' = ToClient
    BY <1>4, FsSides, FsTransmitted
  <2> QED BY <1>4, <2>1, FsTalkSame DEF Transmit, history
<1> QED BY <1>1, <1>2, <1>3, <1>4, FsPushClient, FsTalkStart, FsTalkDstStat, FsTalkNext, FsTalkLstatReply, FsTalkSendFile,
       FsTalkReadFails, FsTalkLargeChunk, FsTalkLargePoll, FsTalkCopyOkay, FsTalkCopyFails, FsTalkSourceDone, FsTalkQuit

LEMMA FsTalkStep == ASSUME FsInv, FsGone, FsPlaces, FsAsks, FsTalk, [FileSyncNext]_fileSyncVars PROVE FsTalk'
<1>1. CASE Kill
  BY <1>1 DEF Kill, FsTalk, Open, Running
<1>2. CASE Break
  <2>1. eof'["client"]
    BY <1>2, FsSides DEF Break
  <2> QED BY <2>1 DEF FsTalk, Open
<1>3. CASE UNCHANGED fileSyncVars
  <2>1. ToService' = ToService /\ ToClient' = ToClient
    BY <1>3, FsStill DEF fileSyncVars
  <2> QED BY <1>3, <2>1, FsTalkSame DEF fileSyncVars, history
<1> QED BY <1>1, <1>2, <1>3, FsTalkClient, FsTalkService DEF FileSyncNext, DrainSpins, Finished

-----------------------------------------------------------------------------
(* What the service is fed, until it fails *)

Feed(pc, c, rm, s) == Calm(pc, s) \/ (\E f \in Files : Fed(f, pc, c, rm[f], s)) \/ Doomed(1, pc, s)

FsFeed == Pushes /\ ~Failing => Feed(spc, cur, remote, ToService)

LEMMA FeedTalk ==
  ASSUME NEW pc, NEW c, NEW rm, NEW s, Len(s) \in Nat,
         \/ pc = "idle" /\ Ids(s, {"STAT", "LSTAT", "QUIT"})
         \/ \E f \in Files : Fed(f, pc, c, rm[f], s)
         \/ \E e \in {0, 1} : Doomed(e, pc, s)
  PROVE  Feed(pc, c, rm, s)
<1>1. CASE pc = "idle" /\ Ids(s, {"STAT", "LSTAT", "QUIT"})
  BY <1>1 DEF Feed, Calm, Ids
<1>2. CASE \E e \in {0, 1} : Doomed(e, pc, s)
  BY <1>2, DoomedWeaker DEF Feed
<1> QED BY <1>1, <1>2 DEF Feed

LEMMA FsFeedTalk == FsInv /\ FsPlaces /\ FsTalk /\ Pushes /\ Open => Feed(spc, cur, remote, ToService)
<1> SUFFICES ASSUME FsInv, FsPlaces, FsTalk, Pushes, Open PROVE Feed(spc, cur, remote, ToService)
  OBVIOUS
<1>1. Len(ToService) \in Nat
  BY FsViews
<1>2. CASE Lost(0) \/ Lost(1)
  BY <1>1, <1>2, FeedTalk DEF Lost
<1>3. CASE \E f \in Files : \E n : InFile(f, n)
  BY <1>1, <1>3, FeedTalk DEF InFile, Sends
<1>4. CASE Between
  <2>1. spc = "idle" /\ Ids(ToService, {"STAT", "LSTAT", "QUIT"})
    BY <1>4 DEF Between, Ids
  <2> QED BY <1>1, <2>1, FeedTalk
<1>5. CASE AskedStat \/ AskedAll \/ Quitting
  <2>1. spc = "idle" /\ Ids(ToService, {"STAT", "LSTAT", "QUIT"})
    BY <1>5 DEF AskedStat, AskedAll, Quitting, Ids
  <2> QED BY <1>1, <2>1, FeedTalk
<1>6. cpc \in {"start", "dst", "next", "lstats", "send", "large", "poll", "copydone", "quit", "shutdown"}
  BY DEF FsPlaces, Open, Running
<1>7. Lost(0) \/ Lost(1) \/ (\E f \in Files : \E n : InFile(f, n)) \/ Between \/ AskedStat \/ AskedAll \/ Quitting
  BY <1>6 DEF FsTalk
<1> QED BY <1>2, <1>3, <1>4, <1>5, <1>7

LEMMA FsFeedInit == FileSyncInit => FsFeed
<1> SUFFICES ASSUME FileSyncInit PROVE FsFeed
  OBVIOUS
<1>1. net["service"] = <<>> /\ out["client"] = <<>> /\ spc = "idle"
  BY FsSides DEF FileSyncInit
<1>2. ToService = <<>>
  BY <1>1 DEF ToService
<1> QED BY <1>1, <1>2 DEF FsFeed, Feed, Calm

\* A client that pushes writes only while the conversation goes on.
LEMMA FsSilent ==
  ASSUME FsInv, FsGone, FsPlaces, Pushes, Client, ~Failing
  PROVE  ToService' = ToService \/ Open'
<1> SUFFICES ASSUME ~Open' PROVE ToService' = ToService
  OBVIOUS
<1>1. CASE StatFault \/ Shutdown \/ ClientWriteFails
  BY <1>1, FvStatFault, FvShutdown, FvClientWriteFails
<1>2. CASE Transmit("client") \/ Swallow("client")
  BY <1>2, FsSides, FsTransmitted, FsSwallowed
<1>3. CASE DstStat \/ LstatReply \/ LocalReadFails \/ CopyOkay \/ CopyFails \/ SourceDone
  BY <1>3, FvDstStat, FvLstatReply, FvLocalReadFails, FvCopyOkay, FvCopyFails, FvSourceDone
<1>4. CASE Start \/ NextSource \/ SendFile \/ LargeChunk \/ LargePoll \/ Quit
  <2>1. cpc' \in {"dst", "lstats", "send", "next", "large", "copydone", "poll", "shutdown"} /\ UNCHANGED <<spc, eof>>
    BY <1>4 DEF Start, NextSource, SendFile, LargeChunk, LargePoll, Quit, service, ClientIdle, Pushes
  <2>2. eof["client"]
    BY <2>1 DEF Open, Running, Failing
  <2>3. ToService' = ToService \/ \E m : ToService' = Wrote(m)
    BY <1>4, FvStart, FvNextPush, FvSendFile, FvLargeChunk, FvLargePoll, FvQuit DEF Pushes
  <2> QED BY <2>2, <2>3 DEF Wrote
<1> QED BY <1>1, <1>2, <1>3, <1>4, FsPushClient

LEMMA FeedShorter ==
  ASSUME NEW c, NEW pc, NEW g, NEW rm, NEW s \in Seq(FsMessages(c)), NEW q \in Seq(FsMessages(c)), Shorter(q, s),
         Feed(pc, g, rm, s)
  PROVE  Feed(pc, g, rm, q)
<1>1. Len(q) \in Nat /\ Len(s) \in Nat
  OBVIOUS
<1>2. CASE pc = "idle" /\ q = <<>>
  BY <1>2 DEF Feed, Calm
<1>3. CASE Calm(pc, s)
  <2>1. \A n \in 1..Len(q) : q[n].id = s[n].id /\ n \in 1..Len(s)
    BY <1>1 DEF Shorter
  <2> QED BY <1>3, <2>1 DEF Feed, Calm
<1>4. CASE (\E f \in Files : Fed(f, pc, g, rm[f], s)) /\ ~(pc = "idle" /\ q = <<>>)
  <2>1. PICK f \in Files : Fed(f, pc, g, rm[f], s)
    BY <1>4
  <2>2. Taken(pc, rm[f]) \in Nat
    BY <2>1, FedTaken
  <2>3. Fed(f, pc, g, rm[f], q)
    BY <1>4, <2>1, <2>2, FedShorter
  <2> QED BY <2>3 DEF Feed
<1>5. CASE Doomed(1, pc, s) /\ ~(pc = "idle" /\ q = <<>>)
  BY <1>5, DoomedShorter DEF Feed
<1> QED BY <1>2, <1>3, <1>4, <1>5 DEF Feed

LEMMA FsFeedService == ASSUME FsInv, FsGone, FsAsks, FsFeed, Service PROVE FsFeed'
<1> SUFFICES ASSUME Pushes', ~Failing' PROVE Feed(spc', cur', remote', ToService')
  BY DEF FsFeed, Feed, Calm, Fed, Doomed
<1>1. Pushes
  BY FsServiceFrame DEF Pushes, command
<1>2. ~Failing
  <2>1. ~Abort /\ ~Close
    BY DEF Abort, Close, CloseStream, Failing
  <2> QED BY <2>1 DEF Failing, Service, ServeStat, ServeList, ListEntry, ServeSend, FileData, FileDone, FileInvalid, Drain,
         LinkData, LinkDone, LinkFails, ServeRecv, SendChunk, ServeQuit, BadRequest, ServiceWriteFails,
         Transmit, Swallow, service, Receives, ServiceIdle
<1>3. Feed(spc, cur, remote, ToService)
  BY <1>1, <1>2 DEF FsFeed
<1>4. CASE Doomed(1, spc, ToService)
  BY <1>1, <1>4, ServesDoomed DEF Feed
<1>5. CASE \E f \in Files : Fed(f, spc, cur, remote[f], ToService)
  <2>1. PICK f \in Files : Fed(f, spc, cur, remote[f], ToService)
    BY <1>5
  <2>2. PICK n : n = Taken(spc, remote[f]) + Len(ToService)
    OBVIOUS
  <2>3. Sends(f, n, spc, cur, remote[f], ToService)
    BY <2>1, <2>2 DEF Sends
  <2>4. CASE Sends(f, n, spc', cur', remote'[f], ToService')
    BY <2>4 DEF Sends, Feed
  <2>5. CASE spc' = "idle" /\ ToService' = <<>>
    BY <2>5 DEF Feed, Calm
  <2> QED BY <1>1, <2>3, <2>4, <2>5, ServesFed
<1>6. CASE Calm(spc, ToService)
  <2>1. CASE ToService = <<>>
    <3>1. spc' = "idle" /\ ToService' = <<>>
      BY <1>1, <1>6, <2>1, ServesRest DEF Calm
    <3> QED BY <3>1 DEF Feed, Calm
  <2>2. CASE ToService # <<>>
    <3>1. ToService \in Seq(FsMessages(cmd))
      BY FsViews
    <3>2. /\ Len(Tail(ToService)) = Len(ToService) - 1 /\ Len(ToService) \in Nat /\ Len(ToService) >= 1
          /\ \A n \in 1..Len(ToService) - 1 : Tail(ToService)[n] = ToService[n + 1] /\ n + 1 \in 1..Len(ToService)
      BY <2>2, <3>1, FsTail
    <3>3. ToService[1].id # "SEND" /\ spc = "idle"
      BY <1>6, <3>2 DEF Calm
    <3>4. UNCHANGED service /\ (ToService' = ToService \/ ToService' = Tail(ToService))
      BY <1>1, <2>2, <3>3, ServesRequest
    <3>5. \A n \in 1..Len(Tail(ToService)) : Tail(ToService)[n].id \notin {"SEND", "DATA", "DONE"}
      BY <1>6, <3>2 DEF Calm
    <3>6. Calm(spc', ToService')
      BY <1>6, <3>3, <3>4, <3>5 DEF Calm, service
    <3> QED BY <3>6 DEF Feed
  <2> QED BY <2>1, <2>2
<1> QED BY <1>3, <1>4, <1>5, <1>6 DEF Feed

LEMMA FsSeqs == FsInv => ToService \in Seq(FsMessages(cmd))
BY FsViews

LEMMA FsFeedStep ==
  ASSUME FsInv, FsGone, FsPlaces, FsAsks, FsTalk, FsFeed, FsInv', FsPlaces', FsTalk', [FileSyncNext]_fileSyncVars
  PROVE  FsFeed'
<1>0. (FsInv /\ FsPlaces /\ FsTalk /\ Pushes /\ Open => Feed(spc, cur, remote, ToService))'
  BY FsFeedTalk, PTL
<1>1. CASE Client
  <2> SUFFICES ASSUME Pushes', ~Failing' PROVE Feed(spc', cur', remote', ToService')
    BY DEF FsFeed, Feed, Calm, Fed, Doomed
  <2>1. Pushes /\ ~Failing /\ UNCHANGED <<spc, cur, remote>>
    BY <1>1, FsClientFrame DEF Pushes, Failing, command, service
  <2>2. CASE Open'
    BY <1>0, <2>2 DEF Feed, Calm, Fed, Doomed
  <2>3. CASE ToService' = ToService
    BY <2>1, <2>3 DEF FsFeed
  <2> QED BY <1>1, <2>1, <2>2, <2>3, FsSilent
<1>2. CASE Kill \/ Break
  <2> SUFFICES ASSUME Pushes', ~Failing' PROVE Feed(spc', cur', remote', ToService')
    BY DEF FsFeed, Feed, Calm, Fed, Doomed
  <2>1. UNCHANGED <<command, service>>
    BY <1>2 DEF Kill, Break
  <2>2. Pushes /\ ~Failing /\ UNCHANGED <<cmd, spc, cur, remote>>
    BY <2>1 DEF Pushes, Failing, command, service
  <2>3. Shorter(ToService', ToService)
    BY <1>2, FsKilled, FsBroken
  <2>4. ToService \in Seq(FsMessages(cmd))
    BY FsViews
  <2>5. (ToService \in Seq(FsMessages(cmd)))'
    BY FsSeqs, PTL
  <2> QED BY <2>2, <2>3, <2>4, <2>5, FeedShorter DEF FsFeed
<1>3. CASE UNCHANGED fileSyncVars
  <2>1. ToService' = ToService /\ UNCHANGED <<cmd, spc, cur, remote>>
    BY <1>3, FsStill DEF fileSyncVars, command, service
  <2> QED BY <2>1 DEF FsFeed, Pushes, Failing, Feed, Calm, Fed, Doomed
<1> QED BY <1>1, <1>2, <1>3, FsFeedService DEF FileSyncNext, DrainSpins, Finished

-----------------------------------------------------------------------------
(* Files on the device *)

\* A file is in part there only while the service writes it, or has yet to
\* remove it, or could not remove it.
FsPartial ==
  \A f \in Files \ stuck :
                   \/ remote[f] \in {Absent, Complete(f)}
                   \/ f = cur /\ spc \in {"file", "drain", "abort"}

LEMMA FsPartialInit == FileSyncInit => FsPartial
BY DEF FileSyncInit, FsPartial

\* A file that is done is complete.
LEMMA FsDoneComplete ==
  ASSUME FsInv, FsAsks, FsFeed, FileDone
  PROVE  cur \in Files /\ remote[cur] = Complete(cur)
<1>1. spc = "file" /\ cur \in Files /\ ToService # <<>> /\ ToService[1].id = "DONE"
  BY FvFileDone
<1>2. Pushes /\ ~Failing
  BY <1>1 DEF FsAsks, Failing
<1>3. ToService \in Seq(FsMessages(cmd))
  BY FsViews
<1>4. ~Doomed(1, spc, ToService)
  <2>1. "DONE" \notin Request \cup {"DATA"}
    BY DEF Request
  <2> QED BY <1>1, <1>3, <2>1, DoomedData
<1>5. ~Calm(spc, ToService)
  BY <1>1 DEF Calm
<1>6. PICK f \in Files : Fed(f, "file", cur, remote[f], ToService)
  BY <1>1, <1>2, <1>4, <1>5 DEF FsFeed, Feed
<1>7. cur = f
  BY <1>6 DEF Fed
<1> QED BY <1>1, <1>3, <1>6, <1>7, FedDone

LEMMA FsGrow == ASSUME [FileSyncNext]_fileSyncVars PROVE stuck \subseteq stuck' /\ unlisted \subseteq unlisted'
<1>1. ServeSend \/ Abort \/ RecvFails => stuck \subseteq stuck' /\ unlisted' = unlisted
  BY DEF ServeSend, UnlinkFirst, Abort, RecvFails
<1>2. NextSource \/ FileData => stuck' = stuck /\ unlisted \subseteq unlisted'
  BY DEF NextSource, FileData
<1>3. ServeStat \/ ServeList \/ ListEntry \/ FileDone \/ FileInvalid \/ Drain => UNCHANGED remains
  BY DEF ServeStat, ServeList, ListEntry, FileDone, FileInvalid, Drain
<1>4. Close \/ LinkData \/ LinkDone \/ LinkFails \/ ServeRecv \/ SendChunk \/ ServeQuit => UNCHANGED remains
  BY DEF Close, LinkData, LinkDone, LinkFails, ServeRecv, SendChunk, ServeQuit
<1>5. BadRequest \/ ServiceWriteFails \/ (\E x \in Side : Transmit(x) \/ Swallow(x)) => UNCHANGED remains
  BY DEF BadRequest, ServiceWriteFails, Transmit, Swallow
<1>6. Start \/ DstStat \/ StatFault \/ LstatReply \/ SendFile \/ LocalReadFails \/ LargeChunk \/ LargePoll => UNCHANGED remains
  BY DEF Start, DstStat, StatFault, LstatReply, SendFile, LocalReadFails, LargeChunk, LargePoll
<1>7. CopyOkay \/ CopyFails \/ SrcStat \/ Dent \/ ListDone \/ ListFails \/ StatLink \/ LinkStat => UNCHANGED remains
  BY DEF CopyOkay, CopyFails, SrcStat, Dent, ListDone, ListFails, StatLink, LinkStat
<1>8. RecvFile \/ Creat \/ RecvData \/ RecvDone \/ SourceDone \/ Quit \/ Shutdown \/ ClientWriteFails => UNCHANGED remains
  BY DEF RecvFile, Creat, RecvData, RecvDone, SourceDone, Quit, Shutdown, ClientWriteFails
<1>9. Kill \/ Break \/ UNCHANGED fileSyncVars => UNCHANGED remains
  BY DEF Kill, Break, fileSyncVars
<1>10. UNCHANGED remains => stuck' = stuck /\ unlisted' = unlisted
  BY DEF remains
<1> QED BY <1>1, <1>2, <1>3, <1>4, <1>5, <1>6, <1>7, <1>8, <1>9, <1>10, FsSides
       DEF FileSyncNext, Client, Service, DrainSpins, Finished

LEMMA FsPartialStep == ASSUME FsInv, FsGone, FsAsks, FsFeed, FsPartial, [FileSyncNext]_fileSyncVars PROVE FsPartial'
<1>0. remote \in [Files -> Seq(Files) \cup {Absent}]
  BY FsRemote
<1>00. stuck \subseteq stuck'
  BY FsGrow
<1>1. CASE UNCHANGED service
  BY <1>00, <1>1 DEF service, FsPartial
<1>2. CASE ServeSend
  <2>1. PICK g \in Files : /\ spc = "idle" /\ cur' = g
         /\ \E c \in {Absent, <<>>} : remote' = [remote EXCEPT ![g] = c]
         /\ \/ remote'[g] = Absent
            \/ spc' \in {"file", "drain"}
    BY <1>2, FvServeSend
  <2>2. \A f \in Files : f # g => remote'[f] = remote[f]
    BY <1>0, <2>1
  <2> QED BY <1>00, <2>1, <2>2 DEF FsPartial
<1>3. CASE FileData
  <2>1. /\ spc = "file" /\ cur' = cur /\ spc' \in {"file", "drain"} /\ cur \in Files
        /\ remote' = remote \/ remote' = [remote EXCEPT ![cur] = Append(remote[cur], ToService[1].f)]
    BY <1>3, FvFileData
  <2>2. \A f \in Files : f # cur => remote'[f] = remote[f]
    BY <1>0, <2>1
  <2> QED BY <1>00, <2>1, <2>2 DEF FsPartial
<1>4. CASE FileDone
  <2>1. cur' = cur /\ remote' = remote
    BY <1>4, FvFileDone
  <2>2. cur \in Files /\ remote[cur] = Complete(cur)
    BY <1>4, FsDoneComplete
  <2> QED BY <1>00, <2>1, <2>2 DEF FsPartial
<1>5. CASE FileInvalid \/ Drain
  <2>1. UNCHANGED <<cur, remote>> /\ spc' \in {"abort", "drain"}
    BY <1>5, FvFileInvalid, FvDrain
  <2> QED BY <1>00, <2>1 DEF FsPartial
<1>6. CASE Abort
  <2>1. \/ remote' = [remote EXCEPT ![cur] = Absent]
        \/ remote' = remote /\ stuck' = stuck \cup {cur}
    BY <1>6 DEF Abort, Unlinked
  <2>2. CASE remote' = [remote EXCEPT ![cur] = Absent]
    <3>1. \A f \in Files : remote'[f] = IF f = cur THEN Absent ELSE remote[f]
      BY <1>0, <2>2
    <3> QED BY <1>00, <3>1 DEF FsPartial
  <2>3. CASE remote' = remote /\ stuck' = stuck \cup {cur}
    BY <1>00, <2>3 DEF FsPartial
  <2> QED BY <2>1, <2>2, <2>3
<1>7. CASE LinkData
  <2>1. spc = "link" /\ cur' = cur /\ (remote' = remote \/ remote' = [remote EXCEPT ![cur] = Complete(cur)])
    BY <1>7, FvLinkData
  <2>2. \A f \in Files : remote'[f] = remote[f] \/ remote'[f] = Complete(f)
    BY <1>0, <2>1
  <2> QED BY <1>00, <2>1, <2>2 DEF FsPartial
<1>8. CASE ServiceWriteFails
  <2>1. spc # "file" /\ UNCHANGED <<cur, remote>> /\ spc' = IF spc \in {"drain", "abort"} THEN spc ELSE "closing"
    BY <1>8 DEF ServiceWriteFails, FsGone
  <2> QED BY <1>00, <2>1 DEF FsPartial
<1>9. CASE Close \/ LinkDone \/ LinkFails \/ ServeRecv \/ SendChunk \/ ServeQuit \/ BadRequest \/ ServeList \/ ListEntry
  <2>1. spc \notin {"file", "drain", "abort"} /\ remote' = remote
    BY <1>9 DEF Close, LinkDone, LinkFails, ServeRecv, SendChunk, ServeQuit, BadRequest, ServeList, ListEntry,
         ServiceIdle, Receives
  <2> QED BY <1>00, <2>1 DEF FsPartial
<1>10. CASE ServeStat \/ Transmit("service") \/ Swallow("service") \/ Kill \/ Break \/ Client \/ UNCHANGED fileSyncVars
  <2>1. UNCHANGED service
    BY <1>10, FsClientFrame DEF ServeStat, Transmit, Swallow, Kill, Break, fileSyncVars
  <2> QED BY <1>1, <2>1
<1> QED BY <1>2, <1>3, <1>4, <1>5, <1>6, <1>7, <1>8, <1>9, <1>10 DEF FileSyncNext, Service, DrainSpins, Finished

\* The conversation of client and service
FsPush == FsRemains /\ FsGone /\ FsPlaces /\ FsAsks /\ FsSources /\ FsTalk /\ FsFeed /\ FsPartial

LEMMA FsPushInv == FileSyncSpec => [](FsInv /\ FsPush)
<1>1. FileSyncInit => FsInv /\ FsPush
  BY FsInvInit, FsRemainsInit, FsGoneInit, FsPlacesInit, FsAsksInit, FsSourcesInit, FsTalkInit, FsFeedInit, FsPartialInit
     DEF FsPush
<1>2. FsInv /\ FsPush /\ [FileSyncNext]_fileSyncVars => (FsInv /\ FsPush)'
  <2> SUFFICES ASSUME FsInv, FsPush, [FileSyncNext]_fileSyncVars PROVE FsInv' /\ FsPush'
    OBVIOUS
  <2>1. FsInv' /\ FsRemains' /\ FsGone' /\ FsPlaces'
    BY FsInvStep, FsRemainsStep, FsGoneStep, FsPlacesStep DEF FsPush
  <2>2. FsAsks' /\ FsSources' /\ FsTalk'
    BY <2>1, FsAsksStep, FsSourcesStep, FsTalkStep DEF FsPush
  <2>3. FsFeed' /\ FsPartial'
    BY <2>1, <2>2, FsFeedStep, FsPartialStep DEF FsPush
  <2> QED BY <2>1, <2>2, <2>3 DEF FsPush
<1> QED BY <1>1, <1>2, PTL DEF FileSyncSpec

\* Whatever the client, the stream and the device do, no part of a file is left
\* on the device when the service waits for the next request or has closed the
\* stream, unless an adb_unlink failed for it: every way out of
\* handle_send_file and handle_send_link (file_sync_service.cpp) completes the
\* file or unlinks it, because what the service is fed is the beginning of one
\* file, or of none.
THEOREM DeviceFilesAreWhole == FileSyncSpec => []NoPartialPush
<1>1. FsPush => NoPartialPush
  BY DEF FsPush, FsPartial, NoPartialPush
<1> QED BY <1>1, FsPushInv, PTL

-----------------------------------------------------------------------------
(* Messages that arrive in part *)

Whole(s) == \A n \in 1..Len(s) : ~s[n].half

\* q is a beginning of s.
Begins(q, s) == Len(q) <= Len(s) /\ \A n \in 1..Len(q) : q[n] = s[n]

LEMMA WholeTail ==
  ASSUME NEW c, NEW s \in Seq(FsMessages(c)), s # <<>>, Whole(s)
  PROVE  Whole(Tail(s))
<1>1. /\ Len(Tail(s)) = Len(s) - 1
      /\ \A n \in 1..Len(s) - 1 : Tail(s)[n] = s[n + 1] /\ n + 1 \in 1..Len(s)
  BY FsTail
<1> QED BY <1>1 DEF Whole

LEMMA WholeBegins ==
  ASSUME NEW s, NEW q, Len(q) \in Nat, Len(s) \in Nat, Begins(q, s), Whole(s)
  PROVE  Whole(q)
<1>1. \A n \in 1..Len(q) : n \in 1..Len(s) /\ q[n] = s[n]
  BY DEF Begins
<1> QED BY <1>1 DEF Whole

LEMMA WholeJoin ==
  ASSUME NEW c, NEW s \in Seq(FsMessages(c)), NEW t \in Seq(FsMessages(c)), Whole(s), Whole(t)
  PROVE  Whole(s \o t)
<1>1. PICK q : q = s \o t
  OBVIOUS
<1>2. /\ Len(q) = Len(s) + Len(t) /\ Len(s) \in Nat /\ Len(t) \in Nat
      /\ \A n \in 1..Len(s) : q[n] = s[n]
      /\ \A n \in 1..Len(t) : q[Len(s) + n] = t[n]
  BY <1>1, FsJoin
<1>3. ASSUME NEW n \in 1..Len(q) PROVE ~q[n].half
  <2>1. CASE n <= Len(s)
    <3>1. n \in 1..Len(s)
      BY <1>2, <2>1
    <3> QED BY <1>2, <3>1 DEF Whole
  <2>2. CASE n > Len(s)
    <3>1. n - Len(s) \in 1..Len(t) /\ Len(s) + (n - Len(s)) = n
      BY <1>2, <2>2
    <3>2. q[n] = t[n - Len(s)]
      BY <1>2, <3>1
    <3> QED BY <3>1, <3>2 DEF Whole
  <2> QED BY <1>2, <2>1, <2>2
<1> QED BY <1>1, <1>3 DEF Whole

\* What a step of the client does to the two directions
LEMMA FsClientViews ==
  ASSUME FsInv, FsGone, Client
  PROVE  /\ \/ ToService' = ToService
            \/ \E msgs \in Seq(FsMessages(cmd)) : Whole(msgs) /\ ToService' = Wrote(msgs)
         /\ \/ ToClient # <<>> /\ ToClient' = Tail(ToClient)
            \/ Begins(ToClient', ToClient)
<1>1. Len(ToClient) \in Nat /\ Begins(ToClient, ToClient) /\ Begins(<<>>, ToClient)
  <2>1. Len(ToClient) \in Nat
    BY FsViews
  <2> QED BY <2>1 DEF Begins
<1>2. ASSUME NEW id, NEW f, Msg(id, f) \in FsMessages(cmd), ToService' = Wrote(<<Msg(id, f)>>)
      PROVE  \E msgs \in Seq(FsMessages(cmd)) : Whole(msgs) /\ ToService' = Wrote(msgs)
  <2>1. PICK m : m = Msg(id, f)
    OBVIOUS
  <2>2. m \in FsMessages(cmd) /\ ~m.half /\ ToService' = Wrote(<<m>>)
    BY <1>2, <2>1, FsMsg
  <2>3. <<m>> \in Seq(FsMessages(cmd)) /\ Whole(<<m>>)
    BY <2>2, FsOne DEF Whole
  <2> QED BY <2>2, <2>3
<1>3. CASE \/ DstStat \/ LstatReply \/ CopyOkay \/ CopyFails \/ Dent \/ ListDone
           \/ ListFails \/ LinkStat \/ RecvData \/ RecvFails \/ RecvDone
  <2>1. ToService' = ToService /\ ((ToClient # <<>> /\ ToClient' = Tail(ToClient)) \/ ToClient' = ToClient)
    BY <1>3, FvDstStat, FvLstatReply, FvCopyOkay, FvCopyFails, FvDent,
       FvListDone, FvListFails, FvLinkStat, FvRecvData, FvRecvFails, FvRecvDone
  <2> QED BY <1>1, <2>1
<1>4. CASE StatFault \/ Shutdown \/ ClientWriteFails \/ LocalReadFails \/ Creat \/ SourceDone \/ Transmit("client")
  <2>1. ToService' = ToService /\ (ToClient' = ToClient \/ ToClient' = <<>>)
    BY <1>4, FsSides, FvStatFault, FvShutdown, FvClientWriteFails, FvLocalReadFails, FvCreat, FvSourceDone, FsTransmitted
  <2> QED BY <1>1, <2>1
<1>5. CASE Swallow("client")
  <2>1. ToService' = ToService /\ Shorter(ToClient', ToClient) /\ \A n \in 1..Len(ToClient') : ToClient'[n] = ToClient[n]
    BY <1>5, FsSides, FsSwallowed
  <2> QED BY <2>1 DEF Begins, Shorter
<1>6. CASE Start \/ RecvFile \/ Quit
  <2>1. ToClient' = ToClient /\ \E id, f : Msg(id, f) \in FsMessages(cmd) /\ ToService' = Wrote(<<Msg(id, f)>>)
    BY <1>6, FvStart, FvRecvFile, FvQuit
  <2> QED BY <1>1, <1>2, <2>1
<1>7. CASE LargeChunk \/ LargePoll \/ StatLink
  <2>1. ToClient' = ToClient /\ (ToService' = ToService \/ \E id, f : Msg(id, f) \in FsMessages(cmd) /\ ToService' = Wrote(<<Msg(id, f)>>))
    BY <1>7, FvLargeChunk, FvLargePoll, FvStatLink
  <2> QED BY <1>1, <1>2, <2>1
<1>8. CASE SrcStat
  <2>1. /\ ToClient # <<>> /\ ToClient' = Tail(ToClient)
        /\ (ToService' = ToService \/ \E id, f : Msg(id, f) \in FsMessages(cmd) /\ ToService' = Wrote(<<Msg(id, f)>>))
    BY <1>8, FvSrcStat
  <2> QED BY <1>2, <2>1
<1>9. CASE SendFile
  <2>1. PICK f \in Files : f = Head(files)
    BY <1>9, FvSendFile
  <2>2. PICK m1, m2, m3 : m1 = Msg("SEND", f) /\ m2 = Msg("DATA", f) /\ m3 = Msg("DONE", f)
    OBVIOUS
  <2>3. m1 \in FsMessages(cmd) /\ m2 \in FsMessages(cmd) /\ m3 \in FsMessages(cmd) /\ ~m1.half /\ ~m2.half /\ ~m3.half
    BY <1>9, <2>1, <2>2, FvSendFile, FsMsg
  <2>4. <<m1>> \in Seq(FsMessages(cmd)) /\ Whole(<<m1>>)
    BY <2>3 DEF Whole
  <2>5. PICK q : q = <<m1, m2, m3>>
    OBVIOUS
  <2>6. q \in Seq(FsMessages(cmd)) /\ Len(q) = 3 /\ q[1] = m1 /\ q[2] = m2 /\ q[3] = m3
    BY <2>3, <2>5
  <2>7. Whole(q)
    BY <2>3, <2>6 DEF Whole
  <2>8. ToClient' = ToClient /\ (ToService' = Wrote(<<m1>>) \/ ToService' = Wrote(q))
    BY <1>9, <2>1, <2>2, <2>5, FvSendFile
  <2> QED BY <1>1, <2>4, <2>6, <2>7, <2>8
<1>10. CASE NextSource
  <2>1. CASE Pushes
    <3>1. /\ ToClient' = ToClient
          /\ \/ ToService' = ToService
             \/ asked' \in Seq(Files) /\ ToService' = Wrote(Lstats(asked'))
      BY <1>10, <2>1, FvNextPush DEF Pushes
    <3>2. ASSUME asked' \in Seq(Files), ToService' = Wrote(Lstats(asked'))
          PROVE  \E msgs \in Seq(FsMessages(cmd)) : Whole(msgs) /\ ToService' = Wrote(msgs)
      <4>1. PICK a \in Seq(Files) : a = asked'
        BY <3>2
      <4>2. Lstats(a) \in Seq(FsMessages(cmd)) /\ Len(Lstats(a)) = Len(a)
        BY FvLstats
      <4>3. \A n \in 1..Len(a) : Lstats(a)[n] = Msg("LSTAT", a[n])
        BY DEF Lstats
      <4>4. Whole(Lstats(a))
        BY <4>2, <4>3, FsMsg DEF Whole
      <4> QED BY <3>2, <4>1, <4>2, <4>4
    <3> QED BY <1>1, <3>1, <3>2
  <2>2. CASE ~Pushes
    <3>1. ToClient' = ToClient /\ \E id, f : Msg(id, f) \in FsMessages(cmd) /\ ToService' = Wrote(<<Msg(id, f)>>)
      BY <1>10, <2>2, FvNextPull DEF Pushes
    <3> QED BY <1>1, <1>2, <3>1
  <2> QED BY <2>1, <2>2
<1> QED BY <1>3, <1>4, <1>5, <1>6, <1>7, <1>8, <1>9, <1>10 DEF Client

\* ... and of the service
LEMMA FsServiceViews ==
  ASSUME FsInv, FsGone, Service
  PROVE  /\ \/ ToService' = ToService \/ ToService' = <<>>
            \/ ToService # <<>> /\ ToService' = Tail(ToService)
         /\ \/ Begins(ToClient', ToClient)
            \/ \E m \in FsMessages(cmd) : ~m.half /\ ToClient' = Said(m)
<1>1. Len(ToClient) \in Nat /\ Begins(ToClient, ToClient)
  <2>1. Len(ToClient) \in Nat
    BY FsViews
  <2> QED BY <2>1 DEF Begins
<1>2. ASSUME NEW id, NEW f, Msg(id, f) \in FsMessages(cmd), ToClient' = Said(Msg(id, f))
      PROVE  \E m \in FsMessages(cmd) : ~m.half /\ ToClient' = Said(m)
  BY <1>2, FsMsg
<1>3. CASE ServeStat
  BY <1>3, FvServeStat, FsAttr
<1>4. CASE ServeList \/ ServeSend \/ FileData \/ FileDone \/ LinkData \/ LinkDone \/ ServeRecv \/ ServeQuit \/ Drain
  <2>1. /\ ToService # <<>> /\ ToService' = Tail(ToService)
        /\ ToClient' = ToClient \/ \E id, f : Msg(id, f) \in FsMessages(cmd) /\ ToClient' = Said(Msg(id, f))
    <3>1. CASE ServeList \/ ServeSend \/ FileData
      BY <3>1, FvServeList, FvServeSend, FvFileData
    <3>2. CASE FileDone \/ LinkData \/ LinkDone
      BY <3>2, FvFileDone, FvLinkData, FvLinkDone
    <3>3. CASE ServeRecv \/ ServeQuit \/ Drain
      BY <3>3, FvServeRecv, FvServeQuit, FvDrain
    <3> QED BY <1>4, <3>1, <3>2, <3>3
  <2> QED BY <1>1, <1>2, <2>1
<1>5. CASE FileInvalid \/ LinkFails \/ BadRequest
  <2>1. /\ ToService' = <<>> \/ (ToService # <<>> /\ ToService' = Tail(ToService))
        /\ ToClient' = ToClient \/ \E id, f : Msg(id, f) \in FsMessages(cmd) /\ ToClient' = Said(Msg(id, f))
    BY <1>5, FvFileInvalid, FvLinkFails, FvBadRequest
  <2> QED BY <1>1, <1>2, <2>1
<1>6. CASE ListEntry \/ SendChunk
  <2>1. /\ ToService' = ToService
        /\ ToClient' = ToClient \/ \E id, f : Msg(id, f) \in FsMessages(cmd) /\ ToClient' = Said(Msg(id, f))
    BY <1>6, FvListEntry, FvSendChunk
  <2> QED BY <1>1, <1>2, <2>1
<1>7. CASE Abort \/ Close
  BY <1>7, FvCloses DEF Begins, Shorter
<1>8. CASE ServiceWriteFails \/ Transmit("service") \/ Swallow("service")
  <2>1. ToService' = ToService /\ ToClient' = ToClient
    BY <1>8, FsSides, FvServiceWriteFails, FsTransmitted, FsSwallowed
  <2> QED BY <1>1, <2>1
<1> QED BY <1>3, <1>4, <1>5, <1>6, <1>7, <1>8 DEF Service

\* Only a stream that broke, or a client that was killed, leaves a message
\* without its end.
FsHalf ==
  /\ ~cut => Whole(ToClient)
  /\ ~cut /\ cpc # "killed" => Whole(ToService)

LEMMA FsHalfInit == FileSyncInit => FsHalf
<1> SUFFICES ASSUME FileSyncInit PROVE FsHalf
  OBVIOUS
<1>1. net["service"] = <<>> /\ net["client"] = <<>> /\ out["service"] = <<>> /\ out["client"] = <<>>
  BY FsSides DEF FileSyncInit
<1>2. ToService = <<>> /\ ToClient = <<>>
  BY <1>1 DEF ToService, ToClient
<1> QED BY <1>2 DEF FsHalf, Whole

LEMMA FsLens == FsInv => Len(ToService) \in Nat /\ Len(ToClient) \in Nat
BY FsViews

LEMMA FsHalfStep == ASSUME FsInv, FsInv', FsGone, FsHalf, [FileSyncNext]_fileSyncVars PROVE FsHalf'
<1>1. ToService \in Seq(FsMessages(cmd)) /\ ToClient \in Seq(FsMessages(cmd)) /\ Whole(<<>>)
  BY FsViews DEF Whole
<1>2. (Len(ToService) \in Nat /\ Len(ToClient) \in Nat)'
  BY FsLens, PTL
<1>3. CASE Client
  <2> SUFFICES ASSUME ~cut' PROVE Whole(ToClient') /\ (cpc' # "killed" => Whole(ToService'))
    BY DEF FsHalf, Whole
  <2>1. ~cut
    BY <1>3, FsClientFrame
  <2>2. Whole(ToClient')
    <3>0. Whole(ToClient) /\ Len(ToClient) \in Nat
      BY <1>1, <2>1 DEF FsHalf
    <3>1. CASE ToClient # <<>> /\ ToClient' = Tail(ToClient)
      <4>1. Whole(Tail(ToClient))
        BY <1>1, <3>0, <3>1, WholeTail
      <4> QED BY <3>1, <4>1
    <3>2. CASE Begins(ToClient', ToClient)
      BY <1>2, <3>0, <3>2, WholeBegins
    <3> QED BY <1>3, <3>1, <3>2, FsClientViews
  <2>3. ASSUME cpc # "killed" PROVE Whole(ToService')
    <3>1. Whole(ToService)
      BY <2>1, <2>3 DEF FsHalf
    <3>2. ASSUME NEW msgs \in Seq(FsMessages(cmd)), Whole(msgs) PROVE Whole(Wrote(msgs))
      BY <1>1, <3>1, <3>2, WholeJoin DEF Wrote
    <3> QED BY <1>3, <3>1, <3>2, FsClientViews
  <2>4. cpc # "killed"
    BY <1>3 DEF Client, Start, DstStat, StatFault, NextSource, LstatReply, SendFile, LocalReadFails, LargeChunk,
         LargePoll, CopyOkay, CopyFails, SrcStat, Dent, ListDone, ListFails, StatLink, LinkStat, RecvFile, Creat,
         RecvData, RecvFails, RecvDone, SourceDone, Quit, Shutdown, ClientWriteFails, Transmit, Swallow, ClientIdle,
         FsGone, Running
  <2> QED BY <2>2, <2>3, <2>4
<1>4. CASE Service
  <2> SUFFICES ASSUME ~cut' PROVE Whole(ToClient') /\ (cpc' # "killed" => Whole(ToService'))
    BY DEF FsHalf, Whole
  <2>1. ~cut /\ cpc' = cpc
    BY <1>4, FsServiceFrame DEF client
  <2>2. Whole(ToClient')
    <3>1. ASSUME NEW m \in FsMessages(cmd), ~m.half PROVE Whole(Said(m))
      <4>1. Whole(<<m>>) /\ <<m>> \in Seq(FsMessages(cmd))
        BY <3>1, FsOne DEF Whole
      <4>2. Append(ToClient, m) = ToClient \o <<m>>
        BY <1>1
      <4> QED BY <1>1, <2>1, <4>1, <4>2, WholeJoin DEF Said, FsHalf
    <3> QED BY <1>1, <1>2, <1>4, <2>1, <3>1, FsServiceViews, WholeBegins DEF FsHalf
  <2>3. cpc # "killed" => Whole(ToService')
    BY <1>1, <1>4, <2>1, FsServiceViews, WholeTail DEF FsHalf
  <2> QED BY <2>1, <2>2, <2>3
<1>5. CASE Break
  BY <1>5 DEF Break, FsHalf
<1>6. CASE Kill
  <2>1. cpc' = "killed" /\ ToClient' = <<>>
    BY <1>6, FsKilled DEF Kill
  <2> QED BY <2>1 DEF FsHalf, Whole
<1>7. CASE UNCHANGED fileSyncVars
  <2>1. ToService' = ToService /\ ToClient' = ToClient /\ UNCHANGED <<cut, cpc>>
    BY <1>7, FsStill DEF fileSyncVars, client
  <2> QED BY <2>1 DEF FsHalf, Whole
<1> QED BY <1>3, <1>4, <1>5, <1>6, <1>7 DEF FileSyncNext, DrainSpins, Finished

-----------------------------------------------------------------------------
(* Files the device may still touch *)

\* The service is in the middle of f, or will be asked to receive it.
Busy(f, pc, c, s) ==
  \/ pc \in {"file", "link", "linkdone", "drain", "abort"} /\ c = f
  \/ \E n \in 1..Len(s) : s[n].id = "SEND" /\ s[n].f = f

OnFile(f) == cpc \in {"large", "poll", "copydone"} /\ f = Head(files)

\* A file other than the one the client is at only if that failed, and the
\* client knows why.
FsBusy ==
  /\ cpc \in {"start", "dst"} => ok
  /\ Pushes => \A f \in Files : Busy(f, spc, cur, ToService) =>
                 OnFile(f) \/ (~ok /\ (cut \/ cpc = "killed" \/ f \in reported))

\* How a step changes what the device may touch
LEMMA BusyTail ==
  ASSUME NEW c, NEW s \in Seq(FsMessages(c)), s # <<>>, NEW f, \E n \in 1..Len(Tail(s)) : Tail(s)[n].id = "SEND" /\ Tail(s)[n].f = f
  PROVE  \E n \in 1..Len(s) : s[n].id = "SEND" /\ s[n].f = f
<1>1. /\ Len(Tail(s)) = Len(s) - 1
      /\ \A n \in 1..Len(s) - 1 : Tail(s)[n] = s[n + 1] /\ n + 1 \in 1..Len(s)
  BY FsTail
<1> QED BY <1>1

LEMMA BusyShorter ==
  ASSUME NEW s, NEW q, Len(s) \in Nat, Len(q) \in Nat, Shorter(q, s), NEW f, NEW pc, NEW c, Busy(f, pc, c, q)
  PROVE  Busy(f, pc, c, s)
<1>1. \A n \in 1..Len(q) : n \in 1..Len(s) /\ q[n].id = s[n].id /\ q[n].f = s[n].f
  BY DEF Shorter
<1> QED BY <1>1 DEF Busy

LEMMA BusyJoin ==
  ASSUME NEW c, NEW s \in Seq(FsMessages(c)), NEW t \in Seq(FsMessages(c)), NEW f, NEW pc, NEW g,
         Busy(f, pc, g, s \o t)
  PROVE  Busy(f, pc, g, s) \/ \E n \in 1..Len(t) : t[n].id = "SEND" /\ t[n].f = f
<1>1. PICK q : q = s \o t
  OBVIOUS
<1>2. /\ Len(q) = Len(s) + Len(t) /\ Len(s) \in Nat /\ Len(t) \in Nat
      /\ \A n \in 1..Len(s) : q[n] = s[n]
      /\ \A n \in 1..Len(t) : q[Len(s) + n] = t[n]
  BY <1>1, FsJoin
<1>3. CASE pc \in {"file", "link", "linkdone", "drain", "abort"} /\ g = f
  BY <1>3 DEF Busy
<1>4. CASE \E n \in 1..Len(q) : q[n].id = "SEND" /\ q[n].f = f
  <2>1. PICK n \in 1..Len(q) : q[n].id = "SEND" /\ q[n].f = f
    BY <1>4
  <2>2. CASE n <= Len(s)
    <3>1. n \in 1..Len(s)
      BY <1>2, <2>2
    <3> QED BY <1>2, <2>1, <3>1 DEF Busy
  <2>3. CASE n > Len(s)
    <3>1. n - Len(s) \in 1..Len(t) /\ Len(s) + (n - Len(s)) = n
      BY <1>2, <2>3
    <3>2. q[n] = t[n - Len(s)]
      BY <1>2, <3>1
    <3> QED BY <2>1, <3>1, <3>2
  <2> QED BY <1>2, <2>2, <2>3
<1> QED BY <1>1, <1>3, <1>4 DEF Busy

\* The service touches nothing new.
LEMMA BusyService ==
  ASSUME FsInv, FsGone, Service, NEW f, Busy(f, spc', cur', ToService')
  PROVE  Busy(f, spc, cur, ToService)
<1>1. ToService \in Seq(FsMessages(cmd))
  BY FsViews
<1>2. ASSUME \E n \in 1..Len(ToService') : ToService'[n].id = "SEND" /\ ToService'[n].f = f
      PROVE  Busy(f, spc, cur, ToService)
  BY <1>1, <1>2, FsServiceViews, BusyTail DEF Busy
<1>3. ASSUME spc' \in {"file", "link", "linkdone", "drain", "abort"} /\ cur' = f
      PROVE  Busy(f, spc, cur, ToService)
  <2>1. CASE ServeSend
    <3>1. ToService # <<>> /\ ToService[1].id = "SEND" /\ ToService[1].f = f
      BY <1>3, <2>1, FvServeSend
    <3>2. 1 \in 1..Len(ToService)
      BY <1>1, <3>1, FsTail
    <3> QED BY <3>1, <3>2 DEF Busy
  <2>2. CASE ~ServeSend
    <3>1. spc \in {"file", "link", "linkdone", "drain", "abort"} /\ cur = f
      BY <1>3, <2>2 DEF Service, ServeStat, ServeList, ListEntry, FileData, FileDone, FileInvalid, Drain, Abort,
         Close, LinkData, LinkDone, LinkFails, ServeRecv, SendChunk, ServeQuit, BadRequest, ServiceWriteFails,
         Transmit, Swallow, service, Receives, ServiceIdle, DeviceFails, AfterFailure, AfterOkay, AfterQuit, CloseStream, Throws
    <3> QED BY <3>1 DEF Busy
  <2> QED BY <2>1, <2>2
<1> QED BY <1>2, <1>3 DEF Busy

\* Files whose content on the device a step changes are busy.
LEMMA BusyChanged ==
  ASSUME FsInv, Service, NEW f \in Files, remote'[f] # remote[f]
  PROVE  Busy(f, spc, cur, ToService)
<1>0. remote \in [Files -> Seq(Files) \cup {Absent}] /\ ToService \in Seq(FsMessages(cmd))
  BY FsRemote, FsViews
<1>1. CASE ServeSend
  <2>1. PICK g \in Files : /\ ToService # <<>> /\ ToService[1].id = "SEND" /\ ToService[1].f = g
                           /\ \E c \in {Absent, <<>>} : remote' = [remote EXCEPT ![g] = c]
    BY <1>1, FvServeSend
  <2>2. f = g
    BY <1>0, <2>1
  <2>3. 1 \in 1..Len(ToService)
    BY <1>0, <2>1, FsTail
  <2> QED BY <2>1, <2>2, <2>3 DEF Busy
<1>2. CASE FileData \/ LinkData
  <2>1. spc \in {"file", "link"} /\ \E v : remote' = [remote EXCEPT ![cur] = v] \/ remote' = remote
    BY <1>2, FvFileData, FvLinkData
  <2>2. f = cur
    BY <1>0, <2>1
  <2> QED BY <2>1, <2>2 DEF Busy
<1>3. CASE Abort
  <2>1. spc = "abort" /\ remote' = [remote EXCEPT ![cur] = Absent]
    BY <1>3 DEF Abort, Unlinked, ServiceIdle
  <2>2. f = cur
    BY <1>0, <2>1
  <2> QED BY <2>1, <2>2 DEF Busy
<1>4. CASE ~(ServeSend \/ FileData \/ LinkData \/ Abort)
  BY <1>4 DEF Service, ServeStat, ServeList, ListEntry, FileDone, FileInvalid, Drain,
         Close, LinkDone, LinkFails, ServeRecv, SendChunk, ServeQuit, BadRequest, ServiceWriteFails,
         Transmit, Swallow, service
<1> QED BY <1>1, <1>2, <1>3, <1>4

\* A stream that ended without breaking was closed by the service, which has
\* finished.
LEMMA FsEndedIdle ==
  ASSUME FsInv, FsGone, eof["client"], ~cut
  PROVE  spc = "closed" /\ ToService = <<>> /\ \A f : ~Busy(f, spc, cur, ToService)
<1>1. spc = "closed" /\ net["service"] = <<>>
  BY DEF FsGone
<1>2. ToService = <<>>
  BY <1>1 DEF ToService
<1> QED BY <1>1, <1>2 DEF Busy

-----------------------------------------------------------------------------
(* What a client that pushes hears *)

NoOkay(s) == \A n \in 1..Len(s) : s[n].id # "OKAY"

\* The file is done.
Answered ==
  /\ Len(ToClient) = 1 /\ ToClient[1].id = "OKAY" /\ remote[Head(files)] = Complete(Head(files))
  /\ spc \in {"idle", "closing", "closed"} /\ ToService = <<>>

\* The first lstats have been answered.
Answers ==
  /\ Ids(ToClient, {"ATTR"}) /\ Len(ToClient) <= Len(asked)
  /\ ok => \A n \in 1..Len(ToClient) : ToClient[n].res = "same" => remote[asked[n]] = Complete(asked[n])

FsHears ==
  Pushes /\ Running =>
    /\ cpc = "start" => ToClient = <<>>
    /\ cpc = "dst" => Len(ToClient) <= 1
    /\ NoOkay(ToClient) \/ (cpc = "copydone" /\ Answered)
    /\ cpc = "copydone" => Ids(ToClient, {"OKAY", "FAIL"}) \/ eof["client"]
    /\ cpc = "lstats" /\ (ok \/ ~eof["client"]) => Ids(ToClient, {"FAIL"}) \/ Answers
    /\ cpc \in {"next", "send", "large", "poll"} /\ (ok \/ ~eof["client"]) => Ids(ToClient, {"FAIL"})

LEMMA FsHearsInit == FileSyncInit => FsHears
<1> SUFFICES ASSUME FileSyncInit PROVE FsHears
  OBVIOUS
<1>1. net["client"] = <<>> /\ out["service"] = <<>> /\ cpc \in {"start", "next"}
  BY FsSides DEF FileSyncInit
<1>2. ToClient = <<>>
  BY <1>1 DEF ToClient
<1> QED BY <1>1, <1>2 DEF FsHears, NoOkay, Ids

LEMMA FsBegins ==
  ASSUME NEW s, NEW q, Len(q) \in Nat, Len(s) \in Nat, Begins(q, s)
  PROVE  /\ NoOkay(s) => NoOkay(q)
         /\ \A ids : Ids(s, ids) => Ids(q, ids)
<1>1. \A n \in 1..Len(q) : n \in 1..Len(s) /\ q[n] = s[n]
  BY DEF Begins
<1> QED BY <1>1 DEF NoOkay, Ids

\* A service that is failing says so once.
LEMMA FsFails ==
  ASSUME FsInv, FsGone, FsAsks, FsHalf, Pushes, Running, Service, Failing'
  PROVE  \/ Begins(ToClient', ToClient)
         \/ /\ \E m \in FsMessages(cmd) : m.id = "FAIL" /\ ToClient' = Said(m)
            /\ ~Failing /\ ~eof["service"]
            /\ spc = "idle" => ToService # <<>> /\ ToService[1].id \notin {"STAT", "LSTAT", "QUIT"}
<1>1. Begins(ToClient, ToClient)
  <2>1. Len(ToClient) \in Nat
    BY FsViews
  <2> QED BY <2>1 DEF Begins
<1>2. CASE eof["service"] \/ ToClient' = ToClient
  <2>1. \A m : eof["service"] => Said(m) = ToClient
    BY DEF Said
  <2> QED BY <1>1, <1>2, <2>1, FsServiceViews
<1>3. CASE ~eof["service"] /\ ToClient' # ToClient
  <2>1. ~cut /\ cpc # "killed"
    BY <1>3 DEF FsGone, Running
  <2>2. Whole(ToService)
    BY <2>1 DEF FsHalf
  <2>3. ToService # <<>> => ~ToService[1].half
    <3>1. ToService # <<>> => 1 \in 1..Len(ToService)
      BY FsViews, FsTail
    <3> QED BY <2>2, <3>1 DEF Whole
  <2>4. CASE Abort \/ Close
    BY <2>4, FvCloses DEF Begins, Shorter
  <2>5. CASE ServiceWriteFails \/ Transmit("service") \/ Swallow("service") \/ Drain \/ ServeQuit
    BY <1>3, <2>5, FsSides, FvServiceWriteFails, FsTransmitted, FsSwallowed, FvDrain, FvServeQuit
  <2>6. CASE ServeList \/ ServeRecv
    <3>1. ToService # <<>> /\ ToService[1].id \in {"LIST", "RECV"}
      BY <2>6, FvServeList, FvServeRecv
    <3> QED BY <3>1, FsAsked
  <2>7. CASE ListEntry \/ SendChunk
    BY <2>7, FvListEntry, FvSendChunk DEF FsAsks
  <2>8. CASE ServeStat \/ LinkDone
    BY <2>8, FvServeStat, FvLinkDone DEF Failing, service
  <2>9. CASE ServeSend
    BY <1>3, <2>9, FvServeSend, FsMsg DEF Failing
  <2>10. CASE FileData \/ FileDone \/ LinkData
    BY <1>3, <2>10, FvFileData, FvFileDone, FvLinkData, FsMsg DEF Failing
  <2>11. CASE FileInvalid \/ LinkFails
    BY <1>3, <2>11, FvFileInvalid, FvLinkFails, FsMsg DEF Failing
  <2>12. CASE BadRequest
    <3>1. ToService # <<>> /\ ToService[1].id \notin Request
      BY <1>3, <2>3, <2>12, FvBadRequest
    <3>2. ToService[1].id \notin {"STAT", "LSTAT", "QUIT"}
      BY <3>1 DEF Request
    <3> QED BY <1>3, <2>12, <3>1, <3>2, FvBadRequest, FsMsg DEF Failing
  <2> QED BY <2>4, <2>5, <2>6, <2>7, <2>8, <2>9, <2>10, <2>11, <2>12 DEF Service
<1> QED BY <1>2, <1>3

LEMMA FsClientSeq == FsInv => ToClient \in Seq(FsMessages(cmd))
BY FsViews

\* What is heard while nothing is said
LEMMA HearsBegins ==
  ASSUME FsInv, FsInv', FsGone, FsBusy, FsHears, Service, Begins(ToClient', ToClient)
  PROVE  FsHears'
<1> SUFFICES ASSUME Pushes', Running' PROVE FsHears'
  BY DEF FsHears
<1>1. UNCHANGED <<cmd, cpc, files, asked, ok>>
  BY FsServiceFrame DEF command, client
<1>2. Pushes /\ Running
  BY <1>1 DEF Pushes, Running
<1>3. ToClient \in Seq(FsMessages(cmd)) /\ Len(ToClient) \in Nat /\ ToService \in Seq(FsMessages(cmd))
  BY FsViews
<1>4. (Len(ToService) \in Nat /\ Len(ToClient) \in Nat)' /\ (ToClient \in Seq(FsMessages(cmd)))'
  BY FsLens, FsClientSeq, PTL
<1>5. eof["client"] => eof'["client"]
  <2>1. CASE Abort \/ Close
    BY <2>1, FsSides DEF Abort, Close, CloseStream, FsInv, FsShared
  <2>2. CASE ~(Abort \/ Close)
    BY <2>2 DEF Service, ServeStat, ServeList, ListEntry, ServeSend, FileData, FileDone, FileInvalid, Drain,
         LinkData, LinkDone, LinkFails, ServeRecv, SendChunk, ServeQuit, BadRequest, ServiceWriteFails,
         Transmit, Swallow
  <2> QED BY <2>1, <2>2
<1>6. Len(ToClient') <= Len(ToClient) /\ (NoOkay(ToClient) => NoOkay(ToClient'))
      /\ \A ids : Ids(ToClient, ids) => Ids(ToClient', ids)
  BY <1>3, <1>4, FsBegins DEF Begins
<1>7. ToClient = <<>> => ToClient' = <<>>
  <2>1. ToClient = <<>> => Len(ToClient') = 0
    BY <1>4, <1>6
  <2> QED BY <1>4, <2>1, FsEmpty
<1>8. cpc = "dst" => Len(ToClient') <= 1
  <2>1. cpc = "dst" => Len(ToClient) <= 1
    BY <1>2 DEF FsHears
  <2> QED BY <1>3, <1>4, <1>6, <2>1
<1>9. NoOkay(ToClient') \/ (cpc' = "copydone" /\ Answered')
  <2>1. CASE NoOkay(ToClient)
    BY <1>6, <2>1
  <2>2. CASE cpc = "copydone" /\ Answered
    <3>1. Len(ToClient) = 1 /\ ToClient[1].id = "OKAY" /\ remote[Head(files)] = Complete(Head(files))
          /\ spc \in {"idle", "closing", "closed"} /\ ToService = <<>>
      BY <2>2 DEF Answered
    <3>2. Head(files) \in Files
      <4>1. files # <<>> /\ files \in Seq(Files)
        BY <2>2 DEF FsInv, FsClient, FsClientTypes
      <4> QED BY <4>1
    <3>3. ~Busy(Head(files), spc, cur, ToService)
      BY <3>1 DEF Busy
    <3>4. remote'[Head(files)] = remote[Head(files)]
      BY <3>2, <3>3, BusyChanged
    <3>5. ToService' = <<>>
      BY <3>1, FsServiceViews
    <3>6. spc' \in {"idle", "closing", "closed"}
      <4>1. ~ServeStat /\ ~ServeList /\ ~ServeSend /\ ~ServeRecv /\ ~ServeQuit
        BY <3>1, FvServeStat, FvServeList, FvServeSend, FvServeRecv, FvServeQuit
      <4> QED BY <3>1, <4>1 DEF Service, ListEntry, FileData, FileDone, FileInvalid, Drain, Abort, Close, CloseStream,
         LinkData, LinkDone, LinkFails, SendChunk, BadRequest, ServiceWriteFails,
         Transmit, Swallow, service, Receives, ServiceIdle
    <3>7. CASE Len(ToClient') = 0
      BY <3>7 DEF NoOkay
    <3>8. CASE Len(ToClient') = 1
      <4>1. ToClient'[1].id = "OKAY"
        BY <3>1, <3>8 DEF Begins
      <4> QED BY <1>1, <2>2, <3>1, <3>4, <3>5, <3>6, <3>8, <4>1 DEF Answered
    <3>9. Len(ToClient') = 0 \/ Len(ToClient') = 1
      <4>1. Len(ToClient') \in Nat /\ Len(ToClient') <= Len(ToClient)
        BY <1>4, <1>6
      <4>2. Len(ToClient) = 1
        BY <3>1
      <4> QED BY <4>1, <4>2
    <3> QED BY <3>7, <3>8, <3>9
  <2> QED BY <1>2, <2>1, <2>2 DEF FsHears
<1>10. ASSUME cpc = "lstats", Answers PROVE Answers'
  <2>1. Ids(ToClient', {"ATTR"}) /\ Len(ToClient) <= Len(asked)
    BY <1>6, <1>10 DEF Answers
  <2>2. asked \in Seq(Files)
    BY DEF FsInv, FsClientTypes
  <2>3. Len(ToClient') <= Len(asked)
    BY <1>3, <1>4, <1>6, <2>1, <2>2
  <2>4. ASSUME ok, NEW n \in 1..Len(ToClient'), ToClient'[n].res = "same"
        PROVE  remote'[asked[n]] = Complete(asked[n])
    <3>1. n \in 1..Len(ToClient) /\ n \in 1..Len(asked)
      BY <1>3, <1>4, <1>6, <2>2, <2>3
    <3>2. ToClient'[n] = ToClient[n]
      BY DEF Begins
    <3>3. remote[asked[n]] = Complete(asked[n]) /\ asked[n] \in Files
      BY <1>10, <2>2, <2>4, <3>1, <3>2 DEF Answers
    <3>4. ~Busy(asked[n], spc, cur, ToService)
      BY <1>2, <1>10, <2>4, <3>3 DEF FsBusy, OnFile
    <3> QED BY <3>3, <3>4, BusyChanged
  <2> QED BY <1>1, <2>1, <2>3, <2>4 DEF Answers
<1> QED BY <1>1, <1>2, <1>5, <1>6, <1>7, <1>8, <1>9, <1>10 DEF FsHears

LEMMA FsSameBegins == FsInv => Begins(ToClient, ToClient)
<1> SUFFICES ASSUME FsInv PROVE Begins(ToClient, ToClient)
  OBVIOUS
<1>1. Len(ToClient) \in Nat
  BY FsViews
<1> QED BY <1>1 DEF Begins

\* Words are only heard from a service that was open.
LEMMA FsSpeaks ==
  ASSUME FsInv, FsGone, FsAsks, FsHalf, Pushes, Running, Service, ~Begins(ToClient', ToClient)
  PROVE  /\ Open /\ ~eof["service"] /\ ~cut /\ ToClient' # ToClient
         /\ ~Failing' => Open'
<1>1. ToClient' # ToClient
  BY FsSameBegins
<1>2. ~eof["service"]
  <2>1. \A m : eof["service"] => Said(m) = ToClient
    BY DEF Said
  <2> QED BY <1>1, <2>1, FsServiceViews
<1>3. ~cut
  BY <1>2 DEF FsGone
<1>4. ~Failing
  <2>1. CASE Failing'
    BY <2>1, FsFails
  <2>2. CASE ~Failing'
    <3>1. \/ UNCHANGED service \/ spc \in {"idle", "file", "link", "linkdone"}
      BY <2>2, FsServes, FvServeStat, FvServeSend, FvFileData, FvFileDone, FvLinkData, FvLinkDone
    <3> QED BY <2>2, <3>1 DEF Failing, service
  <2> QED BY <2>1, <2>2
<1>5. ~eof["client"]
  BY <1>3, <1>4 DEF FsGone, Failing
<1>6. ASSUME ~Failing' PROVE Open'
  <2>1. UNCHANGED cpc
    BY FsServiceFrame DEF client
  <2>2. ~(Abort \/ Close)
    BY <1>6 DEF Failing, Abort, Close, CloseStream
  <2>3. UNCHANGED eof
    BY <2>2 DEF Service, ServeStat, ServeList, ListEntry, ServeSend, FileData, FileDone, FileInvalid, Drain,
         LinkData, LinkDone, LinkFails, ServeRecv, SendChunk, ServeQuit, BadRequest, ServiceWriteFails,
         Transmit, Swallow
  <2> QED BY <1>5, <1>6, <2>1, <2>3 DEF Open, Running
<1> QED BY <1>1, <1>2, <1>3, <1>4, <1>5, <1>6 DEF Open

LEMMA HearsFail ==
  ASSUME FsInv, FsGone, FsPlaces, FsAsks, FsHalf, FsTalk, FsHears, Service, ~Begins(ToClient', ToClient), Failing', Pushes, Running
  PROVE  /\ ToClient = <<>> /\ cpc \notin {"start", "dst", "quit"} /\ ~eof["client"]
         /\ Len(ToClient') = 1 /\ ToClient'[1].id = "FAIL"
<1>1. Open /\ ~eof["service"]
  BY FsSpeaks
<1>2. PICK m \in FsMessages(cmd) :
         /\ m.id = "FAIL" /\ ToClient' = Said(m)
         /\ spc = "idle" => ToService # <<>> /\ ToService[1].id \notin {"STAT", "LSTAT", "QUIT"}
  BY FsFails
<1>3. ~Between /\ ~Quitting
  BY <1>2 DEF Between, Quitting
<1>4. ~AskedStat
  BY <1>2 DEF AskedStat
<1>5. ~AskedAll
  <2>1. ToService # <<>> => 1 \in 1..Len(ToService)
    BY FsViews, FsTail
  <2> QED BY <1>2, <2>1 DEF AskedAll, Ids
<1>6. ToClient = <<>> /\ cpc \notin {"start", "dst", "quit"}
  BY <1>1, <1>3, <1>4, <1>5 DEF FsTalk, FsPlaces, Running
<1> QED BY <1>1, <1>2, <1>6, FsSaid DEF Open

LEMMA HearsOkay ==
  ASSUME FsInv, FsGone, FsAsks, FsHalf, FsTalk, FsTalk', Service, ~Begins(ToClient', ToClient), ~Failing', Pushes, Running,
         cpc = "copydone"
  PROVE  /\ Len(ToClient') = 1 /\ ToClient'[1].id = "OKAY" /\ Answered'
<1>1. Open /\ ~eof["service"] /\ ToClient' # ToClient
  BY FsSpeaks
<1>2. ~Between
  BY <1>1, ServesRest DEF Between
<1>3. \A e \in {0, 1} : ~Lost(e)
  BY <1>1, ServesDoomed DEF Lost
<1>4. PICK f \in Files : f = Head(files) /\ ToClient = <<>> /\ InFile(f, Chunks[f] + 2)
  <2>1. 0 \in {0, 1}
    OBVIOUS
  <2> QED BY <1>1, <1>2, <1>3, <2>1 DEF FsTalk
<1>5. /\ spc' = "idle" /\ ToService' = <<>> /\ remote'[f] = Complete(f)
      /\ ToClient' = Said(Msg("OKAY", f)) /\ Msg("OKAY", f) \in FsMessages(cmd)
  BY <1>1, <1>4, ServesFed DEF InFile
<1>6. Len(ToClient') = 1 /\ ToClient'[1].id = "OKAY"
  BY <1>1, <1>4, <1>5, FsSaid, FsMsg
<1>7. files' = files
  BY FsServiceFrame DEF client
<1> QED BY <1>4, <1>5, <1>6, <1>7 DEF Answered

LEMMA HearsAttr ==
  ASSUME FsInv, FsGone, FsAsks, FsHalf, FsTalk, FsTalk', FsHears, Service, ~Begins(ToClient', ToClient), ~Failing', Pushes, Running,
         cpc = "lstats"
  PROVE  Answers'
<1>1. Open /\ ~eof["service"] /\ ToClient' # ToClient /\ Open'
  BY FsSpeaks
<1>2. ~Between
  BY <1>1, ServesRest DEF Between
<1>3. ~Lost(1)
  <2>1. 1 \in {0, 1}
    OBVIOUS
  <2> QED BY <1>1, <2>1, ServesDoomed DEF Lost
<1>4. AskedAll
  BY <1>1, <1>3 DEF FsTalk
<1>5. ToService # <<>> /\ spc = "idle"
  BY <1>2, <1>4 DEF AskedAll, Between
<1>6. ToService \in Seq(FsMessages(cmd)) /\ ToClient \in Seq(FsMessages(cmd)) /\ asked \in Seq(Files)
  BY FsViews DEF FsInv, FsClientTypes
<1>7. 1 \in 1..Len(ToService) /\ Len(ToClient) \in Nat /\ Len(ToService) \in Nat
  BY <1>5, <1>6, FsTail
<1>8. ToService[1].id = "LSTAT" /\ ToService[1].f = asked[Len(ToClient) + 1]
  BY <1>4, <1>7 DEF AskedAll, Ids
<1>9. PICK r \in StatResult(ToService[1].f) :
         /\ ToClient' = Said(Attr(ToService[1].f, r)) /\ Attr(ToService[1].f, r) \in FsMessages(cmd)
  BY <1>1, <1>5, <1>8, ServesRequest
<1>10. UNCHANGED <<remote, spc, files, asked, ok, cpc, cmd>>
  BY <1>1, <1>5, <1>8, ServesRequest, FsServiceFrame DEF service, client, command
<1>11. Len(ToClient') = Len(ToClient) + 1 /\ ToClient'[Len(ToClient) + 1].res = r
       /\ \A n \in 1..Len(ToClient) : ToClient'[n] = ToClient[n]
  BY <1>1, <1>9, FsSaid, FsAttr
<1>12. Len(ToClient) + 1 \in 1..Len(asked) /\ asked[Len(ToClient) + 1] \in Files
  <2>1. Len(ToClient) + Len(ToService) = Len(asked) /\ Len(asked) \in Nat
    BY <1>4, <1>6 DEF AskedAll
  <2>2. Len(ToService) >= 1
    BY <1>7
  <2>3. Len(ToClient) + 1 \in 1..Len(asked)
    BY <1>7, <2>1, <2>2
  <2> QED BY <1>6, <2>3
<1>13. AskedAll'
  <2>1. AskedAll' \/ (ToClient' = <<>>)
    BY <1>1, <1>10 DEF FsTalk, Pushes
  <2>2. Len(ToClient') # 0
    BY <1>7, <1>11
  <2> QED BY <2>1, <2>2
<1>14. Ids(ToClient', {"ATTR"})
  BY <1>13 DEF AskedAll, Ids
<1>15. Len(ToClient') <= Len(asked)
  <2>1. Len(ToClient) + 1 <= Len(asked)
    BY <1>12
  <2> QED BY <1>11, <2>1
<1>16. Answers
  <2>1. CASE Ids(ToClient, {"FAIL"})
    <3>1. \A n \in 1..Len(ToClient) : FALSE
      BY <1>4, <2>1 DEF AskedAll, Ids
    <3>2. Len(ToClient) <= Len(asked)
      BY <1>6, <1>7, <1>11, <1>15
    <3> QED BY <1>4, <3>1, <3>2 DEF Answers, AskedAll
  <2> QED BY <1>1, <2>1 DEF FsHears, Open
<1>17. ASSUME ok, NEW n \in 1..Len(ToClient'), ToClient'[n].res = "same"
       PROVE  remote'[asked[n]] = Complete(asked[n])
  <2>1. n \in 1..Len(ToClient) \/ n = Len(ToClient) + 1
    BY <1>7, <1>11
  <2>2. CASE n \in 1..Len(ToClient)
    BY <1>10, <1>11, <1>16, <1>17, <2>2 DEF Answers
  <2>3. CASE n = Len(ToClient) + 1
    <3>1. r = "same"
      BY <1>11, <1>17, <2>3
    <3>2. PICK f \in Files : f = ToService[1].f
      BY <1>8, <1>12
    <3>3. remote[f] = Complete(f)
      BY <1>9, <3>1, <3>2 DEF StatResult
    <3> QED BY <1>8, <1>10, <2>3, <3>2, <3>3
  <2> QED BY <2>1, <2>2, <2>3
<1> QED BY <1>10, <1>14, <1>15, <1>17 DEF Answers, Ids

LEMMA HearsService ==
  ASSUME FsInv, FsInv', FsGone, FsPlaces, FsAsks, FsHalf, FsTalk, FsTalk', FsBusy, FsHears, Service
  PROVE  FsHears'
<1> SUFFICES ASSUME Pushes', Running', ~Begins(ToClient', ToClient) PROVE FsHears'
  BY HearsBegins DEF FsHears
<1>1. UNCHANGED <<cmd, cpc, files, asked, ok>>
  BY FsServiceFrame DEF command, client
<1>2. Pushes /\ Running
  BY <1>1 DEF Pushes, Running
<1>3. CASE Failing'
  <2>1. /\ cpc \notin {"start", "dst", "quit"} /\ ~eof["client"]
        /\ Len(ToClient') = 1 /\ ToClient'[1].id = "FAIL"
    BY <1>2, <1>3, HearsFail
  <2>2. \A n \in 1..Len(ToClient') : ToClient'[n].id = "FAIL"
    BY <2>1
  <2> QED BY <1>1, <2>1, <2>2 DEF FsHears, NoOkay, Ids
<1>4. CASE ~Failing'
  <2>1. Open'
    BY <1>2, <1>4, FsSpeaks
  <2>2. CASE cpc = "copydone"
    <3>1. Len(ToClient') = 1 /\ ToClient'[1].id = "OKAY" /\ Answered'
      BY <1>2, <1>4, <2>2, HearsOkay
    <3>2. \A n \in 1..Len(ToClient') : ToClient'[n].id = "OKAY"
      BY <3>1
    <3> QED BY <1>1, <2>2, <3>1, <3>2 DEF FsHears, Ids
  <2>3. CASE cpc = "lstats"
    <3>1. Answers'
      BY <1>2, <1>4, <2>3, HearsAttr
    <3>2. NoOkay(ToClient')
      BY <3>1 DEF Answers, NoOkay, Ids
    <3> QED BY <1>1, <2>3, <3>1, <3>2 DEF FsHears, Answers, Ids
  <2>4. CASE cpc = "dst"
    <3>1. AskedStat'
      BY <1>1, <2>1, <2>4 DEF FsTalk
    <3>2. Len(ToClient') = 0 \/ (Len(ToClient') = 1 /\ ToClient'[1].id = "ATTR")
      BY <3>1 DEF AskedStat
    <3>3. Len(ToClient') <= 1 /\ NoOkay(ToClient')
      <4>1. CASE Len(ToClient') = 0
        BY <4>1 DEF NoOkay
      <4>2. CASE Len(ToClient') = 1 /\ ToClient'[1].id = "ATTR"
        <5>1. \A n \in 1..Len(ToClient') : ToClient'[n].id = "ATTR"
          BY <4>2
        <5> QED BY <4>2, <5>1 DEF NoOkay
      <4> QED BY <3>2, <4>1, <4>2
    <3> QED BY <1>1, <2>4, <3>3 DEF FsHears
  <2>5. CASE cpc \notin {"copydone", "lstats", "dst"}
    <3>1. Len(ToClient') = 0
      <4>1. ToClient' = <<>>
        BY <1>1, <1>2, <2>1, <2>5 DEF FsTalk, FsPlaces, Running
      <4> QED BY <4>1
    <3>2. ToClient' = <<>>
      BY <1>1, <1>2, <2>1, <2>5 DEF FsTalk, FsPlaces, Running
    <3> QED BY <1>1, <2>5, <3>1, <3>2 DEF FsHears, NoOkay, Ids
  <2> QED BY <2>2, <2>3, <2>4, <2>5
<1> QED BY <1>3, <1>4

LEMMA HearsNothing == ASSUME ToClient' = <<>> PROVE FsHears'
<1>1. Len(ToClient') = 0
  OBVIOUS
<1> QED BY <1>1 DEF FsHears, NoOkay, Ids

\* Words that are lost
LEMMA HearsLess ==
  ASSUME FsInv, FsInv', FsHears, UNCHANGED <<cmd, cpc, files, asked, ok, remote, spc>>,
         Shorter(ToClient', ToClient), Shorter(ToService', ToService), eof["client"] => eof'["client"]
  PROVE  FsHears'
<1> SUFFICES ASSUME Pushes', Running' PROVE FsHears'
  BY DEF FsHears
<1>1. Pushes /\ Running
  BY DEF Pushes, Running
<1>2. ToClient \in Seq(FsMessages(cmd)) /\ Len(ToClient) \in Nat /\ ToService \in Seq(FsMessages(cmd)) /\ Len(ToService) \in Nat
  BY FsViews
<1>3. (Len(ToService) \in Nat /\ Len(ToClient) \in Nat)' /\ (ToClient \in Seq(FsMessages(cmd)))' /\ (ToService \in Seq(FsMessages(cmd)))'
  BY FsLens, FsClientSeq, FsSeqs, PTL
<1>4. Len(ToClient') <= Len(ToClient) /\ \A n \in 1..Len(ToClient') : /\ n \in 1..Len(ToClient)
                                                                     /\ ToClient'[n].id = ToClient[n].id
                                                                     /\ ToClient'[n].res = ToClient[n].res
  BY <1>2, <1>3 DEF Shorter
<1>5. \A ids : Ids(ToClient, ids) => Ids(ToClient', ids)
  BY <1>4 DEF Ids
<1>6. NoOkay(ToClient) => NoOkay(ToClient')
  BY <1>4 DEF NoOkay
<1>7. ToClient = <<>> => ToClient' = <<>>
  <2>1. ToClient = <<>> => Len(ToClient') = 0
    BY <1>3, <1>4
  <2> QED BY <1>3, <2>1, FsEmpty
<1>8. cpc = "dst" => Len(ToClient') <= 1
  <2>1. cpc = "dst" => Len(ToClient) <= 1
    BY <1>1 DEF FsHears
  <2>2. Len(ToClient') \in Nat /\ Len(ToClient') <= Len(ToClient)
    BY <1>3, <1>4
  <2> QED BY <1>2, <2>1, <2>2
<1>9. Answered => NoOkay(ToClient') \/ Answered'
  <2> SUFFICES ASSUME Answered PROVE NoOkay(ToClient') \/ Answered'
    OBVIOUS
  <2>1. ToService' = <<>>
    <3>1. Len(ToService') = 0
      BY <1>3 DEF Answered, Shorter
    <3> QED BY <1>3, <3>1, FsEmpty
  <2>2. Len(ToClient') = 0 \/ Len(ToClient') = 1
    <3>1. Len(ToClient) = 1 /\ Len(ToClient') \in Nat /\ Len(ToClient') <= Len(ToClient)
      BY <1>3, <1>4 DEF Answered
    <3> QED BY <3>1
  <2>3. CASE Len(ToClient') = 0
    BY <2>3 DEF NoOkay
  <2>4. CASE Len(ToClient') = 1
    <3>1. ToClient'[1].id = "OKAY"
      BY <1>4, <2>4 DEF Answered
    <3> QED BY <2>1, <2>4, <3>1 DEF Answered
  <2> QED BY <2>2, <2>3, <2>4
<1>10. Answers => Answers'
  <2> SUFFICES ASSUME Answers PROVE Answers'
    OBVIOUS
  <2>1. Len(ToClient') <= Len(asked)
    <3>1. Len(ToClient) <= Len(asked) /\ Len(asked) \in Nat
      BY DEF Answers, FsInv, FsClientTypes
    <3>2. Len(ToClient') \in Nat /\ Len(ToClient') <= Len(ToClient)
      BY <1>3, <1>4
    <3> QED BY <1>2, <3>1, <3>2
  <2> QED BY <1>4, <1>5, <2>1 DEF Answers
<1> QED BY <1>1, <1>5, <1>6, <1>7, <1>8, <1>9, <1>10 DEF FsHears

\* The client goes on with the same words before it.
LEMMA HearsOn ==
  ASSUME Pushes, Running, FsHears, ToClient' = ToClient, ok' => ok, eof'["client"] = eof["client"],
         \/ cpc \in {"next", "send", "large", "poll"} /\ cpc' \in {"next", "send", "large", "poll", "lstats", "copydone", "shutdown"}
         \/ cpc \in {"next", "send", "large", "poll", "lstats", "quit", "dst"} /\ cpc' \in {"shutdown", "quit"}
         \/ cpc \in {"lstats", "large"} /\ cpc' = "next" /\ ~ok' /\ eof["client"]
  PROVE  FsHears'
BY DEF FsHears, NoOkay, Ids

LEMMA HearsLstatReply ==
  ASSUME FsInv, Pushes, Running, FsHears, LstatReply
  PROVE  FsHears'
<1>1. cpc = "lstats" /\ UNCHANGED <<cmd, ok, remote, spc, eof>>
  BY DEF LstatReply, ClientIdle, service, command
<1>2. NoOkay(ToClient) /\ (ok \/ ~eof["client"] => Ids(ToClient, {"FAIL"}) \/ Answers)
  BY <1>1 DEF FsHears
<1>3. ToClient \in Seq(FsMessages(cmd)) /\ Len(ToClient) \in Nat /\ asked \in Seq(Files)
  BY FsViews DEF FsInv, FsClientTypes
<1>4. CASE asked = <<>> /\ cpc' = "send" /\ ToClient' = ToClient
  <2>1. Answers => Len(ToClient) = 0
    BY <1>3, <1>4 DEF Answers
  <2>2. Answers => Ids(ToClient, {"FAIL"})
    BY <2>1 DEF Ids
  <2> QED BY <1>1, <1>2, <1>4, <2>2 DEF FsHears
<1>5. CASE /\ asked # <<>> /\ ToClient # <<>> /\ ToClient[1].id = "ATTR" /\ ToClient' = Tail(ToClient)
           /\ asked' = Tail(asked) /\ cpc' = cpc
  <2>1. /\ Len(ToClient') = Len(ToClient) - 1 /\ Len(ToClient) >= 1
        /\ \A n \in 1..Len(ToClient) - 1 : ToClient'[n] = ToClient[n + 1] /\ n + 1 \in 1..Len(ToClient)
    BY <1>3, <1>5, FsTail
  <2>2. 1 \in 1..Len(ToClient)
    BY <1>3, <2>1
  <2>3. ~Ids(ToClient, {"FAIL"})
    BY <1>5, <2>2 DEF Ids
  <2>4. \A n \in 1..Len(ToClient') : n \in 1..Len(ToClient) - 1
    BY <2>1
  <2>5. NoOkay(ToClient')
    BY <1>2, <2>1, <2>4 DEF NoOkay
  <2>6. ASSUME Answers PROVE Answers'
    <3>1. Ids(ToClient', {"ATTR"})
      BY <1>3, <1>5, <2>6, FsIdsTail DEF Answers
    <3>2. Len(asked') = Len(asked) - 1 /\ Len(asked) \in Nat /\ \A n \in 1..Len(asked) - 1 : asked'[n] = asked[n + 1]
      BY <1>3, <1>5
    <3>3. Len(ToClient) <= Len(asked)
      BY <2>6 DEF Answers
    <3>4. Len(ToClient') <= Len(asked')
      <4>1. Len(ToClient') = Len(ToClient) - 1 /\ Len(asked') = Len(asked) - 1
        BY <2>1, <3>2
      <4> QED BY <1>3, <3>2, <3>3, <4>1
    <3>5. ASSUME ok', NEW n \in 1..Len(ToClient'), ToClient'[n].res = "same"
          PROVE  remote'[asked'[n]] = Complete(asked'[n])
      <4>1. n \in 1..Len(ToClient) - 1 /\ n + 1 \in 1..Len(ToClient) /\ ToClient'[n] = ToClient[n + 1]
        BY <2>1, <2>4
      <4>2. n \in 1..Len(asked) - 1
        BY <1>3, <3>2, <3>3, <4>1
      <4>3. asked'[n] = asked[n + 1]
        BY <3>2, <4>2
      <4>4. remote[asked[n + 1]] = Complete(asked[n + 1])
        BY <1>1, <2>6, <3>5, <4>1 DEF Answers
      <4> QED BY <1>1, <4>3, <4>4
    <3> QED BY <3>1, <3>4, <3>5 DEF Answers
  <2> QED BY <1>1, <1>2, <1>5, <2>3, <2>5, <2>6 DEF FsHears
<1> QED BY <1>4, <1>5, FvLstatReply

LEMMA HearsCopyFails ==
  ASSUME FsInv, FsGone, Pushes, Running, FsHears, CopyFails
  PROVE  FsHears'
<1>1. cpc = "copydone" /\ cpc' = "next" /\ ok' = FALSE /\ eof' = eof
  BY FvCopyFails DEF CopyFails, ClientIdle, GiveUp
<1>2. CASE ToClient = <<>> /\ ToClient' = ToClient
  BY <1>2, HearsNothing
<1>3. CASE ToClient # <<>> /\ ToClient[1].id # "OKAY" /\ ToClient' = Tail(ToClient)
  <2>1. ToClient \in Seq(FsMessages(cmd))
    BY FsViews
  <2>2. /\ Len(ToClient') = Len(ToClient) - 1
        /\ \A n \in 1..Len(ToClient) - 1 : ToClient'[n] = ToClient[n + 1] /\ n + 1 \in 1..Len(ToClient)
    BY <1>3, <2>1, FsTail
  <2>3. NoOkay(ToClient)
    BY <1>1, <1>3 DEF FsHears, Answered
  <2>4. NoOkay(ToClient')
    BY <2>2, <2>3 DEF NoOkay
  <2>5. ASSUME ~eof["client"] PROVE Ids(ToClient', {"FAIL"})
    <3>1. Ids(ToClient, {"OKAY", "FAIL"})
      BY <1>1, <2>5 DEF FsHears
    <3>2. Ids(ToClient, {"FAIL"})
      BY <2>3, <3>1 DEF NoOkay, Ids
    <3> QED BY <1>3, <2>1, <3>2, FsIdsTail
  <2> QED BY <1>1, <2>4, <2>5 DEF FsHears
<1> QED BY <1>2, <1>3, FvCopyFails

LEMMA HearsClient ==
  ASSUME FsInv, FsInv', FsGone, FsPlaces, FsHears, Client
  PROVE  FsHears'
<1> SUFFICES ASSUME Pushes', Running' PROVE FsHears'
  BY DEF FsHears
<1>1. Pushes
  BY FsClientFrame DEF Pushes, command
<1>2. ToClient \in Seq(FsMessages(cmd)) /\ ToService \in Seq(FsMessages(cmd)) /\ Len(ToClient) \in Nat /\ Len(ToService) \in Nat
  BY FsViews
<1>3. CASE Start
  BY <1>1, <1>3, FvStart, HearsNothing DEF FsHears, Start, ClientIdle, Running
<1>4. CASE DstStat
  <2>1. cpc = "dst" /\ Len(ToClient) <= 1 /\ ToClient # <<>> /\ ToClient' = Tail(ToClient)
    BY <1>1, <1>4, FvDstStat DEF FsHears, DstStat, ClientIdle, Running
  <2>2. Len(ToClient) = 1
    <3>1. Len(ToClient) >= 1
      BY <1>2, <2>1, FsTail
    <3>2. Len(ToClient) \in Nat /\ Len(ToClient) <= 1
      BY <1>2, <2>1
    <3>3. \A k \in Nat : k >= 1 /\ k <= 1 => k = 1
      OBVIOUS
    <3> QED BY <3>1, <3>2, <3>3
  <2> QED BY <1>2, <2>1, <2>2, FsOne1, HearsNothing
<1>5. CASE NextSource
  <2>1. cpc = "next" /\ ToClient' = ToClient /\ eof' = eof /\ cpc' \in {"lstats", "send", "next"} /\ Running
        /\ (ok' = ok \/ ok' = FALSE)
    BY <1>1, <1>5, FvNextPush DEF NextSource, ClientIdle, Pushes, Running
  <2>2. ok' => ok
    <3>1. CASE ok' = ok
      BY <3>1
    <3>2. CASE ok' = FALSE
      BY <3>2
    <3> QED BY <2>1, <3>1, <3>2
  <2> QED BY <1>1, <2>1, <2>2, HearsOn
<1>6. CASE LstatReply
  BY <1>1, <1>6, HearsLstatReply DEF LstatReply, ClientIdle, Running
<1>7. CASE SendFile \/ LargeChunk \/ LargePoll
  <2>1. cpc \in {"send", "large", "poll"} /\ ToClient' = ToClient /\ eof' = eof /\ ok' = ok /\ Running
        /\ cpc' \in {"large", "poll", "copydone"}
    BY <1>7, FvSendFile, FvLargeChunk, FvLargePoll DEF SendFile, LargeChunk, LargePoll, ClientIdle, Running
  <2> QED BY <1>1, <2>1, HearsOn
<1>8. CASE LocalReadFails
  <2>1. cpc \in {"send", "large"} /\ ToClient' = ToClient /\ eof' = eof /\ ok' = FALSE /\ Running /\ cpc' = "next"
    BY <1>8, FvLocalReadFails DEF LocalReadFails, ClientIdle, GiveUp, Running
  <2> QED BY <1>1, <2>1, HearsOn
<1>9. CASE CopyOkay
  <2>1. cpc = "copydone" /\ ToClient # <<>> /\ ToClient[1].id = "OKAY" /\ ToClient' = Tail(ToClient)
    BY <1>9, FvCopyOkay DEF CopyOkay, ClientIdle
  <2>2. 1 \in 1..Len(ToClient)
    BY <1>2, <2>1, FsTail
  <2>3. Len(ToClient) = 1
    BY <1>1, <2>1, <2>2 DEF FsHears, Running, NoOkay, Answered
  <2> QED BY <1>2, <2>1, <2>3, FsOne1, HearsNothing
<1>10. CASE CopyFails
  BY <1>1, <1>10, HearsCopyFails DEF CopyFails, ClientIdle, Running
<1>11. CASE SourceDone
  <2>1. cpc \in {"send", "recv"} /\ ToClient' = ToClient /\ eof' = eof /\ ok' = ok /\ Running /\ cpc' = "next"
    BY <1>11, FvSourceDone DEF SourceDone, ClientIdle, Running
  <2>2. cpc = "send"
    BY <1>1, <2>1 DEF FsPlaces
  <2> QED BY <1>1, <2>1, <2>2, HearsOn
<1>12. CASE Quit
  <2>1. cpc \in {"quit", "next"} /\ ToClient' = ToClient /\ eof' = eof /\ ok' = ok /\ Running /\ cpc' = "shutdown"
    BY <1>12, FvQuit DEF Quit, ClientIdle, Running
  <2> QED BY <1>1, <2>1, HearsOn
<1>13. CASE StatFault \/ Shutdown
  BY <1>13, FvStatFault, FvShutdown DEF Running
<1>14. CASE ClientWriteFails
  <2>1. CASE ToClient' = <<>>
    BY <2>1, HearsNothing
  <2>2. CASE ToClient' = ToClient
    <3>1. eof["client"] /\ eof'["client"] = eof["client"]
      BY <1>14, FvClientWriteFails
    <3>2. \/ cpc = "dst" /\ cpc' = "quit" /\ ok' = FALSE
          \/ cpc = "lnstat"
          \/ cpc \in {"lstats", "large", "srcstat", "ls", "creat"} /\ cpc' = "next" /\ ok' = FALSE
      BY <1>14 DEF ClientWriteFails, ClientEnds, GiveUp, Running
    <3>3. cpc \notin {"lnstat", "srcstat", "ls", "creat"}
      BY <1>1 DEF FsPlaces
    <3>4. Running
      BY <3>2 DEF Running
    <3> QED BY <1>1, <2>2, <3>1, <3>2, <3>3, <3>4, HearsOn
  <2> QED BY <1>14, <2>1, <2>2, FvClientWriteFails
<1>15. CASE Transmit("client") \/ Swallow("client")
  <2>1. UNCHANGED <<command, client, service, eof>>
    BY <1>15 DEF Transmit, Swallow
  <2>2. Shorter(ToClient, ToClient) /\ Shorter(ToService, ToService)
    BY <1>2 DEF Shorter
  <2>3. Shorter(ToClient', ToClient) /\ ToService' = ToService
    BY <1>15, <2>2, FsSides, FsTransmitted, FsSwallowed
  <2>4. Shorter(ToService', ToService)
    BY <2>2, <2>3
  <2> QED BY <2>1, <2>3, <2>4, HearsLess DEF command, client, service
<1> QED BY <1>1, <1>3, <1>4, <1>5, <1>6, <1>7, <1>8, <1>9, <1>10, <1>11, <1>12, <1>13, <1>14, <1>15, FsPushClient

LEMMA HearsStep ==
  ASSUME FsInv, FsInv', FsGone, FsPlaces, FsAsks, FsHalf, FsTalk, FsTalk', FsBusy, FsHears, [FileSyncNext]_fileSyncVars
  PROVE  FsHears'
<1>1. CASE Client
  BY <1>1, HearsClient
<1>2. CASE Service
  BY <1>2, HearsService
<1>3. CASE Kill
  BY <1>3 DEF Kill, FsHears, Running
<1>4. CASE Break
  <2>1. UNCHANGED <<command, client, service>> /\ eof'["client"]
    BY <1>4, FsSides DEF Break
  <2> QED BY <1>4, <2>1, FsBroken, HearsLess DEF command, client, service
<1>5. CASE DrainSpins \/ Finished \/ UNCHANGED fileSyncVars
  <2>1. UNCHANGED <<command, client, service, net, out, eof>>
    BY <1>5 DEF DrainSpins, Finished, fileSyncVars
  <2>2. Shorter(ToClient, ToClient) /\ Shorter(ToService, ToService)
    BY FsViews DEF Shorter
  <2>3. Shorter(ToClient', ToClient) /\ Shorter(ToService', ToService)
    BY <2>1, <2>2, FsStill
  <2> QED BY <2>1, <2>3, HearsLess DEF command, client, service
<1> QED BY <1>1, <1>2, <1>3, <1>4, <1>5 DEF FileSyncNext

LEMMA FsBusyInit == FileSyncInit => FsBusy
<1> SUFFICES ASSUME FileSyncInit PROVE FsBusy
  OBVIOUS
<1>1. net["service"] = <<>> /\ out["client"] = <<>> /\ spc = "idle" /\ ok = TRUE
  BY FsSides DEF FileSyncInit
<1>2. ToService = <<>>
  BY <1>1 DEF ToService
<1> QED BY <1>1, <1>2 DEF FsBusy, Busy

\* A failure is not forgotten.
LEMMA FsRemembers ==
  ASSUME FsInv, FsBusy, Client
  PROVE  /\ ok' => ok
         /\ reported \subseteq reported'
         /\ cpc' \in {"start", "dst"} => ok'
<1>1. CASE DstStat
  <2>1. ok
    BY <1>1 DEF DstStat, ClientIdle, FsBusy
  <2> QED BY <1>1, <2>1 DEF DstStat
<1>2. CASE ~DstStat
  <2>1. ok' = ok \/ ok' = FALSE
    BY <1>2 DEF Client, Start, StatFault, NextSource, LstatReply, SendFile, LocalReadFails, LargeChunk, LargePoll,
      CopyOkay, CopyFails, SrcStat, Dent, ListDone, ListFails, StatLink, LinkStat, RecvFile, Creat, RecvData, RecvFails,
      RecvDone, SourceDone, Quit, Shutdown, ClientWriteFails, Transmit, Swallow, GiveUp, client
  <2>2. ok' => ok
    <3>1. CASE ok' = ok
      BY <3>1
    <3>2. CASE ok' = FALSE
      BY <3>2
    <3> QED BY <2>1, <3>1, <3>2
  <2>3. reported' = reported \/ reported' = reported \cup {Head(files)}
    BY <1>2 DEF Client, Start, StatFault, NextSource, LstatReply, SendFile, LocalReadFails, LargeChunk, LargePoll,
      CopyOkay, CopyFails, SrcStat, Dent, ListDone, ListFails, StatLink, LinkStat, RecvFile, Creat, RecvData, RecvFails,
      RecvDone, SourceDone, Quit, Shutdown, ClientWriteFails, Transmit, Swallow, GiveUp, history
  <2>4. cpc' \in {"start", "dst"} => cpc \in {"start", "dst"} /\ ok' = ok
    BY <1>2 DEF Client, Start, StatFault, NextSource, LstatReply, SendFile, LocalReadFails, LargeChunk, LargePoll,
      CopyOkay, CopyFails, SrcStat, Dent, ListDone, ListFails, StatLink, LinkStat, RecvFile, Creat, RecvData, RecvFails,
      RecvDone, SourceDone, Quit, Shutdown, ClientWriteFails, Transmit, Swallow, GiveUp, ClientEnds, ClientIdle, client
  <2> QED BY <2>2, <2>3, <2>4 DEF FsBusy
<1> QED BY <1>1, <1>2

LEMMA BusyWrote ==
  ASSUME FsInv, NEW msgs \in Seq(FsMessages(cmd)), NEW f, Busy(f, spc, cur, Wrote(msgs)),
         \A n \in 1..Len(msgs) : ~(msgs[n].id = "SEND" /\ msgs[n].f = f)
  PROVE  Busy(f, spc, cur, ToService)
<1>1. ToService \in Seq(FsMessages(cmd))
  BY FsViews
<1>2. CASE Wrote(msgs) = ToService
  BY <1>2
<1>3. CASE Wrote(msgs) = ToService \o msgs
  BY <1>1, <1>3, BusyJoin
<1> QED BY <1>2, <1>3 DEF Wrote

LEMMA BusyWroteOne ==
  ASSUME FsInv, NEW m \in FsMessages(cmd), m.id # "SEND", NEW f, Busy(f, spc, cur, Wrote(<<m>>))
  PROVE  Busy(f, spc, cur, ToService)
<1>1. <<m>> \in Seq(FsMessages(cmd)) /\ \A n \in 1..Len(<<m>>) : <<m>>[n] = m
  BY FsOne
<1> QED BY <1>1, BusyWrote

\* The client asks the device to touch nothing but the file it is at.
LEMMA BusyClient ==
  ASSUME FsInv, FsGone, FsPlaces, Pushes, Client, NEW f, Busy(f, spc', cur', ToService')
  PROVE  Busy(f, spc, cur, ToService) \/ OnFile(f)'
<1>1. UNCHANGED <<spc, cur>>
  BY FsClientFrame DEF service
<1>2. CASE ToService' = ToService
  BY <1>1, <1>2
<1>3. CASE Start
  BY <1>1, <1>3, FvStart, BusyWroteOne, FsMsg
<1>4. CASE NextSource
  <2>1. PICK a \in Seq(Files) : ToService' = Wrote(Lstats(a)) \/ ToService' = ToService
    BY <1>4, FvNextPush DEF Pushes
  <2>2. Lstats(a) \in Seq(FsMessages(cmd)) /\ Len(Lstats(a)) = Len(a)
    BY FvLstats
  <2>3. \A n \in 1..Len(Lstats(a)) : Lstats(a)[n].id = "LSTAT"
    BY <2>2, FsMsg DEF Lstats
  <2> QED BY <1>1, <1>2, <2>1, <2>2, <2>3, BusyWrote
<1>5. CASE SendFile
  <2>1. Head(files) \in Files /\ cpc' \in {"large", "copydone"} /\ files' = files
    BY <1>5, FvSendFile DEF SendFile
  <2>2. CASE f = Head(files)
    BY <2>1, <2>2 DEF OnFile
  <2>3. CASE f # Head(files)
    <3>1. PICK g \in Files : g = Head(files)
      BY <2>1
    <3>2. Msg("SEND", g) \in FsMessages(cmd) /\ Msg("DATA", g) \in FsMessages(cmd) /\ Msg("DONE", g) \in FsMessages(cmd)
      BY <1>5, <3>1, FvSendFile
    <3>3. CASE ToService' = Wrote(<<Msg("SEND", g)>>)
      <4>1. \A n \in 1..Len(<<Msg("SEND", g)>>) : <<Msg("SEND", g)>>[n].f = g
        BY FsMsg
      <4>2. <<Msg("SEND", g)>> \in Seq(FsMessages(cmd))
        BY <3>2
      <4> QED BY <1>1, <2>3, <3>1, <3>3, <4>1, <4>2, BusyWrote
    <3>4. CASE ToService' = Wrote(<<Msg("SEND", g), Msg("DATA", g), Msg("DONE", g)>>)
      <4>1. PICK q : q = <<Msg("SEND", g), Msg("DATA", g), Msg("DONE", g)>>
        OBVIOUS
      <4>2. Len(q) = 3 /\ q[1].f = g /\ q[2].f = g /\ q[3].f = g
        BY <4>1, FsMsg
      <4>3. \A n \in 1..Len(q) : q[n].f = g
        BY <4>2
      <4>4. q \in Seq(FsMessages(cmd))
        BY <3>2, <4>1
      <4> QED BY <1>1, <2>3, <3>1, <3>4, <4>1, <4>3, <4>4, BusyWrote
    <3> QED BY <1>5, <3>1, <3>3, <3>4, FvSendFile
  <2> QED BY <2>2, <2>3
<1>6. CASE LargeChunk
  <2>1. PICK id \in {"DATA", "DONE"} : ToService' = Wrote(<<Msg(id, Head(files))>>) /\ Msg(id, Head(files)) \in FsMessages(cmd)
    BY <1>6, FvLargeChunk
  <2> QED BY <1>1, <2>1, BusyWroteOne, FsMsg
<1>7. CASE LargePoll
  <2>1. /\ ToService' = Wrote(<<Msg("DONE", Head(files))>>) \/ ToService' = ToService
        /\ Msg("DONE", Head(files)) \in FsMessages(cmd)
    BY <1>7, FvLargePoll
  <2> QED BY <1>1, <1>2, <2>1, BusyWroteOne, FsMsg
<1>8. CASE Quit
  BY <1>1, <1>8, FvQuit, BusyWroteOne, FsMsg
<1>9. CASE DstStat \/ StatFault \/ LstatReply \/ LocalReadFails \/ CopyOkay \/ CopyFails \/ SourceDone \/ Shutdown
           \/ ClientWriteFails \/ Transmit("client") \/ Swallow("client")
  BY <1>2, <1>9, FsSides, FvDstStat, FvStatFault, FvLstatReply, FvLocalReadFails, FvCopyOkay, FvCopyFails, FvSourceDone,
     FvShutdown, FvClientWriteFails, FsTransmitted, FsSwallowed
<1> QED BY <1>3, <1>4, <1>5, <1>6, <1>7, <1>8, <1>9, FsPushClient

LEMMA FsBusyClient ==
  ASSUME FsInv, FsGone, FsPlaces, FsHalf, FsHears, FsBusy, Client
  PROVE  FsBusy'
<1>1. /\ ok' => ok
      /\ reported \subseteq reported'
      /\ cpc' \in {"start", "dst"} => ok'
  BY FsRemembers
<1>2. UNCHANGED <<cmd, cut>>
  BY FsClientFrame DEF command
<1> SUFFICES ASSUME Pushes', NEW f \in Files, Busy(f, spc', cur', ToService'), ~OnFile(f)'
             PROVE  ~ok' /\ (cut' \/ cpc' = "killed" \/ f \in reported')
  BY <1>1 DEF FsBusy
<1>3. Pushes
  BY <1>2 DEF Pushes
<1>4. Busy(f, spc, cur, ToService)
  BY <1>3, BusyClient
<1>5. CASE ~OnFile(f)
  <2>1. ~ok /\ (cut \/ cpc = "killed" \/ f \in reported)
    BY <1>3, <1>4, <1>5 DEF FsBusy
  <2>2. cpc # "killed"
    BY <1>3, FsPushClient, FsGone DEF Start, DstStat, StatFault, NextSource, LstatReply, SendFile, LocalReadFails,
      LargeChunk, LargePoll, CopyOkay, CopyFails, SourceDone, Quit, Shutdown, ClientWriteFails, Transmit, Swallow,
      ClientIdle, FsGone, Running
  <2> QED BY <1>1, <1>2, <2>1, <2>2
<1>6. CASE OnFile(f)
  <2>1. cpc \in {"large", "poll", "copydone"} /\ f = Head(files) /\ Running
    BY <1>6 DEF OnFile, Running
  <2>2. eof["client"] => cut
    BY <1>4, FsEndedIdle
  <2>3. CASE LocalReadFails
    BY <2>1, <2>3 DEF LocalReadFails, GiveUp
  <2>4. CASE LargeChunk \/ LargePoll
    <3>1. cpc' \in {"large", "poll", "copydone"} /\ files' = files
      BY <2>4, FvLargeChunk, FvLargePoll DEF LargeChunk, LargePoll
    <3> QED BY <2>1, <3>1 DEF OnFile
  <2>5. CASE CopyOkay
    <3>1. ToClient # <<>> /\ ToClient[1].id = "OKAY"
      BY <2>5, FvCopyOkay
    <3>2. 1 \in 1..Len(ToClient)
      BY <3>1, FsViews, FsTail
    <3>3. Answered
      BY <1>3, <2>1, <3>1, <3>2 DEF FsHears, NoOkay
    <3> QED BY <1>4, <3>3 DEF Answered, Busy
  <2>6. CASE CopyFails
    <3>1. ok' = FALSE /\ cpc = "copydone"
      BY <2>6 DEF CopyFails, GiveUp, ClientIdle
    <3>2. CASE cut
      BY <1>2, <3>1, <3>2
    <3>3. CASE ~cut
      <4>1. ToClient # <<>> /\ ToClient[1].id # "OKAY" /\ ~eof["client"]
        BY <2>2, <2>6, <3>3, FvCopyFails
      <4>2. 1 \in 1..Len(ToClient)
        BY <4>1, FsViews, FsTail
      <4>3. ToClient[1].id = "FAIL" /\ ~ToClient[1].half
        BY <1>3, <2>1, <3>1, <3>3, <4>1, <4>2 DEF FsHears, Ids, FsHalf, Whole
      <4>4. f \in reported'
        BY <2>1, <2>6, <4>1, <4>3, FvCopyFails
      <4> QED BY <3>1, <4>4
    <3> QED BY <3>2, <3>3
  <2>7. CASE ClientWriteFails
    <3>1. eof["client"] /\ ok' = FALSE
      BY <2>1, <2>7 DEF ClientWriteFails, GiveUp
    <3> QED BY <1>2, <2>2, <3>1
  <2>8. CASE Transmit("client") \/ Swallow("client")
    <3>1. UNCHANGED <<cpc, files>>
      BY <2>8 DEF Transmit, Swallow, client
    <3> QED BY <2>1, <3>1 DEF OnFile
  <2>9. CASE Start \/ DstStat \/ StatFault \/ NextSource \/ LstatReply \/ SendFile \/ SourceDone \/ Quit \/ Shutdown
    BY <2>1, <2>9 DEF Start, DstStat, StatFault, NextSource, LstatReply, SendFile, SourceDone, Quit, Shutdown, ClientIdle
  <2> QED BY <1>3, <2>3, <2>4, <2>5, <2>6, <2>7, <2>8, <2>9, FsPushClient
<1> QED BY <1>5, <1>6

LEMMA FsBusyStep ==
  ASSUME FsInv, FsInv', FsGone, FsPlaces, FsHalf, FsHears, FsBusy, [FileSyncNext]_fileSyncVars
  PROVE  FsBusy'
<1>1. CASE Client
  BY <1>1, FsBusyClient
<1>2. CASE Service
  <2>1. UNCHANGED <<command, client, reported, cut>>
    BY <1>2, FsServiceFrame
  <2>2. \A f \in Files : OnFile(f)' <=> OnFile(f)
    BY <2>1 DEF OnFile, client
  <2>3. \A f : Busy(f, spc', cur', ToService') => Busy(f, spc, cur, ToService)
    BY <1>2, BusyService
  <2> QED BY <2>1, <2>2, <2>3 DEF FsBusy, command, client, Pushes
<1>3. CASE Kill
  BY <1>3 DEF Kill, FsBusy
<1>4. CASE Break
  <2>1. UNCHANGED <<command, client, service, reported>> /\ cut'
    BY <1>4 DEF Break
  <2>2. Shorter(ToService', ToService)
    BY <1>4, FsBroken
  <2>3. Len(ToService) \in Nat
    BY FsViews
  <2>4. Len(ToService') \in Nat
    <3>1. (Len(ToService) \in Nat /\ Len(ToClient) \in Nat)'
      BY FsLens, PTL
    <3> QED BY <3>1
  <2>5. \A f : Busy(f, spc', cur', ToService') => Busy(f, spc, cur, ToService)
    BY <2>1, <2>2, <2>3, <2>4, BusyShorter DEF service
  <2>6. \A f \in Files : OnFile(f)' <=> OnFile(f)
    BY <2>1 DEF OnFile, client
  <2> QED BY <2>1, <2>5, <2>6 DEF FsBusy, command, client, Pushes
<1>5. CASE DrainSpins \/ Finished \/ UNCHANGED fileSyncVars
  <2>1. UNCHANGED <<command, client, service, net, out, eof, cut, reported>>
    BY <1>5 DEF DrainSpins, Finished, fileSyncVars, history
  <2>2. ToService' = ToService
    BY <2>1, FsStill
  <2>3. \A f \in Files : OnFile(f)' <=> OnFile(f)
    BY <2>1 DEF OnFile, client
  <2> QED BY <2>1, <2>2, <2>3 DEF FsBusy, command, client, service, Pushes
<1> QED BY <1>1, <1>2, <1>3, <1>4, <1>5 DEF FileSyncNext

-----------------------------------------------------------------------------
(* A push or sync that has not failed forgets no file that it listed *)

In(f, s) == \E n \in 1..Len(s) : s[n] = f
Due(f, s) == \E n \in 1..Len(s) : In(f, FilesOf(s[n]))

Pending(f) == In(f, files) \/ In(f, asked) \/ Due(f, srcs)

FsSuccess ==
  Pushes /\ ok =>
    /\ \A f \in wanted : remote[f] = Complete(f) \/ Pending(f) \/ f \in unlisted
    /\ cpc \in {"start", "dst", "next", "large", "poll", "copydone", "send", "shutdown", "done"} => asked = <<>>
    /\ cpc \in {"start", "dst", "next", "shutdown", "done"} => files = <<>>
    /\ cpc \in {"shutdown", "done"} => srcs = <<>>
    /\ cpc # "quit"

LEMMA InTail ==
  ASSUME NEW S, NEW s \in Seq(S), s # <<>>, NEW f, In(f, s)
  PROVE  f = Head(s) \/ In(f, Tail(s))
<1>1. Len(s) \in Nat /\ Len(s) >= 1 /\ Len(Tail(s)) = Len(s) - 1 /\ \A n \in 1..Len(s) - 1 : Tail(s)[n] = s[n + 1]
  OBVIOUS
<1>2. PICK n \in 1..Len(s) : s[n] = f
  BY DEF In
<1>3. CASE n = 1
  BY <1>2, <1>3
<1>4. CASE n # 1
  <2>1. n - 1 \in 1..Len(s) - 1 /\ (n - 1) + 1 = n
    BY <1>1, <1>4
  <2> QED BY <1>1, <1>2, <2>1 DEF In
<1> QED BY <1>3, <1>4

LEMMA InHead == ASSUME NEW S, NEW s \in Seq(S), s # <<>> PROVE In(Head(s), s)
<1>1. 1 \in 1..Len(s) /\ s[1] = Head(s)
  OBVIOUS
<1> QED BY <1>1 DEF In

LEMMA InAppend ==
  ASSUME NEW S, NEW s \in Seq(S), NEW x \in S, NEW f, In(f, s) \/ f = x
  PROVE  In(f, Append(s, x))
<1>1. PICK q : q = Append(s, x)
  OBVIOUS
<1>2. /\ Len(q) = Len(s) + 1 /\ Len(s) \in Nat /\ q[Len(s) + 1] = x
      /\ \A n \in 1..Len(s) : q[n] = s[n]
  BY <1>1
<1>3. \A n \in 1..Len(s) : n \in 1..Len(q)
  BY <1>2
<1>4. Len(s) + 1 \in 1..Len(q)
  BY <1>2
<1> QED BY <1>1, <1>2, <1>3, <1>4 DEF In

LEMMA InNone == \A f : ~In(f, <<>>) /\ ~Due(f, <<>>)
BY DEF In, Due

LEMMA DueTail ==
  ASSUME NEW S, NEW s \in Seq(S), s # <<>>, NEW f, Due(f, s)
  PROVE  In(f, FilesOf(Head(s))) \/ Due(f, Tail(s))
<1>1. Len(s) \in Nat /\ Len(s) >= 1 /\ Len(Tail(s)) = Len(s) - 1 /\ \A n \in 1..Len(s) - 1 : Tail(s)[n] = s[n + 1]
  OBVIOUS
<1>2. PICK n \in 1..Len(s) : In(f, FilesOf(s[n]))
  BY DEF Due
<1>3. CASE n = 1
  BY <1>2, <1>3
<1>4. CASE n # 1
  <2>1. n - 1 \in 1..Len(s) - 1 /\ (n - 1) + 1 = n
    BY <1>1, <1>4
  <2> QED BY <1>1, <1>2, <2>1 DEF Due
<1> QED BY <1>3, <1>4

LEMMA FsSuccessInit == FileSyncInit => FsSuccess
<1> SUFFICES ASSUME FileSyncInit PROVE FsSuccess
  OBVIOUS
<1>1. cpc \in {"start", "next"} /\ files = <<>> /\ asked = <<>>
  BY DEF FileSyncInit
<1>2. ASSUME NEW f \in wanted PROVE Due(f, srcs)
  <2>1. PICK n \in 1..Len(srcs) : f \in ToSet(FilesOf(srcs[n]))
    BY <1>2 DEF FileSyncInit
  <2>2. FilesOf(srcs[n]) \in Seq(Files)
    <3>1. srcs \in Seq(Files \cup Dirs)
      BY FileSyncAssumption DEF FileSyncInit
    <3>2. srcs[n] \in Files \cup Dirs
      BY <3>1
    <3> QED BY <3>2, FsFilesOf
  <2>3. In(f, FilesOf(srcs[n]))
    BY <2>1, <2>2 DEF ToSet, In
  <2> QED BY <2>3 DEF Due
<1> QED BY <1>1, <1>2 DEF FsSuccess, Pending

LEMMA FsSuccessService ==
  ASSUME FsInv, FsBusy, FsSuccess, Service
  PROVE  FsSuccess'
<1>1. UNCHANGED <<command, client>>
  BY FsServiceFrame
<1> SUFFICES ASSUME Pushes', ok' PROVE FsSuccess'
  BY DEF FsSuccess
<1>2. Pushes /\ ok
  BY <1>1 DEF command, client, Pushes
<1>3. ASSUME NEW f \in wanted, ~Pending(f), f \notin unlisted PROVE remote'[f] = Complete(f)
  <2>1. f \in Files /\ remote[f] = Complete(f)
    BY <1>2, <1>3 DEF FsSuccess, FsInv, FsCommand
  <2>2. ~OnFile(f)
    <3> SUFFICES ASSUME OnFile(f) PROVE FALSE
      OBVIOUS
    <3>1. files # <<>> /\ files \in Seq(Files) /\ f = Head(files)
      BY DEF OnFile, FsInv, FsClient, FsClientTypes
    <3> QED BY <1>3, <3>1, InHead DEF Pending
  <2>3. ~Busy(f, spc, cur, ToService)
    BY <1>2, <2>1, <2>2 DEF FsBusy
  <2> QED BY <2>1, <2>3, BusyChanged
<1>4. \A f : Pending(f)' <=> Pending(f)
  BY <1>1 DEF Pending, client, In, Due
<1>5. unlisted \subseteq unlisted'
  BY FsGrow DEF FileSyncNext
<1> QED BY <1>1, <1>2, <1>3, <1>4, <1>5 DEF FsSuccess, command, client

\* The client stays in the same files.
LEMMA FsSuccessSame ==
  ASSUME FsSuccess, UNCHANGED <<command, remote, srcs, files, asked>>, unlisted \subseteq unlisted', ok' => ok,
         ok => \/ cpc' = cpc
               \/ cpc = "start" /\ cpc' = "dst"
               \/ cpc = "dst" /\ cpc' = "next"
               \/ cpc = "lstats" /\ cpc' = "send" /\ asked = <<>>
               \/ cpc \in {"send", "large", "poll"} /\ cpc' \in {"large", "poll", "copydone"}
               \/ cpc = "send" /\ cpc' = "next" /\ files = <<>>
               \/ cpc = "next" /\ cpc' = "shutdown" /\ srcs = <<>>
               \/ cpc = "shutdown" /\ cpc' = "done"
               \/ cpc = "quit"
  PROVE  FsSuccess'
<1> SUFFICES ASSUME Pushes', ok' PROVE FsSuccess'
  BY DEF FsSuccess
<1>1. Pushes /\ ok
  BY DEF command, Pushes
<1>2. \A f : Pending(f)' <=> Pending(f)
  BY DEF Pending, In, Due
<1>3. wanted' = wanted
  BY DEF command
<1> QED BY <1>1, <1>2, <1>3 DEF FsSuccess

LEMMA FsSuccessNext ==
  ASSUME FsInv, FsSuccess, Pushes, ok, ok', NextSource
  PROVE  FsSuccess'
<1>1. /\ cpc = "next" /\ srcs # <<>> /\ srcs' = Tail(srcs) /\ UNCHANGED <<wanted, remote>>
      /\ srcs \in Seq(Files \cup Dirs)
  BY DEF NextSource, ClientIdle, command, service, FsInv, FsClientTypes
<1>2. files = <<>> /\ asked = <<>>
  BY <1>1 DEF FsSuccess
<1>3. PICK list \in Seq(Files) :
        /\ unlisted' = unlisted \cup (ToSet(FilesOf(Head(srcs))) \ ToSet(list))
        /\ \/ asked' = list /\ cpc' = "lstats" /\ files' = files
           \/ files' = list /\ cpc' = "send" /\ asked' = asked
  BY FvNextPush DEF Pushes
<1>4. ASSUME NEW f, Pending(f), f \notin unlisted' PROVE Pending(f)'
  <2>1. Due(f, srcs)
    BY <1>2, <1>4, InNone DEF Pending
  <2>2. In(f, FilesOf(Head(srcs))) \/ Due(f, srcs')
    BY <1>1, <2>1, DueTail
  <2>3. In(f, FilesOf(Head(srcs))) => In(f, list)
    <3>1. FilesOf(Head(srcs)) \in Seq(Files)
      BY FvNextPush DEF Pushes
    <3>2. In(f, FilesOf(Head(srcs))) => f \in ToSet(FilesOf(Head(srcs)))
      BY <3>1 DEF In, ToSet
    <3>3. f \in ToSet(list) => In(f, list)
      BY <1>3 DEF In, ToSet
    <3> QED BY <1>3, <1>4, <3>2, <3>3
  <2> QED BY <1>3, <2>2, <2>3 DEF Pending, In, Due
<1>5. unlisted \subseteq unlisted'
  BY <1>3
<1> QED BY <1>1, <1>2, <1>3, <1>4, <1>5 DEF FsSuccess

LEMMA FsSuccessLstatReply ==
  ASSUME FsInv, FsHears, FsSuccess, Pushes, ok, ok', LstatReply
  PROVE  FsSuccess'
<1>1. cpc = "lstats" /\ UNCHANGED <<command, srcs, remote, eof, unlisted>>
  BY DEF LstatReply, ClientIdle, service, remains
<1>2. CASE asked = <<>> /\ cpc' = "send" /\ UNCHANGED <<files, asked>>
  BY <1>1, <1>2, FsSuccessSame
<1>3. CASE /\ asked # <<>> /\ ToClient # <<>> /\ ToClient[1].id = "ATTR"
           /\ files' = IF UpToDate(ToClient[1]) THEN files ELSE Append(files, Head(asked))
           /\ asked' = Tail(asked) /\ UNCHANGED cpc
  <2>1. asked \in Seq(Files) /\ files \in Seq(Files) /\ Head(asked) \in Files /\ Head(asked) = asked[1]
    BY <1>3 DEF FsInv, FsClientTypes
  <2>2. 1 \in 1..Len(ToClient)
    BY <1>3, FsViews, FsTail
  <2>3. Answers
    BY <1>1, <1>3, <2>2 DEF FsHears, Running, Ids
  <2>4. ToClient[1].res = "same" => remote[Head(asked)] = Complete(Head(asked))
    BY <2>1, <2>2, <2>3 DEF Answers
  <2>5. ASSUME NEW f, Pending(f), f # Head(asked) \/ ~UpToDate(ToClient[1]) PROVE Pending(f)'
    <3>1. CASE In(f, files)
      <4>1. In(f, files')
        BY <1>3, <2>1, <3>1, InAppend
      <4> QED BY <4>1 DEF Pending, In
    <3>2. CASE In(f, asked)
      <4>1. f = Head(asked) \/ In(f, asked')
        BY <1>3, <2>1, <3>2, InTail
      <4>2. CASE f = Head(asked)
        <5>1. files' = Append(files, Head(asked))
          BY <1>3, <2>5, <4>2
        <5>2. In(f, files')
          BY <2>1, <4>2, <5>1, InAppend
        <5> QED BY <5>2 DEF Pending, In
      <4> QED BY <4>1, <4>2 DEF Pending, In
    <3>3. CASE Due(f, srcs)
      BY <1>1, <3>3 DEF Pending, Due, In
    <3> QED BY <2>5, <3>1, <3>2, <3>3 DEF Pending
  <2>6. ASSUME NEW f \in wanted PROVE remote[f] = Complete(f) \/ Pending(f)' \/ f \in unlisted
    BY <2>4, <2>5, <2>6 DEF FsSuccess, UpToDate
  <2> QED BY <1>1, <1>3, <2>6 DEF FsSuccess, command
<1> QED BY <1>2, <1>3, FvLstatReply

LEMMA FsSuccessCopyOkay ==
  ASSUME FsInv, FsHears, FsSuccess, Pushes, ok, CopyOkay
  PROVE  FsSuccess'
<1>1. /\ cpc = "copydone" /\ cpc' = "send" /\ files' = Tail(files)
      /\ UNCHANGED <<command, srcs, asked, remote, ok, unlisted>>
  BY DEF CopyOkay, ClientIdle, service, remains
<1>2. files # <<>> /\ files \in Seq(Files)
  BY <1>1 DEF FsInv, FsClient, FsClientTypes
<1>3. ToClient # <<>> /\ ToClient[1].id = "OKAY"
  BY FvCopyOkay
<1>4. 1 \in 1..Len(ToClient)
  BY <1>3, FsViews, FsTail
<1>5. remote[Head(files)] = Complete(Head(files))
  BY <1>1, <1>3, <1>4 DEF FsHears, Running, NoOkay, Answered
<1>6. ASSUME NEW f, Pending(f), f # Head(files) PROVE Pending(f)'
  <2>1. In(f, files) => In(f, files')
    BY <1>1, <1>2, <1>6, InTail
  <2> QED BY <1>1, <1>6, <2>1 DEF Pending, In, Due
<1> QED BY <1>1, <1>5, <1>6 DEF FsSuccess, command

\* All that was wanted is there when the client ends.
LEMMA FsSuccessEnds ==
  ASSUME FsSuccess, cpc = "shutdown", UNCHANGED <<command, remote, ok>>, unlisted \subseteq unlisted', cpc' = "done", srcs' = <<>>, files' = <<>>, asked' = <<>>
  PROVE  FsSuccess'
<1> SUFFICES ASSUME Pushes', ok' PROVE FsSuccess'
  BY DEF FsSuccess
<1>1. Pushes /\ ok
  BY DEF command, Pushes
<1>2. srcs = <<>> /\ files = <<>> /\ asked = <<>>
  BY <1>1 DEF FsSuccess
<1>3. UNCHANGED <<srcs, files, asked>>
  BY <1>2
<1> QED BY <1>1, <1>3, FsSuccessSame

LEMMA FsSuccessClient ==
  ASSUME FsInv, FsPlaces, FsBusy, FsHears, FsSuccess, Client
  PROVE  FsSuccess'
<1> SUFFICES ASSUME Pushes', ok' PROVE FsSuccess'
  BY DEF FsSuccess
<1>1. Pushes /\ ok
  <2>1. ok
    BY FsRemembers
  <2> QED BY <2>1, FsClientFrame DEF Pushes, command
<1>2. remote' = remote /\ unlisted \subseteq unlisted'
  BY FsClientFrame, FsGrow DEF service, FileSyncNext
<1>3. CASE Start
  <2>1. cpc = "start" /\ cpc' = "dst" /\ UNCHANGED <<command, srcs, files, asked>>
    BY <1>3 DEF Start, ClientIdle
  <2> QED BY <1>1, <1>2, <2>1, FsSuccessSame
<1>4. CASE DstStat
  <2>1. cpc = "dst" /\ UNCHANGED <<command, srcs, files, asked>> /\ cpc' = "next"
    BY <1>4, FvDstStat DEF DstStat, ClientIdle
  <2> QED BY <1>1, <1>2, <2>1, FsSuccessSame
<1>5. CASE NextSource
  BY <1>1, <1>5, FsSuccessNext
<1>6. CASE LstatReply
  BY <1>1, <1>6, FsSuccessLstatReply
<1>7. CASE SendFile \/ LargeChunk \/ LargePoll
  <2>1. cpc \in {"send", "large", "poll"} /\ cpc' \in {"large", "poll", "copydone"} /\ UNCHANGED <<command, srcs, files, asked>>
    BY <1>7, FvSendFile, FvLargeChunk, FvLargePoll DEF SendFile, LargeChunk, LargePoll, ClientIdle
  <2> QED BY <1>1, <1>2, <2>1, FsSuccessSame
<1>8. CASE CopyOkay
  BY <1>1, <1>8, FsSuccessCopyOkay
<1>9. CASE SourceDone
  <2>1. cpc \in {"send", "recv"} /\ files = <<>> /\ cpc' = "next" /\ UNCHANGED <<command, srcs, files, asked>>
    BY <1>9 DEF SourceDone, ClientIdle
  <2>2. cpc = "send"
    BY <1>1, <2>1 DEF FsPlaces
  <2> QED BY <1>1, <1>2, <2>1, <2>2, FsSuccessSame
<1>10. CASE Quit
  <2>1. cpc = "quit" \/ (cpc = "next" /\ srcs = <<>>)
    BY <1>10 DEF Quit, ClientIdle
  <2>2. cpc # "quit"
    BY <1>1 DEF FsSuccess
  <2>3. cpc' = "shutdown" /\ UNCHANGED <<command, srcs, files, asked>>
    BY <1>10 DEF Quit
  <2> QED BY <1>1, <1>2, <2>1, <2>2, <2>3, FsSuccessSame
<1>11. CASE Shutdown
  BY <1>2, <1>11, FsSuccessEnds DEF Shutdown, ClientIdle, ClientEnds
<1>12. CASE ClientWriteFails
  <2>1. cpc = "shutdown" \/ cpc = "lnstat"
    BY <1>12 DEF ClientWriteFails, GiveUp
  <2>2. cpc = "shutdown"
    BY <1>1, <2>1 DEF FsPlaces
  <2>3. /\ cpc' = "done" /\ srcs' = <<>> /\ files' = <<>> /\ asked' = <<>> /\ UNCHANGED <<command, ok>>
    BY <1>12, <2>2 DEF ClientWriteFails, ClientEnds
  <2> QED BY <1>2, <2>2, <2>3, FsSuccessEnds
<1>13. CASE StatFault \/ LocalReadFails \/ CopyFails
  BY <1>13 DEF StatFault, LocalReadFails, CopyFails, GiveUp
<1>14. CASE Transmit("client") \/ Swallow("client")
  <2>1. UNCHANGED <<command, client>>
    BY <1>14 DEF Transmit, Swallow
  <2> QED BY <1>1, <1>2, <2>1, FsSuccessSame DEF client
<1> QED BY <1>1, <1>3, <1>4, <1>5, <1>6, <1>7, <1>8, <1>9, <1>10, <1>11, <1>12, <1>13, <1>14, FsPushClient

LEMMA FsSuccessStep ==
  ASSUME FsInv, FsPlaces, FsBusy, FsHears, FsSuccess, [FileSyncNext]_fileSyncVars
  PROVE  FsSuccess'
<1>1. CASE Client
  BY <1>1, FsSuccessClient
<1>2. CASE Service
  BY <1>2, FsSuccessService
<1>3. CASE Kill
  BY <1>3 DEF Kill, FsSuccess
<1>4. CASE Break \/ DrainSpins \/ Finished \/ UNCHANGED fileSyncVars
  <2>1. UNCHANGED <<command, client, service>> /\ unlisted \subseteq unlisted'
    BY <1>4, FsGrow DEF Break, DrainSpins, Finished, fileSyncVars
  <2> QED BY <2>1, FsSuccessSame DEF client, service
<1> QED BY <1>1, <1>2, <1>3, <1>4 DEF FileSyncNext

FsCopy == FsHalf /\ FsHears /\ FsBusy /\ FsSuccess

LEMMA FsCopyInv == FileSyncSpec => [](FsInv /\ FsPush /\ FsCopy)
<1>1. FileSyncInit => FsCopy
  BY FsHalfInit, FsHearsInit, FsBusyInit, FsSuccessInit DEF FsCopy
<1>2. FsInv /\ FsPush /\ FsCopy /\ (FsInv /\ FsPush)' /\ [FileSyncNext]_fileSyncVars => FsCopy'
  <2> SUFFICES ASSUME FsInv, FsPush, FsCopy, FsInv', FsPush', [FileSyncNext]_fileSyncVars
               PROVE  FsCopy'
    OBVIOUS
  <2> USE DEF FsPush, FsCopy
  <2>1. FsHalf'
    BY FsHalfStep
  <2>2. FsHears'
    BY HearsStep
  <2>3. FsBusy'
    BY FsBusyStep
  <2>4. FsSuccess'
    BY FsSuccessStep
  <2> QED BY <2>1, <2>2, <2>3, <2>4
<1> QED BY <1>1, <1>2, FsPushInv, PTL DEF FileSyncSpec

\* What is complete has nothing of another version behind it, unless that
\* could not be unlinked.
LEMMA FsStored ==
  ASSUME FsRemains, NEW f \in Files, remote[f] = Complete(f)
  PROVE  Stored(f)
<1>1. remote[f] # Absent
  BY FsCompletes, FsNoSeq
<1> QED BY <1>1 DEF FsRemains, Stored

\* When do_sync_push or do_sync_sync returns true, every file of every source
\* that local_build_list listed is complete on the device, sent now or found up
\* to date: no file is dropped between the list, the lstats, the transfer and
\* CopyDone (file_sync_client.cpp), none is touched after it was acknowledged,
\* and nothing of an older version is behind it unless do_send's adb_unlink
\* failed (file_sync_service.cpp).
THEOREM SuccessMeansComplete == FileSyncSpec => []SuccessIsComplete
<1>1. FsInv /\ FsRemains /\ FsSuccess => SuccessIsComplete
  <2> SUFFICES ASSUME FsInv, FsRemains, FsSuccess, Pushes, cpc = "done", ok, NEW f \in wanted \ unlisted
               PROVE  Stored(f)
    BY DEF SuccessIsComplete, Pushes
  <2>1. files = <<>> /\ asked = <<>> /\ srcs = <<>>
    BY DEF FsSuccess
  <2>2. f \in Files /\ remote[f] = Complete(f)
    BY <2>1, InNone DEF FsSuccess, Pending, FsInv, FsCommand
  <2> QED BY <2>2, FsStored
<1>2. FsCopy /\ FsPush => FsSuccess /\ FsRemains
  BY DEF FsCopy, FsPush
<1> QED BY <1>1, <1>2, FsCopyInv, PTL
=============================================================================
