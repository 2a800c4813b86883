--------------------------- MODULE FileCopyProofs ---------------------------
(***************************************************************************)
(* Theorems about adb pull and ls, about why a copy fails, and about the   *)
(* files a command leaves complete: FileSync, for any set of files and     *)
(* directories, any sources and any capacity of the stream.                *)
(***************************************************************************)
EXTENDS FileSyncProofs

-----------------------------------------------------------------------------
(* What goes on in an open stream: pull and ls *)

\* A directory: the request, the entries, the end.
Listing ==
  \/ spc = "idle" /\ Len(ToService) = 1 /\ ToService[1].id = "LIST" /\ ToClient = <<>>
  \/ spc = "list" /\ ToService = <<>> /\ Ids(ToClient, {"DENT"})
  \/ /\ Between /\ ToClient # <<>> /\ ToClient[Len(ToClient)].id = "DONE"
     /\ \A n \in 1..Len(ToClient) - 1 : ToClient[n].id = "DENT"

\* The same for a file f of which the client has got chunks.
Receiving(f, got) ==
  \/ /\ spc = "idle" /\ Len(ToService) = 1 /\ ToService[1].id = "RECV" /\ ToService[1].f = f
     /\ ToClient = <<>> /\ got = 0
  \/ /\ spc = "read" /\ ToService = <<>> /\ Ids(ToClient, {"DATA"})
     /\ got + Len(ToClient) + Len(rest) = Chunks[f]
     /\ \A n \in 1..Len(rest) : rest[n] = f
  \/ /\ Between /\ ToClient # <<>> /\ ToClient[Len(ToClient)].id = "DONE"
     /\ \A n \in 1..Len(ToClient) - 1 : ToClient[n].id = "DATA"

Got == IF cpc = "recvdata" THEN Len(local[Head(files)]) ELSE 0

\* The client has left a file: what comes is not the answer to a stat.
Left ==
  /\ trouble
  /\ ToClient # <<>> => ToClient[1].id # "ATTR"
  /\ ToClient = <<>> => spc = "read" \/ (spc = "idle" /\ ToService # <<>> /\ ToService[1].id = "RECV")

FsPullTalk ==
  ~Pushes /\ Open =>
    /\ cpc = "next" => (Between /\ ToClient = <<>>) \/ (cmd = "pull" /\ Left)
    /\ cpc = "srcstat" => AskedStat \/ Left
    /\ cpc = "ls" => Listing
    /\ cpc \in {"links", "recv", "quit"} => Between /\ ToClient = <<>>
    /\ cpc = "lnstat" => AskedStat
    /\ cpc \in {"creat", "recvdata"} => Receiving(Head(files), Got)

LEMMA FsPullTalkInit == FileSyncInit => FsPullTalk
<1> SUFFICES ASSUME FileSyncInit PROVE FsPullTalk
  OBVIOUS
<1>1. net["service"] = <<>> /\ out["service"] = <<>> /\ net["client"] = <<>> /\ out["client"] = <<>> /\ spc = "idle"
      /\ cpc \in {"start", "next"}
  BY FsSides DEF FileSyncInit
<1>2. ToService = <<>> /\ ToClient = <<>>
  BY <1>1 DEF ToService, ToClient
<1> QED BY <1>1, <1>2 DEF FsPullTalk, Between

\* What the service does of a pull or ls and goes on
LEMMA FsServesPull ==
  ASSUME FsInv, FsGone, FsAsks, ~Pushes, Service, ~Failing'
  PROVE  \/ ToService' = ToService /\ ToClient' = ToClient /\ UNCHANGED service
         \/ ServeStat \/ ServeList \/ ListEntry
         \/ ServeRecv /\ spc' = "read"
         \/ SendChunk /\ spc' \in {"read", "idle"}
<1>1. ~ServeSend
  BY FvServeSend, FsAsked
<1>2. spc \in {"idle", "list", "read", "closing", "closed"}
  BY DEF FsAsks
<1>3. CASE FileData \/ FileDone \/ FileInvalid \/ Drain \/ Abort \/ LinkData \/ LinkDone \/ LinkFails
  BY <1>2, <1>3, FvFileData, FvFileDone, FvFileInvalid, FvDrain, FvLinkData, FvLinkDone, FvLinkFails DEF Abort, ServiceIdle
<1>4. CASE Close \/ ServeQuit \/ BadRequest
  BY <1>4, FvServeQuit, FvBadRequest DEF Close, CloseStream, Failing
<1>5. CASE ServiceWriteFails
  BY <1>2, <1>5 DEF ServiceWriteFails, Failing
<1>6. CASE Transmit("service") \/ Swallow("service")
  <2>1. UNCHANGED service
    BY <1>6 DEF Transmit, Swallow
  <2> QED BY <1>6, <2>1, FsSides, FsTransmitted, FsSwallowed
<1>7. CASE ServeRecv
  BY <1>7, FvServeRecv DEF Failing
<1>8. CASE SendChunk
  BY <1>8, FvSendChunk DEF Failing
<1> QED BY <1>1, <1>3, <1>4, <1>5, <1>6, <1>7, <1>8 DEF Service

LEMMA PullsRest ==
  ASSUME FsInv, FsGone, FsAsks, ~Pushes, Service, ~Failing', Between
  PROVE  Between' /\ ToClient' = ToClient /\ UNCHANGED service
<1>1. ToService = <<>> /\ spc = "idle"
  BY DEF Between
<1>2. ToService' = ToService /\ ToClient' = ToClient /\ UNCHANGED service
  BY <1>1, FsServesPull, FvServeStat, FvServeList, FvListEntry, FvServeRecv, FvSendChunk
<1> QED BY <1>1, <1>2 DEF Between, service

LEMMA PullsStat ==
  ASSUME FsInv, FsGone, FsAsks, ~Pushes, Service, ~Failing', AskedStat, ~eof["service"]
  PROVE  AskedStat'
<1>1. CASE ToService = <<>>
  <2>1. Between
    BY <1>1 DEF AskedStat, Between
  <2>2. Between' /\ ToClient' = ToClient
    BY <2>1, PullsRest
  <2> QED BY <1>1, <2>2 DEF AskedStat, Between
<1>2. CASE ToService # <<>>
  <2>1. Len(ToService) = 1 /\ ToService[1].id = "STAT" /\ ToClient = <<>> /\ spc = "idle"
    BY <1>2 DEF AskedStat
  <2>2. CASE ToService' = ToService /\ ToClient' = ToClient /\ UNCHANGED service
    BY <2>1, <2>2 DEF AskedStat, service
  <2>3. CASE ServeStat
    <3>1. PICK r : /\ ToService' = Tail(ToService) /\ ToClient' = Said(Attr(ToService[1].f, r))
                   /\ Attr(ToService[1].f, r) \in FsMessages(cmd)
      BY <2>3, FvServeStat
    <3>2. ToService' = <<>>
      BY <2>1, <3>1, FsOne1, FsViews
    <3>3. Len(ToClient') = 1 /\ ToClient'[1].id = "ATTR"
      BY <2>1, <3>1, FsSaid, FsAttr
    <3>4. spc' = "idle"
      BY <2>1, <2>3, FvServeStat DEF service
    <3> QED BY <3>2, <3>3, <3>4 DEF AskedStat
  <2> QED BY <2>1, <2>2, <2>3, FsServesPull, FvServeList, FvListEntry, FvServeRecv, FvSendChunk
<1> QED BY <1>1, <1>2

\* Entries, or chunks, that end with DONE
LEMMA FsMore ==
  ASSUME FsInv, ~eof["service"], NEW id, Ids(ToClient, {id}), NEW m \in FsMessages(cmd), ToClient' = Said(m)
  PROVE  /\ Len(ToClient') = Len(ToClient) + 1 /\ ToClient' # <<>>
         /\ m.id = id => Ids(ToClient', {id})
         /\ m.id = "DONE" => /\ ToClient'[Len(ToClient')].id = "DONE"
                             /\ \A n \in 1..Len(ToClient') - 1 : ToClient'[n].id = id
<1>1. Len(ToClient) \in Nat
  BY FsViews
<1>2. Len(ToClient') = Len(ToClient) + 1 /\ ToClient'[Len(ToClient) + 1] = m /\ \A n \in 1..Len(ToClient) : ToClient'[n] = ToClient[n]
  BY FsSaid
<1>3. \A n \in 1..Len(ToClient) : ToClient'[n].id = id
  BY <1>2 DEF Ids
<1>4. Len(ToClient') - 1 = Len(ToClient) /\ Len(ToClient') # 0
  BY <1>1, <1>2
<1>5. \A n \in 1..Len(ToClient') : n \in 1..Len(ToClient) \/ n = Len(ToClient) + 1
  BY <1>1, <1>2
<1>6. m.id = id => Ids(ToClient', {id})
  BY <1>2, <1>3, <1>5 DEF Ids
<1>7. ToClient' # <<>>
  BY <1>4
<1> QED BY <1>2, <1>3, <1>4, <1>6, <1>7

LEMMA PullsList ==
  ASSUME FsInv, FsGone, FsAsks, ~Pushes, Service, ~Failing', Listing, ~eof["service"]
  PROVE  Listing'
<1>1. ToService \in Seq(FsMessages(cmd))
  BY FsViews
<1>2. CASE spc = "idle" /\ Len(ToService) = 1 /\ ToService[1].id = "LIST" /\ ToClient = <<>>
  <2>1. ToService # <<>> /\ Tail(ToService) = <<>>
    BY <1>1, <1>2, FsOne1
  <2>2. CASE ToService' = ToService /\ ToClient' = ToClient /\ UNCHANGED service
    BY <1>2, <2>2 DEF Listing, service
  <2>3. CASE ServeList
    <3>1. CASE spc' = "list" /\ ToClient' = ToClient
      <4>1. Len(ToClient') = 0 /\ ToService' = <<>>
        BY <1>2, <2>1, <2>3, <3>1, FvServeList
      <4> QED BY <3>1, <4>1 DEF Listing, Ids
    <3>2. CASE spc' = spc /\ ToClient' = Said(Msg("DONE", ToService[1].f)) /\ Msg("DONE", ToService[1].f) \in FsMessages(cmd)
      <4>1. ToService' = <<>>
        BY <2>1, <2>3, FvServeList
      <4>2. Ids(ToClient, {"DENT"})
        <5>1. Len(ToClient) = 0
          BY <1>2
        <5> QED BY <5>1 DEF Ids
      <4>3. PICK m \in FsMessages(cmd) : m.id = "DONE" /\ ToClient' = Said(m)
        BY <3>2, FsMsg
      <4>4. /\ ToClient' # <<>> /\ ToClient'[Len(ToClient')].id = "DONE"
            /\ \A n \in 1..Len(ToClient') - 1 : ToClient'[n].id = "DENT"
        BY <4>2, <4>3, FsMore
      <4> QED BY <1>2, <3>2, <4>1, <4>4 DEF Listing, Between
    <3> QED BY <2>3, <3>1, <3>2, FvServeList
  <2> QED BY <1>2, <2>2, <2>3, FsServesPull, FvServeStat, FvListEntry, FvServeRecv, FvSendChunk
<1>3. CASE spc = "list" /\ ToService = <<>> /\ Ids(ToClient, {"DENT"})
  <2>1. CASE ToService' = ToService /\ ToClient' = ToClient /\ UNCHANGED service
    BY <1>3, <2>1 DEF Listing, service, Ids
  <2>2. CASE ListEntry
    <3>1. CASE ToClient' = ToClient /\ spc' = spc
      <4>1. ToService' = ToService
        BY <2>2, FvListEntry
      <4> QED BY <1>3, <3>1, <4>1 DEF Listing, Ids
    <3>2. CASE ~(ToClient' = ToClient /\ spc' = spc)
      <4>1. PICK m \in FsMessages(cmd) : /\ ToClient' = Said(m)
                                         /\ \/ m.id = "DENT" /\ spc' = spc
                                            \/ m.id = "DONE" /\ spc' = "idle"
        BY <2>2, <3>2, FvListEntry, FsMsg
      <4>2. ToService' = <<>>
        BY <1>3, <2>2, FvListEntry
      <4>3. CASE m.id = "DENT" /\ spc' = spc
        <5>1. Ids(ToClient', {"DENT"})
          BY <1>3, <4>1, <4>3, FsMore
        <5> QED BY <1>3, <4>2, <4>3, <5>1 DEF Listing, Ids
      <4>4. CASE m.id = "DONE" /\ spc' = "idle"
        <5>1. /\ ToClient' # <<>> /\ ToClient'[Len(ToClient')].id = "DONE"
              /\ \A n \in 1..Len(ToClient') - 1 : ToClient'[n].id = "DENT"
          BY <1>3, <4>1, <4>4, FsMore
        <5> QED BY <4>2, <4>4, <5>1 DEF Listing, Between
      <4> QED BY <4>1, <4>3, <4>4
    <3> QED BY <3>1, <3>2
  <2> QED BY <1>3, <2>1, <2>2, FsServesPull, FvServeStat, FvServeList, FvServeRecv, FvSendChunk
<1>4. CASE /\ Between /\ ToClient # <<>> /\ ToClient[Len(ToClient)].id = "DONE"
           /\ \A n \in 1..Len(ToClient) - 1 : ToClient[n].id = "DENT"
  BY <1>4, PullsRest DEF Listing
<1> QED BY <1>2, <1>3, <1>4 DEF Listing

LEMMA PullsFile ==
  ASSUME FsInv, FsGone, FsAsks, FsSources, ~Pushes, Service, ~Failing', NEW f \in Files, NEW got \in Nat, Receiving(f, got),
         ~eof["service"]
  PROVE  Receiving(f, got)'
<1>1. ToService \in Seq(FsMessages(cmd)) /\ Len(ToClient) \in Nat /\ Chunks[f] \in Nat
  BY FsViews, FsChunks
<1>2. CASE spc = "idle" /\ Len(ToService) = 1 /\ ToService[1].id = "RECV" /\ ToService[1].f = f /\ ToClient = <<>> /\ got = 0
  <2>1. ToService # <<>> /\ Tail(ToService) = <<>>
    BY <1>1, <1>2, FsOne1
  <2>2. CASE ToService' = ToService /\ ToClient' = ToClient /\ UNCHANGED service
    BY <1>2, <2>2 DEF Receiving, service
  <2>3. CASE ServeRecv /\ spc' = "read"
    <3>1. rest' = remote[f] /\ ToClient' = <<>> /\ ToService' = <<>>
      BY <1>2, <2>1, <2>3, FvServeRecv
    <3>2. PICK r : r = rest'
      OBVIOUS
    <3>3. r = Complete(f)
      BY <3>1, <3>2 DEF FsSources
    <3>4. Len(r) = Chunks[f] /\ \A n \in 1..Len(r) : r[n] = f
      BY <1>1, <3>3 DEF Complete
    <3>5. Len(ToClient') = 0
      BY <3>1
    <3>6. got + Len(ToClient') + Len(r) = Chunks[f]
      BY <1>1, <1>2, <3>4, <3>5
    <3>7. Ids(ToClient', {"DATA"})
      BY <3>5 DEF Ids
    <3> QED BY <2>3, <3>1, <3>2, <3>4, <3>6, <3>7 DEF Receiving, Ids
  <2> QED BY <1>2, <2>2, <2>3, FsServesPull, FvServeStat, FvServeList, FvListEntry, FvSendChunk
<1>3. CASE /\ spc = "read" /\ ToService = <<>> /\ Ids(ToClient, {"DATA"})
           /\ got + Len(ToClient) + Len(rest) = Chunks[f]
           /\ \A n \in 1..Len(rest) : rest[n] = f
  <2>1. CASE ToService' = ToService /\ ToClient' = ToClient /\ UNCHANGED service
    BY <1>3, <2>1 DEF Receiving, service, Ids
  <2>2. CASE SendChunk /\ spc' = "read"
    <3>1. PICK m \in FsMessages(cmd) : /\ ToClient' = Said(m) /\ m.id = "DATA" /\ rest # <<>> /\ rest' = Tail(rest)
      BY <2>2, FvSendChunk, FsMsg
    <3>2. ToService' = <<>>
      BY <1>3, <2>2, FvSendChunk
    <3>3. Ids(ToClient', {"DATA"}) /\ Len(ToClient') = Len(ToClient) + 1
      BY <1>3, <3>1, FsMore
    <3>4. rest \in Seq(Files)
      BY DEF FsInv, FsServiceTypes
    <3>5. PICK r : r = rest'
      OBVIOUS
    <3>6. Len(r) = Len(rest) - 1 /\ Len(rest) \in Nat /\ \A n \in 1..Len(rest) - 1 : r[n] = rest[n + 1] /\ n + 1 \in 1..Len(rest)
      BY <3>1, <3>4, <3>5
    <3>7. \A n \in 1..Len(r) : r[n] = f
      BY <1>3, <3>6
    <3>8. got + Len(ToClient') + Len(r) = Chunks[f]
      <4>1. got + Len(ToClient) + Len(rest) = Chunks[f] /\ Len(r) = Len(rest) - 1 /\ Len(rest) \in Nat
        BY <1>3, <3>6
      <4>2. Len(ToClient') = Len(ToClient) + 1 /\ Len(ToClient) \in Nat
        BY <1>1, <3>3
      <4> QED BY <4>1, <4>2
    <3> QED BY <2>2, <3>2, <3>3, <3>5, <3>7, <3>8 DEF Receiving, Ids
  <2>3. CASE SendChunk /\ spc' = "idle"
    <3>1. PICK m \in FsMessages(cmd) : ToClient' = Said(m) /\ m.id = "DONE"
      BY <1>3, <2>3, FvSendChunk, FsMsg
    <3>2. ToService' = <<>>
      BY <1>3, <2>3, FvSendChunk
    <3>3. /\ ToClient' # <<>> /\ ToClient'[Len(ToClient')].id = "DONE"
          /\ \A n \in 1..Len(ToClient') - 1 : ToClient'[n].id = "DATA"
      BY <1>3, <3>1, FsMore
    <3> QED BY <2>3, <3>2, <3>3 DEF Receiving, Between
  <2> QED BY <1>3, <2>1, <2>2, <2>3, FsServesPull, FvServeStat, FvServeList, FvListEntry, FvServeRecv
<1>4. CASE /\ Between /\ ToClient # <<>> /\ ToClient[Len(ToClient)].id = "DONE"
           /\ \A n \in 1..Len(ToClient) - 1 : ToClient[n].id = "DATA"
  BY <1>4, PullsRest DEF Receiving
<1> QED BY <1>2, <1>3, <1>4 DEF Receiving

LEMMA PullsLeft ==
  ASSUME FsInv, FsGone, FsAsks, ~Pushes, Service, ~Failing', Left, ~eof["service"], trouble'
  PROVE  Left'
<1>1. Len(ToClient) \in Nat /\ (ToClient # <<>> => 1 \in 1..Len(ToClient))
  BY FsViews, FsTail
<1>2. CASE ToService' = ToService /\ ToClient' = ToClient /\ UNCHANGED service
  BY <1>2 DEF Left, service
<1>3. ASSUME NEW m \in FsMessages(cmd), ToClient' = Said(m), m.id # "ATTR" \/ ToClient # <<>> PROVE Left'
  <2>1. Len(ToClient') = Len(ToClient) + 1 /\ ToClient'[Len(ToClient) + 1] = m /\ \A n \in 1..Len(ToClient) : ToClient'[n] = ToClient[n]
    BY <1>3, FsSaid
  <2>2. ToClient' # <<>>
    <3>1. Len(ToClient') # 0
      BY <1>1, <2>1
    <3> QED BY <3>1
  <2>3. ToClient'[1].id # "ATTR"
    <3>1. CASE ToClient # <<>>
      BY <1>1, <2>1, <3>1 DEF Left
    <3>2. CASE ToClient = <<>>
      BY <1>3, <3>2, FsSaid
    <3> QED BY <3>1, <3>2
  <2> QED BY <2>2, <2>3 DEF Left
<1>4. CASE ToClient = <<>> /\ spc = "read"
  <2>1. CASE SendChunk /\ spc' \in {"read", "idle"}
    <3>1. PICK m \in FsMessages(cmd) : ToClient' = Said(m) /\ m.id \in {"DATA", "DONE"}
      BY <2>1, FvSendChunk, FsMsg
    <3> QED BY <1>3, <3>1
  <2> QED BY <1>2, <1>4, <2>1, FsServesPull, FvServeStat, FvServeList, FvListEntry, FvServeRecv
<1>5. CASE ToClient = <<>> /\ spc = "idle" /\ ToService # <<>> /\ ToService[1].id = "RECV"
  <2>1. CASE ServeRecv /\ spc' = "read"
    <3>1. ToClient' = <<>>
      BY <1>5, <2>1, FvServeRecv
    <3> QED BY <2>1, <3>1 DEF Left
  <2> QED BY <1>2, <1>5, <2>1, FsServesPull, FvServeStat, FvServeList, FvListEntry, FvSendChunk
<1>6. CASE ToClient # <<>>
  <2>1. CASE ToClient' = ToClient
    BY <1>6, <2>1 DEF Left
  <2>2. CASE ToClient' # ToClient
    <3>1. \E m \in FsMessages(cmd) : ToClient' = Said(m)
      BY <2>2, FsServesPull, FvServeStat, FvServeList, FvListEntry, FvServeRecv, FvSendChunk
    <3> QED BY <1>3, <1>6, <3>1
  <2> QED BY <2>1, <2>2
<1> QED BY <1>4, <1>5, <1>6 DEF Left

LEMMA FsGot == FsInv => Got \in Nat
<1> SUFFICES ASSUME FsInv PROVE Got \in Nat
  OBVIOUS
<1>1. cpc = "recvdata" => Len(local[Head(files)]) \in Nat
  BY DEF FsInv, FsClient
<1> QED BY <1>1 DEF Got

LEMMA FsAtFile ==
  FsInv => (cpc \in {"large", "poll", "copydone", "creat", "recvdata"} => /\ files # <<>> /\ files \in Seq(Files)
                                                                         /\ Head(files) \in Files)
<1> SUFFICES ASSUME FsInv, cpc \in {"large", "poll", "copydone", "creat", "recvdata"}
             PROVE  files # <<>> /\ files \in Seq(Files) /\ Head(files) \in Files
  OBVIOUS
<1>1. files # <<>> /\ files \in Seq(Files)
  BY DEF FsInv, FsClient, FsClientTypes
<1> QED BY <1>1

LEMMA FsPullTalkService ==
  ASSUME FsInv, FsGone, FsAsks, FsSources, FsPullTalk, Service
  PROVE  FsPullTalk'
<1> SUFFICES ASSUME ~Pushes', Open' PROVE FsPullTalk'
  BY DEF FsPullTalk
<1>1. Open /\ ~eof["service"] /\ UNCHANGED <<command, client>> /\ ~Failing'
  BY FsOpenService
<1>2. ~Pushes /\ UNCHANGED <<cmd, cpc, files, local>>
  BY <1>1 DEF command, client, Pushes
<1>3. ASSUME Left PROVE Left'
  <2>1. trouble'
    BY <1>3, FsTroubleStays DEF FileSyncNext, Left
  <2> QED BY <1>1, <1>2, <1>3, <2>1, PullsLeft
<1>4. ASSUME Between PROVE Between' /\ ToClient' = ToClient
  BY <1>1, <1>2, <1>4, PullsRest
<1>5. ASSUME AskedStat PROVE AskedStat'
  BY <1>1, <1>2, <1>5, PullsStat
<1>6. CASE cpc = "next"
  BY <1>1, <1>2, <1>3, <1>4, <1>6 DEF FsPullTalk
<1>7. CASE cpc = "srcstat"
  BY <1>1, <1>2, <1>3, <1>5, <1>7 DEF FsPullTalk
<1>8. CASE cpc = "ls"
  <2>1. Listing'
    BY <1>1, <1>2, <1>8, PullsList DEF FsPullTalk
  <2> QED BY <1>2, <1>8, <2>1 DEF FsPullTalk
<1>9. CASE cpc \in {"links", "recv", "quit"}
  BY <1>1, <1>2, <1>4, <1>9 DEF FsPullTalk
<1>10. CASE cpc = "lnstat"
  BY <1>1, <1>2, <1>5, <1>10 DEF FsPullTalk
<1>11. CASE cpc \in {"creat", "recvdata"}
  <2>1. Receiving(Head(files), Got) /\ Got \in Nat /\ Head(files) \in Files
    BY <1>1, <1>2, <1>11, FsGot, FsAtFile DEF FsPullTalk
  <2>2. PICK f \in Files, g \in Nat : f = Head(files) /\ g = Got
    BY <2>1
  <2>3. Receiving(f, g)'
    BY <1>1, <1>2, <2>1, <2>2, PullsFile
  <2>4. f = Head(files') /\ g = Got'
    BY <1>2, <2>2 DEF Got
  <2>5. Receiving(Head(files), Got)'
    BY <2>3, <2>4 DEF Receiving
  <2> QED BY <1>2, <1>11, <2>5 DEF FsPullTalk
<1>12. CASE cpc \notin {"next", "srcstat", "ls", "links", "recv", "quit", "lnstat", "creat", "recvdata"}
  BY <1>2, <1>12 DEF FsPullTalk
<1> QED BY <1>6, <1>7, <1>8, <1>9, <1>10, <1>11, <1>12

-----------------------------------------------------------------------------
(* The client's steps *)

LEMMA FsPullClient ==
  ASSUME FsInv, FsPlaces, ~Pushes, Client
  PROVE  \/ StatFault \/ NextSource \/ SrcStat \/ Dent \/ ListDone \/ ListFails \/ StatLink \/ LinkStat
         \/ RecvFile \/ Creat \/ RecvData \/ RecvFails \/ RecvDone
         \/ SourceDone \/ Quit \/ Shutdown \/ ClientWriteFails
         \/ Transmit("client") \/ Swallow("client")
<1>1. cmd \in {"pull", "ls"}
  BY DEF FsInv, FsCommand, Pushes
<1>2. cpc \notin {"start", "dst", "lstats", "send", "large", "poll", "copydone"}
  BY <1>1 DEF FsPlaces
<1>3. ~(Start \/ DstStat \/ LstatReply \/ SendFile \/ LocalReadFails \/ LargeChunk \/ LargePoll \/ CopyOkay \/ CopyFails)
  BY <1>2 DEF Start, DstStat, LstatReply, SendFile, LocalReadFails, LargeChunk, LargePoll, CopyOkay, CopyFails, ClientIdle
<1> QED BY <1>3 DEF Client

\* One request is written.
LEMMA FsAsksFor ==
  ASSUME FsInv, Open, Between, NEW m \in FsMessages(cmd), ToService' = Wrote(<<m>>)
  PROVE  Len(ToService') = 1 /\ ToService'[1] = m
<1>1. <<m>> \in Seq(FsMessages(cmd)) /\ Len(<<m>>) = 1 /\ <<m>>[1] = m
  BY FsOne
<1>2. ToService' = <<m>>
  BY <1>1, FsWrote DEF Open, Between
<1> QED BY <1>1, <1>2

LEMMA LeftMore ==
  ASSUME FsInv, Open, Left, NEW m \in FsMessages(cmd), ToService' = Wrote(<<m>>), ToClient' = ToClient, trouble', spc' = spc
  PROVE  Left'
<1>1. CASE ToClient = <<>> /\ spc = "idle" /\ ToService # <<>> /\ ToService[1].id = "RECV"
  <2>1. <<m>> \in Seq(FsMessages(cmd)) /\ ToService \in Seq(FsMessages(cmd))
    BY FsOne, FsViews
  <2>0. PICK t \in Seq(FsMessages(cmd)) : t = <<m>>
    BY <2>1
  <2>2. ToService' = ToService \o t
    BY <2>0, <2>1, FsWrote DEF Open
  <2>3. Len(ToService') = Len(ToService) + Len(t) /\ Len(t) \in Nat
        /\ \A n \in 1..Len(ToService) : ToService'[n] = ToService[n]
    BY <2>1, <2>2, FsJoin
  <2>4. 1 \in 1..Len(ToService) /\ Len(ToService) \in Nat
    BY <1>1, <2>1, FsTail
  <2>5. ToService'[1].id = "RECV"
    BY <1>1, <2>3, <2>4
  <2>6. ToService' # <<>>
    <3>1. Len(ToService') # 0
      BY <2>3, <2>4
    <3> QED BY <3>1
  <2> QED BY <1>1, <2>5, <2>6 DEF Left
<1>2. CASE ~(ToClient = <<>> /\ spc = "idle" /\ ToService # <<>> /\ ToService[1].id = "RECV")
  BY <1>2 DEF Left
<1> QED BY <1>1, <1>2

\* What is left when the first of several messages is taken, the last being DONE
LEMMA FsNextOf ==
  ASSUME FsInv, NEW id, id # "DONE", ToClient # <<>>, ToClient' = Tail(ToClient), ToClient[Len(ToClient)].id = "DONE",
         \A n \in 1..Len(ToClient) - 1 : ToClient[n].id = id
  PROVE  /\ ToClient[1].id \in {id, "DONE"}
         /\ ToClient[1].id = "DONE" => Len(ToClient) = 1 /\ ToClient' = <<>>
         /\ ToClient[1].id # "DONE" => /\ ToClient' # <<>> /\ ToClient'[Len(ToClient')].id = "DONE"
                                       /\ \A n \in 1..Len(ToClient') - 1 : ToClient'[n].id = id
                                       /\ ToClient'[1].id \in {id, "DONE"}
<1>1. /\ Len(ToClient') = Len(ToClient) - 1 /\ Len(ToClient) \in Nat /\ Len(ToClient) >= 1
      /\ \A n \in 1..Len(ToClient) - 1 : ToClient'[n] = ToClient[n + 1] /\ n + 1 \in 1..Len(ToClient)
      /\ ToClient \in Seq(FsMessages(cmd))
  BY FsViews, FsTail
<1>2. CASE Len(ToClient) = 1
  <2>1. ToClient' = <<>>
    BY <1>1, <1>2, FsOne1
  <2> QED BY <1>2, <2>1
<1>3. CASE Len(ToClient) # 1
  <2>1. 1 \in 1..Len(ToClient) - 1
    BY <1>1, <1>3
  <2>2. ToClient[1].id = id
    BY <2>1
  <2>3. Len(ToClient) - 1 \in 1..Len(ToClient) - 1 /\ (Len(ToClient) - 1) + 1 = Len(ToClient) /\ Len(ToClient') # 0
    BY <1>1, <1>3
  <2>4. ToClient'[Len(ToClient')].id = "DONE" /\ ToClient' # <<>>
    <3>1. ToClient'[Len(ToClient) - 1] = ToClient[(Len(ToClient) - 1) + 1]
      BY <1>1, <2>3
    <3>2. ToClient'[Len(ToClient) - 1] = ToClient[Len(ToClient)]
      BY <2>3, <3>1
    <3>3. ToClient' # <<>>
      BY <2>3
    <3> QED BY <1>1, <3>2, <3>3
  <2>5. ASSUME NEW n \in 1..Len(ToClient') - 1 PROVE ToClient'[n].id = id
    <3>1. n \in 1..Len(ToClient) - 1 /\ n + 1 \in 1..Len(ToClient) - 1
      BY <1>1
    <3> QED BY <1>1, <3>1
  <2>6. ToClient'[1].id \in {id, "DONE"}
    <3>1. CASE Len(ToClient') = 1
      BY <2>4, <3>1
    <3>2. CASE Len(ToClient') # 1
      <4>1. 1 \in 1..Len(ToClient') - 1
        BY <1>1, <2>3, <3>2
      <4> QED BY <2>5, <4>1
    <3> QED BY <3>1, <3>2
  <2> QED BY <2>2, <2>4, <2>5, <2>6
<1> QED BY <1>2, <1>3

LEMMA PullTalkNext ==
  ASSUME FsInv, FsPullTalk, ~Pushes, Open, Open', NextSource
  PROVE  FsPullTalk'
<1>1. cpc = "next" /\ UNCHANGED <<spc, trouble>> /\ ToClient' = ToClient /\ cmd' = cmd
  BY FvNextPull DEF NextSource, ClientIdle, service, command, Pushes
<1>2. (Between /\ ToClient = <<>>) \/ (cmd = "pull" /\ Left)
  BY <1>1 DEF FsPullTalk
<1>3. CASE cmd = "pull" /\ cpc' = "srcstat"
  <2>1. PICK m \in FsMessages(cmd) : m.id = "STAT" /\ ToService' = Wrote(<<m>>)
    BY <1>3, FvNextPull, FsMsg DEF Pushes
  <2>2. CASE Between /\ ToClient = <<>>
    <3>1. AskedStat'
      BY <1>1, <2>1, <2>2, FsAsksFor DEF AskedStat, Between
    <3> QED BY <1>3, <3>1 DEF FsPullTalk
  <2>3. CASE Left
    <3>1. Left'
      BY <1>1, <2>1, <2>3, LeftMore DEF Left
    <3> QED BY <1>3, <3>1 DEF FsPullTalk
  <2> QED BY <1>2, <2>2, <2>3
<1>4. CASE cmd = "ls" /\ cpc' = "ls"
  <2>1. PICK m \in FsMessages(cmd) : m.id = "LIST" /\ ToService' = Wrote(<<m>>)
    BY <1>4, FvNextPull, FsMsg DEF Pushes
  <2>2. Between /\ ToClient = <<>>
    BY <1>2, <1>4
  <2>3. Listing'
    BY <1>1, <2>1, <2>2, FsAsksFor DEF Listing, Between
  <2> QED BY <1>4, <2>3 DEF FsPullTalk
<1> QED BY <1>3, <1>4, FvNextPull DEF Pushes

\* The answer to a stat is all there is.
LEMMA FsStatAnswered ==
  ASSUME FsInv, AskedStat, ToClient # <<>>
  PROVE  Between /\ ToClient[1].id = "ATTR" /\ Tail(ToClient) = <<>> /\ Len(ToClient) = 1
<1>1. ToClient \in Seq(FsMessages(cmd))
  BY FsViews
<1> QED BY <1>1, FsOne1 DEF AskedStat, Between

LEMMA PullTalkSrcStat ==
  ASSUME FsInv, FsPullTalk, ~Pushes, Open, Open', SrcStat
  PROVE  FsPullTalk'
<1>1. cpc = "srcstat" /\ UNCHANGED <<spc>> /\ ToClient # <<>> /\ ToClient[1].id = "ATTR" /\ ToClient' = Tail(ToClient)
  BY FvSrcStat DEF SrcStat, ClientIdle, service
<1>2. AskedStat
  BY <1>1 DEF FsPullTalk, Left
<1>3. Between /\ ToClient' = <<>>
  BY <1>1, <1>2, FsStatAnswered
<1>4. CASE cpc' = "ls"
  <2>1. PICK m \in FsMessages(cmd) : m.id = "LIST" /\ ToService' = Wrote(<<m>>)
    BY <1>4, FvSrcStat, FsMsg DEF GiveUp
  <2>2. Listing'
    BY <1>1, <1>3, <2>1, FsAsksFor DEF Listing, Between
  <2> QED BY <1>4, <2>2 DEF FsPullTalk
<1>5. CASE cpc' \in {"recv", "next"} /\ ToService' = ToService
  <2>1. Between'
    BY <1>1, <1>3, <1>5 DEF Between
  <2> QED BY <1>3, <1>5, <2>1 DEF FsPullTalk
<1> QED BY <1>4, <1>5, FvSrcStat DEF GiveUp

LEMMA PullTalkDent ==
  ASSUME FsInv, FsPullTalk, ~Pushes, Open, Dent
  PROVE  FsPullTalk'
<1>1. cpc = "ls" /\ cpc' = "ls" /\ spc' = spc
  BY DEF Dent, ClientIdle, service
<1>2. ToClient # <<>> /\ ToClient[1].id = "DENT" /\ ToClient' = Tail(ToClient) /\ ToService' = ToService
  BY FvDent
<1>3. Listing /\ ToClient \in Seq(FsMessages(cmd))
  BY <1>1, FsViews DEF FsPullTalk
<1>4. CASE spc = "list" /\ ToService = <<>> /\ Ids(ToClient, {"DENT"})
  <2>1. Ids(ToClient', {"DENT"})
    BY <1>2, <1>3, <1>4, FsIdsTail
  <2> QED BY <1>1, <1>2, <1>4, <2>1 DEF FsPullTalk, Listing, Ids
<1>5. CASE /\ Between /\ ToClient # <<>> /\ ToClient[Len(ToClient)].id = "DONE"
           /\ \A n \in 1..Len(ToClient) - 1 : ToClient[n].id = "DENT"
  <2>1. /\ ToClient' # <<>> /\ ToClient'[Len(ToClient')].id = "DONE"
        /\ \A n \in 1..Len(ToClient') - 1 : ToClient'[n].id = "DENT"
    BY <1>2, <1>5, FsNextOf
  <2>2. Between'
    BY <1>1, <1>2, <1>5 DEF Between
  <2>3. Listing'
    BY <2>1, <2>2 DEF Listing
  <2> QED BY <1>1, <2>3 DEF FsPullTalk
<1> QED BY <1>2, <1>3, <1>4, <1>5 DEF Listing

LEMMA PullTalkListDone ==
  ASSUME FsInv, FsPullTalk, ~Pushes, Open, ListDone
  PROVE  FsPullTalk'
<1>1. cpc = "ls" /\ cpc' \in {"links", "quit"} /\ spc' = spc
  BY DEF ListDone, ClientIdle, service
<1>2. ToClient # <<>> /\ ToClient[1].id = "DONE" /\ ToClient' = Tail(ToClient) /\ ToService' = ToService
  BY FvListDone
<1>3. Listing /\ ToClient \in Seq(FsMessages(cmd))
  BY <1>1, FsViews DEF FsPullTalk
<1>4. ~Ids(ToClient, {"DENT"})
  <2>1. 1 \in 1..Len(ToClient)
    BY <1>2, <1>3, FsTail
  <2> QED BY <1>2, <2>1 DEF Ids
<1>5. /\ Between /\ ToClient[Len(ToClient)].id = "DONE"
      /\ \A n \in 1..Len(ToClient) - 1 : ToClient[n].id = "DENT"
  BY <1>2, <1>3, <1>4 DEF Listing
<1>6. ToClient' = <<>>
  BY <1>2, <1>5, FsNextOf
<1>7. Between'
  BY <1>1, <1>2, <1>5 DEF Between
<1> QED BY <1>1, <1>6, <1>7 DEF FsPullTalk

\* A listing does not fail while the stream is open.
LEMMA PullTalkListFails ==
  ASSUME FsInv, FsGone, FsHalf, FsPullTalk, ~Pushes, Open, ListFails
  PROVE  FALSE
<1>1. cpc = "ls" /\ ~cut
  BY DEF ListFails, ClientIdle, Open, FsGone
<1>2. Listing /\ Whole(ToClient) /\ ToClient \in Seq(FsMessages(cmd))
  BY <1>1, FsViews DEF FsPullTalk, FsHalf
<1>3. ToClient # <<>> /\ (ToClient[1].half \/ ToClient[1].id \notin {"DENT", "DONE"})
  BY FvListFails DEF Open
<1>4. 1 \in 1..Len(ToClient)
  BY <1>2, <1>3, FsTail
<1>5. ToClient[1].id \notin {"DENT", "DONE"}
  BY <1>2, <1>3, <1>4 DEF Whole
<1>6. ~Ids(ToClient, {"DENT"})
  BY <1>4, <1>5 DEF Ids
<1>7. /\ ToClient[Len(ToClient)].id = "DONE"
      /\ \A n \in 1..Len(ToClient) - 1 : ToClient[n].id = "DENT"
  BY <1>2, <1>3, <1>6 DEF Listing
<1>8. ToClient[1].id \in {"DENT", "DONE"}
  <2>1. Len(ToClient) = 1 \/ 1 \in 1..Len(ToClient) - 1
    <3>1. Len(ToClient) \in Nat /\ Len(ToClient) >= 1
      BY <1>2, <1>3, FsTail
    <3>2. \A k \in Nat : k >= 1 => k = 1 \/ 1 \in 1..k - 1
      OBVIOUS
    <3> QED BY <3>1, <3>2
  <2> QED BY <1>7, <2>1
<1> QED BY <1>5, <1>8

LEMMA PullTalkLinks ==
  ASSUME FsInv, FsPullTalk, ~Pushes, Open, StatLink \/ LinkStat
  PROVE  FsPullTalk'
<1>1. CASE StatLink
  <2>1. cpc = "links" /\ spc' = spc
    BY <1>1 DEF StatLink, ClientIdle, service
  <2>2. Between /\ ToClient = <<>> /\ ToClient' = ToClient
    BY <1>1, <2>1, FvStatLink DEF FsPullTalk
  <2>3. CASE cpc' = "recv" /\ ToService' = ToService
    BY <2>1, <2>2, <2>3 DEF FsPullTalk, Between
  <2>4. CASE cpc' = "lnstat"
    <3>1. PICK m \in FsMessages(cmd) : m.id = "STAT" /\ ToService' = Wrote(<<m>>)
      BY <1>1, <2>4, FvStatLink, FsMsg
    <3>2. AskedStat'
      BY <2>1, <2>2, <3>1, FsAsksFor DEF AskedStat, Between
    <3> QED BY <2>4, <3>2 DEF FsPullTalk
  <2> QED BY <1>1, <2>3, <2>4, FvStatLink
<1>2. CASE LinkStat
  <2>1. cpc = "lnstat" /\ cpc' = "links" /\ spc' = spc
    BY <1>2 DEF LinkStat, ClientIdle, service
  <2>2. ToClient # <<>> /\ ToClient' = Tail(ToClient) /\ ToService' = ToService
    BY <1>2, FvLinkStat
  <2>3. Between /\ ToClient' = <<>>
    BY <2>1, <2>2, FsStatAnswered DEF FsPullTalk
  <2> QED BY <2>1, <2>2, <2>3 DEF FsPullTalk, Between
<1> QED BY <1>1, <1>2

LEMMA PullTalkRecvFile ==
  ASSUME FsInv, FsPullTalk, ~Pushes, Open, RecvFile
  PROVE  FsPullTalk'
<1>1. cpc = "recv" /\ cpc' = "creat" /\ spc' = spc /\ files' = files
  BY DEF RecvFile, ClientIdle, service
<1>2. Between /\ ToClient = <<>> /\ ToClient' = ToClient
  BY <1>1, FvRecvFile DEF FsPullTalk
<1>3. PICK m \in FsMessages(cmd) : m.id = "RECV" /\ m.f = Head(files) /\ ToService' = Wrote(<<m>>)
  BY FvRecvFile, FsMsg
<1>4. Len(ToService') = 1 /\ ToService'[1] = m
  BY <1>2, <1>3, FsAsksFor
<1>5. Got' = 0
  BY <1>1 DEF Got
<1>6. Receiving(Head(files), Got)'
  BY <1>1, <1>2, <1>3, <1>4, <1>5 DEF Receiving, Between
<1> QED BY <1>1, <1>6 DEF FsPullTalk

\* A file that is left in the middle
LEMMA FsLeaves ==
  ASSUME FsInv, NEW f, NEW got, Receiving(f, got), ToService' = ToService, spc' = spc, trouble',
         \/ ToClient' = ToClient
         \/ ToClient # <<>> /\ ToClient' = Tail(ToClient) /\ ToClient[1].id # "DONE"
  PROVE  Left'
<1>1. ToClient \in Seq(FsMessages(cmd))
  BY FsViews
<1>2. CASE spc = "idle" /\ Len(ToService) = 1 /\ ToService[1].id = "RECV" /\ ToClient = <<>>
  <2>1. ToService # <<>>
    BY <1>2
  <2> QED BY <1>2, <2>1 DEF Left
<1>3. CASE spc = "read" /\ Ids(ToClient, {"DATA"})
  <2>1. Ids(ToClient', {"DATA"}) /\ ToClient' \in Seq(FsMessages(cmd))
    BY <1>1, <1>3, FsIdsTail, FsTail
  <2>2. ToClient' # <<>> => ToClient'[1].id = "DATA"
    <3>1. ToClient' # <<>> => 1 \in 1..Len(ToClient')
      BY <2>1
    <3> QED BY <2>1, <3>1 DEF Ids
  <2> QED BY <1>3, <2>2 DEF Left
<1>4. CASE /\ ToClient # <<>> /\ ToClient[Len(ToClient)].id = "DONE"
           /\ \A n \in 1..Len(ToClient) - 1 : ToClient[n].id = "DATA"
  <2>1. CASE ToClient' = ToClient
    <3>1. ToClient[1].id \in {"DATA", "DONE"}
      <4>1. Len(ToClient) \in Nat /\ Len(ToClient) >= 1
        BY <1>1, <1>4, FsTail
      <4>2. \A k \in Nat : k >= 1 => k = 1 \/ 1 \in 1..k - 1
        OBVIOUS
      <4>3. Len(ToClient) = 1 \/ 1 \in 1..Len(ToClient) - 1
        BY <4>1, <4>2
      <4> QED BY <1>4, <4>3
    <3> QED BY <1>4, <2>1, <3>1 DEF Left
  <2>2. CASE ToClient # <<>> /\ ToClient' = Tail(ToClient) /\ ToClient[1].id # "DONE"
    <3>1. ToClient' # <<>> /\ ToClient'[1].id \in {"DATA", "DONE"}
      BY <1>4, <2>2, FsNextOf
    <3> QED BY <3>1 DEF Left
  <2> QED BY <2>1, <2>2
<1> QED BY <1>2, <1>3, <1>4 DEF Receiving

LEMMA PullTalkCreat ==
  ASSUME FsInv, FsPlaces, FsPullTalk, ~Pushes, Open, Creat
  PROVE  FsPullTalk'
<1>1. cpc = "creat" /\ UNCHANGED <<spc, rest>> /\ cmd' = cmd
  BY DEF Creat, ClientIdle, service, command
<1>2. ToService' = ToService /\ ToClient' = ToClient
  BY FvCreat
<1>3. Receiving(Head(files), 0) /\ Head(files) \in Files /\ cmd = "pull"
  BY <1>1, FsAtFile DEF FsPullTalk, Got, FsPlaces, FsInv, FsCommand, Pushes
<1>4. CASE cpc' = "recvdata" /\ local' = [local EXCEPT ![Head(files)] = <<>>] /\ UNCHANGED files
  <2>1. local'[Head(files)] = <<>>
    BY <1>3, <1>4 DEF FsInv, FsClientTypes
  <2>2. Got' = 0
    <3>1. Got' = Len(local'[Head(files)])
      BY <1>4 DEF Got
    <3> QED BY <2>1, <3>1
  <2>3. Receiving(Head(files), Got)'
    BY <1>1, <1>2, <1>3, <1>4, <2>2 DEF Receiving, Between, Ids
  <2> QED BY <1>4, <2>3 DEF FsPullTalk
<1>5. CASE cpc' = "next" /\ trouble' = TRUE
  <2>1. Left'
    BY <1>1, <1>2, <1>3, <1>5, FsLeaves
  <2> QED BY <1>1, <1>3, <1>5, <2>1 DEF FsPullTalk
<1> QED BY <1>4, <1>5 DEF Creat, GiveUp

LEMMA FsGotOne ==
  ASSUME FsInv, RecvData
  PROVE  Got' = Got + 1 /\ files' = files /\ cpc' = "recvdata" /\ cpc = "recvdata" /\ Head(files) \in Files
<1>1. cpc = "recvdata" /\ cpc' = cpc /\ files' = files
  BY DEF RecvData, ClientIdle
<1>2. Head(files) \in Files /\ local[Head(files)] \in Seq(Files)
  BY <1>1, FsAtFile DEF FsInv, FsClient
<1>3. PICK s \in Seq(Files) : s = local[Head(files)]
  BY <1>2
<1>4. PICK x : x = ToClient[1].f
  OBVIOUS
<1>5. x \in Files
  <2>1. ToClient[1] \in FsMessages(cmd) /\ ToClient[1].id = "DATA"
    BY FvRecvData, FsViews, FsTail
  <2> QED BY <1>4, <2>1 DEF FsMessages
<1>6. local'[Head(files)] = Append(s, x)
  <2>1. local' = [local EXCEPT ![Head(files)] = Append(s, x)]
    BY <1>3, <1>4, FvRecvData
  <2> QED BY <1>2, <2>1 DEF FsInv, FsClientTypes
<1>7. Len(Append(s, x)) = Len(s) + 1
  BY <1>5
<1> QED BY <1>1, <1>2, <1>3, <1>6, <1>7 DEF Got

LEMMA PullTalkRecvData ==
  ASSUME FsInv, FsPullTalk, ~Pushes, Open, RecvData
  PROVE  FsPullTalk'
<1>1. cpc = "recvdata" /\ cpc' = cpc /\ files' = files /\ UNCHANGED <<spc, rest>> /\ Head(files) \in Files /\ Got' = Got + 1
  BY FsGotOne DEF RecvData, service
<1>2. ToClient # <<>> /\ ToClient[1].id = "DATA" /\ ToClient' = Tail(ToClient) /\ ToService' = ToService
  BY FvRecvData
<1>3. Receiving(Head(files), Got) /\ ToClient \in Seq(FsMessages(cmd)) /\ Got \in Nat
  BY <1>1, FsViews, FsGot DEF FsPullTalk
<1>4. CASE /\ spc = "read" /\ ToService = <<>> /\ Ids(ToClient, {"DATA"})
           /\ Got + Len(ToClient) + Len(rest) = Chunks[Head(files)]
           /\ \A n \in 1..Len(rest) : rest[n] = Head(files)
  <2>1. Ids(ToClient', {"DATA"})
    BY <1>2, <1>3, <1>4, FsIdsTail
  <2>2. Got' + Len(ToClient') + Len(rest) = Chunks[Head(files)]
    <3>1. Len(ToClient') = Len(ToClient) - 1 /\ Len(ToClient) \in Nat
      BY <1>2, <1>3, FsTail
    <3>2. Len(rest) \in Nat
      BY DEF FsInv, FsServiceTypes
    <3>3. Got' = Got + 1 /\ Got \in Nat
      BY <1>1, <1>3
    <3>4. Got' + Len(ToClient') + Len(rest) = Got + Len(ToClient) + Len(rest)
      BY <3>1, <3>2, <3>3
    <3> QED BY <1>4, <3>4
  <2>3. Receiving(Head(files), Got)'
    BY <1>1, <1>2, <1>4, <2>1, <2>2 DEF Receiving, Ids
  <2> QED BY <1>1, <2>3 DEF FsPullTalk
<1>5. CASE /\ Between /\ ToClient # <<>> /\ ToClient[Len(ToClient)].id = "DONE"
           /\ \A n \in 1..Len(ToClient) - 1 : ToClient[n].id = "DATA"
  <2>1. /\ ToClient' # <<>> /\ ToClient'[Len(ToClient')].id = "DONE"
        /\ \A n \in 1..Len(ToClient') - 1 : ToClient'[n].id = "DATA"
    BY <1>2, <1>5, FsNextOf
  <2>2. Between'
    BY <1>1, <1>2, <1>5 DEF Between
  <2>3. Receiving(Head(files), Got)'
    BY <2>1, <2>2 DEF Receiving
  <2> QED BY <1>1, <2>3 DEF FsPullTalk
<1> QED BY <1>2, <1>3, <1>4, <1>5 DEF Receiving

LEMMA PullTalkRecvFails ==
  ASSUME FsInv, FsGone, FsPlaces, FsPullTalk, ~Pushes, Open, RecvFails
  PROVE  FsPullTalk' /\ trouble'
<1>1. cpc = "recvdata" /\ cpc' = "next" /\ spc' = spc /\ cmd' = cmd /\ cmd = "pull"
  BY DEF RecvFails, ClientIdle, service, GiveUp, command, FsPlaces, FsInv, FsCommand, Pushes
<1>2. /\ ToService' = ToService /\ ToClient # <<>> /\ ToClient' = Tail(ToClient) /\ ToClient[1].id # "DONE"
      /\ trouble' = (trouble \/ ToClient[1].id = "DATA")
  BY FvRecvFails DEF Open
<1>3. Receiving(Head(files), Got) /\ ToClient \in Seq(FsMessages(cmd))
  BY <1>1, FsViews DEF FsPullTalk
<1>4. ToClient[1].id = "DATA"
  <2>1. CASE Ids(ToClient, {"DATA"})
    <3>1. 1 \in 1..Len(ToClient)
      BY <1>2, <1>3, FsTail
    <3> QED BY <2>1, <3>1 DEF Ids
  <2>2. CASE /\ ToClient[Len(ToClient)].id = "DONE"
             /\ \A n \in 1..Len(ToClient) - 1 : ToClient[n].id = "DATA"
    BY <1>2, <2>2, FsNextOf
  <2> QED BY <1>2, <1>3, <2>1, <2>2 DEF Receiving
<1>5. trouble'
  BY <1>2, <1>4
<1>6. Left'
  BY <1>1, <1>2, <1>3, <1>5, FsLeaves
<1> QED BY <1>1, <1>5, <1>6 DEF FsPullTalk

LEMMA PullTalkRecvDone ==
  ASSUME FsInv, FsPullTalk, ~Pushes, Open, RecvDone
  PROVE  FsPullTalk'
<1>1. cpc = "recvdata" /\ cpc' \in {"recv", "next"} /\ spc' = spc
  BY DEF RecvDone, ClientIdle, service, GiveUp
<1>2. ToService' = ToService /\ ToClient # <<>> /\ ToClient' = Tail(ToClient) /\ ToClient[1].id = "DONE"
  BY FvRecvDone
<1>3. Receiving(Head(files), Got) /\ ToClient \in Seq(FsMessages(cmd))
  BY <1>1, FsViews DEF FsPullTalk
<1>4. ~Ids(ToClient, {"DATA"})
  <2>1. 1 \in 1..Len(ToClient)
    BY <1>2, <1>3, FsTail
  <2> QED BY <1>2, <2>1 DEF Ids
<1>5. /\ Between /\ ToClient[Len(ToClient)].id = "DONE"
      /\ \A n \in 1..Len(ToClient) - 1 : ToClient[n].id = "DATA"
  BY <1>2, <1>3, <1>4 DEF Receiving
<1>6. ToClient' = <<>>
  BY <1>2, <1>5, FsNextOf
<1>7. Between'
  BY <1>1, <1>2, <1>5 DEF Between
<1> QED BY <1>1, <1>6, <1>7 DEF FsPullTalk

LEMMA FsPullTalkSame ==
  ASSUME FsPullTalk, ToService' = ToService, ToClient' = ToClient, UNCHANGED <<command, client, service, eof, trouble>>
  PROVE  FsPullTalk'
BY DEF FsPullTalk, command, client, service, Pushes, Open, Running, Failing, Between, Left, AskedStat, Listing, Receiving, Got, Ids

LEMMA FsPullTalkClient ==
  ASSUME FsInv, FsGone, FsPlaces, FsHalf, FsPullTalk, Client
  PROVE  FsPullTalk'
<1> SUFFICES ASSUME ~Pushes', Open' PROVE FsPullTalk'
  BY DEF FsPullTalk
<1>1. Open /\ UNCHANGED <<command, service, eof>>
  BY FsOpenClient
<1>2. ~Pushes
  BY <1>1 DEF command, Pushes
<1>3. CASE NextSource \/ SrcStat \/ Dent \/ ListDone \/ ListFails \/ StatLink \/ LinkStat \/ RecvFile
  BY <1>1, <1>2, <1>3, PullTalkNext, PullTalkSrcStat, PullTalkDent, PullTalkListDone, PullTalkListFails, PullTalkLinks,
     PullTalkRecvFile
<1>4. CASE Creat \/ RecvData \/ RecvFails \/ RecvDone
  BY <1>1, <1>2, <1>4, PullTalkCreat, PullTalkRecvData, PullTalkRecvFails, PullTalkRecvDone
<1>5. CASE StatFault \/ Shutdown
  BY <1>5, FvStatFault, FvShutdown DEF Open, Running
<1>6. CASE SourceDone
  <2>1. cpc \in {"send", "recv"} /\ cpc' = "next"
    BY <1>6 DEF SourceDone, ClientIdle
  <2>2. cpc = "recv"
    BY <1>2, <2>1 DEF FsPlaces, FsInv, FsCommand, Pushes
  <2>3. Between /\ ToClient = <<>>
    BY <1>1, <1>2, <2>2 DEF FsPullTalk
  <2> QED BY <1>1, <1>6, <2>1, <2>3, FvSourceDone DEF FsPullTalk, Between, service
<1>7. CASE Quit
  <2>1. cpc' = "shutdown"
    BY <1>7 DEF Quit
  <2> QED BY <2>1 DEF FsPullTalk
<1>8. CASE ClientWriteFails \/ Swallow("client")
  BY <1>1, <1>8 DEF ClientWriteFails, Swallow, Open
<1>9. CASE Transmit("client")
  <2>1. UNCHANGED <<command, client, service, eof, trouble>>
    BY <1>9 DEF Transmit, history
  <2> QED BY <1>9, <2>1, FsSides, FsTransmitted, FsPullTalkSame
<1> QED BY <1>2, <1>3, <1>4, <1>5, <1>6, <1>7, <1>8, <1>9, FsPullClient

LEMMA FsPullTalkStep ==
  ASSUME FsInv, FsGone, FsPlaces, FsAsks, FsSources, FsHalf, FsPullTalk, [FileSyncNext]_fileSyncVars
  PROVE  FsPullTalk'
<1>1. CASE Client
  BY <1>1, FsPullTalkClient
<1>2. CASE Service
  BY <1>2, FsPullTalkService
<1>3. CASE Kill
  BY <1>3 DEF Kill, FsPullTalk, Open, Running
<1>4. CASE Break
  BY <1>4, FsSides DEF Break, FsPullTalk, Open
<1>5. CASE DrainSpins \/ Finished \/ UNCHANGED fileSyncVars
  <2>1. UNCHANGED <<command, client, service, net, out, eof, trouble>>
    BY <1>5 DEF DrainSpins, Finished, fileSyncVars, history
  <2> QED BY <2>1, FsStill, FsPullTalkSame
<1> QED BY <1>1, <1>2, <1>3, <1>4, <1>5 DEF FileSyncNext

-----------------------------------------------------------------------------
(* Failures have a cause *)

\* Without trouble, what a pull asks for is found.
AllFound(s) == \A n \in 1..Len(s) : s[n].id = "ATTR" => Found(s[n])

FsFound == cmd = "pull" /\ ~trouble => AllFound(ToClient)

LEMMA FsFoundInit == FileSyncInit => FsFound
<1> SUFFICES ASSUME FileSyncInit PROVE FsFound
  OBVIOUS
<1>1. net["client"] = <<>> /\ out["service"] = <<>>
  BY FsSides DEF FileSyncInit
<1>2. ToClient = <<>>
  BY <1>1 DEF ToClient
<1> QED BY <1>2 DEF FsFound, AllFound

LEMMA FoundShorter ==
  ASSUME NEW s, NEW q, Len(q) \in Nat, Len(s) \in Nat, Shorter(q, s), AllFound(s)
  PROVE  AllFound(q)
BY DEF Shorter, AllFound, Found

LEMMA FoundBegins ==
  ASSUME NEW s, NEW q, Len(q) \in Nat, Len(s) \in Nat, Begins(q, s), AllFound(s)
  PROVE  AllFound(q)
BY DEF Begins, AllFound

LEMMA FoundTail ==
  ASSUME NEW c, NEW s \in Seq(FsMessages(c)), s # <<>>, AllFound(s)
  PROVE  AllFound(Tail(s))
BY FsTail DEF AllFound

LEMMA FoundSaid ==
  ASSUME FsInv, AllFound(ToClient), NEW m \in FsMessages(cmd), m.id = "ATTR" => Found(m)
  PROVE  AllFound(Said(m))
<1>1. CASE eof["service"]
  BY <1>1 DEF Said
<1>2. CASE ~eof["service"]
  <2>1. Len(ToClient) \in Nat
    BY FsViews
  <2>2. Len(Said(m)) = Len(ToClient) + 1 /\ Said(m)[Len(ToClient) + 1] = m /\ \A n \in 1..Len(ToClient) : Said(m)[n] = ToClient[n]
    BY <1>2, FsSaid
  <2>3. \A n \in 1..Len(Said(m)) : n \in 1..Len(ToClient) \/ n = Len(ToClient) + 1
    BY <2>1, <2>2
  <2> QED BY <2>2, <2>3 DEF AllFound
<1> QED BY <1>1, <1>2

\* A whole file is not taken for a file that is not there.
LEMMA FsNotAbsent == \A f \in Files : Complete(f) # Absent
<1> SUFFICES ASSUME NEW f \in Files, Complete(f) = Absent PROVE FALSE
  OBVIOUS
<1>1. Chunks[f] \in Nat /\ f # "absent"
  BY FsChunks, FileSyncAssumption
<1>2. Len(Absent) = 1 /\ Absent[1] = "absent"
  BY DEF Absent
<1>3. Complete(f) \in Seq({f}) /\ Len(Complete(f)) = Chunks[f]
  BY <1>1 DEF Complete
<1>4. Chunks[f] = 1
  BY <1>2, <1>3
<1>5. Complete(f)[1] = f
  BY <1>4 DEF Complete
<1> QED BY <1>1, <1>2, <1>5

\* Only a stat is answered with ATTR.
LEMMA FsSaysNoAttr ==
  ASSUME FsInv, FsGone, Service, ~ServeStat
  PROVE  \/ Begins(ToClient', ToClient)
         \/ \E m \in FsMessages(cmd) : m.id # "ATTR" /\ ToClient' = Said(m)
<1>0. ASSUME ToClient' = ToClient PROVE Begins(ToClient', ToClient)
  BY <1>0, FsSameBegins
<1>20. ASSUME NEW id, NEW f, id # "ATTR", Msg(id, f) \in FsMessages(cmd), ToClient' = Said(Msg(id, f))
      PROVE  \E m \in FsMessages(cmd) : m.id # "ATTR" /\ ToClient' = Said(m)
  BY <1>20, FsMsg
<1>1. CASE ServeList
  <2>1. \/ ToClient' = ToClient
        \/ ToClient' = Said(Msg("DONE", ToService[1].f)) /\ Msg("DONE", ToService[1].f) \in FsMessages(cmd)
    BY <1>1, FvServeList
  <2> QED BY <1>0, <1>20, <2>1
<1>2. CASE ListEntry
  BY <1>0, <1>2, FvListEntry, FsMsg
<1>3. CASE ServeSend
  <2>1. \/ ToClient' = ToClient
        \/ \E f : ToClient' = Said(Msg("FAIL", f)) /\ Msg("FAIL", f) \in FsMessages(cmd)
    BY <1>3, FvServeSend
  <2> QED BY <1>0, <1>20, <2>1
<1>4. CASE FileData
  BY <1>0, <1>4, FvFileData, FsMsg
<1>5. CASE FileDone
  <2>1. \E id \in {"OKAY", "FAIL"} : \E f : ToClient' = Said(Msg(id, f)) /\ Msg(id, f) \in FsMessages(cmd)
    BY <1>5, FvFileDone
  <2> QED BY <1>20, <2>1
<1>6. CASE FileInvalid
  BY <1>0, <1>6, FvFileInvalid, FsMsg
<1>7. CASE Drain
  BY <1>0, <1>7, FvDrain
<1>8. CASE Abort \/ Close
  BY <1>8, FvCloses DEF Begins, Shorter
<1>9. CASE LinkData
  BY <1>0, <1>9, FvLinkData, FsMsg
<1>10. CASE LinkDone
  BY <1>10, FvLinkDone, FsMsg
<1>11. CASE LinkFails
  BY <1>0, <1>11, FvLinkFails, FsMsg
<1>12. CASE ServeRecv
  <2>1. \/ ToClient' = ToClient
        \/ ToClient' = Said(Msg("FAIL", ToService[1].f)) /\ Msg("FAIL", ToService[1].f) \in FsMessages(cmd)
    BY <1>12, FvServeRecv
  <2> QED BY <1>0, <1>20, <2>1
<1>13. CASE SendChunk
  BY <1>13, FvSendChunk, FsMsg
<1>14. CASE ServeQuit
  BY <1>0, <1>14, FvServeQuit
<1>15. CASE BadRequest
  BY <1>15, FvBadRequest, FsMsg
<1>16. CASE ServiceWriteFails
  BY <1>0, <1>16, FvServiceWriteFails
<1>17. CASE Transmit("service") \/ Swallow("service")
  BY <1>0, <1>17, FsSides, FsTransmitted, FsSwallowed
<1> QED BY <1>1, <1>2, <1>3, <1>4, <1>5, <1>6, <1>7, <1>8, <1>9, <1>10, <1>11, <1>12, <1>13, <1>14, <1>15, <1>16, <1>17
        DEF Service

LEMMA FsFoundStep ==
  ASSUME FsInv, FsInv', FsGone, FsSources, FsFound, [FileSyncNext]_fileSyncVars
  PROVE  FsFound'
<1> SUFFICES ASSUME cmd' = "pull", ~trouble' PROVE AllFound(ToClient')
  BY DEF FsFound, AllFound
<1>1. ~trouble
  BY FsTroubleStays
<1>0. (Len(ToService) \in Nat /\ Len(ToClient) \in Nat)'
  BY FsLens, PTL
<1>2. Len(ToClient) \in Nat /\ Len(ToClient') \in Nat /\ ToClient \in Seq(FsMessages(cmd))
  BY <1>0, FsViews, FsLens
<1>3. CASE Client
  <2>1. cmd = "pull"
    BY <1>3, FsClientFrame DEF command
  <2>2. AllFound(ToClient)
    BY <1>1, <2>1 DEF FsFound
  <2> QED BY <1>2, <1>3, <2>2, FsClientViews, FoundTail, FoundBegins
<1>4. CASE Service
  <2>1. cmd = "pull"
    BY <1>4, FsServiceFrame DEF command
  <2>2. AllFound(ToClient)
    BY <1>1, <2>1 DEF FsFound
  <2>3. CASE ServeStat
    <3>1. PICK r \in StatResult(ToService[1].f) :
            /\ ToClient' = Said(Attr(ToService[1].f, r)) /\ trouble' = (trouble \/ r = "error")
            /\ Attr(ToService[1].f, r) \in FsMessages(cmd)
      BY <2>3, FvServeStat
    <3>2. ToService[1].id = "STAT" \/ ToService[1].id = "LSTAT"
      BY <2>3, FvServeStat
    <3>3. ToService[1].f \in Files \cup Dirs
      BY <2>1, <2>3, <3>2, FvServeStat DEF FsMessages
    <3>4. ToService[1].f \in Files => remote[ToService[1].f] = Complete(ToService[1].f)
      BY <2>1 DEF FsSources, Pushes
    <3>5. r # "error"
      BY <3>1
    <3>6. r \in {"same", "other"}
      <4>0. PICK p : p = ToService[1].f
        OBVIOUS
      <4>1. CASE p \in Files
        <5>1. remote[p] = Complete(p)
          BY <3>4, <4>0, <4>1
        <5>2. remote[p] # Absent
          BY <4>1, <5>1, FsNotAbsent
        <5>3. PICK v : v = CASE remote[p] = Complete(p) /\ old[p] = <<>> -> "same"
                             [] remote[p] = Absent /\ old[p] = <<>> -> "none"
                             [] OTHER -> "other"
          OBVIOUS
        <5>4. StatResult(p) = {"error"} \cup {v}
          BY <4>1, <5>3 DEF StatResult
        <5>5. v \in {"same", "other"}
          <6>1. CASE old[p] = <<>>
            BY <5>1, <5>2, <5>3, <6>1
          <6>2. CASE old[p] # <<>>
            BY <5>3, <6>2
          <6> QED BY <6>1, <6>2
        <5> QED BY <3>1, <3>5, <4>0, <5>4, <5>5
      <4>2. CASE p \notin Files
        <5>1. StatResult(p) = {"error"} \cup {"other"}
          BY <3>3, <4>0, <4>2 DEF StatResult
        <5> QED BY <3>1, <3>5, <4>0, <5>1
      <4> QED BY <4>1, <4>2
    <3>7. Found(Attr(ToService[1].f, r))
      BY <3>6, FsAttr DEF Found
    <3> QED BY <2>2, <3>1, <3>7, FoundSaid
  <2>4. CASE ~ServeStat
    BY <1>2, <1>4, <2>2, <2>4, FsSaysNoAttr, FoundBegins, FoundSaid
  <2> QED BY <2>3, <2>4
<1>5. CASE Kill \/ Break
  BY <1>5 DEF Kill, Break
<1>6. CASE DrainSpins \/ Finished \/ UNCHANGED fileSyncVars
  <2>1. UNCHANGED <<cmd, net, out, eof>>
    BY <1>6 DEF DrainSpins, Finished, fileSyncVars, command
  <2>2. ToClient' = ToClient
    BY <2>1, FsStill
  <2> QED BY <1>1, <2>1, <2>2 DEF FsFound
<1> QED BY <1>3, <1>4, <1>5, <1>6 DEF FileSyncNext

\* What the service may find next
Expected(pc, m) ==
  /\ pc = "idle" => m.id \in {"STAT", "LSTAT", "SEND", "LIST", "RECV"}
  /\ pc = "file" => m.id \in {"DATA", "DONE"}
  /\ pc = "link" => m.id = "DATA"
  /\ pc = "linkdone" => m.id = "DONE"

LEMMA FedExpected ==
  ASSUME NEW c, NEW f \in Files, NEW pc, NEW g, NEW r, NEW s \in Seq(FsMessages(c)), Fed(f, pc, g, r, s), s # <<>>
  PROVE  Expected(pc, s[1])
<1>1. 1 \in 1..Len(s) /\ Chunks[f] \in Nat /\ Taken(pc, r) \in Nat
  BY FsTail, FsChunks, FedTaken
<1>2. s[1].id = Script(f, Taken(pc, r) + 1)
  BY <1>1 DEF Fed
<1>3. CASE pc = "idle"
  BY FedSend, <1>3 DEF Expected
<1>4. CASE pc = "file"
  <2>1. Taken(pc, r) = 1 + Len(r) /\ r \in Seq(Files)
    BY <1>4 DEF Taken, Fed
  <2>2. Taken(pc, r) + 1 # 1
    BY <1>1, <2>1
  <2>3. s[1].id \in {"DATA", "DONE"}
    BY <1>2, <2>2 DEF Script
  <2> QED BY <1>4, <2>3 DEF Expected
<1>5. CASE pc = "link"
  <2>1. g = f
    BY <1>5 DEF Fed
  <2> QED BY <1>5, <2>1, FedLink DEF Expected
<1>6. CASE pc = "linkdone"
  <2>1. g = f
    BY <1>6 DEF Fed
  <2> QED BY <1>6, <2>1, FedLinkDone DEF Expected
<1> QED BY <1>3, <1>4, <1>5, <1>6 DEF Fed

\* As long as nothing has failed, client and service understand each other.
LEMMA FsUnderstood ==
  ASSUME FsInv, FsPlaces, FsTalk, FsPullTalk, Open, ~trouble, cpc # "shutdown", ToService # <<>>
  PROVE  Expected(spc, ToService[1])
<1>1. ToService \in Seq(FsMessages(cmd)) /\ 1 \in 1..Len(ToService)
  BY FsViews, FsTail
<1>2. ~Between /\ \A e : ~Lost(e)
  BY DEF Between, Lost
<1>3. AskedStat => Expected(spc, ToService[1])
  BY DEF AskedStat, Expected
<1>4. Running
  BY DEF Open
<1>5. CASE Pushes
  <2>1. ASSUME NEW f \in Files, NEW n, InFile(f, n) PROVE Expected(spc, ToService[1])
    BY <1>1, <2>1, FedExpected DEF InFile, Sends
  <2>2. CASE cpc \in {"start", "quit", "next", "send"}
    BY <1>2, <1>5, <2>2 DEF FsTalk
  <2>3. CASE cpc = "dst"
    BY <1>3, <1>5, <2>3 DEF FsTalk
  <2>4. CASE cpc \in {"large", "poll", "copydone"}
    BY <1>2, <1>5, <2>1, <2>4 DEF FsTalk
  <2>5. CASE cpc = "lstats"
    <3>1. AskedAll
      BY <1>2, <1>5, <2>5 DEF FsTalk
    <3> QED BY <1>1, <3>1 DEF AskedAll, Ids, Expected
  <2> QED BY <1>4, <1>5, <2>2, <2>3, <2>4, <2>5 DEF FsPlaces, Running
<1>6. CASE ~Pushes
  <2>1. ~Left
    BY DEF Left
  <2>2. Listing => Expected(spc, ToService[1])
    BY <1>2 DEF Listing, Expected
  <2>3. \A f, g : Receiving(f, g) => Expected(spc, ToService[1])
    BY <1>2 DEF Receiving, Expected
  <2>4. cpc \in {"next", "srcstat", "ls", "links", "lnstat", "recv", "creat", "recvdata", "quit"}
    BY <1>4, <1>6 DEF FsPlaces, FsInv, FsCommand, Pushes, Running
  <2> QED BY <1>2, <1>3, <1>6, <2>1, <2>2, <2>3, <2>4 DEF FsPullTalk
<1> QED BY <1>5, <1>6

\* The service gives up, or the client does, only after a failure.
FsCause ==
  ~trouble => /\ ok /\ ~cut /\ cpc \notin {"dead", "killed"}
              /\ Failing => cpc \in {"shutdown", "done"}

LEMMA FsCauseInit == FileSyncInit => FsCause
BY DEF FileSyncInit, FsCause, Failing

LEMMA FsCauseService ==
  ASSUME FsInv, FsGone, FsPlaces, FsAsks, FsHalf, FsTalk, FsPullTalk, FsCause, Service
  PROVE  FsCause'
<1> SUFFICES ASSUME ~trouble' PROVE FsCause'
  BY DEF FsCause
<1>1. ~trouble
  BY FsTroubleStays DEF FileSyncNext
<1>2. UNCHANGED <<cpc, ok, cut>>
  BY FsServiceFrame DEF client
<1>3. ok /\ ~cut /\ cpc \notin {"dead", "killed"}
  BY <1>1 DEF FsCause
<1>4. CASE Failing \/ cpc \in {"shutdown", "done"} \/ ~Failing'
  BY <1>1, <1>2, <1>3, <1>4 DEF FsCause
<1>5. CASE ~Failing /\ cpc \notin {"shutdown", "done"} /\ Failing'
  <2>1. Running /\ ~eof["client"] /\ ~eof["service"]
    BY <1>3, <1>5 DEF Running, FsGone, Failing
  <2>2. Open
    BY <1>5, <2>1 DEF Open
  <2>3. ToService # <<>> => Expected(spc, ToService[1]) /\ ~ToService[1].half
    <3>1. ToService # <<>> => 1 \in 1..Len(ToService)
      BY FsViews, FsTail
    <3> QED BY <1>1, <1>3, <1>5, <2>2, <3>1, FsUnderstood DEF FsHalf, Whole
  <2>4. CASE ServeSend
    BY <1>5, <2>4, FvServeSend DEF Failing
  <2>5. CASE FileData \/ FileDone \/ LinkData
    BY <1>5, <2>5, FvFileData, FvFileDone, FvLinkData DEF Failing
  <2>6. CASE FileInvalid
    BY <2>1, <2>3, <2>6, FvFileInvalid DEF Expected, Request
  <2>7. CASE LinkFails
    BY <2>1, <2>3, <2>7, FvLinkFails DEF Expected
  <2>8. CASE ServeRecv \/ SendChunk
    BY <1>5, <2>8, FvServeRecv, FvSendChunk DEF Failing
  <2>9. CASE ServeQuit \/ BadRequest
    BY <2>1, <2>3, <2>9, FvServeQuit, FvBadRequest DEF Expected, Request
  <2>10. CASE ServiceWriteFails
    BY <2>1, <2>10, FvServiceWriteFails
  <2>11. CASE Drain \/ Abort \/ Close
    BY <1>5, <2>11, FvDrain DEF Abort, Close, ServiceIdle, Failing
  <2>12. CASE ServeStat \/ ServeList \/ ListEntry \/ LinkDone \/ Transmit("service") \/ Swallow("service")
    BY <1>5, <2>12, FvServeStat, FvServeList, FvListEntry, FvLinkDone DEF Transmit, Swallow, service, Failing
  <2> QED BY <2>4, <2>5, <2>6, <2>7, <2>8, <2>9, <2>10, <2>11, <2>12 DEF Service
<1> QED BY <1>4, <1>5

LEMMA FsCauseClient ==
  ASSUME FsInv, FsGone, FsPlaces, FsHalf, FsTalk, FsPullTalk, FsFound, FsCause, Client
  PROVE  FsCause'
<1> SUFFICES ASSUME ~trouble' PROVE FsCause'
  BY DEF FsCause
<1>1. ~trouble
  BY FsTroubleStays DEF FileSyncNext
<1>2. UNCHANGED <<cmd, spc, cut>> /\ UNCHANGED service
  BY FsClientFrame DEF service, command
<1>3. ok /\ ~cut /\ cpc \notin {"dead", "killed"} /\ (Failing => cpc \in {"shutdown", "done"})
  BY <1>1 DEF FsCause
<1>4. Failing' <=> Failing
  BY <1>2 DEF Failing
<1>5. CASE cpc \in {"shutdown", "done"}
  <2>1. CASE Shutdown \/ ClientWriteFails
    BY <1>2, <1>3, <1>5, <2>1 DEF Shutdown, ClientWriteFails, ClientEnds, FsCause
  <2>2. CASE Transmit("client") \/ Swallow("client")
    <3>1. UNCHANGED <<cpc, ok>>
      BY <2>2 DEF Transmit, Swallow, client
    <3> QED BY <1>2, <1>3, <1>4, <1>5, <3>1 DEF FsCause
  <2>3. ~(\/ Start \/ DstStat \/ StatFault \/ NextSource \/ LstatReply
          \/ SendFile \/ LocalReadFails \/ LargeChunk \/ LargePoll \/ CopyOkay \/ CopyFails
          \/ SrcStat \/ Dent \/ ListDone \/ ListFails \/ StatLink \/ LinkStat
          \/ RecvFile \/ Creat \/ RecvData \/ RecvFails \/ RecvDone
          \/ SourceDone \/ Quit)
    BY <1>5 DEF Start, DstStat, StatFault, NextSource, LstatReply, SendFile, LocalReadFails, LargeChunk, LargePoll,
         CopyOkay, CopyFails, SrcStat, Dent, ListDone, ListFails, StatLink, LinkStat, RecvFile, Creat, RecvData,
         RecvFails, RecvDone, SourceDone, Quit, ClientIdle
  <2> QED BY <2>1, <2>2, <2>3 DEF Client
<1>6. CASE cpc \notin {"shutdown", "done"}
  <2>1. Open /\ ~eof["client"] /\ ~Failing
    BY <1>3, <1>6 DEF Open, Running, FsGone, Failing
  <2>2. ~Failing'
    BY <1>4, <2>1
  <2>3. ASSUME UNCHANGED ok, cpc' \notin {"dead", "killed"} PROVE FsCause'
    BY <1>2, <1>3, <2>2, <2>3 DEF FsCause
  <2>4. CASE Start \/ NextSource \/ LstatReply \/ SendFile \/ LargeChunk \/ LargePoll \/ CopyOkay
    BY <1>3, <2>3, <2>4 DEF Start, NextSource, LstatReply, SendFile, LargeChunk, LargePoll, CopyOkay, ClientIdle
  <2>5. CASE Dent \/ ListDone \/ StatLink \/ LinkStat \/ RecvFile \/ RecvData \/ SourceDone \/ Quit \/ Shutdown
    BY <1>3, <2>3, <2>5 DEF Dent, ListDone, StatLink, LinkStat, RecvFile, RecvData, SourceDone, Quit, Shutdown,
         ClientIdle, ClientEnds
  <2>6. CASE DstStat
    <3>1. ok' /\ cpc' = "next"
      BY <2>6, FvDstStat
    <3> QED BY <1>2, <1>3, <2>2, <3>1 DEF FsCause
  <2>7. CASE LocalReadFails \/ ClientWriteFails \/ Swallow("client")
    BY <2>1, <2>7 DEF LocalReadFails, ClientWriteFails, Swallow
  <2>8. CASE Transmit("client")
    BY <1>3, <2>3, <2>8 DEF Transmit, client
  <2>9. CASE Creat \/ RecvDone
    BY <2>3, <2>9 DEF Creat, RecvDone
  <2>10. CASE CopyFails
    <3>1. cpc = "copydone" /\ Open' /\ Pushes
      <4>1. cpc = "copydone" /\ cpc' = "next" /\ eof' = eof
        BY <2>10 DEF CopyFails, GiveUp, ClientIdle
      <4>2. Pushes
        BY <4>1 DEF FsPlaces, FsInv, FsCommand, Pushes
      <4> QED BY <2>1, <2>2, <4>1, <4>2 DEF Open, Running
    <3> QED BY <2>1, <2>10, <3>1, FsTalkCopyFails
  <2>11. CASE SrcStat
    <3>1. ToClient # <<>> /\ ToClient[1].id = "ATTR" /\ cmd = "pull"
      BY <2>11, FvSrcStat
    <3>2. 1 \in 1..Len(ToClient)
      BY <3>1, FsViews, FsTail
    <3>3. Found(ToClient[1])
      BY <1>1, <3>1, <3>2 DEF FsFound, AllFound
    <3>4. UNCHANGED ok /\ cpc' \in {"recv", "ls"}
      BY <2>11, <3>3, FvSrcStat
    <3> QED BY <2>3, <3>4
  <2>12. CASE ListFails
    <3>1. CASE Pushes
      BY <2>12, <3>1 DEF ListFails, ClientIdle, FsPlaces
    <3> QED BY <2>1, <2>12, <3>1, PullTalkListFails
  <2>13. CASE RecvFails
    <3>1. CASE Pushes
      BY <2>13, <3>1 DEF RecvFails, ClientIdle, FsPlaces
    <3> QED BY <2>1, <2>13, <3>1, PullTalkRecvFails
  <2>14. CASE StatFault
    <3>1. ToClient # <<>> /\ ToClient[1].id # "ATTR" /\ cpc \in {"dst", "lstats", "srcstat", "lnstat"}
      BY <2>1, <2>14, FvStatFault DEF StatFault
    <3>2. ~AskedStat
      BY <3>1, FsStatAnswered
    <3>3. ~Left /\ ~Lost(1)
      BY <1>1 DEF Left, Lost
    <3>4. CASE Pushes
      <4>1. cpc \in {"dst", "lstats"}
        BY <3>1, <3>4 DEF FsPlaces
      <4>2. AskedAll
        BY <2>1, <3>2, <3>3, <3>4, <4>1 DEF FsTalk
      <4>3. 1 \in 1..Len(ToClient)
        BY <3>1, FsViews, FsTail
      <4> QED BY <3>1, <4>2, <4>3 DEF AskedAll, Ids
    <3>5. CASE ~Pushes
      <4>1. cpc \in {"srcstat", "lnstat"}
        BY <3>1, <3>5 DEF FsPlaces, FsInv, FsCommand, Pushes
      <4> QED BY <2>1, <3>2, <3>3, <3>5, <4>1 DEF FsPullTalk
    <3> QED BY <3>4, <3>5
  <2> QED BY <2>4, <2>5, <2>6, <2>7, <2>8, <2>9, <2>10, <2>11, <2>12, <2>13, <2>14 DEF Client
<1> QED BY <1>5, <1>6

LEMMA FsCauseStep ==
  ASSUME FsInv, FsGone, FsPlaces, FsAsks, FsHalf, FsTalk, FsPullTalk, FsFound, FsCause, [FileSyncNext]_fileSyncVars
  PROVE  FsCause'
<1>1. CASE Client
  BY <1>1, FsCauseClient
<1>2. CASE Service
  BY <1>2, FsCauseService
<1>3. CASE Kill \/ Break
  BY <1>3 DEF Kill, Break, FsCause
<1>4. CASE DrainSpins \/ Finished \/ UNCHANGED fileSyncVars
  BY <1>4 DEF DrainSpins, Finished, fileSyncVars, client, service, history, FsCause, Failing
<1> QED BY <1>1, <1>2, <1>3, <1>4 DEF FileSyncNext

-----------------------------------------------------------------------------
(* The client hears why *)

\* The reason is on its way to the client, which sends that file, and no part
\* of the file can make the service close the stream before the client reads.
Told(f) ==
  /\ OnFile(f) /\ spc \in {"drain", "abort", "closed"}
  /\ Len(ToClient) = 1 /\ ToClient[1].id = "FAIL"
  /\ spc = "drain" => \A n \in 1..Len(ToService) :
                        ToService[n].id = IF cpc = "copydone" /\ n = Len(ToService) THEN "DONE" ELSE "DATA"
  /\ spc # "drain" => cpc = "copydone" /\ ToService = <<>> /\ out["client"] = <<>>

FsReports ==
  ~cut /\ cpc # "killed" =>
    /\ \A f \in failed : Kind[f] # "link" => f \in reported \/ Told(f)
    /\ ~Running /\ Pushes => Failing

LEMMA FsReportsInit == FileSyncInit => FsReports
BY DEF FileSyncInit, FsReports, Running

\* The service finds a reason.
LEMMA FsReasonGiven ==
  ASSUME FsInv, FsGone, FsPlaces, FsAsks, FsHalf, FsTalk, FsHears, FsBusy, FsReports, Service, ~cut, cpc # "killed",
         NEW f \in Files, spc' = "drain", ToClient' = Said(Msg("FAIL", f)), Msg("FAIL", f) \in FsMessages(cmd),
         ToService # <<>>, ToService' = Tail(ToService),
         \/ spc = "idle" /\ ToService[1].id = "SEND" /\ ToService[1].f = f
         \/ spc = "file" /\ cur = f
  PROVE  f \in reported \/ Told(f)'
<1>1. ToService \in Seq(FsMessages(cmd)) /\ 1 \in 1..Len(ToService) /\ Len(ToClient) \in Nat
  BY FsViews, FsTail
<1>2. Pushes
  BY <1>1, FsAsked DEF FsAsks
<1>3. Running /\ ~Failing
  BY <1>2 DEF FsReports, Failing
<1>4. ~eof["client"] /\ ~eof["service"] /\ Open
  BY <1>3 DEF FsGone, Open, Failing
<1>5. Busy(f, spc, cur, ToService)
  BY <1>1 DEF Busy
<1>6. f = Turn(spc, cur, ToService)
  BY DEF Turn
<1> SUFFICES ASSUME f \notin reported PROVE Told(f)'
  OBVIOUS
<1>7. OnFile(f) /\ \A e : ~Lost(e)
  BY <1>2, <1>5, <1>6 DEF FsBusy, Lost
<1>8. UNCHANGED <<cpc, files, left>> /\ Failing'
  BY FsServiceFrame DEF client, Failing
<1>9. ToClient = <<>> /\ Len(ToClient') = 1 /\ ToClient'[1].id = "FAIL"
  <2>1. Len(ToClient') = Len(ToClient) + 1
    BY <1>4, FsSaid
  <2>2. ~Begins(ToClient', ToClient)
    BY <1>1, <2>1 DEF Begins
  <2> QED BY <1>2, <1>3, <1>8, <2>2, HearsFail
<1>10. PICK k : /\ InFile(f, k)
                /\ cpc = "copydone" => k = Chunks[f] + 2
                /\ cpc # "copydone" => k = 1 + Chunks[f] - left
  <2>1. CASE cpc \in {"large", "poll"}
    BY <1>2, <1>4, <1>7, <2>1 DEF FsTalk, OnFile
  <2>2. CASE cpc = "copydone"
    <3>1. ~(Len(ToClient) = 1)
      BY <1>9
    <3> QED BY <1>2, <1>4, <1>7, <2>2, <3>1 DEF FsTalk, OnFile
  <2> QED BY <1>7, <2>1, <2>2 DEF OnFile
<1>11. /\ Chunks[f] \in Nat /\ left \in Nat /\ Fed(f, spc, cur, remote[f], ToService)
       /\ Taken(spc, remote[f]) \in Nat /\ Taken(spc, remote[f]) + Len(ToService) = k
  BY <1>10, FsChunks, FedTaken DEF FsInv, FsClientTypes, InFile, Sends
<1>12. Len(ToService') = Len(ToService) - 1 /\ Len(ToService) \in Nat
       /\ \A n \in 1..Len(ToService) - 1 : ToService'[n] = ToService[n + 1] /\ n + 1 \in 1..Len(ToService)
  BY <1>1, FsTail
<1>13. ASSUME NEW n \in 1..Len(ToService')
       PROVE  ToService'[n].id = IF cpc = "copydone" /\ n = Len(ToService') THEN "DONE" ELSE "DATA"
  <2>1. n \in 1..Len(ToService) - 1
    BY <1>12
  <2>2. ToService'[n].id = Script(f, Taken(spc, remote[f]) + (n + 1))
    BY <1>11, <1>12, <2>1 DEF Fed
  <2>3. Taken(spc, remote[f]) + (n + 1) # 1
    BY <1>11, <2>1
  <2>4. CASE cpc = "copydone"
    <3>1. Taken(spc, remote[f]) + (n + 1) = Chunks[f] + 2 <=> n = Len(ToService) - 1
      <4>1. \A t, l, c, m \in Nat : t + l = c + 2 => (t + (m + 1) = c + 2 <=> m = l - 1)
        OBVIOUS
      <4>2. Taken(spc, remote[f]) + Len(ToService) = Chunks[f] + 2 /\ n \in Nat
        BY <1>10, <1>11, <1>12, <2>1, <2>4
      <4>3. Taken(spc, remote[f]) \in Nat /\ Len(ToService) \in Nat /\ Chunks[f] \in Nat
        BY <1>11, <1>12
      <4>4. PICK t, l, c \in Nat : t = Taken(spc, remote[f]) /\ l = Len(ToService) /\ c = Chunks[f]
        BY <4>3
      <4>5. t + (n + 1) = c + 2 <=> n = l - 1
        BY <4>1, <4>2, <4>4
      <4> QED BY <4>4, <4>5
    <3> QED BY <1>12, <2>2, <2>3, <2>4, <3>1 DEF Script
  <2>5. CASE cpc # "copydone"
    <3>1. Taken(spc, remote[f]) + (n + 1) # Chunks[f] + 2
      BY <1>10, <1>11, <1>12, <2>1, <2>5
    <3> QED BY <2>2, <2>3, <2>5, <3>1 DEF Script
  <2> QED BY <2>4, <2>5
<1> QED BY <1>7, <1>8, <1>9, <1>13 DEF Told, OnFile

\* A service that has failed does nothing but end.
LEMMA FsFailingService ==
  ASSUME FsInv, Service, Failing
  PROVE  Drain \/ Abort \/ Close \/ ServiceWriteFails \/ Transmit("service") \/ Swallow("service")
<1>1. ~(ServeStat \/ ServeList \/ ListEntry \/ ServeSend \/ FileData \/ FileDone \/ LinkData \/ LinkDone \/ ServeRecv \/ SendChunk
        \/ ServeQuit)
  BY FvServeStat, FvServeList, FvListEntry, FvServeSend, FvFileData, FvFileDone, FvLinkData, FvLinkDone, FvServeRecv, FvSendChunk,
     FvServeQuit DEF Failing
<1>2. ~(FileInvalid \/ LinkFails \/ BadRequest)
  BY DEF FileInvalid, LinkFails, BadRequest, Failing
<1> QED BY <1>1, <1>2 DEF Service

LEMMA FsFailingStays ==
  ASSUME FsInv, Service, Failing
  PROVE  Failing'
<1>1. CASE Drain
  BY <1>1, FvDrain DEF Failing
<1>2. CASE Abort \/ Close
  BY <1>2 DEF Abort, Close, CloseStream, Failing
<1>3. CASE ServiceWriteFails
  BY <1>3 DEF ServiceWriteFails, Failing
<1>4. CASE Transmit("service") \/ Swallow("service")
  BY <1>4 DEF Transmit, Swallow, service, Failing
<1> QED BY <1>1, <1>2, <1>3, <1>4, FsFailingService

LEMMA FsServiceOut ==
  ASSUME FsInv, Service
  PROVE  out'["client"] = out["client"]
<1>1. ASSUME NEW m, Send("service", m) PROVE out'["client"] = out["client"]
  BY <1>1, FsOwnEnd
<1>2. CASE Transmit("service") \/ Swallow("service")
  <2>1. out' = [out EXCEPT !["service"] = Tail(@)] /\ out \in [Side -> Seq(FsMessages(cmd))]
    BY <1>2 DEF Transmit, Swallow, FsInv, FsChannels
  <2> QED BY <2>1, FsSides
<1>3. CASE ServeStat \/ ServeList \/ ListEntry \/ ServeSend \/ FileData \/ FileDone
  BY <1>1, <1>3 DEF ServeStat, ServeList, ListEntry, ServeSend, FileData, FileDone, DeviceFails, Say, NoSend
<1>4. CASE FileInvalid \/ Drain \/ Abort \/ Close \/ LinkData \/ LinkDone \/ LinkFails
  BY <1>1, <1>4 DEF FileInvalid, Drain, Abort, Close, LinkData, LinkDone, LinkFails, Say, NoSend
<1>5. CASE ServeRecv \/ SendChunk \/ ServeQuit \/ BadRequest \/ ServiceWriteFails
  BY <1>1, <1>5 DEF ServeRecv, SendChunk, ServeQuit, BadRequest, ServiceWriteFails, Say, NoSend
<1> QED BY <1>2, <1>3, <1>4, <1>5 DEF Service

LEMMA ToldService ==
  ASSUME FsInv, FsGone, FsHalf, ~cut, cpc # "killed", NEW f, Told(f), Service
  PROVE  Told(f)'
<1>1. Running /\ ~eof["service"] /\ Failing
  BY DEF Told, OnFile, Running, FsGone, Failing
<1>2. UNCHANGED <<cpc, files>> /\ out'["client"] = out["client"]
  BY FsServiceFrame, FsServiceOut DEF client
<1>3. CASE Transmit("service") \/ Swallow("service")
  <2>1. ToService' = ToService /\ ToClient' = ToClient /\ spc' = spc
    BY <1>3, FsSides, FsTransmitted, FsSwallowed DEF Transmit, Swallow, service
  <2> QED BY <1>2, <2>1 DEF Told, OnFile
<1>4. CASE ServiceWriteFails
  BY <1>1, <1>4, FvServiceWriteFails
<1>5. CASE Drain
  <2>1. /\ spc = "drain" /\ ToService # <<>> /\ ToService' = Tail(ToService) /\ ToClient' = ToClient
        /\ spc' = IF Throws(ToService[1]) THEN "drain" ELSE "abort"
        /\ UNCHANGED eof
    BY <1>5, FvDrain
  <2>2. ToService \in Seq(FsMessages(cmd)) /\ 1 \in 1..Len(ToService)
    BY <2>1, FsViews, FsTail
  <2>3. Len(ToService') = Len(ToService) - 1 /\ Len(ToService) \in Nat
        /\ \A n \in 1..Len(ToService) - 1 : ToService'[n] = ToService[n + 1] /\ n + 1 \in 1..Len(ToService)
    BY <2>1, <2>2, FsTail
  <2>4. ~ToService[1].half
    BY <2>2 DEF FsHalf, Whole
  <2>5. CASE Throws(ToService[1])
    <3>1. spc' = "drain"
      BY <2>1, <2>5
    <3>2. ASSUME NEW n \in 1..Len(ToService')
          PROVE  ToService'[n].id = IF cpc = "copydone" /\ n = Len(ToService') THEN "DONE" ELSE "DATA"
      <4>1. n \in 1..Len(ToService) - 1
        BY <2>3
      <4>2. n + 1 = Len(ToService) <=> n = Len(ToService')
        BY <2>3, <4>1
      <4>3. ToService'[n] = ToService[n + 1] /\ n + 1 \in 1..Len(ToService)
        BY <2>3, <4>1
      <4> QED BY <2>1, <4>2, <4>3 DEF Told
    <3> QED BY <1>2, <2>1, <3>1, <3>2 DEF Told, OnFile
  <2>6. CASE ~Throws(ToService[1])
    <3>1. spc' = "abort" /\ ToService[1].id # "DATA"
      BY <2>1, <2>4, <2>6 DEF Throws
    <3>2. cpc = "copydone" /\ 1 = Len(ToService)
      BY <2>1, <2>2, <3>1 DEF Told
    <3>3. ToService' = <<>>
      BY <2>1, <2>2, <3>2, FsOne1
    <3>4. out'["client"] = <<>>
      <4>1. ~eof["client"]
        BY <2>1 DEF FsGone
      <4>2. (net["service"] \o out["client"])' = <<>>
        BY <2>1, <3>3, <4>1 DEF ToService
      <4>3. (net["service"] \in Seq(FsMessages(cmd)) /\ out["client"] \in Seq(FsMessages(cmd)))'
        <5>1. out'["client"] \in Seq(FsMessages(cmd))
          BY <1>2, FsViews
        <5>2. net' = [net EXCEPT !["service"] = Tail(net["service"])] /\ net["service"] # <<>>
          BY <1>5 DEF Drain, Consume, Gets
        <5>3. net'["service"] = Tail(net["service"])
          BY <5>2, FsSides DEF FsInv, FsChannels
        <5>4. cmd' = cmd
          BY FsServiceFrame DEF command
        <5> QED BY <5>1, <5>2, <5>3, <5>4, FsViews, FsTail
      <4>4. PICK a, b \in Seq(FsMessages(cmd')) : a = net'["service"] /\ b = out'["client"]
        BY <4>3
      <4>5. a \o b = <<>>
        BY <4>2, <4>4
      <4>6. Len(b) = 0
        BY <4>5, FsJoin
      <4> QED BY <4>4, <4>6, FsEmpty
    <3> QED BY <1>2, <2>1, <3>1, <3>2, <3>3, <3>4 DEF Told, OnFile
  <2> QED BY <2>5, <2>6
<1>6. CASE Abort
  <2>1. spc = "abort" /\ spc' = "closed"
    BY <1>6 DEF Abort, ServiceIdle, CloseStream
  <2>2. ToService = <<>> /\ ToService' = <<>> /\ ToClient' = ToClient
    BY <1>6, <2>1, FvCloses DEF Told
  <2> QED BY <1>2, <2>1, <2>2 DEF Told, OnFile
<1>7. CASE Close
  BY <1>7 DEF Close, ServiceIdle, Told
<1> QED BY <1>1, <1>3, <1>4, <1>5, <1>6, <1>7, FsFailingService

\* The service takes a link for a link.
FsLinks == spc = "link" => Kind[cur] = "link"

LEMMA FsLinksStep == ASSUME FsLinks, [FileSyncNext]_fileSyncVars PROVE FsLinks'
<1>1. CASE ServeSend
  BY <1>1 DEF ServeSend, DeviceFails, AfterFailure, FsLinks
<1>2. CASE UNCHANGED service
  BY <1>2 DEF FsLinks, service
<1>3. CASE Service /\ ~ServeSend
  <2>1. CASE UNCHANGED service
    BY <1>2, <2>1
  <2>2. spc' # "link" \/ UNCHANGED <<spc, cur>>
    BY <1>3 DEF Service, ServeStat, ServeList, ListEntry, FileData, FileDone, FileInvalid, Drain, Abort, Close, CloseStream,
       LinkData, LinkDone, LinkFails, ServeRecv, SendChunk, ServeQuit, BadRequest, ServiceWriteFails, Transmit, Swallow,
       DeviceFails, AfterFailure, AfterOkay, AfterQuit, service
  <2> QED BY <2>2 DEF FsLinks
<1>4. Client \/ Kill \/ Break \/ UNCHANGED fileSyncVars => UNCHANGED service
  BY FsClientFrame DEF Kill, Break, fileSyncVars
<1> QED BY <1>1, <1>2, <1>3, <1>4 DEF FileSyncNext, DrainSpins, Finished

LEMMA FsReportsService ==
  ASSUME FsInv, FsGone, FsPlaces, FsAsks, FsHalf, FsTalk, FsHears, FsBusy, FsLinks, FsReports, Service
  PROVE  FsReports'
<1>1. UNCHANGED <<cmd, cpc, cut, reported>>
  BY FsServiceFrame DEF command, client
<1> SUFFICES ASSUME ~cut, cpc # "killed"
             PROVE  /\ \A f \in failed' : Kind[f] # "link" => f \in reported \/ Told(f)'
                    /\ ~Running /\ Pushes => Failing'
  BY <1>1 DEF FsReports, Running, Pushes
<1>2. ~Running /\ Pushes => Failing'
  BY FsFailingStays DEF FsReports
<1>3. ASSUME NEW f \in failed', Kind[f] # "link" PROVE f \in reported \/ Told(f)'
  <2>1. CASE f \in failed
    BY <1>3, <2>1, ToldService DEF FsReports
  <2>2. CASE f \notin failed
    <3>1. CASE ServeSend
      <4>1. PICK g \in Files :
              /\ spc = "idle" /\ ToService # <<>> /\ ToService[1].id = "SEND"
              /\ ToService[1].f = g /\ ToService' = Tail(ToService)
              /\ spc' = "drain" /\ ToClient' = Said(Msg("FAIL", g)) /\ Msg("FAIL", g) \in FsMessages(cmd)
              /\ failed' = failed \cup {g}
        BY <2>2, <3>1, FvServeSend
      <4>2. f = g
        BY <1>3, <2>2, <4>1
      <4> QED BY <4>1, <4>2, FsReasonGiven
    <3>2. CASE FileData \/ FileDone
      <4>1. /\ spc = "file" /\ ToService # <<>> /\ ToService' = Tail(ToService) /\ cur \in Files
            /\ spc' = "drain" /\ ToClient' = Said(Msg("FAIL", cur)) /\ Msg("FAIL", cur) \in FsMessages(cmd)
            /\ failed' = failed \cup {cur}
        BY <2>2, <3>2, FvFileData, FvFileDone
      <4>2. f = cur
        BY <1>3, <2>2, <4>1
      <4> QED BY <4>1, <4>2, FsReasonGiven
    <3>3. CASE LinkData
      <4>1. spc = "link" /\ (failed' = failed \/ failed' = failed \cup {cur})
        BY <3>3, FvLinkData
      <4>2. Kind[cur] = "link"
        BY <4>1 DEF FsLinks
      <4> QED BY <1>3, <2>2, <4>1, <4>2
    <3>4. CASE ~(ServeSend \/ FileData \/ FileDone \/ LinkData)
      <4>1. failed' = failed
        BY <3>4 DEF Service, ServeStat, ServeList, ListEntry, FileInvalid, Drain, Abort, Close,
          LinkDone, LinkFails, ServeRecv, SendChunk, ServeQuit, BadRequest, ServiceWriteFails, Transmit,
          Swallow, history
      <4> QED BY <2>2, <4>1
    <3> QED BY <3>1, <3>2, <3>3, <3>4
  <2> QED BY <2>1, <2>2
<1> QED BY <1>2, <1>3

\* The client sends more of a file that the service drops.
LEMMA ToldMore ==
  ASSUME FsInv, NEW f, Told(f), spc = "drain", ~eof["client"], NEW m \in FsMessages(cmd), ToService' = Wrote(<<m>>),
         cpc # "copydone", UNCHANGED <<spc, files>>, ToClient' = ToClient,
         \/ cpc' \in {"large", "poll"} /\ m.id = "DATA"
         \/ cpc' = "copydone" /\ m.id = "DONE"
  PROVE  Told(f)'
<1>1. <<m>> \in Seq(FsMessages(cmd)) /\ Len(<<m>>) = 1 /\ <<m>>[1] = m /\ ToService \in Seq(FsMessages(cmd))
  BY FsOne, FsViews
<1>2. PICK t \in Seq(FsMessages(cmd)) : t = <<m>>
  BY <1>1
<1>3. ToService' = ToService \o t
  BY <1>2, FsWrote
<1>4. /\ Len(ToService') = Len(ToService) + 1 /\ Len(ToService) \in Nat
      /\ \A n \in 1..Len(ToService) : ToService'[n] = ToService[n]
      /\ ToService'[Len(ToService) + 1] = m
  <2>1. Len(t) = 1 /\ t[1] = m /\ 1 \in 1..Len(t)
    BY <1>1, <1>2
  <2>2. /\ Len(ToService \o t) = Len(ToService) + Len(t) /\ Len(ToService) \in Nat
        /\ \A n \in 1..Len(ToService) : (ToService \o t)[n] = ToService[n]
        /\ \A n \in 1..Len(t) : (ToService \o t)[Len(ToService) + n] = t[n]
    BY <1>1, FsJoin
  <2>3. PICK u : u = ToService \o t
    OBVIOUS
  <2>4. Len(u) = Len(ToService) + 1 /\ u[Len(ToService) + 1] = m
    BY <2>1, <2>2, <2>3
  <2> QED BY <1>3, <2>2, <2>3, <2>4
<1>5. ASSUME NEW n \in 1..Len(ToService')
      PROVE  ToService'[n].id = IF cpc' = "copydone" /\ n = Len(ToService') THEN "DONE" ELSE "DATA"
  <2>1. (n \in 1..Len(ToService) /\ n # Len(ToService')) \/ (n = Len(ToService) + 1 /\ n = Len(ToService'))
    BY <1>4
  <2>2. \A k \in 1..Len(ToService) : ToService[k].id = "DATA"
    BY DEF Told
  <2> QED BY <1>4, <2>1, <2>2
<1> QED BY <1>5 DEF Told, OnFile

LEMMA ToldClient ==
  ASSUME FsInv, FsGone, FsHalf, ~cut, NEW f, Told(f), Client
  PROVE  f \in reported' \/ Told(f)'
<1>1. UNCHANGED <<spc, cur, remote, cmd>>
  BY FsClientFrame DEF service, command
<1>2. cpc \in {"large", "poll", "copydone"} /\ f = Head(files)
  BY DEF Told, OnFile
<1>3. eof["client"] <=> spc = "closed"
  BY DEF FsGone
<1>4. spc # "drain" => cpc = "copydone" /\ out["client"] = <<>>
  BY DEF Told
<1>5. ToClient # <<>> /\ ToClient[1].id = "FAIL" /\ ~ToClient[1].half
  <2>1. Len(ToClient) = 1 /\ ToClient[1].id = "FAIL" /\ ToClient \in Seq(FsMessages(cmd))
    BY FsViews DEF Told
  <2> QED BY <2>1, FsOne1 DEF FsHalf, Whole
<1>6. CASE Transmit("client")
  <2>1. ToService' = ToService /\ ToClient' = ToClient /\ UNCHANGED <<cpc, files>> /\ out["client"] # <<>>
    BY <1>6, FsSides, FsTransmitted DEF Transmit, client
  <2> QED BY <1>1, <1>4, <2>1 DEF Told, OnFile
<1>7. CASE Swallow("client") \/ ClientWriteFails
  BY <1>3, <1>4, <1>7 DEF Swallow, ClientWriteFails
<1>8. CASE LargeChunk
  <2>1. cpc = "large" /\ spc = "drain" /\ ~eof["client"] /\ UNCHANGED files
    BY <1>2, <1>3, <1>4, <1>8 DEF LargeChunk, ClientIdle
  <2>2. PICK m \in FsMessages(cmd) : /\ ToService' = Wrote(<<m>>) /\ ToClient' = ToClient
                                     /\ \/ cpc' \in {"large", "poll"} /\ m.id = "DATA"
                                        \/ cpc' = "copydone" /\ m.id = "DONE"
    BY <1>8, FvLargeChunk, FsMsg
  <2> QED BY <1>1, <2>1, <2>2, ToldMore
<1>9. CASE LargePoll
  <2>1. cpc = "poll" /\ spc = "drain" /\ ~eof["client"] /\ UNCHANGED files
    BY <1>2, <1>3, <1>4, <1>9 DEF LargePoll, ClientIdle
  <2>2. CASE cpc' = "copydone"
    <3>1. PICK m \in FsMessages(cmd) : ToService' = Wrote(<<m>>) /\ ToClient' = ToClient /\ m.id = "DONE"
      BY <1>9, <2>2, FvLargePoll, FsMsg
    <3> QED BY <1>1, <2>1, <2>2, <3>1, ToldMore
  <2>3. CASE cpc' # "copydone"
    <3>1. cpc' = "large" /\ ToService' = ToService /\ ToClient' = ToClient
      BY <1>9, <2>3, FvLargePoll
    <3> QED BY <1>1, <2>1, <3>1 DEF Told, OnFile
  <2> QED BY <2>2, <2>3
<1>10. CASE CopyOkay
  BY <1>5, <1>10, FvCopyOkay
<1>11. CASE CopyFails
  BY <1>2, <1>5, <1>11, FvCopyFails
<1>12. CASE LocalReadFails
  BY <1>2, <1>12 DEF LocalReadFails
<1>13. ~(Start \/ DstStat \/ StatFault \/ NextSource \/ LstatReply \/ SendFile
         \/ SrcStat \/ Dent \/ ListDone \/ ListFails \/ StatLink \/ LinkStat
         \/ RecvFile \/ Creat \/ RecvData \/ RecvFails \/ RecvDone
         \/ SourceDone \/ Quit \/ Shutdown)
  BY <1>2 DEF Start, DstStat, StatFault, NextSource, LstatReply, SendFile,
       SrcStat, Dent, ListDone, ListFails, StatLink, LinkStat, RecvFile, Creat, RecvData,
       RecvFails, RecvDone, SourceDone, Quit, Shutdown, ClientIdle
<1> QED BY <1>6, <1>7, <1>8, <1>9, <1>10, <1>11, <1>12, <1>13 DEF Client

\* A client that pushes ends only when the service has ended, or has failed.
LEMMA FsEndsLast ==
  ASSUME FsInv, FsGone, FsPlaces, FsTalk, ~cut, Client, Pushes, Running, ~Running'
  PROVE  Failing
<1> SUFFICES ASSUME ~Failing PROVE FALSE
  OBVIOUS
<1>1. Open /\ ~eof["client"]
  BY DEF Open, FsGone, Failing
<1>2. StatFault \/ Shutdown \/ ClientWriteFails
  BY DEF Client, Start, DstStat, NextSource, LstatReply, SendFile, LocalReadFails, LargeChunk, LargePoll,
      CopyOkay, CopyFails, SrcStat, Dent, ListDone, ListFails, StatLink, LinkStat, RecvFile, Creat, RecvData, RecvFails,
      RecvDone, SourceDone, Quit, Transmit, Swallow, GiveUp, client, Running
<1>3. CASE StatFault
  <2>1. ToClient # <<>> /\ ToClient[1].id # "ATTR" /\ cpc \in {"dst", "lstats"}
    BY <1>1, <1>3, FvStatFault DEF StatFault, FsPlaces
  <2>2. ~AskedStat
    BY <2>1, FsStatAnswered
  <2>3. AskedAll
    BY <1>1, <2>1, <2>2 DEF FsTalk
  <2>4. 1 \in 1..Len(ToClient)
    BY <2>1, FsViews, FsTail
  <2> QED BY <2>1, <2>3, <2>4 DEF AskedAll, Ids
<1>4. CASE Shutdown
  <2>1. ToClient # <<>> /\ cpc = "shutdown"
    BY <1>1, <1>4, FvShutdown DEF Shutdown, ClientIdle
  <2> QED BY <1>1, <2>1 DEF FsTalk
<1>5. CASE ClientWriteFails
  BY <1>1, <1>5 DEF ClientWriteFails
<1> QED BY <1>2, <1>3, <1>4, <1>5

LEMMA FsReportsStep ==
  ASSUME FsInv, FsGone, FsPlaces, FsAsks, FsHalf, FsTalk, FsHears, FsBusy, FsLinks, FsReports, [FileSyncNext]_fileSyncVars
  PROVE  FsReports'
<1>1. CASE Service
  BY <1>1, FsReportsService
<1>2. CASE Client
  <2>1. UNCHANGED <<cmd, spc, cut, failed>>
    BY <1>2, FsClientFrame DEF command, service
  <2>2. cpc = "killed" => cpc' = "killed"
    BY <1>2 DEF Client, Start, DstStat, StatFault, NextSource, LstatReply, SendFile, LocalReadFails, LargeChunk, LargePoll,
      CopyOkay, CopyFails, SrcStat, Dent, ListDone, ListFails, StatLink, LinkStat, RecvFile, Creat, RecvData, RecvFails,
      RecvDone, SourceDone, Quit, Shutdown, ClientWriteFails, Transmit, Swallow, GiveUp, client, ClientIdle
  <2> SUFFICES ASSUME ~cut, cpc # "killed"
               PROVE  /\ \A f \in failed : Kind[f] # "link" => f \in reported' \/ Told(f)'
                      /\ ~Running' /\ Pushes => Failing
    BY <2>1, <2>2 DEF FsReports, Pushes, Failing
  <2>3. \A f \in failed : Kind[f] # "link" => f \in reported' \/ Told(f)'
    BY <1>2, ToldClient, FsReportedStays DEF FsReports
  <2>4. ~Running' /\ Pushes => Failing
    BY <1>2, FsEndsLast DEF FsReports
  <2> QED BY <2>3, <2>4
<1>3. CASE Kill \/ Break
  BY <1>3 DEF Kill, Break, FsReports
<1>4. CASE DrainSpins \/ Finished \/ UNCHANGED fileSyncVars
  <2>1. UNCHANGED <<cmd, cpc, files, spc, cut, failed, reported, net, out, eof>>
    BY <1>4 DEF DrainSpins, Finished, fileSyncVars, command, client, service, history
  <2>2. ToService' = ToService /\ ToClient' = ToClient
    BY <2>1, FsStill
  <2>3. \A f : Told(f) => Told(f)'
    BY <2>1, <2>2 DEF Told, OnFile
  <2> QED BY <2>1, <2>3 DEF FsReports, Running, Pushes, Failing
<1> QED BY <1>1, <1>2, <1>3, <1>4 DEF FileSyncNext

FsExplained == FsPullTalk /\ FsFound /\ FsCause /\ FsLinks /\ FsReports

LEMMA FsExplainedInv == FileSyncSpec => [](FsInv /\ FsPush /\ FsCopy /\ FsExplained)
<1>1. FileSyncInit => FsExplained
  <2>1. FileSyncInit => FsLinks
    BY DEF FileSyncInit, FsLinks
  <2> QED BY <2>1, FsPullTalkInit, FsFoundInit, FsCauseInit, FsReportsInit DEF FsExplained
<1>2. ASSUME FsInv, FsInv', FsPush, FsCopy, FsExplained, [FileSyncNext]_fileSyncVars PROVE FsExplained'
  <2>1. FsGone /\ FsPlaces /\ FsAsks /\ FsSources /\ FsTalk /\ FsHalf /\ FsHears /\ FsBusy
    BY <1>2 DEF FsPush, FsCopy
  <2>2. FsPullTalk /\ FsFound /\ FsCause /\ FsLinks /\ FsReports
    BY <1>2 DEF FsExplained
  <2>3. FsPullTalk'
    BY <1>2, <2>1, <2>2, FsPullTalkStep
  <2>4. FsFound'
    BY <1>2, <2>1, <2>2, FsFoundStep
  <2>5. FsCause'
    BY <1>2, <2>1, <2>2, FsCauseStep
  <2>6. FsLinks' /\ FsReports'
    BY <1>2, <2>1, <2>2, FsLinksStep, FsReportsStep
  <2> QED BY <2>3, <2>4, <2>5, <2>6 DEF FsExplained
<1> QED BY <1>1, <1>2, FsCopyInv, PTL DEF FileSyncSpec

\* A client that ends with an unbroken stream has told the user of every
\* regular file the device failed to store: handle_send_file keeps reading
\* after "fail:" so that its reason is not lost, and ReceivedError and CopyDone
\* find it; handle_send_link does not, and a link's reason may be lost.  And
\* nothing but a failure makes a command fail: the client never takes an
\* answer for the answer to something else.
THEOREM FailuresAreExplained == FileSyncSpec => []FailuresExplained
<1>1. FsExplained => FailuresExplained
  BY DEF FsExplained, FsCause, FsReports, FailuresExplained, ReasonReported, FailureHasCause, Told, OnFile
<1> QED BY <1>1, FsExplainedInv, PTL

-----------------------------------------------------------------------------
(* What the client of a pull hears, until it ends *)

\* No answer to a stat comes first.
NoAttr(s) == s = <<>> \/ s[1].id # "ATTR"

\* Nothing follows DONE.
Entries(s) ==
  /\ Ids(s, {"DENT", "DONE", "FAIL"})
  /\ \A n \in 1..Len(s) : s[n].id = "DONE" => n = Len(s)

\* DONE comes after all chunks of the file.
Parts(f, got, s) ==
  /\ Ids(s, {"DATA", "DONE", "FAIL"})
  /\ \A n \in 1..Len(s) : /\ s[n].id = "DATA" => s[n].f = f
                          /\ s[n].id = "DONE" => n = Len(s) /\ got + n = Chunks[f] + 1

Heard(pc, f, got, writes, s) ==
  /\ pc \in {"links", "recv"} => s = <<>>
  /\ pc = "lnstat" => Len(s) <= 1 /\ (writes # <<>> => s = <<>>)
  /\ pc = "srcstat" => NoAttr(s) \/ (Len(s) = 1 /\ writes = <<>>)
  /\ pc = "next" => NoAttr(s)
  /\ pc = "ls" => Entries(s)
  /\ pc \in {"creat", "recvdata"} => Parts(f, got, s)

FsPullHears == cmd = "pull" /\ Running => Heard(cpc, Head(files), Got, out["client"], ToClient)

LEMMA FsPullHearsInit == FileSyncInit => FsPullHears
<1> SUFFICES ASSUME FileSyncInit PROVE FsPullHears
  OBVIOUS
<1>1. net["client"] = <<>> /\ out["service"] = <<>>
  BY FsSides DEF FileSyncInit
<1>2. ToClient = <<>> /\ cpc \in {"start", "next"}
  BY <1>1 DEF ToClient, FileSyncInit
<1> QED BY <1>2 DEF FsPullHears, Heard, NoAttr

LEMMA HeardNothing == \A pc, f, got, writes : Heard(pc, f, got, writes, <<>>)
<1>1. Len(<<>>) = 0
  OBVIOUS
<1> QED BY <1>1 DEF Heard, NoAttr, Entries, Parts, Ids

LEMMA HeardShorter ==
  ASSUME NEW c, NEW s \in Seq(FsMessages(c)), NEW q \in Seq(FsMessages(c)), Shorter(q, s), NEW pc, NEW f, NEW got, NEW writes,
         Heard(pc, f, got, writes, s)
  PROVE  Heard(pc, f, got, writes, q)
<1>1. Len(q) \in Nat /\ Len(s) \in Nat /\ Len(q) <= Len(s)
  BY DEF Shorter
<1>2. CASE q = <<>>
  BY <1>2, HeardNothing
<1>3. CASE q # <<>>
  <2>1. 1 \in 1..Len(q) /\ 1 \in 1..Len(s) /\ s # <<>>
    BY <1>1, <1>3, FsTail
  <2>2. q[1].id = s[1].id
    BY <2>1 DEF Shorter
  <2>3. NoAttr(s) => NoAttr(q)
    BY <2>1, <2>2 DEF NoAttr
  <2>4. \A ids : Ids(s, ids) => Ids(q, ids)
    BY <1>1, FsIdsShorter
  <2>5. \A n \in 1..Len(q) : n \in 1..Len(s) /\ (n = Len(s) => n = Len(q)) /\ q[n].id = s[n].id /\ q[n].f = s[n].f
    BY <1>1 DEF Shorter
  <2>6. Entries(s) => Entries(q)
    BY <2>4, <2>5 DEF Entries
  <2>7. Parts(f, got, s) => Parts(f, got, q)
    BY <2>4, <2>5 DEF Parts
  <2>8. pc = "lnstat" => Len(q) <= 1 /\ (writes # <<>> => q = <<>>)
    BY <1>1, <2>1 DEF Heard
  <2>9. pc = "srcstat" => NoAttr(q) \/ (Len(q) = 1 /\ writes = <<>>)
    BY <1>1, <2>1, <2>3 DEF Heard
  <2> QED BY <2>1, <2>3, <2>6, <2>7, <2>8, <2>9 DEF Heard
<1> QED BY <1>2, <1>3

\* Only a service that has not failed says something.
LEMMA FsSpeaksOpen ==
  ASSUME FsInv, FsGone, Running, Service, ~Begins(ToClient', ToClient)
  PROVE  /\ Open /\ ~eof["service"] /\ ~cut
         /\ ~Failing' => Open'
<1>1. \E m \in FsMessages(cmd) : ToClient' = Said(m)
  BY FsServiceViews
<1>2. ~eof["service"] /\ ~cut
  BY <1>1, FsSameBegins DEF Said, FsGone
<1>3. ~Failing
  <2> SUFFICES ASSUME Failing PROVE FALSE
    OBVIOUS
  <2>1. ToClient' = ToClient => FALSE
    BY FsSameBegins
  <2>2. CASE Abort \/ Close
    BY <2>2, FvCloses DEF Begins, Shorter
  <2> QED BY <2>1, <2>2, FsFailingService, FvDrain, FvServiceWriteFails, FsTransmitted, FsSwallowed, FsSides
<1>4. ~eof["client"]
  BY <1>2, <1>3 DEF FsGone, Failing
<1>5. ~Failing' => Open'
  <2>1. UNCHANGED <<cpc, cut>>
    BY FsServiceFrame DEF client
  <2>2. FsGone'
    BY FsGoneStep DEF FileSyncNext
  <2>3. ~Failing' => ~eof'["client"]
    BY <1>2, <2>1, <2>2 DEF FsGone, Failing
  <2> QED BY <2>1, <2>3 DEF Open, Running
<1> QED BY <1>2, <1>3, <1>4, <1>5 DEF Open

\* A pull fails where a file is read.
LEMMA FsPullFails ==
  ASSUME FsInv, FsGone, FsAsks, FsHalf, ~Pushes, Running, Service, Failing', ~Begins(ToClient', ToClient)
  PROVE  /\ \E m \in FsMessages(cmd) : m.id = "FAIL" /\ ToClient' = Said(m)
         /\ spc = "read" \/ (spc = "idle" /\ ToService # <<>> /\ ToService[1].id = "RECV")
<1>1. Open /\ ~eof["service"] /\ ~cut /\ ~Failing
  BY FsSpeaksOpen DEF Open
<1>2. spc \in {"idle", "list", "read"}
  BY <1>1 DEF FsAsks, Failing
<1>3. ToClient' # ToClient
  BY FsSameBegins
<1>4. ToService # <<>> => 1 \in 1..Len(ToService) /\ ~ToService[1].half
  BY <1>1, FsViews, FsTail DEF FsHalf, Whole, Running
<1>5. CASE BadRequest
  <2>1. ToService # <<>> /\ ToService[1].id \notin Request
    BY <1>1, <1>4, <1>5, FvBadRequest
  <2> QED BY <2>1, FsAsked DEF Request
<1>6. CASE ServeRecv \/ SendChunk
  BY <1>6, FvServeRecv, FvSendChunk, FsMsg DEF Failing
<1>7. CASE ServeStat \/ ServeList \/ ListEntry
  BY <1>2, <1>7, FvServeStat, FvServeList, FvListEntry DEF Failing, service
<1>8. CASE ServeSend \/ FileData \/ FileDone \/ LinkData \/ LinkDone
  BY <1>2, <1>8, FvServeSend, FvFileData, FvFileDone, FvLinkData, FvLinkDone, FsAsked
<1>9. CASE FileInvalid \/ LinkFails \/ Drain \/ Abort \/ Close
  BY <1>2, <1>9 DEF FileInvalid, LinkFails, Drain, Abort, Close, ServiceIdle
<1>10. CASE ServeQuit \/ ServiceWriteFails \/ Transmit("service") \/ Swallow("service")
  BY <1>3, <1>10, FvServeQuit, FvServiceWriteFails, FsTransmitted, FsSwallowed, FsSides
<1> QED BY <1>5, <1>6, <1>7, <1>8, <1>9, <1>10 DEF Service

\* Nothing is left to write when nothing is on its way.
LEMMA FsWritten == FsInv /\ ~eof["client"] /\ ToService = <<>> => out["client"] = <<>>
<1> SUFFICES ASSUME FsInv, ~eof["client"], ToService = <<>> PROVE out["client"] = <<>>
  OBVIOUS
<1>1. PICK a, b \in Seq(FsMessages(cmd)) : a = net["service"] /\ b = out["client"]
  BY FsViews
<1>2. a \o b = <<>>
  BY <1>1 DEF ToService
<1>3. Len(b) = 0
  BY <1>2, FsJoin
<1> QED BY <1>1, <1>3, FsEmpty

LEMMA HeardStat == FsInv /\ ~eof["client"] /\ AskedStat =>
                     ToClient = <<>> \/ (Len(ToClient) = 1 /\ out["client"] = <<>>)
BY FsWritten DEF AskedStat

\* The next chunk, or the end of them
LEMMA HeardPart ==
  ASSUME FsInv, FsGone, FsAsks, FsHalf, ~Pushes, Running, Service, ~Begins(ToClient', ToClient),
         NEW f \in Files, NEW got \in Nat, Receiving(f, got), Parts(f, got, ToClient)
  PROVE  Parts(f, got, ToClient')
<1>1. Open /\ ~eof["service"]
  BY FsSpeaksOpen
<1>2. ToClient \in Seq(FsMessages(cmd)) /\ Len(ToClient) \in Nat /\ Chunks[f] \in Nat
  BY FsViews, FsChunks
<1>3. \/ Ids(ToClient, {"DATA"}) /\ (spc = "read" => /\ got + Len(ToClient) + Len(rest) = Chunks[f]
                                                     /\ \A n \in 1..Len(rest) : rest[n] = f)
      \/ Between
  <2>1. ToClient = <<>> => Ids(ToClient, {"DATA"})
    BY DEF Ids
  <2> QED BY <2>1 DEF Receiving
<1>4. ToClient' # ToClient
  BY FsSameBegins
<1>5. ~Between
  <2> SUFFICES ASSUME Between PROVE FALSE
    OBVIOUS
  <2>1. CASE Failing'
    BY <2>1, FsPullFails DEF Between
  <2>2. CASE ~Failing'
    BY <1>4, <2>2, PullsRest
  <2> QED BY <2>1, <2>2
<1>6. ASSUME NEW m \in FsMessages(cmd), ToClient' = Said(m), m.id \in {"DATA", "DONE", "FAIL"}, m.id = "DATA" => m.f = f,
             m.id = "DONE" => got + (Len(ToClient) + 1) = Chunks[f] + 1
      PROVE  Parts(f, got, ToClient')
  <2>1. Len(ToClient') = Len(ToClient) + 1 /\ ToClient'[Len(ToClient) + 1] = m /\ \A n \in 1..Len(ToClient) : ToClient'[n] = ToClient[n]
    BY <1>1, <1>6, FsSaid
  <2>2. \A n \in 1..Len(ToClient) : ToClient'[n].id = "DATA"
    BY <1>3, <1>5, <2>1 DEF Ids
  <2>3. \A n \in 1..Len(ToClient) : ToClient'[n].f = f
    BY <2>1, <2>2 DEF Parts
  <2>4. \A n \in 1..Len(ToClient') : n \in 1..Len(ToClient) \/ (n = Len(ToClient) + 1 /\ n = Len(ToClient'))
    BY <1>2, <2>1
  <2> QED BY <1>6, <2>1, <2>2, <2>3, <2>4 DEF Parts, Ids
<1>7. CASE Failing'
  BY <1>6, <1>7, FsPullFails
<1>8. CASE ~Failing'
  <2>1. spc = "read" \/ (spc = "idle" /\ Len(ToService) = 1 /\ ToService[1].id = "RECV")
    BY <1>5 DEF Receiving
  <2>2. SendChunk
    BY <1>4, <1>8, <2>1, FsServesPull, FvServeStat, FvServeList, FvListEntry, FvServeRecv
  <2>3. spc = "read" /\ got + Len(ToClient) + Len(rest) = Chunks[f] /\ \A n \in 1..Len(rest) : rest[n] = f
    BY <1>3, <1>5, <2>2, FvSendChunk
  <2>4. rest \in Seq(Files)
    BY DEF FsInv, FsServiceTypes
  <2>5. CASE rest # <<>> /\ ToClient' = Said(Msg("DATA", Head(rest))) /\ Msg("DATA", Head(rest)) \in FsMessages(cmd)
    <3>1. Head(rest) = f
      BY <2>3, <2>4, <2>5
    <3>2. PICK m \in FsMessages(cmd) : ToClient' = Said(m) /\ m.id = "DATA" /\ m.f = f
      BY <2>5, <3>1, FsMsg
    <3> QED BY <1>6, <3>2
  <2>6. CASE rest = <<>> /\ ToClient' = Said(Msg("DONE", cur)) /\ Msg("DONE", cur) \in FsMessages(cmd)
    <3>1. PICK m \in FsMessages(cmd) : ToClient' = Said(m) /\ m.id = "DONE"
      BY <2>6, FsMsg
    <3>2. Len(rest) = 0
      BY <2>6
    <3>3. got + Len(ToClient) = Chunks[f]
      BY <1>2, <2>3, <3>2
    <3>4. got + (Len(ToClient) + 1) = Chunks[f] + 1
      BY <1>2, <3>3
    <3> QED BY <1>6, <3>1, <3>4
  <2> QED BY <1>8, <2>2, <2>5, <2>6, FvSendChunk DEF Failing
<1> QED BY <1>7, <1>8

LEMMA HeardEntries == FsInv /\ Listing => Entries(ToClient)
<1> SUFFICES ASSUME FsInv, Listing PROVE Entries(ToClient)
  OBVIOUS
<1>1. Len(ToClient) \in Nat
  BY FsViews
<1>2. CASE Ids(ToClient, {"DENT"})
  BY <1>2 DEF Ids, Entries
<1>3. CASE ToClient = <<>>
  <2>1. Len(ToClient) = 0
    BY <1>3
  <2> QED BY <2>1 DEF Ids, Entries
<1>4. CASE ToClient # <<>> /\ ToClient[Len(ToClient)].id = "DONE" /\ \A n \in 1..Len(ToClient) - 1 : ToClient[n].id = "DENT"
  <2>1. \A n \in 1..Len(ToClient) : n = Len(ToClient) \/ n \in 1..Len(ToClient) - 1
    BY <1>1
  <2> QED BY <1>4, <2>1 DEF Entries, Ids
<1> QED BY <1>2, <1>3, <1>4 DEF Listing

LEMMA PullHearsService ==
  ASSUME FsInv, FsInv', FsGone, FsPlaces, FsAsks, FsSources, FsHalf, FsPullTalk, FsPullHears, Service
  PROVE  FsPullHears'
<1>1. UNCHANGED <<cmd, cpc, files, local>> /\ out'["client"] = out["client"]
  BY FsServiceFrame, FsServiceOut DEF command, client
<1> SUFFICES ASSUME cmd = "pull", Running PROVE Heard(cpc, Head(files), Got, out["client"], ToClient')
  <2>1. Got' = Got
    BY <1>1 DEF Got
  <2> QED BY <1>1, <2>1 DEF FsPullHears, Running
<1>2. Heard(cpc, Head(files), Got, out["client"], ToClient) /\ ~Pushes
  BY DEF FsPullHears, Pushes
<1>3. ToClient \in Seq(FsMessages(cmd)) /\ ToClient' \in Seq(FsMessages(cmd))
  <2>1. (ToClient \in Seq(FsMessages(cmd)))'
    BY FsClientSeq, PTL
  <2> QED BY <1>1, <2>1, FsViews
<1>4. CASE Begins(ToClient', ToClient)
  <2>1. Shorter(ToClient', ToClient)
    BY <1>4 DEF Begins, Shorter
  <2> QED BY <1>2, <1>3, <2>1, HeardShorter
<1>5. CASE ~Begins(ToClient', ToClient)
  <2>1. Open /\ ~eof["service"] /\ ~eof["client"] /\ (~Failing' => Open')
    BY <1>5, FsSpeaksOpen DEF Open
  <2>2. ToClient' # ToClient
    BY <1>5, FsSameBegins
  <2>3. CASE cpc \in {"creat", "recvdata"}
    <3>1. Receiving(Head(files), Got) /\ Got \in Nat /\ Head(files) \in Files /\ Parts(Head(files), Got, ToClient)
      BY <1>2, <2>1, <2>3, FsGot, FsAtFile DEF FsPullTalk, Heard
    <3>2. Parts(Head(files), Got, ToClient')
      BY <1>2, <1>5, <3>1, HeardPart
    <3> QED BY <2>3, <3>2 DEF Heard
  <2>4. CASE cpc \notin {"creat", "recvdata"} /\ Failing'
    <3>1. PICK m \in FsMessages(cmd) : m.id = "FAIL" /\ ToClient' = Said(m)
      BY <1>2, <1>5, <2>4, FsPullFails
    <3>2. spc = "read" \/ (spc = "idle" /\ ToService # <<>> /\ ToService[1].id = "RECV")
      BY <1>2, <1>5, <2>4, FsPullFails
    <3>3. ~Between /\ ~AskedStat /\ ~Listing
      <4>1. Len(<<>>) = 0
        OBVIOUS
      <4> QED BY <3>2, <4>1 DEF Between, AskedStat, Listing
    <3>4. Left => NoAttr(ToClient')
      <4>1. CASE ToClient = <<>>
        BY <2>1, <3>1, <4>1, FsSaid DEF NoAttr
      <4>2. CASE ToClient # <<>>
        <5>1. 1 \in 1..Len(ToClient)
          BY <1>3, <4>2, FsTail
        <5>2. ToClient'[1] = ToClient[1]
          BY <2>1, <3>1, <5>1, FsSaid
        <5> QED BY <4>2, <5>2 DEF Left, NoAttr
      <4> QED BY <4>1, <4>2
    <3> QED BY <1>2, <2>1, <2>4, <3>3, <3>4 DEF FsPullTalk, Heard
  <2>5. CASE cpc \notin {"creat", "recvdata"} /\ ~Failing'
    <3>1. FsPullTalk'
      BY FsPullTalkService
    <3>2. Open' /\ ~Pushes' /\ ~eof'["client"]
      BY <1>1, <1>2, <2>1, <2>5 DEF Pushes, Open
    <3>3. (FsInv /\ ~eof["client"] /\ AskedStat => ToClient = <<>> \/ (Len(ToClient) = 1 /\ out["client"] = <<>>))'
      BY HeardStat, PTL
    <3>4. (FsInv /\ Listing => Entries(ToClient))'
      BY HeardEntries, PTL
    <3>5. AskedStat' => ToClient' = <<>> \/ (Len(ToClient') = 1 /\ out["client"] = <<>>)
      BY <1>1, <3>2, <3>3
    <3>6. Left' => NoAttr(ToClient')
      BY DEF Left, NoAttr
    <3>7. Listing' => Entries(ToClient')
      BY <3>4 DEF Entries, Ids
    <3>8. CASE cpc = "next"
      <4>1. NoAttr(ToClient')
        BY <1>1, <3>1, <3>2, <3>6, <3>8 DEF FsPullTalk, NoAttr
      <4> QED BY <3>8, <4>1 DEF Heard
    <3>9. CASE cpc = "srcstat"
      <4>1. NoAttr(ToClient') \/ (Len(ToClient') = 1 /\ out["client"] = <<>>)
        BY <1>1, <3>1, <3>2, <3>5, <3>6, <3>9 DEF FsPullTalk, NoAttr
      <4> QED BY <3>9, <4>1 DEF Heard
    <3>10. CASE cpc = "ls"
      BY <1>1, <3>1, <3>2, <3>7, <3>10 DEF FsPullTalk, Heard
    <3>11. CASE cpc = "lnstat"
      <4>1. ToClient' = <<>> \/ (Len(ToClient') = 1 /\ out["client"] = <<>>)
        BY <1>1, <3>1, <3>2, <3>5, <3>11 DEF FsPullTalk
      <4> QED BY <3>11, <4>1 DEF Heard
    <3>12. CASE cpc \in {"links", "recv"}
      BY <1>1, <3>1, <3>2, <3>12 DEF FsPullTalk, Heard
    <3> QED BY <2>5, <3>8, <3>9, <3>10, <3>11, <3>12 DEF Heard
  <2> QED BY <2>3, <2>4, <2>5
<1> QED BY <1>4, <1>5

\* What is left of it when the client has read a message
LEMMA HeardIds ==
  ASSUME NEW c, NEW s \in Seq(FsMessages(c)), NEW ids, Ids(s, ids), "ATTR" \notin ids
  PROVE  NoAttr(s)
<1>1. s # <<>> => 1 \in 1..Len(s)
  BY FsTail
<1> QED BY <1>1 DEF Ids, NoAttr

LEMMA HeardLast ==
  ASSUME NEW c, NEW s \in Seq(FsMessages(c)), s # <<>>, Len(s) <= 1
  PROVE  Tail(s) = <<>>
<1>1. Tail(s) \in Seq(FsMessages(c)) /\ Len(Tail(s)) = Len(s) - 1 /\ Len(s) \in Nat /\ Len(s) >= 1
  BY FsTail
<1>2. \A k \in Nat : k >= 1 /\ k <= 1 => k - 1 = 0
  OBVIOUS
<1>3. Len(Tail(s)) = 0
  BY <1>1, <1>2
<1> QED BY <1>1, <1>3, FsEmpty

LEMMA HeardEntry ==
  ASSUME NEW c, NEW s \in Seq(FsMessages(c)), s # <<>>, Entries(s)
  PROVE  Entries(Tail(s)) /\ NoAttr(Tail(s)) /\ NoAttr(s) /\ (s[1].id = "DONE" => Tail(s) = <<>>)
<1>1. /\ Tail(s) \in Seq(FsMessages(c)) /\ Len(Tail(s)) = Len(s) - 1 /\ Len(s) \in Nat /\ Len(s) >= 1 /\ 1 \in 1..Len(s)
      /\ \A n \in 1..Len(s) - 1 : Tail(s)[n] = s[n + 1] /\ n + 1 \in 1..Len(s)
  BY FsTail
<1>2. Ids(s, {"DENT", "DONE", "FAIL"}) /\ Ids(Tail(s), {"DENT", "DONE", "FAIL"})
  BY FsIdsTail DEF Entries
<1>3. \A n \in 1..Len(Tail(s)) : Tail(s)[n].id = "DONE" => n = Len(Tail(s))
  <2> SUFFICES ASSUME NEW n \in 1..Len(Tail(s)), Tail(s)[n].id = "DONE" PROVE n = Len(Tail(s))
    OBVIOUS
  <2>0. n \in Nat /\ Tail(s)[n] = s[n + 1] /\ n + 1 \in 1..Len(s)
    BY <1>1
  <2>1. n + 1 = Len(s) /\ n \in Nat
    BY <2>0 DEF Entries
  <2>2. \A k \in Nat : n + 1 = k => n = k - 1
    BY <2>1
  <2> QED BY <1>1, <2>1, <2>2
<1>4. s[1].id = "DONE" => Tail(s) = <<>>
  BY <1>1, HeardLast DEF Entries
<1> QED BY <1>1, <1>2, <1>3, <1>4, HeardIds DEF Entries

LEMMA HeardChunk ==
  ASSUME NEW c, NEW s \in Seq(FsMessages(c)), s # <<>>, NEW f \in Files, NEW got \in Nat, Parts(f, got, s)
  PROVE  /\ Parts(f, got + 1, Tail(s)) /\ NoAttr(Tail(s)) /\ NoAttr(s)
         /\ s[1].id = "DONE" => Tail(s) = <<>> /\ got = Chunks[f]
         /\ s[1].id = "DATA" => s[1].f = f
<1>1. /\ Tail(s) \in Seq(FsMessages(c)) /\ Len(Tail(s)) = Len(s) - 1 /\ Len(s) \in Nat /\ Len(s) >= 1 /\ 1 \in 1..Len(s)
      /\ \A n \in 1..Len(s) - 1 : Tail(s)[n] = s[n + 1] /\ n + 1 \in 1..Len(s)
  BY FsTail
<1>2. Ids(s, {"DATA", "DONE", "FAIL"}) /\ Ids(Tail(s), {"DATA", "DONE", "FAIL"}) /\ Chunks[f] \in Nat
  BY FsIdsTail, FsChunks DEF Parts
<1>3. ASSUME NEW n \in 1..Len(Tail(s))
      PROVE  /\ Tail(s)[n].id = "DATA" => Tail(s)[n].f = f
             /\ Tail(s)[n].id = "DONE" => n = Len(Tail(s)) /\ got + 1 + n = Chunks[f] + 1
  <2>1. n \in Nat /\ Tail(s)[n] = s[n + 1] /\ n + 1 \in 1..Len(s)
    BY <1>1
  <2>2. s[n + 1].id = "DONE" => n + 1 = Len(s) /\ got + (n + 1) = Chunks[f] + 1
    BY <2>1 DEF Parts
  <2>3. s[n + 1].id = "DATA" => s[n + 1].f = f
    BY <2>1 DEF Parts
  <2>4. \A k \in Nat : n + 1 = k => n = k - 1
    BY <2>1
  <2>5. \A k : got + (n + 1) = k => got + 1 + n = k
    BY <2>1
  <2> QED BY <1>1, <2>1, <2>2, <2>3, <2>4, <2>5
<1>4. s[1].id = "DONE" => Tail(s) = <<>> /\ got = Chunks[f]
  <2> SUFFICES ASSUME s[1].id = "DONE" PROVE Tail(s) = <<>> /\ got = Chunks[f]
    OBVIOUS
  <2>1. 1 = Len(s) /\ got + 1 = Chunks[f] + 1
    BY <1>1 DEF Parts
  <2>2. got = Chunks[f]
    <3>1. \A k \in Nat : got + 1 = k + 1 => got = k
      OBVIOUS
    <3> QED BY <1>2, <2>1, <3>1
  <2>3. Len(s) <= 1
    <3>1. \A k \in Nat : 1 = k => k <= 1
      OBVIOUS
    <3> QED BY <1>1, <2>1, <3>1
  <2> QED BY <2>2, <2>3, HeardLast
<1>5. s[1].id = "DATA" => s[1].f = f
  BY <1>1 DEF Parts
<1> QED BY <1>1, <1>2, <1>3, <1>4, <1>5, HeardIds DEF Parts

\* The client gives up, or goes to the next source.
LEMMA HeardNext ==
  ASSUME NEW c, NEW s \in Seq(FsMessages(c)), NEW pc \in {"srcstat", "ls", "recv", "creat", "recvdata"}, NEW f, NEW got, NEW writes,
         Heard(pc, f, got, writes, s), pc = "srcstat" => writes # <<>>
  PROVE  NoAttr(s)
BY HeardIds DEF Heard, Entries, Parts, NoAttr

LEMMA HeardSent ==
  ASSUME NEW pc, NEW f, NEW got, NEW w, NEW v, NEW s, Heard(pc, f, got, w, s), w # <<>>
  PROVE  Heard(pc, f, got, v, s)
BY DEF Heard

\* The client reads or goes on.
LEMMA PullHearsReads ==
  ASSUME FsInv, FsGone, FsPlaces, FsPullHears, cmd = "pull", Running,
         NextSource \/ SrcStat \/ Dent \/ ListDone \/ ListFails \/ StatLink \/ LinkStat
  PROVE  FsPullHears'
<1>1. cmd' = cmd /\ Heard(cpc, Head(files), Got, out["client"], ToClient) /\ ToClient \in Seq(FsMessages(cmd))
  BY FsClientFrame, FsViews DEF FsPullHears, command, Client
<1> SUFFICES Heard(cpc', Head(files'), Got', out'["client"], ToClient')
  BY DEF FsPullHears
<1>2. CASE NextSource
  <2>1. cpc = "next" /\ cpc' = "srcstat" /\ ToClient' = ToClient
    BY <1>2, FvNextPull DEF NextSource, ClientIdle
  <2> QED BY <1>1, <2>1 DEF Heard
<1>3. CASE SrcStat
  <2>1. cpc = "srcstat" /\ cpc' \in {"recv", "ls", "next"} /\ ToClient # <<>> /\ ToClient[1].id = "ATTR" /\ ToClient' = Tail(ToClient)
    BY <1>3, FvSrcStat DEF SrcStat, ClientIdle, GiveUp
  <2>2. Len(ToClient) = 1
    BY <1>1, <2>1 DEF Heard, NoAttr
  <2>3. ToClient' = <<>>
    BY <1>1, <2>1, <2>2, HeardLast
  <2> QED BY <2>3, HeardNothing
<1>4. CASE Dent
  <2>1. cpc = "ls" /\ cpc' = "ls" /\ ToClient # <<>> /\ ToClient' = Tail(ToClient)
    BY <1>4, FvDent DEF Dent, ClientIdle
  <2>2. Entries(ToClient')
    BY <1>1, <2>1, HeardEntry DEF Heard
  <2> QED BY <2>1, <2>2 DEF Heard
<1>5. CASE ListDone
  <2>1. cpc = "ls" /\ ToClient # <<>> /\ ToClient[1].id = "DONE" /\ ToClient' = Tail(ToClient)
    BY <1>5, FvListDone DEF ListDone, ClientIdle
  <2>2. ToClient' = <<>>
    BY <1>1, <2>1, HeardEntry DEF Heard
  <2> QED BY <2>2, HeardNothing
<1>6. CASE ListFails
  <2>1. cpc = "ls" /\ cpc' = "next" /\ ((ToClient # <<>> /\ ToClient' = Tail(ToClient)) \/ (ToClient = <<>> /\ ToClient' = ToClient))
    BY <1>6, FvListFails DEF ListFails, ClientIdle, GiveUp
  <2>2. NoAttr(ToClient')
    BY <1>1, <2>1, HeardEntry DEF Heard, NoAttr
  <2> QED BY <2>1, <2>2 DEF Heard
<1>7. CASE StatLink
  <2>1. cpc = "links" /\ ToClient' = ToClient
    BY <1>7, FvStatLink DEF StatLink, ClientIdle
  <2>2. ToClient' = <<>>
    BY <1>1, <2>1 DEF Heard
  <2> QED BY <2>2, HeardNothing
<1>8. CASE LinkStat
  <2>1. cpc = "lnstat" /\ ToClient # <<>> /\ ToClient' = Tail(ToClient)
    BY <1>8, FvLinkStat DEF LinkStat, ClientIdle
  <2>2. Len(ToClient) <= 1
    BY <1>1, <2>1 DEF Heard
  <2>3. ToClient' = <<>>
    BY <1>1, <2>1, <2>2, HeardLast
  <2> QED BY <2>3, HeardNothing
<1> QED BY <1>2, <1>3, <1>4, <1>5, <1>6, <1>7, <1>8

LEMMA PullHearsFile ==
  ASSUME FsInv, FsGone, FsPlaces, FsPullHears, cmd = "pull", Running,
         RecvFile \/ Creat \/ RecvData \/ RecvFails \/ RecvDone
  PROVE  FsPullHears'
<1>1. cmd' = cmd /\ Heard(cpc, Head(files), Got, out["client"], ToClient) /\ ToClient \in Seq(FsMessages(cmd))
  BY FsClientFrame, FsViews DEF FsPullHears, command, Client
<1>2. Got \in Nat /\ (cpc \in {"creat", "recvdata"} => Head(files) \in Files)
  BY FsGot, FsAtFile
<1> SUFFICES Heard(cpc', Head(files'), Got', out'["client"], ToClient')
  BY DEF FsPullHears
<1>3. CASE RecvFile
  <2>1. cpc = "recv" /\ ToClient' = ToClient
    BY <1>3, FvRecvFile DEF RecvFile, ClientIdle
  <2>2. ToClient' = <<>>
    BY <1>1, <2>1 DEF Heard
  <2> QED BY <2>2, HeardNothing
<1>4. CASE Creat
  <2>1. cpc = "creat" /\ ToClient' = ToClient /\ Head(files) \in Files
    BY <1>2, <1>4, FvCreat DEF Creat, ClientIdle
  <2>2. CASE cpc' = "next"
    <3>1. NoAttr(ToClient)
      BY <1>1, <2>1, HeardIds DEF Heard, Parts
    <3> QED BY <2>1, <2>2, <3>1 DEF Heard
  <2>3. CASE cpc' = "recvdata" /\ local' = [local EXCEPT ![Head(files)] = <<>>] /\ files' = files
    <3>1. local'[Head(files)] = <<>>
      BY <2>1, <2>3 DEF FsInv, FsClientTypes
    <3>2. Got = 0 /\ Got' = 0
      BY <2>1, <2>3, <3>1 DEF Got
    <3>3. Parts(Head(files), Got, ToClient)
      BY <1>1, <2>1 DEF Heard
    <3> QED BY <2>1, <2>3, <3>2, <3>3 DEF Heard
  <2> QED BY <1>4, <2>2, <2>3 DEF Creat, GiveUp
<1>5. CASE RecvData
  <2>1. cpc = "recvdata" /\ ToClient # <<>> /\ ToClient' = Tail(ToClient) /\ Head(files) \in Files
    BY <1>5, FsGotOne, FvRecvData
  <2>2. Got' = Got + 1 /\ files' = files /\ cpc' = "recvdata"
    BY <1>5, FsGotOne
  <2>3. Parts(Head(files), Got + 1, ToClient')
    BY <1>1, <1>2, <2>1, HeardChunk DEF Heard
  <2> QED BY <2>2, <2>3 DEF Heard
<1>6. CASE RecvFails
  <2>1. cpc = "recvdata" /\ cpc' = "next" /\ Head(files) \in Files /\ ((ToClient # <<>> /\ ToClient' = Tail(ToClient)) \/ (ToClient = <<>> /\ ToClient' = ToClient))
    BY <1>2, <1>6, FvRecvFails DEF RecvFails, ClientIdle, GiveUp
  <2>2. NoAttr(ToClient')
    <3>1. CASE ToClient # <<>> /\ ToClient' = Tail(ToClient)
      BY <1>1, <1>2, <2>1, <3>1, HeardChunk DEF Heard
    <3>2. CASE ToClient = <<>> /\ ToClient' = ToClient
      BY <3>2 DEF NoAttr
    <3> QED BY <2>1, <3>1, <3>2
  <2> QED BY <2>1, <2>2 DEF Heard
<1>7. CASE RecvDone
  <2>1. cpc = "recvdata" /\ Head(files) \in Files /\ ToClient # <<>> /\ ToClient[1].id = "DONE" /\ ToClient' = Tail(ToClient)
    BY <1>2, <1>7, FvRecvDone DEF RecvDone, ClientIdle
  <2>2. ToClient' = <<>>
    BY <1>1, <1>2, <2>1, HeardChunk DEF Heard
  <2> QED BY <2>2, HeardNothing
<1> QED BY <1>3, <1>4, <1>5, <1>6, <1>7

\* The client writes or ends.
LEMMA PullHearsWrites ==
  ASSUME FsInv, FsInv', FsGone, FsPlaces, FsPullHears, cmd = "pull", Running,
         SourceDone \/ Quit \/ StatFault \/ Shutdown \/ ClientWriteFails \/ Transmit("client") \/ Swallow("client")
  PROVE  FsPullHears'
<1>1. cmd' = cmd /\ Heard(cpc, Head(files), Got, out["client"], ToClient) /\ ToClient \in Seq(FsMessages(cmd))
  BY FsClientFrame, FsViews DEF FsPullHears, command, Client
<1>2. CASE StatFault \/ Shutdown
  BY <1>2, FvStatFault, FvShutdown DEF FsPullHears, Running
<1>3. CASE Quit
  BY <1>3 DEF Quit, FsPullHears, Heard
<1>4. CASE SourceDone
  <2>1. cpc = "recv" /\ ToClient' = ToClient
    BY <1>4, FvSourceDone DEF SourceDone, ClientIdle, FsPlaces
  <2>2. ToClient' = <<>>
    BY <1>1, <2>1 DEF Heard
  <2> QED BY <2>2, HeardNothing DEF FsPullHears
<1>5. CASE ClientWriteFails
  <2>1. out["client"] # <<>> /\ (ToClient' = ToClient \/ ToClient' = <<>>)
    BY <1>5, FvClientWriteFails DEF ClientWriteFails
  <2>2. CASE cpc' \in {"dead", "done"}
    BY <2>2 DEF FsPullHears, Running
  <2>3. CASE cpc = "lnstat"
    <3>1. ToClient = <<>>
      BY <1>1, <2>1, <2>3 DEF Heard
    <3>2. ToClient' = <<>>
      BY <2>1, <3>1
    <3> QED BY <3>2, HeardNothing DEF FsPullHears
  <2>4. CASE cpc \in {"srcstat", "ls", "creat"} /\ cpc' = "next"
    <3>1. NoAttr(ToClient)
      BY <1>1, <2>1, <2>4, HeardNext
    <3>2. NoAttr(ToClient')
      BY <2>1, <3>1 DEF NoAttr
    <3> QED BY <2>4, <3>2 DEF FsPullHears, Heard
  <2> QED BY <1>5, <2>2, <2>3, <2>4 DEF ClientWriteFails, ClientEnds, GiveUp, FsPlaces
<1>6. CASE Transmit("client") \/ Swallow("client")
  <2>1. out["client"] # <<>> /\ UNCHANGED client
    BY <1>6 DEF Transmit, Swallow
  <2>2. Got' = Got /\ files' = files /\ cpc' = cpc
    BY <2>1 DEF Got, client
  <2>3. Heard(cpc, Head(files), Got, out'["client"], ToClient)
    BY <1>1, <2>1, HeardSent
  <2>4. ToClient' \in Seq(FsMessages(cmd))
    <3>1. (ToClient \in Seq(FsMessages(cmd)))'
      BY FsClientSeq, PTL
    <3> QED BY <1>1, <3>1
  <2>5. Shorter(ToClient', ToClient)
    <3>1. CASE Transmit("client")
      <4>1. ToClient' = ToClient
        BY <3>1, FsSides, FsTransmitted
      <4> QED BY <1>1, <4>1 DEF Shorter
    <3> QED BY <1>6, <3>1, FsSwallowed, FsSides
  <2>6. Heard(cpc, Head(files), Got, out'["client"], ToClient')
    BY <1>1, <2>3, <2>4, <2>5, HeardShorter
  <2> QED BY <2>2, <2>6 DEF FsPullHears
<1> QED BY <1>2, <1>3, <1>4, <1>5, <1>6

LEMMA FsPullHearsStep ==
  ASSUME FsInv, FsInv', FsGone, FsPlaces, FsAsks, FsSources, FsHalf, FsPullTalk, FsPullHears, [FileSyncNext]_fileSyncVars
  PROVE  FsPullHears'
<1>1. CASE Service
  BY <1>1, PullHearsService
<1>2. CASE Client
  <2> SUFFICES ASSUME cmd' = "pull", Running' PROVE FsPullHears'
    BY DEF FsPullHears
  <2>1. cmd = "pull" /\ ~Pushes
    BY <1>2, FsClientFrame DEF command, Pushes
  <2>2. Running
    BY <1>2 DEF Client, Start, DstStat, StatFault, NextSource, LstatReply, SendFile, LocalReadFails, LargeChunk, LargePoll,
      CopyOkay, CopyFails, SrcStat, Dent, ListDone, ListFails, StatLink, LinkStat, RecvFile, Creat, RecvData, RecvFails,
      RecvDone, SourceDone, Quit, Shutdown, ClientWriteFails, Transmit, Swallow, client, ClientIdle, Running
  <2> QED BY <1>2, <2>1, <2>2, FsPullClient, PullHearsReads, PullHearsFile, PullHearsWrites
<1>3. CASE Kill
  BY <1>3 DEF Kill, FsPullHears, Running
<1>4. CASE Break
  <2>1. UNCHANGED <<cmd, cpc, files, local, out>>
    BY <1>4 DEF Break, command, client
  <2>2. Got' = Got
    BY <2>1 DEF Got
  <2>3. (ToClient \in Seq(FsMessages(cmd)))'
    BY FsClientSeq, PTL
  <2>4. ToClient \in Seq(FsMessages(cmd)) /\ ToClient' \in Seq(FsMessages(cmd)) /\ Shorter(ToClient', ToClient)
    BY <1>4, <2>1, <2>3, FsViews, FsBroken
  <2> QED BY <2>1, <2>2, <2>4, HeardShorter DEF FsPullHears, Running
<1>5. CASE DrainSpins \/ Finished \/ UNCHANGED fileSyncVars
  <2>1. UNCHANGED <<cmd, cpc, files, local, out, net, eof>>
    BY <1>5 DEF DrainSpins, Finished, fileSyncVars, command, client
  <2>2. Got' = Got /\ ToClient' = ToClient
    BY <2>1, FsStill DEF Got
  <2> QED BY <2>1, <2>2 DEF FsPullHears, Running
<1> QED BY <1>1, <1>2, <1>3, <1>4, <1>5 DEF FileSyncNext

\* Only the file being received, or one that could not be unlinked, is in
\* parts, and the parts are its own.
FsLocal ==
  cmd = "pull" /\ cpc # "killed" =>
    /\ \A f \in Files \ stuck : local[f] \in {Absent, Complete(f)} \/ (cpc = "recvdata" /\ f = Head(files))
    /\ cpc = "recvdata" => \A n \in 1..Len(local[Head(files)]) : local[Head(files)][n] = Head(files)

LEMMA FsLocalInit == FileSyncInit => FsLocal
BY DEF FileSyncInit, FsLocal

LEMMA FsLocalSame ==
  ASSUME FsLocal, UNCHANGED <<cmd, local>>, stuck \subseteq stuck',
         (cpc' = cpc /\ files' = files) \/ (cpc \notin {"recvdata", "killed"} /\ cpc' # "recvdata") \/ cpc' = "killed"
  PROVE  FsLocal'
BY DEF FsLocal

\* The file is complete when DONE comes.
LEMMA FsReceived ==
  ASSUME FsInv, FsGone, FsPlaces, FsPullHears, FsLocal, cmd = "pull", RecvDone
  PROVE  Head(files) \in Files /\ local[Head(files)] = Complete(Head(files))
<1>1. cpc = "recvdata" /\ Running /\ local \in [Files -> Seq(Files) \cup {Absent}]
  BY DEF RecvDone, ClientIdle, Running, FsInv, FsClientTypes
<1>2. PICK h \in Files : h = Head(files)
  BY <1>1, FsAtFile
<1>3. Parts(h, Got, ToClient) /\ Got \in Nat /\ ToClient \in Seq(FsMessages(cmd))
  BY <1>1, <1>2, FsGot, FsViews DEF FsPullHears, Heard
<1>4. Got = Len(local[h]) /\ local[h] \in Seq(Files) /\ \A n \in 1..Len(local[h]) : local[h][n] = h
  BY <1>1, <1>2 DEF FsLocal, Got, FsInv, FsClient
<1>5. Got = Chunks[h]
  BY <1>2, <1>3, FvRecvDone, HeardChunk
<1>6. PICK s \in Seq(Files) : s = local[h] /\ Len(s) = Chunks[h]
  BY <1>4, <1>5
<1>7. \A n \in 1..Len(s) : s[n] = h
  BY <1>4, <1>6
<1>8. s = Complete(h)
  BY <1>6, <1>7 DEF Complete
<1> QED BY <1>2, <1>6, <1>8

LEMMA FsLocalFile ==
  ASSUME FsInv, FsGone, FsPlaces, FsPullHears, FsLocal, cmd = "pull", Running, cmd' = cmd, stuck \subseteq stuck',
         Creat \/ RecvData \/ RecvFails \/ RecvDone
  PROVE  FsLocal'
<1>1. cpc \in {"creat", "recvdata"} /\ (Creat <=> cpc = "creat") /\ local \in [Files -> Seq(Files) \cup {Absent}]
  BY DEF Creat, RecvData, RecvFails, RecvDone, ClientIdle, FsInv, FsClientTypes
<1>2. PICK h \in Files : h = Head(files)
  BY <1>1, FsAtFile
<1>3. Parts(h, Got, ToClient) /\ Got \in Nat /\ ToClient \in Seq(FsMessages(cmd))
  BY <1>1, <1>2, FsGot, FsViews DEF FsPullHears, Heard
<1>4. \A f \in Files \ stuck : local[f] \in {Absent, Complete(f)} \/ f = h
  BY <1>1, <1>2 DEF FsLocal, Running
<1>5. cpc = "recvdata" => Got = Len(local[h]) /\ local[h] \in Seq(Files) /\ \A n \in 1..Len(local[h]) : local[h][n] = h
  BY <1>1, <1>2 DEF FsLocal, Running, Got, FsInv, FsClient
<1>6. CASE Creat
  <2>1. CASE cpc' = "recvdata" /\ local' = [local EXCEPT ![Head(files)] = <<>>] /\ files' = files
    <3>1. local'[h] = <<>> /\ \A f \in Files \ {h} : local'[f] = local[f]
      BY <1>1, <1>2, <2>1
    <3>2. Len(<<>>) = 0
      OBVIOUS
    <3> QED BY <1>2, <1>4, <2>1, <3>1, <3>2 DEF FsLocal
  <2>2. CASE cpc' = "next" /\ UNCHANGED local
    BY <1>1, <1>6, <2>2, FsLocalSame
  <2> QED BY <1>6, <2>1, <2>2 DEF Creat, GiveUp
<1>7. CASE RecvData
  <2>1. cpc = "recvdata" /\ cpc' = "recvdata" /\ files' = files
    BY <1>7, FsGotOne
  <2>2. ToClient # <<>> /\ ToClient[1].id = "DATA"
    BY <1>7, FvRecvData
  <2>3. ToClient[1].f = h
    BY <1>2, <1>3, <2>2, HeardChunk
  <2>4. PICK s \in Seq(Files) : s = local[h]
    BY <1>5, <2>1
  <2>5. local' = [local EXCEPT ![h] = Append(s, h)]
    BY <1>2, <1>7, <2>3, <2>4, FvRecvData
  <2>6. local'[h] = Append(s, h) /\ \A f \in Files \ {h} : local'[f] = local[f]
    BY <1>1, <2>5
  <2>7. \A n \in 1..Len(s) : s[n] = h
    BY <1>5, <2>1, <2>4
  <2>8. \A n \in 1..Len(Append(s, h)) : Append(s, h)[n] = h
    BY <2>7
  <2> QED BY <1>2, <1>4, <2>1, <2>6, <2>8 DEF FsLocal
<1>8. CASE RecvFails
  <2>1. cpc' = "next" /\ (local' = [local EXCEPT ![h] = Absent] \/ (local' = local /\ h \in stuck'))
    BY <1>2, <1>8 DEF RecvFails, GiveUp, LocalUnlinked
  <2>2. (local'[h] = Absent \/ h \in stuck') /\ \A f \in Files \ {h} : local'[f] = local[f]
    BY <1>1, <2>1
  <2> QED BY <1>4, <2>1, <2>2 DEF FsLocal
<1>9. CASE RecvDone
  <2>1. cpc = "recvdata" /\ cpc' \in {"recv", "next"} /\ UNCHANGED local
    BY <1>9 DEF RecvDone, GiveUp, ClientIdle
  <2> QED BY <1>2, <1>4, <1>9, <2>1, FsReceived DEF FsLocal
<1> QED BY <1>6, <1>7, <1>8, <1>9

LEMMA FsLocalStep ==
  ASSUME FsInv, FsInv', FsGone, FsPlaces, FsPullHears, FsLocal, [FileSyncNext]_fileSyncVars
  PROVE  FsLocal'
<1>0. stuck \subseteq stuck'
  BY FsGrow
<1>1. CASE Service \/ Break \/ DrainSpins \/ Finished \/ UNCHANGED fileSyncVars
  <2>1. UNCHANGED <<cmd, local, cpc, files>>
    BY <1>1, FsServiceFrame DEF command, client, Break, DrainSpins, Finished, fileSyncVars
  <2> QED BY <1>0, <2>1, FsLocalSame
<1>2. CASE Kill
  BY <1>2 DEF Kill, FsLocal
<1>3. CASE Client
  <2> SUFFICES ASSUME cmd' = "pull", cpc' # "killed" PROVE FsLocal'
    BY DEF FsLocal
  <2>1. cmd = "pull" /\ ~Pushes /\ cmd' = cmd
    BY <1>3, FsClientFrame DEF command, Pushes
  <2>2. CASE Creat \/ RecvData \/ RecvFails \/ RecvDone
    <3>1. Running
      BY <2>2 DEF Creat, RecvData, RecvFails, RecvDone, ClientIdle, Running
    <3> QED BY <1>0, <2>1, <2>2, <3>1, FsLocalFile
  <2>3. CASE Transmit("client") \/ Swallow("client")
    BY <1>0, <2>1, <2>3, FsLocalSame DEF Transmit, Swallow, client
  <2>4. CASE StatFault \/ NextSource \/ SrcStat \/ Dent \/ ListDone \/ ListFails \/ StatLink \/ LinkStat \/ RecvFile \/ SourceDone
             \/ Quit \/ Shutdown \/ ClientWriteFails
    <3>1. local' = local
      BY <2>4 DEF StatFault, NextSource, SrcStat, Dent, ListDone, ListFails, StatLink, LinkStat, RecvFile, SourceDone, Quit,
                  Shutdown, ClientWriteFails
    <3>2. cpc \notin {"recvdata", "killed"} /\ cpc' # "recvdata"
      BY <2>1, <2>4 DEF StatFault, NextSource, SrcStat, Dent, ListDone, ListFails, StatLink, LinkStat, RecvFile, SourceDone, Quit,
                  Shutdown, ClientWriteFails, ClientIdle, ClientEnds, GiveUp
    <3> QED BY <1>0, <2>1, <3>1, <3>2, FsLocalSame
  <2> QED BY <1>3, <2>1, <2>2, <2>3, <2>4, FsPullClient
<1> QED BY <1>1, <1>2, <1>3 DEF FileSyncNext

FsPull == FsPullHears /\ FsLocal

LEMMA FsPullInv == FileSyncSpec => [](FsInv /\ FsPush /\ FsCopy /\ FsExplained /\ FsPull)
<1>1. FileSyncInit => FsPull
  BY FsPullHearsInit, FsLocalInit DEF FsPull
<1>2. ASSUME FsInv, FsInv', FsPush, FsCopy, FsExplained, FsPull, [FileSyncNext]_fileSyncVars PROVE FsPull'
  <2>1. FsGone /\ FsPlaces /\ FsAsks /\ FsSources /\ FsHalf
    BY <1>2 DEF FsPush, FsCopy
  <2>2. FsPullTalk /\ FsPullHears /\ FsLocal
    BY <1>2 DEF FsExplained, FsPull
  <2>3. FsPullHears'
    BY <1>2, <2>1, <2>2, FsPullHearsStep
  <2>4. FsLocal'
    BY <1>2, <2>1, <2>2, FsLocalStep
  <2> QED BY <2>3, <2>4 DEF FsPull
<1> QED BY <1>1, <1>2, FsExplainedInv, PTL DEF FileSyncSpec

\* A client of adb pull that was not killed leaves no part of a file behind:
\* sync_recv gets exactly the chunks of the file up to DONE, or unlinks it,
\* unless that adb_unlink fails.
THEOREM PulledFilesAreWhole == FileSyncSpec => []NoPartialPull
<1>1. FsPush /\ FsPull => NoPartialPull
  BY DEF FsPush, FsSources, FsPull, FsLocal, NoPartialPull
<1> QED BY <1>1, FsPullInv, PTL

-----------------------------------------------------------------------------
(* Commands that name no file twice *)

\* No element of s comes twice.
Apart(s) == \A m, n \in 1..Len(s) : s[m] = s[n] => m = n

\* No file is named twice by the sources s.
NamedOnce(s) ==
  /\ \A n \in 1..Len(s) : Apart(FilesOf(s[n]))
  /\ \A m, n \in 1..Len(s) : \A f : In(f, FilesOf(s[m])) /\ In(f, FilesOf(s[n])) => m = n

\* A file is in one place: to be copied, to be asked for, in a source not
\* begun, or copied.
Once(fs, as, ss, cs) ==
  /\ Apart(fs) /\ Apart(as) /\ NamedOnce(ss)
  /\ \A f : /\ In(f, fs) => ~In(f, as) /\ ~Due(f, ss)
            /\ In(f, as) => ~Due(f, ss)
            /\ f \in cs => ~In(f, fs) /\ ~In(f, as) /\ ~Due(f, ss)

LEMMA TailOf ==
  ASSUME NEW S, NEW s \in Seq(S), s # <<>>
  PROVE  /\ Len(s) \in Nat /\ Len(Tail(s)) = Len(s) - 1 /\ 1 \in 1..Len(s) /\ s[1] = Head(s)
         /\ \A n \in 1..Len(Tail(s)) : n \in Nat /\ n + 1 \in 1..Len(s) /\ Tail(s)[n] = s[n + 1] /\ n + 1 # 1
OBVIOUS

LEMMA HeadOf == ASSUME NEW S, NEW s \in Seq(S), s # <<>> PROVE Head(s) \in S
OBVIOUS

LEMMA ApartTail ==
  ASSUME NEW S, NEW s \in Seq(S), s # <<>>
  PROVE  /\ \A f : In(f, Tail(s)) => In(f, s)
         /\ Apart(s) => Apart(Tail(s)) /\ ~In(Head(s), Tail(s))
<1>1. /\ 1 \in 1..Len(s) /\ s[1] = Head(s)
      /\ \A n \in 1..Len(Tail(s)) : n \in Nat /\ n + 1 \in 1..Len(s) /\ Tail(s)[n] = s[n + 1] /\ n + 1 # 1
  BY TailOf
<1>2. \A f : In(f, Tail(s)) => In(f, s)
  BY <1>1 DEF In
<1>3. ASSUME Apart(s) PROVE Apart(Tail(s))
  <2> SUFFICES ASSUME NEW m \in 1..Len(Tail(s)), NEW n \in 1..Len(Tail(s)), Tail(s)[m] = Tail(s)[n] PROVE m = n
    BY DEF Apart
  <2>1. m + 1 = n + 1 /\ m \in Nat /\ n \in Nat
    BY <1>1, <1>3 DEF Apart
  <2> QED BY <2>1
<1>4. ASSUME Apart(s) PROVE ~In(Head(s), Tail(s))
  BY <1>1, <1>4 DEF Apart, In
<1> QED BY <1>2, <1>3, <1>4

LEMMA ApartAppend ==
  ASSUME NEW S, NEW s \in Seq(S), NEW x \in S
  PROVE  /\ \A f : In(f, Append(s, x)) => In(f, s) \/ f = x
         /\ Apart(s) /\ ~In(x, s) => Apart(Append(s, x))
<1>1. PICK q : q = Append(s, x)
  OBVIOUS
<1>2. /\ Len(q) = Len(s) + 1 /\ Len(s) \in Nat /\ q[Len(s) + 1] = x
      /\ \A n \in 1..Len(s) : q[n] = s[n]
  BY <1>1
<1>3. \A n \in 1..Len(q) : n \in 1..Len(s) \/ n = Len(s) + 1
  BY <1>2
<1>4. \A f : In(f, q) => In(f, s) \/ f = x
  BY <1>2, <1>3 DEF In
<1>5. Apart(s) /\ ~In(x, s) => Apart(q)
  BY <1>2, <1>3 DEF Apart, In
<1> QED BY <1>1, <1>4, <1>5

LEMMA ApartNone == Apart(<<>>) /\ NamedOnce(<<>>)
BY DEF Apart, NamedOnce

LEMMA NamedTail ==
  ASSUME NEW S, NEW s \in Seq(S), s # <<>>
  PROVE  /\ \A f : Due(f, Tail(s)) => Due(f, s)
         /\ \A f : In(f, FilesOf(Head(s))) => Due(f, s)
         /\ NamedOnce(s) => /\ NamedOnce(Tail(s)) /\ Apart(FilesOf(Head(s)))
                            /\ \A f : ~(In(f, FilesOf(Head(s))) /\ Due(f, Tail(s)))
<1>1. /\ 1 \in 1..Len(s) /\ s[1] = Head(s)
      /\ \A n \in 1..Len(Tail(s)) : n \in Nat /\ n + 1 \in 1..Len(s) /\ Tail(s)[n] = s[n + 1] /\ n + 1 # 1
  BY TailOf
<1>2. \A f : Due(f, Tail(s)) => Due(f, s)
  BY <1>1 DEF Due
<1>3. \A f : In(f, FilesOf(Head(s))) => Due(f, s)
  BY <1>1 DEF Due
<1>4. ASSUME NamedOnce(s) PROVE NamedOnce(Tail(s))
  <2>1. \A n \in 1..Len(Tail(s)) : Apart(FilesOf(Tail(s)[n]))
    BY <1>1, <1>4 DEF NamedOnce
  <2>2. ASSUME NEW m \in 1..Len(Tail(s)), NEW n \in 1..Len(Tail(s)), NEW f, In(f, FilesOf(Tail(s)[m])), In(f, FilesOf(Tail(s)[n]))
        PROVE  m = n
    <3>1. m + 1 = n + 1 /\ m \in Nat /\ n \in Nat
      BY <1>1, <1>4, <2>2 DEF NamedOnce
    <3> QED BY <3>1
  <2> QED BY <2>1, <2>2 DEF NamedOnce
<1>5. ASSUME NamedOnce(s) PROVE Apart(FilesOf(Head(s))) /\ \A f : ~(In(f, FilesOf(Head(s))) /\ Due(f, Tail(s)))
  <2>1. Apart(FilesOf(Head(s)))
    BY <1>1, <1>5 DEF NamedOnce
  <2>2. ASSUME NEW f, In(f, FilesOf(Head(s))), Due(f, Tail(s)) PROVE FALSE
    <3>1. PICK n \in 1..Len(Tail(s)) : In(f, FilesOf(Tail(s)[n]))
      BY <2>2 DEF Due
    <3> QED BY <1>1, <1>5, <2>2, <3>1 DEF NamedOnce
  <2> QED BY <2>1, <2>2
<1> QED BY <1>2, <1>3, <1>4, <1>5

\* A listing names each file of its directory at most once.
LEMMA ApartListing ==
  ASSUME NEW p \in Files \cup Dirs, NEW list \in Listings(p), Apart(FilesOf(p))
  PROVE  Apart(list) /\ \A f : In(f, list) => In(f, FilesOf(p))
<1>1. list \in Seq(Files) /\ FilesOf(p) \in Seq(Files)
  BY FsListings, FsFilesOf
<1>2. PICK e \in [1..Len(list) -> 1..Len(FilesOf(p))] :
        /\ \A i, j \in 1..Len(list) : i < j => e[i] < e[j]
        /\ \A n \in 1..Len(list) : list[n] = FilesOf(p)[e[n]]
  BY FsListings
<1>3. \A n \in 1..Len(list) : e[n] \in 1..Len(FilesOf(p))
  BY <1>2
<1>4. \A f : In(f, list) => In(f, FilesOf(p))
  BY <1>2, <1>3 DEF In
<1>5. ASSUME NEW m \in 1..Len(list), NEW n \in 1..Len(list), list[m] = list[n] PROVE m = n
  <2>1. e[m] = e[n]
    BY <1>2, <1>3, <1>5 DEF Apart
  <2>2. e[m] \in Nat /\ e[n] \in Nat /\ m \in Nat /\ n \in Nat
    BY <1>1, <1>3
  <2> QED BY <1>2, <2>1, <2>2
<1> QED BY <1>4, <1>5 DEF Apart

\* The client takes the files it listed of the next source, ...
LEMMA OnceList ==
  ASSUME NEW ss \in Seq(Files \cup Dirs), ss # <<>>, NEW fs, NEW as, NEW cs, Once(fs, as, ss, cs),
         NEW list \in Listings(Head(ss))
  PROVE  Once(list, as, Tail(ss), cs) /\ Once(fs, list, Tail(ss), cs)
<1>0. Head(ss) \in Files \cup Dirs
  BY HeadOf
<1>1. /\ \A f : Due(f, Tail(ss)) => Due(f, ss)
      /\ \A f : In(f, FilesOf(Head(ss))) => Due(f, ss)
      /\ NamedOnce(Tail(ss)) /\ Apart(FilesOf(Head(ss)))
      /\ \A f : ~(In(f, FilesOf(Head(ss))) /\ Due(f, Tail(ss)))
  BY NamedTail DEF Once
<1>2. Apart(list) /\ \A f : In(f, list) => In(f, FilesOf(Head(ss)))
  BY <1>0, <1>1, ApartListing
<1> QED BY <1>1, <1>2 DEF Once

\* ... or gives the source up, ...
LEMMA OnceNext ==
  ASSUME NEW S, NEW ss \in Seq(S), ss # <<>>, NEW fs, NEW as, NEW cs, Once(fs, as, ss, cs)
  PROVE  /\ Once(FilesOf(Head(ss)), as, Tail(ss), cs)
         /\ Once(fs, as, Tail(ss), cs) /\ Once(<<>>, as, Tail(ss), cs)
<1>1. /\ \A f : Due(f, Tail(ss)) => Due(f, ss)
      /\ \A f : In(f, FilesOf(Head(ss))) => Due(f, ss)
      /\ NamedOnce(Tail(ss)) /\ Apart(FilesOf(Head(ss)))
      /\ \A f : ~(In(f, FilesOf(Head(ss))) /\ Due(f, Tail(ss)))
  BY NamedTail DEF Once
<1> QED BY <1>1, ApartNone, InNone DEF Once

\* ... moves a file, ...
LEMMA OnceMoves ==
  ASSUME NEW as \in Seq(Files), as # <<>>, NEW fs \in Seq(Files), NEW ss, NEW cs, Once(fs, as, ss, cs)
  PROVE  Once(fs, Tail(as), ss, cs) /\ Once(Append(fs, Head(as)), Tail(as), ss, cs)
<1>0. Head(as) \in Files
  BY HeadOf
<1>1. Head(as) \in Files /\ In(Head(as), as)
  BY <1>0, InHead
<1>2. (\A f : In(f, Tail(as)) => In(f, as)) /\ Apart(Tail(as)) /\ ~In(Head(as), Tail(as))
  BY ApartTail DEF Once
<1>3. (\A f : In(f, Append(fs, Head(as))) => In(f, fs) \/ f = Head(as)) /\ Apart(Append(fs, Head(as)))
  BY <1>1, ApartAppend DEF Once
<1> QED BY <1>1, <1>2, <1>3 DEF Once

\* ... has copied it, ...
LEMMA OnceCopied ==
  ASSUME NEW fs \in Seq(Files), fs # <<>>, NEW as, NEW ss, NEW cs, Once(fs, as, ss, cs)
  PROVE  Once(Tail(fs), as, ss, cs \cup {Head(fs)})
<1>1. In(Head(fs), fs)
  BY InHead
<1>2. (\A f : In(f, Tail(fs)) => In(f, fs)) /\ Apart(Tail(fs)) /\ ~In(Head(fs), Tail(fs))
  BY ApartTail DEF Once
<1> QED BY <1>1, <1>2 DEF Once

\* ... finds one, ...
LEMMA OnceFound ==
  ASSUME NEW fs \in Seq(Files), NEW as \in Seq(Files), NEW ss, NEW cs, Once(fs, as, ss, cs),
         NEW x \in Files, ~In(x, fs), ~In(x, as), ~Due(x, ss), x \notin cs
  PROVE  Once(Append(fs, x), as, ss, cs) /\ Once(fs, Append(as, x), ss, cs)
<1>1. (\A f : In(f, Append(fs, x)) => In(f, fs) \/ f = x) /\ Apart(Append(fs, x))
  BY ApartAppend DEF Once
<1>2. (\A f : In(f, Append(as, x)) => In(f, as) \/ f = x) /\ Apart(Append(as, x))
  BY ApartAppend DEF Once
<1> QED BY <1>1, <1>2 DEF Once

\* ... or gives up.
LEMMA OnceLeft ==
  ASSUME NEW fs, NEW as, NEW ss, NEW cs, Once(fs, as, ss, cs)
  PROVE  Once(<<>>, <<>>, ss, cs) /\ Once(<<>>, <<>>, <<>>, cs)
BY ApartNone, InNone DEF Once

\* The files that have been met, and those that will be without a listing
Known(fs, as, ss, cs) == {f \in Files : In(f, fs) \/ In(f, as) \/ Due(f, ss) \/ f \in cs}
Met == Known(files, asked, srcs, copied)

FsOnce == cmd # "ls" => Once(files, asked, srcs, copied)

\* A directory whose files have not been met; the same for entries that come
\* from the device, and for those it has not sent.
NewDir(p, met) == Apart(FilesOf(p)) /\ \A f \in Files : In(f, FilesOf(p)) => f \notin met

NewEntries(s, met) ==
  /\ \A n \in 1..Len(s) : s[n].id = "DENT" => s[n].f \notin met
  /\ \A m, n \in 1..Len(s) : s[m].id = "DENT" /\ s[n].id = "DENT" /\ s[m].f = s[n].f => m = n

NewRest(r, s, met) ==
  /\ Apart(r) /\ \A n \in 1..Len(r) : r[n] \notin met
  /\ \A m \in 1..Len(s), n \in 1..Len(r) : s[m].id = "DENT" => s[m].f # r[n]

\* What a listing is about to name has not been met.
FsComing ==
  cmd = "pull" /\ Running =>
    /\ cpc = "srcstat" /\ files = <<>> =>
         /\ ToClient # <<>> /\ ToClient[1].id = "ATTR" => NewDir(ToClient[1].f, Met)
         /\ Open /\ AskedStat /\ ToService # <<>> => NewDir(ToService[1].f, Met)
    /\ cpc = "ls" =>
         /\ NewEntries(ToClient, Met)
         /\ Open /\ spc = "idle" /\ ToService # <<>> => NewDir(ToService[1].f, Met)
         /\ Open /\ spc = "list" => NewRest(rest, ToClient, Met)

LEMMA NewEntriesNone == \A met : NewEntries(<<>>, met)
<1>1. Len(<<>>) = 0
  OBVIOUS
<1> QED BY <1>1 DEF NewEntries

LEMMA NewEntriesShorter ==
  ASSUME NEW s, NEW q, Len(s) \in Nat, Len(q) \in Nat, Shorter(q, s), NEW met, NewEntries(s, met)
  PROVE  NewEntries(q, met)
<1>1. \A n \in 1..Len(q) : n \in 1..Len(s) /\ q[n].id = s[n].id /\ q[n].f = s[n].f
  BY DEF Shorter
<1> QED BY <1>1 DEF NewEntries

\* Another entry, or something else, comes.
LEMMA NewEntriesAppend ==
  ASSUME NEW s, NEW q, NEW x, Len(s) \in Nat, Len(q) = Len(s) + 1, q[Len(s) + 1] = x, \A n \in 1..Len(s) : q[n] = s[n],
         NEW met, NewEntries(s, met),
         x.id = "DENT" => x.f \notin met /\ \A n \in 1..Len(s) : s[n].id = "DENT" => s[n].f # x.f
  PROVE  NewEntries(q, met)
<1>1. \A n \in 1..Len(q) : (n \in 1..Len(s) /\ q[n] = s[n]) \/ (n = Len(s) + 1 /\ q[n] = x)
  OBVIOUS
<1>2. \A n \in 1..Len(q) : q[n].id = "DENT" => q[n].f \notin met
  BY <1>1 DEF NewEntries
<1>3. \A m, n \in 1..Len(q) : q[m].id = "DENT" /\ q[n].id = "DENT" /\ q[m].f = q[n].f => m = n
  BY <1>1 DEF NewEntries
<1> QED BY <1>2, <1>3 DEF NewEntries

\* The first of them is read.
LEMMA NewEntriesTail ==
  ASSUME NEW c, NEW s \in Seq(FsMessages(c)), s # <<>>, s[1].id = "DENT", NEW met, NewEntries(s, met)
  PROVE  s[1].f \notin met /\ NewEntries(Tail(s), met \cup {s[1].f})
<1>1. /\ 1 \in 1..Len(s)
      /\ \A n \in 1..Len(Tail(s)) : n \in Nat /\ n + 1 \in 1..Len(s) /\ Tail(s)[n] = s[n + 1] /\ n + 1 # 1
  BY TailOf
<1>2. \A n \in 1..Len(Tail(s)) : Tail(s)[n].id = "DENT" => Tail(s)[n].f \notin met /\ Tail(s)[n].f # s[1].f
  BY <1>1 DEF NewEntries
<1>3. ASSUME NEW m \in 1..Len(Tail(s)), NEW n \in 1..Len(Tail(s)), Tail(s)[m].id = "DENT", Tail(s)[n].id = "DENT",
             Tail(s)[m].f = Tail(s)[n].f
      PROVE  m = n
  <2>1. m + 1 = n + 1 /\ m \in Nat /\ n \in Nat
    BY <1>1, <1>3 DEF NewEntries
  <2> QED BY <2>1
<1> QED BY <1>1, <1>2, <1>3 DEF NewEntries

LEMMA NewRestTail ==
  ASSUME NEW c, NEW s \in Seq(FsMessages(c)), s # <<>>, s[1].id = "DENT", NEW r, NEW met, NewRest(r, s, met)
  PROVE  NewRest(r, Tail(s), met \cup {s[1].f})
<1>1. /\ 1 \in 1..Len(s)
      /\ \A n \in 1..Len(Tail(s)) : n + 1 \in 1..Len(s) /\ Tail(s)[n] = s[n + 1]
  BY TailOf
<1> QED BY <1>1 DEF NewRest

\* The service says the next entry, or leaves it out.
LEMMA NewRestSaid ==
  ASSUME NEW r \in Seq(Files), r # <<>>, NEW s, NEW met, NewRest(r, s, met)
  PROVE  /\ NewRest(Tail(r), s, met)
         /\ Head(r) \notin met /\ \A n \in 1..Len(s) : s[n].id = "DENT" => s[n].f # Head(r)
         /\ \A q : \A x : /\ Len(s) \in Nat /\ Len(q) = Len(s) + 1 /\ q[Len(s) + 1] = x /\ (\A n \in 1..Len(s) : q[n] = s[n])
                          /\ x.f = Head(r)
                          => NewRest(Tail(r), q, met)
<1>1. /\ 1 \in 1..Len(r) /\ r[1] = Head(r)
      /\ \A n \in 1..Len(Tail(r)) : n \in Nat /\ n + 1 \in 1..Len(r) /\ Tail(r)[n] = r[n + 1] /\ n + 1 # 1
  BY TailOf
<1>2. Apart(Tail(r)) /\ ~In(Head(r), Tail(r))
  BY ApartTail DEF NewRest
<1>3. \A n \in 1..Len(Tail(r)) : Tail(r)[n] \notin met
  BY <1>1 DEF NewRest
<1>4. \A m \in 1..Len(s), n \in 1..Len(Tail(r)) : s[m].id = "DENT" => s[m].f # Tail(r)[n]
  BY <1>1 DEF NewRest
<1>5. NewRest(Tail(r), s, met)
  BY <1>2, <1>3, <1>4 DEF NewRest
<1>6. Head(r) \notin met /\ \A n \in 1..Len(s) : s[n].id = "DENT" => s[n].f # Head(r)
  BY <1>1 DEF NewRest
<1>7. ASSUME NEW q, NEW x, Len(s) \in Nat, Len(q) = Len(s) + 1, q[Len(s) + 1] = x, \A n \in 1..Len(s) : q[n] = s[n], x.f = Head(r)
      PROVE  NewRest(Tail(r), q, met)
  <2>1. \A n \in 1..Len(q) : (n \in 1..Len(s) /\ q[n] = s[n]) \/ q[n] = x
    BY <1>7
  <2>2. \A n \in 1..Len(Tail(r)) : Tail(r)[n] # Head(r)
    BY <1>2 DEF In
  <2>3. \A m \in 1..Len(q), n \in 1..Len(Tail(r)) : q[m].id = "DENT" => q[m].f # Tail(r)[n]
    BY <1>4, <1>7, <2>1, <2>2
  <2> QED BY <1>2, <1>3, <2>3 DEF NewRest
<1> QED BY <1>5, <1>6, <1>7

LEMMA NewDirRest ==
  ASSUME NEW p, FilesOf(p) \in Seq(Files), NEW met, NewDir(p, met)
  PROVE  NewRest(FilesOf(p), <<>>, met)
<1>1. Len(<<>>) = 0
  OBVIOUS
<1>2. \A n \in 1..Len(FilesOf(p)) : FilesOf(p)[n] \in Files /\ In(FilesOf(p)[n], FilesOf(p))
  BY DEF In
<1> QED BY <1>1, <1>2 DEF NewRest, NewDir

\* The same client, and words that are lost
LEMMA ComingLess ==
  ASSUME FsInv, FsInv', FsComing, UNCHANGED <<cmd, cpc, files, asked, srcs, copied>>, Shorter(ToClient', ToClient),
         Open' => Open /\ ToService' = ToService /\ ToClient' = ToClient /\ spc' = spc /\ rest' = rest
  PROVE  FsComing'
<1> SUFFICES ASSUME cmd' = "pull", Running' PROVE FsComing'
  BY DEF FsComing
<1>1. cmd = "pull" /\ Running /\ Met' = Met
  BY DEF Running, Met
<1>2. Len(ToClient) \in Nat /\ ToClient \in Seq(FsMessages(cmd))
  BY FsViews
<1>3. Len(ToClient') \in Nat /\ (ToClient \in Seq(FsMessages(cmd)))'
  <2>1. (Len(ToService) \in Nat /\ Len(ToClient) \in Nat)' /\ (ToClient \in Seq(FsMessages(cmd)))'
    BY FsLens, FsClientSeq, PTL
  <2> QED BY <2>1
<1>4. cpc = "ls" => NewEntries(ToClient', Met)
  BY <1>1, <1>2, <1>3, NewEntriesShorter DEF FsComing
<1>5. ToClient' # <<>> => ToClient # <<>> /\ ToClient'[1].id = ToClient[1].id /\ ToClient'[1].f = ToClient[1].f
  <2> SUFFICES ASSUME ToClient' # <<>> PROVE ToClient # <<>> /\ ToClient'[1].id = ToClient[1].id /\ ToClient'[1].f = ToClient[1].f
    OBVIOUS
  <2>1. 1 \in 1..Len(ToClient')
    BY <1>3, FsTail
  <2>2. 1 \in 1..Len(ToClient)
    BY <1>2, <1>3, <2>1 DEF Shorter
  <2>3. ToClient # <<>>
    BY <2>2
  <2> QED BY <2>1, <2>3 DEF Shorter
<1>6. Open' => (AskedStat' => AskedStat)
  BY DEF AskedStat
<1> QED BY <1>1, <1>4, <1>5, <1>6 DEF FsComing

\* The service says something that is no entry and no answer to a stat.
LEMMA ComingFails ==
  ASSUME FsInv, FsComing, ~eof["service"], UNCHANGED <<cmd, cpc, files, asked, srcs, copied>>, ~Open',
         NEW m \in FsMessages(cmd), ToClient' = Said(m), m.id \notin {"ATTR", "DENT"}
  PROVE  FsComing'
<1> SUFFICES ASSUME cmd' = "pull", Running' PROVE FsComing'
  BY DEF FsComing
<1>1. cmd = "pull" /\ Running /\ Met' = Met
  BY DEF Running, Met
<1>2. /\ Len(ToClient') = Len(ToClient) + 1 /\ Len(ToClient) \in Nat
      /\ ToClient'[Len(ToClient) + 1] = m /\ \A n \in 1..Len(ToClient) : ToClient'[n] = ToClient[n]
      /\ ToClient = <<>> => ToClient'[1] = m
  <2>1. Len(ToClient) \in Nat
    BY FsViews
  <2> QED BY <2>1, FsSaid
<1>3. ToClient # <<>> => 1 \in 1..Len(ToClient)
  BY FsViews, FsTail
<1>4. cpc = "ls" => NewEntries(ToClient', Met)
  BY <1>1, <1>2, NewEntriesAppend DEF FsComing
<1> QED BY <1>1, <1>2, <1>3, <1>4 DEF FsComing

\* An answer to the stat of a source
LEMMA ComingStat ==
  ASSUME FsInv, FsGone, FsAsks, FsPullTalk, FsComing, cmd = "pull", Open, Open', Service, cpc = "srcstat", files = <<>>,
         ~eof["service"], UNCHANGED <<cmd, cpc, files, asked, srcs, copied>>
  PROVE  FsComing'
<1>1. Met' = Met /\ Running /\ ~Pushes /\ ~Failing'
  BY DEF Met, Open, Pushes
<1>2. AskedStat \/ Left
  BY <1>1 DEF FsPullTalk
<1>3. ToClient \in Seq(FsMessages(cmd)) /\ (ToClient # <<>> => 1 \in 1..Len(ToClient))
  BY FsViews, FsTail
<1>4. \A m \in FsMessages(cmd) : ToClient' = Said(m) =>
         ToClient' # <<>> /\ (ToClient # <<>> => ToClient'[1] = ToClient[1]) /\ (ToClient = <<>> => ToClient'[1] = m)
  <2> SUFFICES ASSUME NEW m \in FsMessages(cmd), ToClient' = Said(m)
               PROVE  ToClient' # <<>> /\ (ToClient # <<>> => ToClient'[1] = ToClient[1]) /\ (ToClient = <<>> => ToClient'[1] = m)
    OBVIOUS
  <2>1. Len(ToClient') = Len(ToClient) + 1 /\ Len(ToClient) \in Nat /\ \A n \in 1..Len(ToClient) : ToClient'[n] = ToClient[n]
    BY FsSaid, FsViews
  <2>2. Len(ToClient') # 0
    BY <2>1
  <2>3. ToClient' # <<>>
    BY <2>2
  <2> QED BY <1>3, <2>1, <2>3, FsSaid
<1> SUFFICES /\ ToClient' # <<>> /\ ToClient'[1].id = "ATTR" => NewDir(ToClient'[1].f, Met)
             /\ AskedStat' /\ ToService' # <<>> => NewDir(ToService'[1].f, Met)
  BY <1>1 DEF FsComing
<1>5. CASE ToService' = ToService /\ ToClient' = ToClient /\ UNCHANGED service
  BY <1>1, <1>5 DEF FsComing, AskedStat, service
<1>6. CASE ServeStat
  <2>1. PICK r : ToClient' = Said(Attr(ToService[1].f, r)) /\ Attr(ToService[1].f, r) \in FsMessages(cmd)
    BY <1>6, FvServeStat
  <2>2. PICK m \in FsMessages(cmd) : ToClient' = Said(m) /\ m.f = ToService[1].f
    BY <2>1, FsAttr
  <2>3. ~AskedStat' \/ ToService' = <<>>
    BY <1>4, <2>2 DEF AskedStat
  <2>4. CASE ToClient # <<>>
    <3>1. ToClient'[1] = ToClient[1]
      BY <1>4, <2>2, <2>4
    <3> QED BY <1>1, <2>3, <2>4, <3>1 DEF FsComing
  <2>5. CASE ToClient = <<>>
    <3>1. ToClient'[1] = m
      BY <1>4, <2>2, <2>5
    <3>2. AskedStat /\ ToService # <<>>
      BY <1>2, <1>6, <2>5, FvServeStat DEF Left
    <3>3. NewDir(ToService[1].f, Met)
      BY <1>1, <3>2 DEF FsComing
    <3> QED BY <2>2, <2>3, <3>1, <3>3
  <2> QED BY <2>4, <2>5
<1>7. CASE SendChunk
  <2>1. spc = "read"
    BY <1>7, FvSendChunk
  <2>2. PICK m \in FsMessages(cmd) : ToClient' = Said(m) /\ m.id # "ATTR"
    <3>1. PICK id, f : id \in {"DATA", "DONE", "FAIL"} /\ ToClient' = Said(Msg(id, f)) /\ Msg(id, f) \in FsMessages(cmd)
      BY <1>7, FvSendChunk
    <3>2. Msg(id, f).id = id
      BY FsMsg
    <3> QED BY <3>1, <3>2
  <2>3. ~AskedStat' \/ ToService' = <<>>
    BY <1>4, <2>2 DEF AskedStat
  <2> QED BY <1>1, <1>4, <2>2, <2>3 DEF FsComing
<1>8. CASE ServeRecv /\ spc' = "read"
  <2>1. ToClient' = ToClient
    BY <1>8, FvServeRecv
  <2> QED BY <1>1, <1>8, <2>1 DEF FsComing, AskedStat
<1>9. CASE ServeList \/ ListEntry
  <2>1. Left /\ ToClient # <<>>
    BY <1>2, <1>3, <1>9, FvServeList, FvListEntry DEF AskedStat, Left
  <2>2. ToClient[1].id # "ATTR"
    BY <2>1 DEF Left
  <2>3. ToClient' = ToClient \/ \E m \in FsMessages(cmd) : ToClient' = Said(m)
    BY <1>9, FvServeList, FvListEntry
  <2>4. ToClient'[1] = ToClient[1] /\ ToClient' # <<>>
    BY <1>4, <2>1, <2>3
  <2> QED BY <2>2, <2>4 DEF AskedStat
<1> QED BY <1>1, <1>5, <1>6, <1>7, <1>8, <1>9, FsServesPull

\* The entries of a directory
LEMMA ComingEntry ==
  ASSUME FsInv, FsGone, FsAsks, FsPullTalk, FsComing, cmd = "pull", Open, Open', Service, cpc = "ls",
         ~eof["service"], UNCHANGED <<cmd, cpc, files, asked, srcs, copied>>
  PROVE  FsComing'
<1>1. Met' = Met /\ Running /\ ~Pushes /\ ~Failing'
  BY DEF Met, Open, Pushes
<1>2. Listing
  BY <1>1 DEF FsPullTalk
<1>3. Len(ToClient) \in Nat /\ Len(ToService) \in Nat /\ ToService \in Seq(FsMessages(cmd)) /\ rest \in Seq(Files)
  BY FsViews DEF FsInv, FsServiceTypes
<1>4. /\ NewEntries(ToClient, Met)
      /\ spc = "idle" /\ ToService # <<>> => NewDir(ToService[1].f, Met)
      /\ spc = "list" => NewRest(rest, ToClient, Met)
  BY <1>1 DEF FsComing
<1> SUFFICES /\ NewEntries(ToClient', Met)
             /\ spc' = "idle" /\ ToService' # <<>> => NewDir(ToService'[1].f, Met)
             /\ spc' = "list" => NewRest(rest', ToClient', Met)
  BY <1>1 DEF FsComing
<1>5. CASE ToService' = ToService /\ ToClient' = ToClient /\ UNCHANGED service
  BY <1>4, <1>5 DEF service
<1>6. CASE ServeList
  <2>1. spc = "idle" /\ ToService # <<>> /\ ToService' = Tail(ToService) /\ ToService[1].f \in Files \cup Dirs
    BY <1>6, FvServeList
  <2>2. Len(ToService) = 1 /\ ToClient = <<>>
    BY <1>2, <2>1 DEF Listing, Between
  <2>3. ToService' = <<>>
    BY <1>3, <2>1, <2>2, FsOne1
  <2>4. CASE rest' = FilesOf(ToService[1].f) /\ spc' = "list" /\ ToClient' = ToClient
    <3>1. NewRest(FilesOf(ToService[1].f), <<>>, Met)
      BY <1>4, <2>1, FsFilesOf, NewDirRest
    <3> QED BY <2>2, <2>3, <2>4, <3>1, NewEntriesNone
  <2>5. CASE ToClient' = Said(Msg("DONE", ToService[1].f)) /\ Msg("DONE", ToService[1].f) \in FsMessages(cmd) /\ spc' = spc
    <3>1. PICK m \in FsMessages(cmd) : ToClient' = Said(m) /\ m.id = "DONE"
      BY <2>5, FsMsg
    <3>2. Len(ToClient') = 1 /\ ToClient'[1] = m
      BY <2>2, <3>1, FsSaid
    <3>3. NewEntries(ToClient', Met)
      BY <3>1, <3>2 DEF NewEntries
    <3> QED BY <2>1, <2>3, <2>5, <3>3
  <2> QED BY <1>6, <2>4, <2>5, FvServeList
<1>7. CASE ListEntry
  <2>1. spc = "list" /\ ToService' = ToService
    BY <1>7, FvListEntry
  <2>2. ToService' = <<>>
    BY <1>2, <2>1 DEF Listing, Between
  <2>3. CASE /\ rest # <<>> /\ rest' = Tail(rest) /\ ToClient' = Said(Msg("DENT", Head(rest))) /\ spc' = spc
             /\ Msg("DENT", Head(rest)) \in FsMessages(cmd)
    <3>1. PICK m \in FsMessages(cmd) : ToClient' = Said(m) /\ m.id = "DENT" /\ m.f = Head(rest)
      BY <2>3, FsMsg
    <3>2. /\ Len(ToClient') = Len(ToClient) + 1
          /\ ToClient'[Len(ToClient) + 1] = m /\ \A n \in 1..Len(ToClient) : ToClient'[n] = ToClient[n]
      BY <3>1, FsSaid
    <3>3. NewRest(rest, ToClient, Met)
      BY <1>4, <2>1
    <3>4. Head(rest) \notin Met /\ \A n \in 1..Len(ToClient) : ToClient[n].id = "DENT" => ToClient[n].f # Head(rest)
      BY <1>3, <2>3, <3>3, NewRestSaid
    <3>5. NewEntries(ToClient', Met)
      BY <1>3, <1>4, <3>1, <3>2, <3>4, NewEntriesAppend
    <3>6. NewRest(Tail(rest), ToClient', Met)
      BY <1>3, <2>3, <3>1, <3>2, <3>3, NewRestSaid
    <3> QED BY <2>1, <2>2, <2>3, <3>5, <3>6
  <2>4. CASE rest # <<>> /\ rest' = Tail(rest) /\ ToClient' = ToClient /\ spc' = spc
    <3>1. NewRest(Tail(rest), ToClient, Met)
      BY <1>3, <1>4, <2>1, <2>4, NewRestSaid
    <3> QED BY <1>4, <2>1, <2>2, <2>4, <3>1
  <2>5. CASE ToClient' = Said(Msg("DONE", Dst)) /\ spc' = "idle" /\ Msg("DONE", Dst) \in FsMessages(cmd)
    <3>1. PICK m \in FsMessages(cmd) : ToClient' = Said(m) /\ m.id = "DONE"
      BY <2>5, FsMsg
    <3>2. /\ Len(ToClient') = Len(ToClient) + 1
          /\ ToClient'[Len(ToClient) + 1] = m /\ \A n \in 1..Len(ToClient) : ToClient'[n] = ToClient[n]
      BY <3>1, FsSaid
    <3>3. NewEntries(ToClient', Met)
      BY <1>3, <1>4, <3>1, <3>2, NewEntriesAppend
    <3> QED BY <2>2, <2>5, <3>3
  <2> QED BY <1>7, <2>3, <2>4, <2>5, FvListEntry
<1>8. CASE ServeStat \/ ServeRecv \/ SendChunk
  <2>1. spc \in {"idle", "read"} /\ (spc = "idle" => ToService # <<>> /\ ToService[1].id # "LIST")
    BY <1>8, FvServeStat, FvServeRecv, FvSendChunk
  <2> QED BY <1>2, <2>1 DEF Listing, Between
<1> QED BY <1>1, <1>5, <1>6, <1>7, <1>8, FsServesPull

LEMMA ComingService ==
  ASSUME FsInv, FsInv', FsGone, FsAsks, FsHalf, FsPullTalk, FsComing, Service
  PROVE  FsComing'
<1>1. UNCHANGED <<cmd, cpc, files, asked, srcs, copied>>
  BY FsServiceFrame DEF command, client
<1> SUFFICES ASSUME cmd = "pull", Running PROVE FsComing'
  BY <1>1 DEF FsComing, Running
<1>2. ~Pushes
  BY DEF Pushes
<1>3. CASE Open'
  <2>1. Open /\ ~eof["service"]
    BY <1>3, FsOpenService
  <2>2. CASE cpc = "srcstat" /\ files = <<>>
    BY <1>1, <1>3, <2>1, <2>2, ComingStat
  <2>3. CASE cpc = "ls"
    BY <1>1, <1>3, <2>1, <2>3, ComingEntry
  <2> QED BY <1>1, <2>2, <2>3 DEF FsComing
<1>4. CASE ~Open'
  <2>1. CASE Begins(ToClient', ToClient)
    <3>1. Shorter(ToClient', ToClient)
      BY <2>1 DEF Begins, Shorter
    <3> QED BY <1>1, <1>4, <3>1, ComingLess
  <2>2. CASE ~Begins(ToClient', ToClient)
    <3>1. Failing' /\ ~eof["service"]
      BY <1>4, <2>2, FsSpeaksOpen
    <3>2. PICK m \in FsMessages(cmd) : m.id = "FAIL" /\ ToClient' = Said(m)
      BY <1>2, <2>2, <3>1, FsPullFails
    <3> QED BY <1>1, <1>4, <3>1, <3>2, ComingFails
  <2> QED BY <2>1, <2>2
<1> QED BY <1>3, <1>4

\* One request is under way, and it is the last that was written.
LEMMA FsOnly ==
  ASSUME FsInv, ~eof["client"], NEW m \in FsMessages(cmd), ToService' = Wrote(<<m>>), ToService = <<>> \/ Len(ToService') = 1
  PROVE  ToService'[1] = m
<1>1. PICK s \in Seq(FsMessages(cmd)) : s = ToService
  BY FsViews
<1>2. PICK t \in Seq(FsMessages(cmd)) : t = <<m>>
  BY FsOne
<1>3. ToService' = s \o t
  BY <1>1, <1>2, FsWrote
<1>4. Len(s \o t) = Len(s) + 1 /\ (s \o t)[Len(s) + 1] = m /\ Len(s) \in Nat
  BY <1>2
<1>5. Len(s) = 0
  <2>1. CASE ToService = <<>>
    BY <1>1, <2>1
  <2>2. CASE Len(ToService') = 1
    BY <1>3, <1>4, <2>2
  <2> QED BY <2>1, <2>2
<1> QED BY <1>3, <1>4, <1>5

LEMMA ComingNext ==
  ASSUME FsInv, FsPullTalk, FsPullHears, FsOnce, cmd = "pull", Running, NextSource
  PROVE  FsComing'
<1>1. /\ cpc = "next" /\ cpc' = "srcstat" /\ srcs' = Tail(srcs) /\ ToClient' = ToClient /\ UNCHANGED <<asked, copied, cmd, spc, eof>>
      /\ srcs # <<>> /\ srcs \in Seq(Files \cup Dirs) /\ Head(srcs) \in Files \cup Dirs
      /\ files' = IF Head(srcs) \in Files THEN <<Head(srcs)>> ELSE <<>>
      /\ ToService' = Wrote(<<Msg("STAT", Head(srcs))>>) /\ Msg("STAT", Head(srcs)) \in FsMessages(cmd)
  <2>1. cpc = "next" /\ srcs' = Tail(srcs) /\ UNCHANGED <<copied, cmd, spc, eof>> /\ srcs \in Seq(Files \cup Dirs)
    BY DEF NextSource, ClientIdle, command, service, FsInv, FsClientTypes
  <2> QED BY <2>1, FvNextPull
<1>2. NoAttr(ToClient)
  BY <1>1 DEF FsPullHears, Heard
<1> SUFFICES ASSUME files' = <<>>, Open', AskedStat', ToService' # <<>> PROVE NewDir(ToService'[1].f, Met')
  BY <1>1, <1>2 DEF FsComing, NoAttr
<1>3. ~eof["client"] /\ Len(ToService') = 1
  BY <1>1 DEF Open, AskedStat
<1>4. PICK m \in FsMessages(cmd) : m = Msg("STAT", Head(srcs))
  BY <1>1
<1>5. ToService'[1] = m
  BY <1>1, <1>3, <1>4, FsOnly
<1>6. m.f = Head(srcs)
  BY <1>4, FsMsg
<1>7. /\ \A f : In(f, FilesOf(Head(srcs))) => Due(f, srcs)
      /\ Apart(FilesOf(Head(srcs))) /\ \A f : ~(In(f, FilesOf(Head(srcs))) /\ Due(f, srcs'))
  BY <1>1, NamedTail DEF FsOnce, Once
<1>8. \A f \in Files : In(f, FilesOf(Head(srcs))) => f \notin Known(<<>>, asked, srcs', copied)
  BY <1>7, InNone DEF FsOnce, Once, Known
<1> QED BY <1>1, <1>5, <1>6, <1>7, <1>8 DEF NewDir, Met

LEMMA ComingSrcStat ==
  ASSUME FsInv, FsPullTalk, FsPullHears, FsComing, cmd = "pull", Running, SrcStat, Client
  PROVE  FsComing'
<1>1. cpc = "srcstat" /\ UNCHANGED <<copied, cmd, spc>> /\ ToClient # <<>> /\ ToClient[1].id = "ATTR" /\ ToClient' = Tail(ToClient)
  BY FvSrcStat DEF SrcStat, ClientIdle, command, service, history
<1>2. CASE cpc' \in {"recv", "next"}
  BY <1>2 DEF FsComing
<1>3. CASE /\ files = <<>> /\ cpc' = "ls" /\ UNCHANGED <<srcs, files, asked, eof>>
           /\ ToService' = Wrote(<<Msg("LIST", ToClient[1].f)>>) /\ Msg("LIST", ToClient[1].f) \in FsMessages(cmd)
  <2>1. Met' = Met /\ NewDir(ToClient[1].f, Met)
    BY <1>1, <1>3 DEF FsComing, Met
  <2>2. CASE Open'
    <3>1. Open /\ ~eof["client"]
      BY <2>2, FsOpenClient DEF Open
    <3>2. AskedStat
      BY <1>1, <3>1 DEF FsPullTalk, Pushes, Left
    <3>3. ToService = <<>> /\ spc = "idle" /\ Len(ToClient) = 1
      BY <1>1, <3>2 DEF AskedStat
    <3>4. ToClient' = <<>>
      BY <1>1, <3>3, FsViews, FsOne1
    <3>5. PICK m \in FsMessages(cmd) : m = Msg("LIST", ToClient[1].f)
      BY <1>3
    <3>6. ToService'[1] = m /\ m.f = ToClient[1].f
      BY <1>3, <3>1, <3>3, <3>5, FsOnly, FsMsg
    <3>7. spc' = "idle" /\ NewEntries(ToClient', Met)
      BY <1>1, <3>3, <3>4, NewEntriesNone
    <3> QED BY <1>3, <2>1, <3>6, <3>7 DEF FsComing
  <2>3. CASE ~Open'
    <3>1. Len(ToClient) = 1
      BY <1>1 DEF FsPullHears, Heard, NoAttr
    <3>2. ToClient' = <<>>
      BY <1>1, <3>1, FsViews, FsOne1
    <3> QED BY <1>3, <2>1, <2>3, <3>2, NewEntriesNone DEF FsComing
  <2> QED BY <2>2, <2>3
<1> QED BY <1>2, <1>3, FvSrcStat DEF GiveUp

LEMMA ComingDent ==
  ASSUME FsInv, FsPullTalk, FsComing, cmd = "pull", Running, Dent, Client
  PROVE  FsComing' /\ ToClient[1].f \in Files /\ ToClient[1].f \notin Met
<1>1. cpc = "ls" /\ cpc' = "ls" /\ UNCHANGED <<copied, cmd, spc, rest, srcs>>
  BY DEF Dent, ClientIdle, command, service, history
<1>2. ToClient # <<>> /\ ToClient[1].id = "DENT" /\ ToClient' = Tail(ToClient) /\ ToService' = ToService
  BY FvDent
<1>3. ToClient \in Seq(FsMessages(cmd)) /\ files \in Seq(Files) /\ asked \in Seq(Files)
  BY FsViews DEF FsInv, FsClientTypes
<1>4. PICK x : x = ToClient[1].f
  OBVIOUS
<1>5. x \in Files
  <2>1. ToClient[1] \in FsMessages(cmd)
    BY <1>2, <1>3, FsTail
  <2> QED BY <1>2, <1>4, <2>1 DEF FsMessages
<1>6. Met' \subseteq Met \cup {x}
  <2>1. \/ asked' = Append(asked, x) /\ files' = files
        \/ files' = Append(files, x) /\ asked' = asked
    BY <1>4, FvDent
  <2>2. \A f : (In(f, Append(asked, x)) => In(f, asked) \/ f = x) /\ (In(f, Append(files, x)) => In(f, files) \/ f = x)
    BY <1>3, <1>5, ApartAppend
  <2> QED BY <1>1, <2>1, <2>2 DEF Met, Known
<1>7. x \notin Met /\ NewEntries(ToClient', Met \cup {x})
  BY <1>1, <1>2, <1>3, <1>4, NewEntriesTail DEF FsComing
<1>8. NewEntries(ToClient', Met')
  BY <1>6, <1>7 DEF NewEntries
<1>9. ASSUME Open' PROVE /\ spc' = "idle" => ToService' = <<>>
                         /\ spc' = "list" => NewRest(rest', ToClient', Met')
  <2>1. Open
    BY <1>9, FsOpenClient
  <2>2. Listing
    BY <1>1, <2>1 DEF FsPullTalk, Pushes
  <2>3. spc = "idle" => ToService = <<>>
    BY <1>2, <2>2 DEF Listing, Between
  <2>4. spc = "list" => NewRest(rest, ToClient', Met \cup {x})
    BY <1>1, <1>2, <1>3, <1>4, <2>1, NewRestTail DEF FsComing
  <2>5. spc = "list" => NewRest(rest, ToClient', Met')
    BY <1>6, <2>4 DEF NewRest
  <2> QED BY <1>1, <1>2, <2>3, <2>5
<1> QED BY <1>1, <1>4, <1>5, <1>7, <1>8, <1>9 DEF FsComing

LEMMA ComingClient ==
  ASSUME FsInv, FsInv', FsGone, FsPlaces, FsPullTalk, FsPullHears, FsOnce, FsComing, Client
  PROVE  FsComing'
<1> SUFFICES ASSUME cmd' = "pull", Running', cpc' \in {"srcstat", "ls"} PROVE FsComing'
  BY DEF FsComing
<1>1. cmd = "pull" /\ ~Pushes
  BY FsClientFrame DEF command, Pushes
<1>2. CASE NextSource
  <2>1. Running
    BY <1>2 DEF NextSource, ClientIdle, Running
  <2> QED BY <1>1, <1>2, <2>1, ComingNext
<1>3. CASE SrcStat
  <2>1. Running
    BY <1>3 DEF SrcStat, ClientIdle, Running
  <2> QED BY <1>1, <1>3, <2>1, ComingSrcStat
<1>4. CASE Dent
  <2>1. Running
    BY <1>4 DEF Dent, ClientIdle, Running
  <2> QED BY <1>1, <1>4, <2>1, ComingDent
<1>5. CASE Transmit("client") \/ Swallow("client")
  <2>1. UNCHANGED <<cmd, cpc, files, asked, srcs, copied, spc, rest>> /\ eof' = eof
    BY <1>5 DEF Transmit, Swallow, command, client, service, history
  <2>2. Shorter(ToClient', ToClient) /\ ToService' = ToService
    <3>1. CASE Transmit("client")
      <4>1. ToClient' = ToClient /\ ToService' = ToService
        BY <3>1, FsSides, FsTransmitted
      <4>2. Len(ToClient) \in Nat
        BY FsViews
      <4> QED BY <4>1, <4>2 DEF Shorter
    <3> QED BY <1>5, <3>1, FsSwallowed, FsSides
  <2>3. ASSUME Open' PROVE ToClient' = ToClient
    <3>1. ~Swallow("client")
      BY <2>1, <2>3 DEF Swallow, Open
    <3> QED BY <1>5, <3>1, FsSides, FsTransmitted
  <2>4. Open' => Open
    BY FsOpenClient
  <2> QED BY <2>1, <2>2, <2>3, <2>4, ComingLess
<1>6. CASE StatFault \/ ListDone \/ ListFails \/ StatLink \/ LinkStat \/ RecvFile \/ Creat \/ RecvData \/ RecvFails \/ RecvDone
           \/ SourceDone \/ Quit \/ Shutdown \/ ClientWriteFails
  BY <1>1, <1>6 DEF StatFault, ListDone, ListFails, StatLink, LinkStat, RecvFile, Creat, RecvData, RecvFails, RecvDone,
     SourceDone, Quit, Shutdown, ClientWriteFails, ClientEnds, GiveUp, ClientIdle
<1> QED BY <1>1, <1>2, <1>3, <1>4, <1>5, <1>6, FsPullClient

LEMMA FsComingStep ==
  ASSUME FsInv, FsInv', FsGone, FsPlaces, FsAsks, FsHalf, FsPullTalk, FsPullHears, FsOnce, FsComing, [FileSyncNext]_fileSyncVars
  PROVE  FsComing'
<1>1. CASE Service
  BY <1>1, ComingService
<1>2. CASE Client
  BY <1>2, ComingClient
<1>3. CASE Kill
  BY <1>3 DEF Kill, FsComing, Running
<1>4. CASE Break
  <2>1. UNCHANGED <<cmd, cpc, files, asked, srcs, copied>> /\ ~Open'
    BY <1>4, FsSides DEF Break, command, client, Open
  <2> QED BY <1>4, <2>1, FsBroken, ComingLess
<1>5. CASE DrainSpins \/ Finished \/ UNCHANGED fileSyncVars
  <2>1. UNCHANGED <<cmd, cpc, files, asked, srcs, copied, spc, rest, net, out, eof>>
    BY <1>5 DEF DrainSpins, Finished, fileSyncVars, command, client, service, history
  <2>2. ToService' = ToService /\ ToClient' = ToClient
    BY <2>1, FsStill
  <2>3. Shorter(ToClient', ToClient) /\ (Open' => Open)
    <3>1. Len(ToClient) \in Nat
      BY FsViews
    <3> QED BY <2>1, <2>2, <3>1 DEF Shorter, Open, Running, Failing
  <2> QED BY <2>1, <2>2, <2>3, ComingLess
<1> QED BY <1>1, <1>2, <1>3, <1>4, <1>5 DEF FileSyncNext

\* The command names no file twice.
NoneNamedTwice == \A s \in Sources : NamedOnce(s)

LEMMA FsOnceInit == NoneNamedTwice /\ FileSyncInit => FsOnce
<1> SUFFICES ASSUME NoneNamedTwice, FileSyncInit PROVE Once(files, asked, srcs, copied)
  BY DEF FsOnce
<1>1. files = <<>> /\ asked = <<>> /\ copied = {} /\ NamedOnce(srcs)
  BY DEF FileSyncInit, NoneNamedTwice
<1> QED BY <1>1, ApartNone, InNone DEF Once

LEMMA FsComingInit == FileSyncInit => FsComing
BY DEF FileSyncInit, FsComing

LEMMA OncePush ==
  ASSUME FsInv, FsPlaces, FsOnce, Pushes, Client
  PROVE  FsOnce'
<1>1. Once(files, asked, srcs, copied) /\ files \in Seq(Files) /\ asked \in Seq(Files) /\ srcs \in Seq(Files \cup Dirs)
  BY DEF FsOnce, Pushes, FsInv, FsClientTypes
<1>2. CASE UNCHANGED <<files, asked, srcs, copied>>
  BY <1>1, <1>2 DEF FsOnce
<1>3. CASE files' = <<>> /\ asked' = <<>> /\ srcs' \in {srcs, <<>>} /\ copied' = copied
  BY <1>1, <1>3, OnceLeft DEF FsOnce
<1>4. CASE NextSource
  <2>1. srcs # <<>> /\ srcs' = Tail(srcs) /\ copied' = copied
    BY <1>4 DEF NextSource
  <2>2. CASE files' = files /\ asked' = asked
    <3>1. Once(files, asked, srcs', copied)
      BY <1>1, <2>1, OnceNext
    <3> QED BY <2>1, <2>2, <3>1 DEF FsOnce
  <2>3. CASE ~(files' = files /\ asked' = asked)
    <3>1. PICK list \in Listings(Head(srcs)) :
            \/ asked' = list /\ files' = files
            \/ files' = list /\ asked' = asked
      BY <1>4, <2>3, FvNextPush DEF Pushes
    <3>2. Once(list, asked, srcs', copied) /\ Once(files, list, srcs', copied)
      BY <1>1, <2>1, OnceList
    <3> QED BY <2>1, <3>1, <3>2 DEF FsOnce
  <2> QED BY <2>2, <2>3
<1>5. CASE LstatReply
  <2>1. srcs' = srcs /\ copied' = copied
    BY <1>5 DEF LstatReply, history
  <2>2. \/ files' = files /\ asked' = asked
        \/ asked # <<>> /\ asked' = Tail(asked) /\ files' \in {files, Append(files, Head(asked))}
    BY <1>5, FvLstatReply
  <2> QED BY <1>1, <1>2, <2>1, <2>2, OnceMoves DEF FsOnce
<1>6. CASE CopyOkay
  <2>1. files' = Tail(files) /\ copied' = copied \cup {Head(files)} /\ UNCHANGED <<asked, srcs>> /\ cpc = "copydone"
    BY <1>6 DEF CopyOkay, ClientIdle
  <2>2. files # <<>>
    BY <2>1, FsAtFile
  <2> QED BY <1>1, <2>1, <2>2, OnceCopied DEF FsOnce
<1>7. CASE ClientWriteFails
  <2>1. cpc # "lnstat"
    BY DEF FsPlaces
  <2> QED BY <1>2, <1>3, <1>7, <2>1 DEF ClientWriteFails, ClientEnds, GiveUp
<1>8. CASE StatFault \/ LocalReadFails \/ CopyFails \/ Shutdown
  BY <1>3, <1>8 DEF StatFault, LocalReadFails, CopyFails, Shutdown, ClientEnds, GiveUp, history
<1>9. CASE Start \/ DstStat \/ SendFile \/ LargeChunk \/ LargePoll \/ SourceDone \/ Quit \/ Transmit("client") \/ Swallow("client")
  BY <1>2, <1>9 DEF Start, DstStat, SendFile, LargeChunk, LargePoll, SourceDone, Quit, Transmit, Swallow, client, history
<1> QED BY <1>4, <1>5, <1>6, <1>7, <1>8, <1>9, FsPushClient

LEMMA OncePull ==
  ASSUME FsInv, FsPlaces, FsPullTalk, FsComing, FsOnce, cmd = "pull", Client
  PROVE  FsOnce'
<1>1. Once(files, asked, srcs, copied) /\ files \in Seq(Files) /\ asked \in Seq(Files) /\ srcs \in Seq(Files \cup Dirs)
  BY DEF FsOnce, FsInv, FsClientTypes
<1>2. CASE UNCHANGED <<files, asked, srcs, copied>>
  BY <1>1, <1>2 DEF FsOnce
<1>3. CASE files' = <<>> /\ asked' = <<>> /\ srcs' \in {srcs, <<>>} /\ copied' = copied
  BY <1>1, <1>3, OnceLeft DEF FsOnce
<1>4. CASE NextSource
  <2>1. srcs # <<>> /\ srcs' = Tail(srcs) /\ copied' = copied
    BY <1>4 DEF NextSource
  <2>2. Once(FilesOf(Head(srcs)), asked, srcs', copied) /\ Once(<<>>, asked, srcs', copied)
    BY <1>1, <2>1, OnceNext
  <2>3. asked' = asked /\ (files' = FilesOf(Head(srcs)) \/ files' = <<>>)
    BY <1>4, FvNextPull DEF FilesOf
  <2> QED BY <2>1, <2>2, <2>3 DEF FsOnce
<1>5. CASE LinkStat
  <2>1. srcs' = srcs /\ copied' = copied /\ asked' = Tail(asked) /\ cpc = "lnstat"
    BY <1>5 DEF LinkStat, history, ClientIdle
  <2>2. asked # <<>> /\ files' \in {files, Append(files, Head(asked))}
    BY <1>5, <2>1, FvLinkStat DEF FsInv, FsClient
  <2> QED BY <1>1, <2>1, <2>2, OnceMoves DEF FsOnce
<1>6. CASE RecvDone
  <2>1. /\ copied' = copied \cup {Head(files)} /\ UNCHANGED srcs /\ cpc = "recvdata"
        /\ (files' = Tail(files) /\ UNCHANGED asked) \/ (files' = <<>> /\ asked' = <<>>)
    BY <1>6 DEF RecvDone, ClientIdle, GiveUp
  <2>2. files # <<>>
    BY <2>1, FsAtFile
  <2>3. Once(Tail(files), asked, srcs, copied \cup {Head(files)})
    BY <1>1, <2>2, OnceCopied
  <2>4. Once(<<>>, <<>>, srcs, copied \cup {Head(files)})
    BY <2>3, OnceLeft
  <2> QED BY <2>1, <2>3, <2>4 DEF FsOnce
<1>7. CASE ClientWriteFails
  <2>1. CASE cpc = "lnstat"
    <3>1. asked # <<>> /\ asked' = Tail(asked) /\ UNCHANGED <<files, srcs, copied>>
      BY <1>7, <2>1 DEF ClientWriteFails, FsInv, FsClient
    <3> QED BY <1>1, <3>1, OnceMoves DEF FsOnce
  <2>2. CASE cpc # "lnstat"
    BY <1>2, <1>3, <1>7, <2>2 DEF ClientWriteFails, ClientEnds, GiveUp
  <2> QED BY <2>1, <2>2
<1>8. CASE Dent
  <2>1. Running /\ UNCHANGED <<srcs, copied>>
    BY <1>8 DEF Dent, ClientIdle, Running, history
  <2>2. PICK x : x = ToClient[1].f
    OBVIOUS
  <2>3. x \in Files /\ x \notin Met
    BY <1>8, <2>1, <2>2, ComingDent
  <2>4. ~In(x, files) /\ ~In(x, asked) /\ ~Due(x, srcs) /\ x \notin copied
    BY <2>3 DEF Met, Known
  <2>5. Once(Append(files, x), asked, srcs, copied) /\ Once(files, Append(asked, x), srcs, copied)
    BY <1>1, <2>3, <2>4, OnceFound
  <2> QED BY <1>8, <2>1, <2>2, <2>5, FvDent DEF FsOnce
<1>9. CASE StatFault \/ ListFails \/ RecvFails \/ Shutdown
  BY <1>3, <1>9 DEF StatFault, ListFails, RecvFails, Shutdown, ClientEnds, GiveUp, history
<1>10. CASE Creat \/ SrcStat
  BY <1>2, <1>3, <1>10 DEF Creat, SrcStat, GiveUp, history
<1>11. CASE ListDone \/ StatLink \/ RecvFile \/ RecvData \/ SourceDone \/ Quit \/ Transmit("client") \/ Swallow("client")
  BY <1>2, <1>11 DEF ListDone, StatLink, RecvFile, RecvData, SourceDone, Quit, Transmit, Swallow, client, history
<1> QED BY <1>4, <1>5, <1>6, <1>7, <1>8, <1>9, <1>10, <1>11, FsPullClient DEF Pushes

LEMMA FsOnceStep ==
  ASSUME FsInv, FsPlaces, FsPullTalk, FsComing, FsOnce, [FileSyncNext]_fileSyncVars
  PROVE  FsOnce'
<1>1. CASE Client
  <2>1. cmd' = cmd /\ cmd \in {"push", "sync", "pull", "ls"}
    BY <1>1, FsClientFrame DEF command, FsInv, FsCommand
  <2>2. CASE cmd = "ls"
    BY <2>1, <2>2 DEF FsOnce
  <2>3. CASE cmd = "pull"
    BY <1>1, <2>3, OncePull
  <2>4. CASE Pushes
    BY <1>1, <2>4, OncePush
  <2> QED BY <2>1, <2>2, <2>3, <2>4 DEF Pushes
<1>2. CASE Kill
  BY <1>2, OnceLeft DEF Kill, FsOnce, command
<1>3. CASE Service \/ Break \/ DrainSpins \/ Finished \/ UNCHANGED fileSyncVars
  <2>1. UNCHANGED <<command, client, copied>>
    BY <1>3, FsServiceFrame DEF Break, DrainSpins, Finished, fileSyncVars, history
  <2> QED BY <2>1 DEF FsOnce, command, client
<1> QED BY <1>1, <1>2, <1>3 DEF FileSyncNext

\* What was copied is complete, and the device will not touch it again.
FsKept ==
  \A f \in copied : /\ cmd = "pull" => local[f] = Complete(f)
                    /\ Pushes => remote[f] = Complete(f) /\ ~Busy(f, spc, cur, ToService)

LEMMA FsKeptInit == FileSyncInit => FsKept
BY DEF FileSyncInit, FsKept

LEMMA FsCopied == FsInv => copied \subseteq Files
BY DEF FsInv, FsClientTypes

LEMMA KeptService ==
  ASSUME FsInv, FsGone, FsKept, Service
  PROVE  FsKept'
<1>1. UNCHANGED <<cmd, local, copied>> /\ (Pushes' <=> Pushes) /\ copied \subseteq Files
  BY FsServiceFrame, FsCopied DEF command, client, Pushes
<1>2. \A f : Busy(f, spc', cur', ToService') => Busy(f, spc, cur, ToService)
  BY BusyService
<1>3. ASSUME NEW f \in copied, Pushes PROVE remote'[f] = Complete(f) /\ ~Busy(f, spc', cur', ToService')
  BY <1>1, <1>2, <1>3, BusyChanged DEF FsKept
<1> QED BY <1>1, <1>3 DEF FsKept

LEMMA KeptPush ==
  ASSUME FsInv, FsInv', FsGone, FsPlaces, FsHears, FsOnce', FsKept, Pushes, Client
  PROVE  FsKept'
<1>1. UNCHANGED <<cmd, spc, cur, remote>> /\ Pushes' /\ cmd' \notin {"ls", "pull"}
  BY FsClientFrame DEF command, service, Pushes
<1>2. ASSUME NEW f \in copied' PROVE ~OnFile(f)'
  <2> SUFFICES ASSUME OnFile(f)' PROVE FALSE
    OBVIOUS
  <2>1. (cpc \in {"large", "poll", "copydone", "creat", "recvdata"} => /\ files # <<>> /\ files \in Seq(Files)
                                                                       /\ Head(files) \in Files)'
    BY FsAtFile, PTL
  <2>2. f = Head(files') /\ files' # <<>> /\ files' \in Seq(Files)
    BY <2>1 DEF OnFile
  <2>3. In(f, files')
    BY <2>2, InHead
  <2>4. Once(files', asked', srcs', copied')
    BY <1>1 DEF FsOnce
  <2> QED BY <2>3, <2>4 DEF Once
<1>3. ASSUME NEW f \in copied, f \in copied' PROVE remote'[f] = Complete(f) /\ ~Busy(f, spc', cur', ToService')
  BY <1>1, <1>2, <1>3, BusyClient DEF FsKept
<1>4. CASE CopyOkay
  <2>1. cpc = "copydone" /\ copied' = copied \cup {Head(files)}
    BY <1>4 DEF CopyOkay, ClientIdle
  <2>2. ToClient # <<>> /\ ToClient[1].id = "OKAY" /\ ToService' = ToService
    BY <1>4, FvCopyOkay
  <2>3. 1 \in 1..Len(ToClient)
    BY <2>2, FsViews, FsTail
  <2>4. Answered
    BY <2>1, <2>2, <2>3 DEF FsHears, Running, NoOkay
  <2>5. remote'[Head(files)] = Complete(Head(files)) /\ ~Busy(Head(files), spc', cur', ToService')
    BY <1>1, <2>2, <2>4 DEF Answered, Busy
  <2>6. \A f \in copied' : remote'[f] = Complete(f) /\ ~Busy(f, spc', cur', ToService')
    BY <1>3, <2>1, <2>5
  <2> QED BY <1>1, <2>6 DEF FsKept
<1>5. CASE ~CopyOkay
  <2>1. copied' = copied
    BY <1>5, FsPushClient DEF Start, DstStat, StatFault, NextSource, LstatReply, SendFile, LocalReadFails, LargeChunk, LargePoll,
       CopyFails, SourceDone, Quit, Shutdown, ClientWriteFails, Transmit, Swallow, history
  <2> QED BY <1>1, <1>3, <2>1 DEF FsKept
<1> QED BY <1>4, <1>5

LEMMA KeptPull ==
  ASSUME FsInv, FsGone, FsPlaces, FsPullHears, FsLocal, FsLocal', FsOnce, FsKept, cmd = "pull", Client
  PROVE  FsKept'
<1>1. cmd' = "pull" /\ ~Pushes /\ ~Pushes'
  BY FsClientFrame DEF command, Pushes
<1>2. local \in [Files -> Seq(Files) \cup {Absent}] /\ copied \subseteq Files
  BY FsCopied DEF FsInv, FsClientTypes
<1>3. CASE Creat \/ RecvData \/ RecvFails
  <2>1. cpc \in {"creat", "recvdata"} /\ copied' = copied
    BY <1>3 DEF Creat, RecvData, RecvFails, ClientIdle, history
  <2>2. PICK h \in Files : h = Head(files) /\ In(h, files)
    BY <2>1, FsAtFile, InHead
  <2>3. h \notin copied
    BY <2>2 DEF FsOnce, Once
  <2>4. (\E v : local' = [local EXCEPT ![h] = v]) \/ local' = local
    BY <1>3, <2>2 DEF Creat, RecvData, RecvFails, LocalUnlinked
  <2>5. \A f \in copied : local'[f] = local[f]
    BY <1>2, <2>3, <2>4
  <2> QED BY <1>1, <2>1, <2>5 DEF FsKept
<1>4. CASE RecvDone
  <2>1. cpc = "recvdata" /\ cpc' \in {"recv", "next"} /\ UNCHANGED local /\ copied' = copied \cup {Head(files)}
    BY <1>4 DEF RecvDone, GiveUp, ClientIdle
  <2>2. PICK h \in Files : h = Head(files)
    BY <2>1, FsAtFile
  <2>4. local'[h] = Complete(h)
    BY <1>4, <2>1, <2>2, FsReceived
  <2> QED BY <1>1, <2>1, <2>2, <2>4 DEF FsKept
<1>5. CASE ~(Creat \/ RecvData \/ RecvFails \/ RecvDone)
  <2>1. UNCHANGED <<local, copied>>
    BY <1>1, <1>5, FsPullClient DEF StatFault, NextSource, SrcStat, Dent, ListDone, ListFails, StatLink, LinkStat, RecvFile,
       SourceDone, Quit, Shutdown, ClientWriteFails, Transmit, Swallow, client, history
  <2> QED BY <1>1, <2>1 DEF FsKept
<1> QED BY <1>3, <1>4, <1>5

LEMMA FsKeptStep ==
  ASSUME FsInv, FsInv', FsGone, FsPlaces, FsHears, FsPullHears, FsLocal, FsLocal', FsOnce, FsOnce', FsKept,
         [FileSyncNext]_fileSyncVars
  PROVE  FsKept'
<1>1. CASE Client
  <2>1. cmd' = cmd /\ cmd \in {"push", "sync", "pull", "ls"}
    BY <1>1, FsClientFrame DEF command, FsInv, FsCommand
  <2>2. CASE cmd = "ls"
    BY <2>1, <2>2 DEF FsKept, Pushes
  <2>3. CASE cmd = "pull"
    BY <1>1, <2>3, KeptPull
  <2>4. CASE Pushes
    BY <1>1, <2>4, KeptPush
  <2> QED BY <2>1, <2>2, <2>3, <2>4 DEF Pushes
<1>2. CASE Service
  BY <1>2, KeptService
<1>3. CASE Kill \/ Break
  <2>1. UNCHANGED <<cmd, local, remote, spc, cur, copied>>
    BY <1>3 DEF Kill, Break, command, client, service
  <2>2. Shorter(ToService', ToService)
    BY <1>3, FsKilled, FsBroken
  <2>3. Len(ToService) \in Nat
    BY FsViews
  <2>4. Len(ToService') \in Nat
    <3>1. (Len(ToService) \in Nat /\ Len(ToClient) \in Nat)'
      BY FsLens, PTL
    <3> QED BY <3>1
  <2>5. \A f : Busy(f, spc', cur', ToService') => Busy(f, spc, cur, ToService)
    BY <2>1, <2>2, <2>3, <2>4, BusyShorter
  <2> QED BY <2>1, <2>5 DEF FsKept, Pushes
<1>4. CASE DrainSpins \/ Finished \/ UNCHANGED fileSyncVars
  <2>1. UNCHANGED <<cmd, local, remote, spc, cur, copied, net, out, eof>>
    BY <1>4 DEF DrainSpins, Finished, fileSyncVars, command, client, service, history
  <2>2. ToService' = ToService
    BY <2>1, FsStill
  <2> QED BY <2>1, <2>2 DEF FsKept, Pushes
<1> QED BY <1>1, <1>2, <1>3, <1>4 DEF FileSyncNext

FsCounted == FsOnce /\ FsComing /\ FsKept

LEMMA FsCountedInv == NoneNamedTwice => (FileSyncSpec => [](FsInv /\ FsPush /\ FsCopy /\ FsExplained /\ FsPull /\ FsCounted))
<1> SUFFICES ASSUME NoneNamedTwice PROVE FileSyncSpec => [](FsInv /\ FsPush /\ FsCopy /\ FsExplained /\ FsPull /\ FsCounted)
  OBVIOUS
<1>1. FileSyncInit => FsCounted
  BY FsOnceInit, FsComingInit, FsKeptInit DEF FsCounted
<1>2. ASSUME FsInv, FsInv', FsPush, FsCopy, FsExplained, FsPull, FsPull', FsCounted, [FileSyncNext]_fileSyncVars PROVE FsCounted'
  <2>1. FsGone /\ FsPlaces /\ FsAsks /\ FsHalf /\ FsHears
    BY <1>2 DEF FsPush, FsCopy
  <2>2. FsPullTalk /\ FsPullHears /\ FsLocal /\ FsLocal'
    BY <1>2 DEF FsExplained, FsPull
  <2>3. FsOnce /\ FsComing /\ FsKept
    BY <1>2 DEF FsCounted
  <2>4. FsOnce'
    BY <1>2, <2>1, <2>2, <2>3, FsOnceStep
  <2>5. FsComing'
    BY <1>2, <2>1, <2>2, <2>3, FsComingStep
  <2>6. FsKept'
    BY <1>2, <2>1, <2>2, <2>3, <2>4, FsKeptStep
  <2> QED BY <2>4, <2>5, <2>6 DEF FsCounted
<1> QED BY <1>1, <1>2, FsPullInv, PTL DEF FileSyncSpec

\* All that FilesComplete says, for commands that name no file twice: besides
\* the three theorems above, a file counted by RecordFilesTransferred stays
\* complete.  The hypothesis is needed: "adb push a a" sends the file again, and
\* while it does the file counted at first is not complete.  A file is then in
\* one place only: still in a source, waiting for its lstat, in the list to
\* copy, or copied; so neither side touches a copied file again.
THEOREM CopiedFilesAreComplete == NoneNamedTwice => (FileSyncSpec => []FilesComplete)
<1> SUFFICES ASSUME NoneNamedTwice PROVE FileSyncSpec => []FilesComplete
  OBVIOUS
<1>1. FsInv /\ FsPush /\ FsCounted => CopiedIsComplete
  <2> SUFFICES ASSUME FsInv, FsPush, FsCounted, NEW f \in copied
               PROVE  IF cmd = "pull" THEN local[f] = Complete(f) ELSE Stored(f)
    BY DEF CopiedIsComplete
  <2>1. f \in Files /\ (~Pushes => remote[f] = Complete(f)) /\ FsRemains
    BY FsCopied DEF FsPush, FsSources
  <2>2. remote[f] = Complete(f) => Stored(f)
    BY <2>1, FsStored
  <2> QED BY <2>1, <2>2 DEF FsCounted, FsKept
<1>2. FileSyncSpec => []CopiedIsComplete
  BY <1>1, FsCountedInv, PTL
<1>3. CopiedIsComplete /\ SuccessIsComplete /\ NoPartialPush /\ NoPartialPull => FilesComplete
  BY DEF FilesComplete
<1> QED BY <1>2, <1>3, DeviceFilesAreWhole, SuccessMeansComplete, PulledFilesAreWhole, PTL
=============================================================================
