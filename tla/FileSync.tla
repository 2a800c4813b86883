------------------------------ MODULE FileSync ------------------------------
(***************************************************************************)
(* adb push, pull, sync and ls: the client (file_sync_client.cpp) and the  *)
(* service thread in adbd (file_sync_service.cpp), which talk over one     *)
(* "sync:" stream until the client quits, is killed, or the stream breaks. *)
(*                                                                         *)
(* Both ends read and write with blocking calls.  A message is one element *)
(* of a channel; "half" marks a last message whose payload was cut off.    *)
(* out[x] is what is left of the WriteFdExactly that x is in; x does       *)
(* nothing else before it is empty.  The file contents are sequences of    *)
(* chunks, each named after the file it belongs to.                        *)
(***************************************************************************)
EXTENDS Integers, Sequences, SequencesExt

CONSTANTS
  Files,      \* regular files and symbolic links, by name
  Chunks,     \* the number of DATA messages a file takes
  Kind,       \* "small" (st_size < SYNC_DATA_MAX), "large" or "link"
  Dirs,       \* directories
  DirFiles,   \* the files in a directory
  Sources,    \* the possible argument lists: sequences of files and directories
  Outdated,   \* files of which the device may have another version before a push
  Capacity    \* messages the stream holds in one direction

Dst == "dst"    \* the destination of a push

ASSUME FileSyncAssumption ==
  /\ Chunks \in [Files -> Nat] /\ Kind \in [Files -> {"small", "large", "link"}]
  /\ \A f \in Files : Kind[f] # "large" => Chunks[f] = 1
  /\ DirFiles \in [Dirs -> Seq(Files)]
  /\ Sources \subseteq Seq(Files \cup Dirs) /\ Outdated \subseteq Files
  /\ Dst \notin Files \cup Dirs /\ Files \cap Dirs = {} /\ "absent" \notin Files
  /\ Capacity \in Nat \ {0}

VARIABLES
  cmd,      \* "push", "sync", "pull" or "ls"
  check,    \* skip files that are up to date (adb push --sync, adb sync)
  wanted,   \* the files the command is about
  cpc,      \* where the client is
  srcs,     \* sources it has not begun
  files,    \* files of the current source it has to copy
  asked,    \* files whose lstat it waits for; links found that it has to stat
  left,     \* chunks of the large file it has not sent
  ok,       \* success
  local,    \* the client's copies, when pulling
  spc,      \* where the service is
  cur,      \* the file it receives
  rest,     \* chunks it has still to send, or directory entries to list
  remote,   \* the files on the device, as far as they are what is pushed or pulled
  net,      \* net[x]: messages on their way to x
  out,
  eof,      \* eof[x]: nothing will follow net[x]; the other end is closed
  cut,      \* the stream broke
  copied, failed, reported,  \* files counted as copied; those the device failed
                             \* to store; those whose error the user was told
  trouble,  \* a file operation failed whose result is looked at, or the client
            \* or the stream is gone
  old,      \* old[f]: another version of f on the device, or what is left of it
            \* behind the chunks written over it
  stuck,    \* files that an adb_unlink failed to remove, on either side
  unlisted  \* files that local_build_list left out

command == <<cmd, check, wanted>>
client == <<cpc, srcs, files, asked, left, ok, local>>
service == <<spc, cur, rest, remote>>
history == <<copied, failed, reported, trouble>>
remains == <<old, stuck, unlisted>>
fileSyncVars == <<command, client, service, net, out, eof, cut, history, remains>>

-----------------------------------------------------------------------------
(* State *)

Side == {"client", "service"}
Other(x) == IF x = "client" THEN "service" ELSE "client"
Absent == <<"absent">>
Complete(f) == [n \in 1..Chunks[f] |-> f]
FilesOf(p) == IF p \in Files THEN <<p>> ELSE DirFiles[p]
Path == Files \cup Dirs \cup {Dst}

Request == {"STAT", "LSTAT", "LIST", "SEND", "RECV", "QUIT"}
Message == [id : Request \cup {"DATA", "DONE", "ATTR", "DENT", "OKAY", "FAIL"}, f : Path,
            res : {"", "same", "other", "none", "error"}, half : BOOLEAN]
Msg(id, f) == [id |-> id, f |-> f, res |-> "", half |-> FALSE]

FileSyncTypeOK ==
  /\ cmd \in {"push", "sync", "pull", "ls"} /\ check \in BOOLEAN /\ wanted \subseteq Files
  /\ cpc \in {"start", "dst", "next", "lstats", "send", "large", "poll", "copydone", "srcstat",
              "ls", "links", "lnstat", "recv", "creat", "recvdata", "quit", "shutdown",
              "done", "dead", "killed"}
  /\ srcs \in Seq(Files \cup Dirs) /\ files \in Seq(Files) /\ asked \in Seq(Files)
  /\ left \in Nat /\ ok \in BOOLEAN
  /\ local \in [Files -> Seq(Files) \cup {Absent}]
  /\ remote \in [Files -> Seq(Files) \cup {Absent}]
  /\ spc \in {"idle", "file", "drain", "abort", "link", "linkdone", "read", "list",
              "closing", "closed"}
  /\ cur \in Path /\ rest \in Seq(Files)
  /\ net \in [Side -> Seq(Message)] /\ \A x \in Side : Len(net[x]) <= Capacity
  /\ out \in [Side -> Seq(Message)]
  /\ eof \in [Side -> BOOLEAN] /\ cut \in BOOLEAN
  /\ copied \subseteq Files /\ failed \subseteq Files /\ reported \subseteq Files
  /\ trouble \in BOOLEAN
  /\ old \in [Files -> Seq(Files)] /\ stuck \subseteq Files /\ unlisted \subseteq Files

\* Another version of f, one chunk longer.
Version(f) == Append(Complete(f), f)

FileSyncInit ==
  /\ cmd \in {"push", "sync", "pull", "ls"}
  /\ check \in {b \in BOOLEAN : (cmd = "sync" => b) /\ (cmd \in {"pull", "ls"} => ~b)}
  /\ srcs \in {s \in Sources : cmd \in {"sync", "ls"} => Len(s) = 1 /\ s[1] \in Dirs}
  /\ wanted = UNION {ToSet(FilesOf(srcs[n])) : n \in 1..Len(srcs)}
  /\ cpc = IF cmd = "push" THEN "start" ELSE "next"
  /\ files = <<>> /\ asked = <<>> /\ left = 0 /\ ok = TRUE
  /\ local = [f \in Files |-> Absent]
  /\ spc = "idle" /\ cur = Dst /\ rest = <<>>
  /\ \E same \in SUBSET Files :
       /\ ~check => same = IF cmd = "push" THEN {} ELSE Files
       /\ remote = [f \in Files |-> IF f \in same THEN Complete(f) ELSE Absent]
       /\ \E other \in SUBSET (Outdated \ same) :
            old = [f \in Files |-> IF f \in other THEN Version(f) ELSE <<>>]
  /\ stuck = {} /\ unlisted = {}
  /\ net = [x \in Side |-> <<>>] /\ out = [x \in Side |-> <<>>]
  /\ eof = [x \in Side |-> FALSE] /\ cut = FALSE
  /\ copied = {} /\ failed = {} /\ reported = {} /\ trouble = FALSE

-----------------------------------------------------------------------------
(* Blocking reads and writes (adb_io.cpp) *)

\* x has returned from its writes and ReadFdExactly gets a message.
Gets(x) == out[x] = <<>> /\ net[x] # <<>>
ReadFails(x) == out[x] = <<>> /\ net[x] = <<>> /\ eof[x]
Consume(x) == net' = [net EXCEPT ![x] = Tail(@)]

Send(x, msgs) == out' = [out EXCEPT ![x] = msgs]
NoSend == UNCHANGED out

\* What a broken channel still delivers: a prefix, its last message perhaps
\* without its payload.
HasPayload(m) == m.id \notin {"QUIT", "DONE", "ATTR", "OKAY"}
Cuts(s) ==
  LET halves == {p \in Prefixes(s) : p # <<>> /\ HasPayload(Last(p))} IN
  Prefixes(s) \cup {[p EXCEPT ![Len(p)].half = TRUE] : p \in halves}

\* WriteFdExactly gets one more message into the stream.
Transmit(x) ==
  /\ out[x] # <<>> /\ ~eof[x]
  /\ Len(net[Other(x)]) < Capacity
  /\ net' = [net EXCEPT ![Other(x)] = Append(@, Head(out[x]))]
  /\ out' = [out EXCEPT ![x] = Tail(@)]
  /\ UNCHANGED <<command, remains, client, service, eof, cut, history>>

\* A write to a stream whose other end is closed may still be accepted.  If
\* it meets a closed service, adbd closes the stream and what the service had
\* said may be lost.
Swallow(x) ==
  /\ out[x] # <<>> /\ eof[x]
  /\ out' = [out EXCEPT ![x] = Tail(@)]
  /\ IF x = "client" THEN \E q \in Prefixes(net[x]) : net' = [net EXCEPT ![x] = q]
                     ELSE UNCHANGED net
  /\ UNCHANGED <<command, remains, client, service, eof, cut, history>>

-----------------------------------------------------------------------------
(* The client *)

ClientIdle(pc) == cpc = pc /\ out["client"] = <<>>
Reply == Head(net["client"])

\* The process ends or closes its fd.
ClientEnds(pc) ==
  /\ cpc' = pc
  /\ eof' = [eof EXCEPT !["service"] = TRUE]
  /\ out' = [out EXCEPT !["client"] = <<>>]
  /\ net' = [net EXCEPT !["client"] = <<>>]
  /\ srcs' = <<>> /\ files' = <<>> /\ asked' = <<>> /\ left' = 0

\* The current source failed, the next one is tried on the same stream.
GiveUp ==
  /\ cpc' = "next" /\ ok' = FALSE
  /\ files' = <<>> /\ asked' = <<>> /\ left' = 0
  /\ UNCHANGED <<srcs, eof>>

\* do_sync_push: stat the destination first.
Start ==
  /\ ClientIdle("start")
  /\ Send("client", <<Msg("STAT", Dst)>>)
  /\ cpc' = "dst"
  /\ UNCHANGED <<command, remains, srcs, files, asked, left, ok, local, service, net, eof, cut, history>>

Found(m) == m.res \in {"same", "other"}

\* The destination exists or not, or it cannot be a destination.
DstStat ==
  /\ ClientIdle("dst") /\ Gets("client") /\ Reply.id = "ATTR"
  /\ Consume("client")
  /\ \E fits \in BOOLEAN :
       LET good == Reply.res # "error" /\ fits IN
       /\ cpc' = IF good THEN "next" ELSE "quit"
       /\ ok' = good
       /\ trouble' = (trouble \/ ~good)
  /\ UNCHANGED <<command, remains, srcs, files, asked, left, local, service, out, eof, cut, copied, failed, reported>>

\* FinishStat: no answer, or an answer to something else, is fatal.
StatFault ==
  /\ cpc \in {"dst", "lstats", "srcstat", "lnstat"}
  /\ \/ ReadFails("client")
     \/ Gets("client") /\ Reply.id # "ATTR"
  /\ ClientEnds("dead") /\ ok' = FALSE
  /\ UNCHANGED <<command, remains, local, service, cut, history>>

\* The increasing sequences of positions of s.
Picks(s) ==
  {e \in UNION {[1..k -> 1..Len(s)] : k \in 0..Len(s)} : \A i, j \in DOMAIN e : i < j => e[i] < e[j]}

\* local_build_list goes on after a file it cannot lstat and after a
\* subdirectory it cannot open, and returns true.
Listings(p) ==
  IF p \in Files THEN {<<p>>} ELSE {[n \in DOMAIN e |-> DirFiles[p][e[n]]] : e \in Picks(DirFiles[p])}

\* The next source.  When files are checked, all lstat requests of a directory
\* are written before the first answer is read (copy_local_dir_remote).
NextSource ==
  /\ ClientIdle("next") /\ srcs # <<>>
  /\ srcs' = Tail(srcs)
  /\ \/ /\ cmd \in {"push", "sync"}
        /\ \E list \in Listings(Head(srcs)) :
             /\ unlisted' = unlisted \cup (ToSet(FilesOf(Head(srcs))) \ ToSet(list))
             /\ IF check
                  THEN /\ asked' = list
                       /\ Send("client", [n \in 1..Len(list) |-> Msg("LSTAT", list[n])])
                       /\ cpc' = "lstats"
                       /\ UNCHANGED files
                  ELSE /\ files' = list
                       /\ NoSend
                       /\ cpc' = "send"
                       /\ UNCHANGED asked
        /\ UNCHANGED <<ok, trouble>>
     \/ /\ cmd \in {"push", "sync"}     \* it cannot be read
        /\ ok' = FALSE /\ trouble' = TRUE
        /\ NoSend
        /\ UNCHANGED <<cpc, files, asked, unlisted>>
     \/ /\ cmd = "pull"
        /\ files' = IF Head(srcs) \in Files THEN <<Head(srcs)>> ELSE <<>>
        /\ Send("client", <<Msg("STAT", Head(srcs))>>)
        /\ cpc' = "srcstat"
        /\ UNCHANGED <<asked, ok, trouble, unlisted>>
     \/ /\ cmd = "ls"
        /\ Send("client", <<Msg("LIST", Head(srcs))>>)
        /\ cpc' = "ls"
        /\ UNCHANGED <<files, asked, ok, trouble, unlisted>>
  /\ UNCHANGED <<command, old, stuck, left, local, service, net, eof, cut, copied, failed, reported>>

UpToDate(m) == m.res = "same"

\* A file that has the right size and time need not be sent (ci.skip).
LstatReply ==
  /\ ClientIdle("lstats")
  /\ IF asked = <<>>
       THEN cpc' = "send" /\ UNCHANGED <<files, asked, net>>
       ELSE /\ Gets("client") /\ Reply.id = "ATTR"
            /\ Consume("client")
            /\ files' = IF UpToDate(Reply) THEN files ELSE Append(files, Head(asked))
            /\ asked' = Tail(asked)
            /\ UNCHANGED cpc
  /\ UNCHANGED <<command, remains, srcs, left, ok, local, service, out, eof, cut, history>>

\* sync_send: a link or a small file goes out in one write, a large one begins
\* with the request alone.
SendFile ==
  /\ ClientIdle("send") /\ files # <<>>
  /\ LET f == Head(files) IN
       IF Kind[f] = "large"
         THEN Send("client", <<Msg("SEND", f)>>) /\ cpc' = "large" /\ left' = Chunks[f]
         ELSE Send("client", <<Msg("SEND", f), Msg("DATA", f), Msg("DONE", f)>>)
              /\ cpc' = "copydone" /\ UNCHANGED left
  /\ UNCHANGED <<command, remains, srcs, files, asked, ok, local, service, net, eof, cut, history>>

\* The local file cannot be opened or read: nothing more is sent for it.
LocalReadFails ==
  /\ ClientIdle("send") \/ ClientIdle("large")
  /\ files # <<>>
  /\ GiveUp /\ trouble' = TRUE
  /\ reported' = reported \cup {Head(files)}
  /\ UNCHANGED <<command, remains, local, service, net, out, cut, copied, failed>>

\* Mutant: one chunk too many.
ChunkLeft_OffByOne == left >= 0

\* adb_read returns 0 at the end of the local file.
ChunkLeft == left > 0

\* SendLargeFile: the next chunk; ...
LargeChunk ==
  /\ ClientIdle("large")
  /\ IF ChunkLeft
       THEN Send("client", <<Msg("DATA", Head(files))>>) /\ left' = left - 1 /\ cpc' = "poll"
       ELSE Send("client", <<Msg("DONE", Head(files))>>) /\ cpc' = "copydone" /\ UNCHANGED left
  /\ UNCHANGED <<command, remains, srcs, files, asked, ok, local, service, net, eof, cut, history>>

\* ... after each, ReceivedError stops the transfer if something came back.
LargePoll ==
  /\ ClientIdle("poll")
  /\ IF net["client"] # <<>> \/ eof["client"]
       THEN Send("client", <<Msg("DONE", Head(files))>>) /\ cpc' = "copydone" /\ left' = 0
       ELSE NoSend /\ cpc' = "large" /\ UNCHANGED left
  /\ UNCHANGED <<command, remains, srcs, files, asked, ok, local, service, net, eof, cut, history>>

\* CopyDone: OKAY, ...
CopyOkay ==
  /\ ClientIdle("copydone") /\ Gets("client") /\ Reply.id = "OKAY"
  /\ Consume("client")
  /\ copied' = copied \cup {Head(files)}
  /\ files' = Tail(files)
  /\ cpc' = "send"
  /\ UNCHANGED <<command, remains, srcs, asked, left, ok, local, service, out, eof, cut, failed, reported, trouble>>

\* ... FAIL with a reason (ReportCopyFailure), something else, or nothing.
CopyFails ==
  /\ ClientIdle("copydone")
  /\ \/ /\ Gets("client") /\ Reply.id # "OKAY"
        /\ Consume("client")
        /\ reported' = IF Reply.id = "FAIL" /\ ~Reply.half THEN reported \cup {Head(files)}
                                                           ELSE reported
     \/ ReadFails("client") /\ UNCHANGED <<net, reported>>
  /\ GiveUp
  /\ UNCHANGED <<command, remains, local, service, out, cut, copied, failed, trouble>>

\* do_sync_pull: the source exists; a directory is listed, a file is received.
SrcStat ==
  /\ ClientIdle("srcstat") /\ Gets("client") /\ Reply.id = "ATTR"
  /\ Consume("client")
  /\ \/ /\ Found(Reply) /\ files # <<>>
        /\ cpc' = "recv"
        /\ NoSend /\ UNCHANGED <<srcs, files, asked, left, ok, eof>>
     \/ /\ Found(Reply) /\ files = <<>>
        /\ cpc' = "ls"
        /\ Send("client", <<Msg("LIST", Reply.f)>>)
        /\ UNCHANGED <<srcs, files, asked, left, ok, eof>>
     \/ ~Found(Reply) /\ GiveUp /\ NoSend
  /\ UNCHANGED <<command, remains, local, service, cut, history>>

\* sync_ls: the entries up to DONE; remote_build_list sets links aside.
Dent ==
  /\ ClientIdle("ls") /\ Gets("client") /\ Reply.id = "DENT" /\ ~Reply.half
  /\ Consume("client")
  /\ IF Kind[Reply.f] = "link"
       THEN asked' = Append(asked, Reply.f) /\ UNCHANGED files
       ELSE files' = Append(files, Reply.f) /\ UNCHANGED asked
  /\ UNCHANGED <<command, remains, cpc, srcs, left, ok, local, service, out, eof, cut, history>>

ListDone ==
  /\ ClientIdle("ls") /\ Gets("client") /\ Reply.id = "DONE"
  /\ Consume("client")
  /\ cpc' = IF cmd = "pull" THEN "links" ELSE "quit"
  /\ files' = IF cmd = "pull" THEN files ELSE <<>>
  /\ asked' = IF cmd = "pull" THEN asked ELSE <<>>
  /\ UNCHANGED <<command, remains, srcs, left, ok, local, service, out, eof, cut, history>>

ListFails ==
  /\ ClientIdle("ls")
  /\ \/ Gets("client") /\ (Reply.half \/ Reply.id \notin {"DENT", "DONE"}) /\ Consume("client")
     \/ ReadFails("client") /\ UNCHANGED net
  /\ GiveUp
  /\ UNCHANGED <<command, remains, local, service, out, cut, history>>

\* remote_build_list: stat each link found; one that cannot be followed is
\* left out with a warning.
StatLink ==
  /\ ClientIdle("links")
  /\ IF asked = <<>> THEN cpc' = "recv" /\ NoSend
                     ELSE cpc' = "lnstat" /\ Send("client", <<Msg("STAT", Head(asked))>>)
  /\ UNCHANGED <<command, remains, srcs, files, asked, left, ok, local, service, net, eof, cut, history>>

LinkStat ==
  /\ ClientIdle("lnstat") /\ Gets("client") /\ Reply.id = "ATTR"
  /\ Consume("client")
  /\ files' = IF Found(Reply) THEN Append(files, Head(asked)) ELSE files
  /\ asked' = Tail(asked)
  /\ cpc' = "links"
  /\ UNCHANGED <<command, remains, srcs, left, ok, local, service, out, eof, cut, history>>

\* sync_recv: request the file, ...
RecvFile ==
  /\ ClientIdle("recv") /\ files # <<>>
  /\ Send("client", <<Msg("RECV", Head(files))>>)
  /\ cpc' = "creat"
  /\ UNCHANGED <<command, remains, srcs, files, asked, left, ok, local, service, net, eof, cut, history>>

\* ... create the local copy, ...
Creat ==
  /\ ClientIdle("creat")
  /\ \/ cpc' = "recvdata" /\ local' = [local EXCEPT ![Head(files)] = <<>>]
        /\ UNCHANGED <<srcs, files, asked, left, ok, eof, trouble>>
     \/ GiveUp /\ trouble' = TRUE /\ UNCHANGED local
  /\ UNCHANGED <<command, remains, service, net, out, cut, copied, failed, reported>>

RecvData ==
  /\ ClientIdle("recvdata") /\ Gets("client") /\ Reply.id = "DATA" /\ ~Reply.half
  /\ Consume("client")
  /\ local' = [local EXCEPT ![Head(files)] = Append(@, Reply.f)]
  /\ UNCHANGED <<command, remains, cpc, srcs, files, asked, left, ok, service, out, eof, cut, history>>

\* adb_unlink(lpath)
LocalUnlinked == [local EXCEPT ![Head(files)] = Absent]

\* The stream fails, the device sends FAIL, or the local disk is full.  Nobody
\* looks whether the copy could be removed.
RecvFails ==
  /\ ClientIdle("recvdata")
  /\ \/ /\ Gets("client") /\ Reply.id # "DONE" /\ Consume("client")
        /\ trouble' = (trouble \/ Reply.id = "DATA")
     \/ ReadFails("client") /\ UNCHANGED <<net, trouble>>
  /\ \/ local' = LocalUnlinked /\ UNCHANGED stuck
     \/ stuck' = stuck \cup {Head(files)} /\ UNCHANGED local
  /\ GiveUp
  /\ UNCHANGED <<command, old, unlisted, service, out, cut, copied, failed, reported>>

\* ... until DONE.  With -a the time and mode may still fail to be set.
RecvDone ==
  /\ ClientIdle("recvdata") /\ Gets("client") /\ Reply.id = "DONE"
  /\ Consume("client")
  /\ copied' = copied \cup {Head(files)}
  /\ \/ cpc' = "recv" /\ files' = Tail(files)
        /\ UNCHANGED <<srcs, asked, left, ok, eof, trouble>>
     \/ GiveUp /\ trouble' = TRUE
  /\ UNCHANGED <<command, remains, local, service, out, cut, failed, reported>>

SourceDone ==
  /\ ClientIdle("send") \/ ClientIdle("recv")
  /\ files = <<>>
  /\ cpc' = "next"
  /\ UNCHANGED <<command, remains, srcs, files, asked, left, ok, local, service, net, out, eof, cut, history>>

\* ~SyncConnection: SendQuit, ...
Quit ==
  /\ ClientIdle("quit") \/ (ClientIdle("next") /\ srcs = <<>>)
  /\ Send("client", <<Msg("QUIT", Dst)>>)
  /\ cpc' = "shutdown"
  /\ UNCHANGED <<command, remains, srcs, files, asked, left, ok, local, service, net, eof, cut, history>>

\* ... one read that waits for the end (ReadOrderlyShutdown), close.
Shutdown ==
  /\ ClientIdle("shutdown")
  /\ net["client"] # <<>> \/ eof["client"]
  /\ ClientEnds("done")
  /\ UNCHANGED <<command, remains, ok, local, service, cut, history>>

\* WriteFdExactly fails.  In the middle of a file WriteOrDie looks for a
\* reason and exits; a request that cannot be sent fails its operation.
ClientWriteFails ==
  /\ out["client"] # <<>> /\ eof["client"]
  /\ \/ /\ cpc \in {"poll", "copydone"}
        /\ ClientEnds("dead") /\ ok' = FALSE
        /\ reported' = IF net["client"] # <<>> /\ Reply.id = "FAIL" /\ ~Reply.half
                         THEN reported \cup {Head(files)} ELSE reported
     \/ /\ cpc = "shutdown"
        /\ ClientEnds("done")
        /\ UNCHANGED <<ok, reported>>
     \/ /\ cpc = "dst"
        /\ cpc' = "quit" /\ ok' = FALSE
        /\ Send("client", <<>>)
        /\ UNCHANGED <<srcs, files, asked, left, net, eof, reported>>
     \/ /\ cpc = "lnstat"
        /\ cpc' = "links" /\ asked' = Tail(asked)
        /\ Send("client", <<>>)
        /\ UNCHANGED <<srcs, files, left, ok, net, eof, reported>>
     \/ /\ cpc \in {"lstats", "large", "srcstat", "ls", "creat"}
        /\ GiveUp
        /\ Send("client", <<>>)
        /\ UNCHANGED <<net, reported>>
  /\ UNCHANGED <<command, remains, local, service, cut, copied, failed, trouble>>

Client ==
  \/ Start \/ DstStat \/ StatFault \/ NextSource \/ LstatReply
  \/ SendFile \/ LocalReadFails \/ LargeChunk \/ LargePoll \/ CopyOkay \/ CopyFails
  \/ SrcStat \/ Dent \/ ListDone \/ ListFails \/ StatLink \/ LinkStat
  \/ RecvFile \/ Creat \/ RecvData \/ RecvFails \/ RecvDone
  \/ SourceDone \/ Quit \/ Shutdown \/ ClientWriteFails
  \/ Transmit("client") \/ Swallow("client")

-----------------------------------------------------------------------------
(* The service *)

ServiceIdle(pc) == spc = pc /\ out["service"] = <<>>
Req == Head(net["service"])
Receives(pc, ids) == spc = pc /\ Gets("service") /\ Req.id \in ids /\ ~Req.half
Say(id, f) == Send("service", <<Msg(id, f)>>)

\* handle_sync_command: do_lstat_v1, do_stat_v2.  The answer for a file tells
\* whether it is the one the client has.
StatResult(p) ==
  {"error"} \cup
  (IF p \in Files THEN {CASE remote[p] = Complete(p) /\ old[p] = <<>> -> "same"
                          [] remote[p] = Absent /\ old[p] = <<>> -> "none"
                          [] OTHER -> "other"}
   ELSE IF p \in Dirs THEN {"other"}
   ELSE {"other", "none"})

ServeStat ==
  /\ Receives("idle", {"STAT", "LSTAT"})
  /\ Consume("service")
  /\ \E r \in StatResult(Req.f) :
       /\ Send("service", <<[Msg("ATTR", Req.f) EXCEPT !.res = r]>>)
       /\ trouble' = (trouble \/ r = "error")
  /\ UNCHANGED <<command, remains, client, service, eof, cut, copied, failed, reported>>

\* do_list: a directory that cannot be opened looks empty.
ServeList ==
  /\ Receives("idle", {"LIST"})
  /\ Consume("service")
  /\ \/ /\ rest' = FilesOf(Req.f) /\ spc' = "list"
        /\ NoSend /\ UNCHANGED trouble
     \/ /\ Say("DONE", Req.f) /\ trouble' = TRUE
        /\ UNCHANGED <<rest, spc>>
  /\ UNCHANGED <<command, remains, client, cur, remote, eof, cut, copied, failed, reported>>

\* An entry that has gone meanwhile is left out.
ListEntry ==
  /\ ServiceIdle("list")
  /\ \/ /\ rest # <<>> /\ rest' = Tail(rest)
        /\ Say("DENT", Head(rest))
        /\ UNCHANGED <<spc, trouble>>
     \/ /\ rest # <<>> /\ rest' = Tail(rest)
        /\ trouble' = TRUE
        /\ NoSend /\ UNCHANGED spc
     \/ /\ rest = <<>>
        /\ Say("DONE", Dst) /\ spc' = "idle"
        /\ UNCHANGED <<rest, trouble>>
  /\ UNCHANGED <<command, remains, client, cur, remote, net, eof, cut, copied, failed, reported>>

\* Mutant: the stream is closed at once.
AfterFailure_Close == "abort"

\* goto fail
AfterFailure == "drain"

\* A problem of the device in a push: tell the client, keep reading.
DeviceFails(f) ==
  /\ Say("FAIL", f)
  /\ spc' = AfterFailure
  /\ failed' = failed \cup {f} /\ trouble' = TRUE

\* What is on the device under the name f.
Content(f) == (IF remote[f] = Absent THEN <<>> ELSE remote[f]) \o old[f]

\* do_send removes what is there, and does not look whether it could.
UnlinkFirst(f) ==
  \/ old' = [old EXCEPT ![f] = <<>>] /\ UNCHANGED stuck
  \/ Content(f) # <<>> /\ old' = [old EXCEPT ![f] = Content(f)] /\ stuck' = stuck \cup {f}

\* handle_send_file creates the file, or opens the one that is still there
\* without O_TRUNC; it may fail at that before or after the file exists.
ServeSend ==
  /\ Receives("idle", {"SEND"})
  /\ Consume("service")
  /\ cur' = Req.f
  /\ UnlinkFirst(Req.f)
  /\ \E created \in {Absent, <<>>} :
       /\ remote' = [remote EXCEPT ![Req.f] = created]
       /\ \/ /\ Kind[Req.f] = "link" /\ created = Absent
             /\ spc' = "link"
             /\ NoSend /\ UNCHANGED <<failed, trouble>>
          \/ /\ Kind[Req.f] # "link" /\ created = <<>>
             /\ spc' = "file"
             /\ NoSend /\ UNCHANGED <<failed, trouble>>
          \/ Kind[Req.f] # "link" /\ DeviceFails(Req.f)
  /\ UNCHANGED <<command, unlisted, client, rest, eof, cut, copied, reported>>

\* The loop of handle_send_file: a chunk, ...
FileData ==
  /\ Receives("file", {"DATA"})
  /\ Consume("service")
  /\ \/ /\ remote' = [remote EXCEPT ![cur] = Append(@, Req.f)]
        /\ old' = [old EXCEPT ![cur] = IF @ = <<>> THEN @ ELSE Tail(@)]
        /\ NoSend /\ UNCHANGED <<spc, failed, trouble>>
     \/ DeviceFails(cur) /\ UNCHANGED <<remote, old>>
  /\ UNCHANGED <<command, stuck, unlisted, client, cur, rest, eof, cut, copied, reported>>

\* handle_sync_command returns true, the next request is read.
AfterOkay == "idle"

\* ... or the end, where update_capabilities may fail.
FileDone ==
  /\ Receives("file", {"DONE"})
  /\ Consume("service")
  /\ \/ Say("OKAY", cur) /\ spc' = AfterOkay /\ UNCHANGED <<failed, trouble>>
     \/ DeviceFails(cur)
  /\ UNCHANGED <<command, remains, client, cur, rest, remote, eof, cut, copied, reported>>

\* Any other request is an invalid data message.  A read that fails at the
\* header goes to the loop that waits for the client, at the payload it does
\* not.
FileInvalid ==
  /\ spc = "file"
  /\ \/ Receives("file", Request) /\ Consume("service") /\ Say("FAIL", cur) /\ spc' = "abort"
     \/ Gets("service") /\ Req.half /\ Req.id \in Request /\ Consume("service")
          /\ Say("FAIL", cur) /\ spc' = "abort"
     \/ Gets("service") /\ Req.half /\ Req.id = "DATA" /\ Consume("service")
          /\ NoSend /\ spc' = "abort"
     \/ ReadFails("service") /\ spc' = "drain" /\ UNCHANGED <<net, out>>
  /\ UNCHANGED <<command, remains, client, cur, rest, remote, eof, cut, history>>

Throws(m) == m.id = "DATA" /\ ~m.half

\* "fail:" read and throw away until the client has noticed.
Drain ==
  /\ ServiceIdle("drain") /\ Gets("service")
  /\ Consume("service")
  /\ spc' = IF Throws(Req) THEN "drain" ELSE "abort"
  /\ UNCHANGED <<command, remains, client, cur, rest, remote, out, eof, cut, history>>

\* "if (!ReadFdExactly(...)) goto fail": a failed read is tried again.
DrainSpins ==
  /\ spc = "drain" /\ ReadFails("service")
  /\ UNCHANGED fileSyncVars

\* The fd is closed.  If the client's messages have not all been read, what
\* was sent to it may be lost.
CloseStream ==
  /\ spc' = "closed" /\ cur' = Dst /\ rest' = <<>>
  /\ eof' = [eof EXCEPT !["client"] = TRUE]
  /\ IF net["service"] = <<>> THEN UNCHANGED net
     ELSE \E q \in Prefixes(net["client"]) : net' = [client |-> q, service |-> <<>>]

\* Mutant: what has been written of the file stays.
Unlinked_Not == remote

\* if (do_unlink) adb_unlink(path)
Unlinked == [remote EXCEPT ![cur] = Absent]

\* "abort:" unlink the file, which may fail; file_sync_service closes the stream.
Abort ==
  /\ ServiceIdle("abort")
  /\ \/ remote' = Unlinked /\ old' = [old EXCEPT ![cur] = <<>>] /\ UNCHANGED stuck
     \/ /\ remote[cur] # Absent \/ old[cur] # <<>>
        /\ stuck' = stuck \cup {cur} /\ UNCHANGED <<remote, old>>
  /\ CloseStream
  /\ UNCHANGED <<command, unlisted, client, out, cut, history>>

Close ==
  /\ ServiceIdle("closing")
  /\ CloseStream
  /\ UNCHANGED <<command, remains, client, remote, out, cut, history>>

\* handle_send_link: the target, then DONE.  symlink fails if anything is left
\* under the name.
LinkData ==
  /\ Receives("link", {"DATA"})
  /\ Consume("service")
  /\ \/ /\ old[cur] = <<>>
        /\ remote' = [remote EXCEPT ![cur] = Complete(cur)]
        /\ spc' = "linkdone" /\ NoSend /\ UNCHANGED <<failed, trouble>>
     \/ /\ Say("FAIL", cur) /\ spc' = "closing"
        /\ failed' = failed \cup {cur} /\ trouble' = TRUE
        /\ UNCHANGED remote
  /\ UNCHANGED <<command, remains, client, cur, rest, eof, cut, copied, reported>>

LinkDone ==
  /\ Receives("linkdone", {"DONE"})
  /\ Consume("service")
  /\ Say("OKAY", cur) /\ spc' = "idle"
  /\ UNCHANGED <<command, remains, client, cur, rest, remote, eof, cut, history>>

\* Neither failure waits for the client as the one of a regular file does.
LinkFails ==
  /\ spc \in {"link", "linkdone"}
  /\ \/ ReadFails("service") /\ UNCHANGED <<net, out>>
     \/ /\ Gets("service") /\ (Req.half \/ Req.id # IF spc = "link" THEN "DATA" ELSE "DONE")
        /\ Consume("service")
        /\ IF Req.half /\ Req.id = "DATA" THEN NoSend ELSE Say("FAIL", cur)
  /\ spc' = "closing"
  /\ UNCHANGED <<command, remains, client, cur, rest, remote, eof, cut, history>>

\* do_recv: open the file, ...
ServeRecv ==
  /\ Receives("idle", {"RECV"})
  /\ Consume("service")
  /\ \/ /\ remote[Req.f] # Absent
        /\ spc' = "read" /\ cur' = Req.f /\ rest' = remote[Req.f]
        /\ NoSend /\ UNCHANGED trouble
     \/ /\ Say("FAIL", Req.f) /\ spc' = "closing" /\ trouble' = TRUE
        /\ UNCHANGED <<cur, rest>>
  /\ UNCHANGED <<command, remains, client, remote, eof, cut, copied, failed, reported>>

ReadError == Msg("FAIL", cur)

\* ... send it in chunks, DONE at the end; reading it may fail.
SendChunk ==
  /\ ServiceIdle("read")
  /\ \/ /\ rest # <<>> /\ Say("DATA", Head(rest)) /\ rest' = Tail(rest)
        /\ UNCHANGED <<spc, trouble>>
     \/ rest = <<>> /\ Say("DONE", cur) /\ spc' = "idle" /\ UNCHANGED <<rest, trouble>>
     \/ /\ Send("service", <<ReadError>>) /\ spc' = "closing" /\ rest' = <<>>
        /\ trouble' = TRUE
  /\ UNCHANGED <<command, remains, client, cur, remote, net, eof, cut, copied, failed, reported>>

\* Mutant: QUIT is ignored.
AfterQuit_Idle == "idle"

\* handle_sync_command returns false, file_sync_service closes the fd.
AfterQuit == "closing"

ServeQuit ==
  /\ Receives("idle", {"QUIT"})
  /\ Consume("service")
  /\ spc' = AfterQuit
  /\ UNCHANGED <<command, remains, client, cur, rest, remote, out, eof, cut, history>>

\* A request that cannot be read, at its header or its path, or is none.
BadRequest ==
  /\ spc = "idle"
  /\ \/ ReadFails("service") /\ UNCHANGED net
     \/ Gets("service") /\ (Req.half \/ Req.id \notin Request) /\ Consume("service")
  /\ Say("FAIL", Dst) /\ spc' = "closing"
  /\ UNCHANGED <<command, remains, client, cur, rest, remote, eof, cut, history>>

\* An answer that cannot be written ends the service; SendSyncFail's result
\* is not looked at.
ServiceWriteFails ==
  /\ out["service"] # <<>> /\ eof["service"]
  /\ Send("service", <<>>)
  /\ spc' = IF spc \in {"drain", "abort"} THEN spc ELSE "closing"
  /\ rest' = <<>>
  /\ UNCHANGED <<command, remains, client, cur, remote, net, eof, cut, history>>

Service ==
  \/ ServeStat \/ ServeList \/ ListEntry \/ ServeSend \/ FileData \/ FileDone \/ FileInvalid
  \/ Drain \/ Abort \/ Close \/ LinkData \/ LinkDone \/ LinkFails
  \/ ServeRecv \/ SendChunk \/ ServeQuit \/ BadRequest \/ ServiceWriteFails
  \/ Transmit("service") \/ Swallow("service")

-----------------------------------------------------------------------------
(* The rest of the world *)

Running == cpc \notin {"done", "dead", "killed"}

\* The client is killed, perhaps in the middle of a message.
Kill ==
  /\ Running
  /\ \/ /\ out["client"] # <<>> /\ HasPayload(Head(out["client"])) /\ ~eof["client"]
        /\ Len(net["service"]) < Capacity
        /\ net' = [client |-> <<>>,
                   service |-> Append(net["service"], [Head(out["client"]) EXCEPT !.half = TRUE])]
     \/ net' = [net EXCEPT !["client"] = <<>>]
  /\ cpc' = "killed"
  /\ eof' = [eof EXCEPT !["service"] = TRUE]
  /\ out' = [out EXCEPT !["client"] = <<>>]
  /\ srcs' = <<>> /\ files' = <<>> /\ asked' = <<>> /\ left' = 0
  /\ ok' = FALSE /\ trouble' = TRUE
  /\ UNCHANGED <<command, remains, local, service, cut, copied, failed, reported>>

\* The stream breaks (the device goes away, the server is killed).
Break ==
  /\ Running /\ spc # "closed" /\ ~cut
  /\ \E c \in Cuts(net["client"]), s \in Cuts(net["service"]) :
       net' = [client |-> c, service |-> s]
  /\ eof' = [x \in Side |-> TRUE]
  /\ cut' = TRUE /\ trouble' = TRUE
  /\ UNCHANGED <<command, remains, client, service, out, copied, failed, reported>>

Finished ==
  /\ ~Running /\ spc = "closed"
  /\ UNCHANGED fileSyncVars

FileSyncNext == Client \/ Service \/ Kill \/ Break \/ DrainSpins \/ Finished

FileSyncSpec == FileSyncInit /\ [][FileSyncNext]_fileSyncVars

\* Neither process stops between two steps.
FileSyncFairness == WF_fileSyncVars(Client) /\ WF_fileSyncVars(Service)

FileSyncFairSpec == FileSyncSpec /\ FileSyncFairness

-----------------------------------------------------------------------------
(* Properties *)

\* Every chunk of f is in its place, and nothing is behind them unless the
\* version that was there could not be unlinked: do_send ignores that, and
\* handle_send_file then opens it without O_TRUNC and answers OKAY.
Stored(f) == remote[f] = Complete(f) /\ (f \in stuck \/ old[f] = <<>>)

\* A file the client counts as copied (RecordFilesTransferred) is complete at
\* its destination, even if SendLargeFile was stopped early by ReceivedError
\* or answers to earlier requests are still under way.
CopiedIsComplete ==
  \A f \in copied : IF cmd = "pull" THEN local[f] = Complete(f) ELSE Stored(f)

\* A push or sync that ends with success has every file that it listed of its
\* sources on the device, copied now or found up to date.  What
\* local_build_list leaves out does not count against its success.
SuccessIsComplete ==
  (cmd \in {"push", "sync"} /\ cpc = "done" /\ ok) =>
    \A f \in wanted \ unlisted : Stored(f)

\* When the service waits for a request, or has closed the stream, no file on
\* the device is half-written: every way out of handle_send_file completes or
\* unlinks it, unless the unlink itself failed.
NoPartialPush ==
  spc \in {"idle", "closed"} => \A f \in Files \ stuck : remote[f] \in {Absent, Complete(f)}

\* A pull that was not interrupted leaves no half-written local copies but
\* those that sync_recv failed to unlink.
NoPartialPull ==
  cpc \in {"done", "dead"} => \A f \in Files \ stuck : local[f] \in {Absent, Complete(f)}

\* If the device fails to store a regular file, the client gets to see why (or
\* has failed to read the file itself), although it may be writing all the
\* time: the FAIL is not thrown away with the stream.  A link's reason may be:
\* handle_send_link returns without reading the DONE that follows.
ReasonReported ==
  (cpc \in {"done", "dead"} /\ ~cut) => {f \in failed : Kind[f] # "link"} \subseteq reported

\* Nothing but a failure makes a command fail.
FailureHasCause == ok \/ trouble

\* copy_local_dir_remote writes all its lstat requests before it reads an
\* answer; with enough of them the service waits for room for an answer and
\* the client for room for a request.
LstatsBlocked ==
  cpc = "lstats" /\ \A x \in Side : out[x] # <<>> /\ ~eof[x] /\ Len(net[x]) = Capacity

\* The client ends: that is the only place where client and service wait for
\* each other.
ClientEndsAtLast == <>(~Running \/ LstatsBlocked)

\* After an orderly end of the client the service ends.
ServiceFollows == (cpc = "done" /\ ~cut) ~> (spc = "closed")

\* No part of a file is taken for the file, on either side.
FilesComplete == CopiedIsComplete /\ SuccessIsComplete /\ NoPartialPush /\ NoPartialPull

\* A failure has a cause, and the client knows it.
FailuresExplained == ReasonReported /\ FailureHasCause

\* Neither side is left behind.
TransferEnds == ClientEndsAtLast /\ ServiceFollows

\* A transfer that fails because the client is gone leaves no part of the file
\* on the device, if it can be unlinked.
DeletedOnFailure ==
  (cpc = "killed") ~> \A f \in Files \ stuck : remote[f] \in {Absent, Complete(f)}
=============================================================================
