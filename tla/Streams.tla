------------------------------- MODULE Streams -------------------------------
(***************************************************************************)
(* The stream multiplexer of adb: sockets.cpp and the OPEN / OKAY / WRTE / *)
(* CLSE / CNXN arms of handle_packet (adb.cpp).  The adb server ("host")   *)
(* and adbd ("device") run the same code; each keeps a list of local       *)
(* sockets, every one with a file descriptor to a client or a service on   *)
(* one side and, once connected, a remote-socket peer that stands for the  *)
(* stream's other end.  Between them lies a transport, a FIFO channel in   *)
(* each direction.  Everything here runs on the main (fdevent) thread, so  *)
(* one call of a handler is one step.                                      *)
(*                                                                         *)
(* A remote asocket exists exactly while some local socket's peer points   *)
(* to it, so it is represented by the peer field of that local socket (the *)
(* remote id, 0 for NULL).  Payload bytes are counted in units; a unit     *)
(* carries the stream that sent it and its place in that stream.           *)
(***************************************************************************)
EXTENDS Integers, Sequences, FiniteSets

CONSTANTS
  MaxId,        \* bound on the streams ever opened, hence on the socket ids
  MaxUnits,     \* bound on the units a socket of each side sends
  MaxPayload,   \* get_max_payload(), in units
  Openers,      \* the sides whose listeners accept clients
  HangUps,      \* how programs on each side may hang up: "shut", "closed"
  MaxRestarts,  \* bound on restarts of the adb server
  MaxBreaks     \* bound on failures of the wire

Side == {"host", "device"}
Other(x) == IF x = "host" THEN "device" ELSE "host"
Ids == 1..MaxId

ASSUME StreamsAssumption ==
  /\ MaxId \in Nat \ {0}
  /\ MaxUnits \in [Side -> Nat]
  /\ MaxPayload \in Nat \ {0}
  /\ Openers \subseteq Side
  /\ HangUps \in [Side -> SUBSET {"shut", "closed"}]
  /\ MaxRestarts \in Nat
  /\ MaxBreaks \in Nat

VARIABLES
  next_id,  \* local_socket_next_id of each side
  sock,     \* the local sockets of each side, by id
  app,      \* the other end of each socket's fd: a client or a service
  online,   \* t->online of each side
  net,      \* packets travelling to each side, in order
  link,     \* "up", or "broken" from a failure of the wire to the reconnection
  gen,      \* how often the adb server was restarted
  breaks,   \* how often the wire failed
  opens     \* how many streams were ever opened

vars == <<next_id, sock, app, online, net, link, gen, breaks, opens>>

-----------------------------------------------------------------------------
(* State *)

\* A unit of payload: the server generation and id of the socket that sent
\* it, and its number among the units that socket sent.
Unit == [gen : Nat, id : Ids, n : Nat]

\* list: the list the asocket is on, "none" when it does not exist (not yet
\* created, or freed).  fde: the events asked of fdevent.  pkts: the units
\* waiting between pkt_first and pkt_last.
Socket == [list : {"none", "open", "closing"},
           peer : Ids \cup {0},
           fde  : SUBSET {"READ", "WRITE"},
           pkts : Seq(Unit)]

NoSocket == [list |-> "none", peer |-> 0, fde |-> {}, pkts |-> <<>>]

\* end: "open", "shut" (the program has shut down its sending direction) or
\* "closed".  sent: units adb put into WRTE packets.  got: units adb wrote to
\* the fd.  gen and mate are history: the server generation the stream was
\* opened in, and the peer id it was ever connected to.
App == [end : {"open", "shut", "closed"}, sent : Nat, got : Seq(Unit),
        gen : Nat, mate : Ids \cup {0}]

NewApp(g, m) == [end |-> "open", sent |-> 0, got |-> <<>>, gen |-> g, mate |-> m]

\* OPEN's gen is history (which server sent it); the code's OPEN has none.
Packet ==
       [cmd : {"OPEN"}, arg0 : Ids, gen : Nat]
  \cup [cmd : {"OKAY"}, arg0 : Ids, arg1 : Ids]
  \cup [cmd : {"CLSE"}, arg0 : Ids \cup {0}, arg1 : Ids]
  \cup [cmd : {"WRTE"}, arg0 : Ids, arg1 : Ids, data : Seq(Unit)]
  \cup [cmd : {"CNXN", "SYNC"}]

Open(i)       == [cmd |-> "OPEN", arg0 |-> i, gen |-> gen]
Okay(i, p)    == [cmd |-> "OKAY", arg0 |-> i, arg1 |-> p]
Clse(i, p)    == [cmd |-> "CLSE", arg0 |-> i, arg1 |-> p]
Wrte(i, p, d) == [cmd |-> "WRTE", arg0 |-> i, arg1 |-> p, data |-> d]
Cnxn          == [cmd |-> "CNXN"]
Offline       == [cmd |-> "SYNC"]   \* SYNC(0,0) from the read thread

TypeOK ==
  /\ next_id \in [Side -> Nat \ {0}]
  /\ sock \in [Side -> [Ids -> Socket]]
  /\ app \in [Side -> [Ids -> App]]
  /\ online \in [Side -> BOOLEAN]
  /\ net \in [Side -> Seq(Packet)]
  /\ link \in {"up", "broken"}
  /\ gen \in Nat
  /\ breaks \in Nat
  /\ opens \in 0..MaxId
  /\ \A x \in Side : next_id[x] <= opens + 1

Init ==
  /\ next_id = [x \in Side |-> 1]
  /\ sock = [x \in Side |-> [i \in Ids |-> NoSocket]]
  /\ app = [x \in Side |-> [i \in Ids |-> NewApp(0, 0)]]
  /\ online = [x \in Side |-> FALSE]
  /\ net = [x \in Side |-> IF x = "device" THEN <<Cnxn>> ELSE <<>>]
  /\ link = "up"
  /\ gen = 0
  /\ breaks = 0
  /\ opens = 0

-----------------------------------------------------------------------------
(* Sending and finding *)

\* send_packet: what side x sends reaches the other side's queue, and is lost
\* while the wire is broken.
Send(q, x, out) ==
  IF link = "up" THEN [q EXCEPT ![Other(x)] = @ \o out] ELSE q

\* Mutant: units are written past the ones that wait.
Backlogged_Never(s) == FALSE

\* local_socket_enqueue queues behind what is queued already.
Backlogged(s) == s.pkts # <<>>

\* find_local_socket: the open socket local_id; its peer is checked only
\* when peer_id is not 0.  Sockets on the closing list are not found.
Found(x, local_id, peer_id) ==
  /\ sock[x][local_id].list = "open"
  /\ peer_id = 0 \/ sock[x][local_id].peer = peer_id

\* Mutant: a CLSE even for a socket that was never connected.
CloseOut_NoPeer(i, s) == <<Clse(i, s.peer)>>

\* local_socket_close: tell the peer, ...
CloseOut(i, s) == IF s.peer # 0 THEN <<Clse(i, s.peer)>> ELSE <<>>

\* Mutant: the backlog is dropped.
CloseSocket_Drop(s, has_write_error) == NoSocket

\* ... then free the socket, or keep it on the closing list until the units
\* queued for its fd are written.
CloseSocket(s, has_write_error) ==
  IF s.list = "closing" \/ has_write_error \/ s.pkts = <<>>
    THEN NoSocket
    ELSE [s EXCEPT !.list = "closing", !.peer = 0, !.fde = @ \ {"READ"}]

\* The n-th smallest of a set of ids.
Nth(S, n) == CHOOSE i \in S : Cardinality({j \in S : j <= i}) = n

\* Mutant: sockets still waiting for their first OKAY are passed over.
CloseAll_Connected(x) ==
  [i \in Ids |-> IF sock[x][i].list = "open" /\ sock[x][i].peer # 0
                   THEN CloseSocket(sock[x][i], FALSE)
                   ELSE sock[x][i]]

\* close_all_sockets: closes what is on local_socket_list, oldest first; the
\* closing list is not visited.
CloseAll(x) ==
  [i \in Ids |-> IF sock[x][i].list = "open" THEN CloseSocket(sock[x][i], FALSE)
                                             ELSE sock[x][i]]
CloseAllOut(x) ==
  LET told == {i \in Ids : sock[x][i].list = "open" /\ sock[x][i].peer # 0}
  IN  [n \in 1..Cardinality(told) |-> Clse(Nth(told, n), sock[x][Nth(told, n)].peer)]

-----------------------------------------------------------------------------
(* local_socket_event_func *)

\* Mutant: FDE_READ stays on after a WRTE.
AfterRead_KeepRead(s, n) == s

\* The part for FDE_READ, on a socket s that has n units (or n units and
\* then end of file) to read: without a peer what was read is dropped; with
\* one it becomes a WRTE and FDE_READ is turned off until the next OKAY; at
\* end of file the socket is closed.
AfterRead(s, n) == IF n = 0 \/ s.peer = 0 THEN s ELSE [s EXCEPT !.fde = @ \ {"READ"}]

ReadSocket(s, n, is_eof) ==
  IF is_eof THEN CloseSocket(AfterRead(s, n), FALSE) ELSE AfterRead(s, n)

ReadOut(x, i, s, n, is_eof) ==
  LET a == app[x][i]
      d == [k \in 1..n |-> [gen |-> a.gen, id |-> i, n |-> a.sent + k]]
  IN  (IF n = 0 \/ s.peer = 0 THEN <<>> ELSE <<Wrte(i, s.peer, d)>>)
        \o (IF is_eof THEN CloseOut(i, s) ELSE <<>>)

\* What a read of the fd can meet.  The loop reads until the payload is full,
\* the fd is empty (EAGAIN) or at its end.  fdevent always polls for
\* POLLRDHUP and fakes a read on a hang-up, so a fd whose program has shut
\* down or closed is read whether or not FDE_READ is asked for.
CanRead(x, i, s, n, is_eof) ==
  /\ n <= MaxPayload
  /\ app[x][i].sent + n <= MaxUnits[x]
  /\ IF app[x][i].end = "open"
       THEN "READ" \in s.fde /\ n > 0 /\ ~is_eof
       ELSE is_eof <=> n < MaxPayload

\* How many units adb sent after that read.
NowSent(x, i, s, n) == app[x][i].sent + (IF s.peer = 0 THEN 0 ELSE n)

\* Readable, and no FDE_WRITE event in the same call.
EventRead(x, i) ==
  LET s == sock[x][i] IN
  /\ s.list # "none"
  /\ \E n \in 0..MaxPayload, is_eof \in BOOLEAN :
       /\ CanRead(x, i, s, n, is_eof)
       /\ sock' = [sock EXCEPT ![x][i] = ReadSocket(s, n, is_eof)]
       /\ net' = Send(net, x, ReadOut(x, i, s, n, is_eof))
       /\ app' = [app EXCEPT ![x][i].sent = NowSent(x, i, s, n)]
  /\ UNCHANGED <<next_id, online, link, gen, breaks, opens>>

\* Writable, but the fd takes only part of the queue: EAGAIN, return.
EventWriteSome(x, i) ==
  LET s == sock[x][i] IN
  /\ "WRITE" \in s.fde
  /\ \E k \in 1..(Len(s.pkts) - 1) :
       /\ sock' = [sock EXCEPT ![x][i].pkts = SubSeq(s.pkts, k + 1, Len(s.pkts))]
       /\ app' = [app EXCEPT ![x][i].got = @ \o SubSeq(s.pkts, 1, k)]
  /\ UNCHANGED <<next_id, online, net, link, gen, breaks, opens>>

\* Writable, and the write fails because the program closed its end.
EventWriteError(x, i) ==
  LET s == sock[x][i] IN
  /\ "WRITE" \in s.fde
  /\ app[x][i].end = "closed"
  /\ sock' = [sock EXCEPT ![x][i] = CloseSocket(s, TRUE)]
  /\ net' = Send(net, x, CloseOut(i, s))
  /\ UNCHANGED <<next_id, app, online, link, gen, breaks, opens>>

\* Writable, and the whole queue is written.  A closing socket is done and
\* freed.  Any other stops asking for FDE_WRITE, tells its peer to resume,
\* and goes on to the FDE_READ part if that event was reported too.
EventWriteAll(x, i) ==
  LET s == sock[x][i]
      d == [s EXCEPT !.pkts = <<>>, !.fde = @ \ {"WRITE"}]
      a == [app[x][i] EXCEPT !.got = @ \o s.pkts]
  IN
  /\ "WRITE" \in s.fde
  /\ \/ /\ s.list = "closing"
        /\ sock' = [sock EXCEPT ![x][i] = CloseSocket([s EXCEPT !.pkts = <<>>], FALSE)]
        /\ app' = [app EXCEPT ![x][i] = a]
        /\ UNCHANGED net
     \/ /\ s.list = "open"
        /\ sock' = [sock EXCEPT ![x][i] = d]
        /\ app' = [app EXCEPT ![x][i] = a]
        /\ net' = Send(net, x, <<Okay(i, s.peer)>>)
     \/ /\ s.list = "open"
        /\ \E n \in 0..MaxPayload, is_eof \in BOOLEAN :
             /\ CanRead(x, i, s, n, is_eof)
             /\ sock' = [sock EXCEPT ![x][i] = ReadSocket(d, n, is_eof)]
             /\ net' = Send(net, x, <<Okay(i, s.peer)>> \o ReadOut(x, i, d, n, is_eof))
             /\ app' = [app EXCEPT ![x][i] = [a EXCEPT !.sent = NowSent(x, i, s, n)]]
  /\ UNCHANGED <<next_id, online, link, gen, breaks, opens>>

-----------------------------------------------------------------------------
(* handle_packet: the packet p at the head of net[x] *)

Receive(x, cmd) == net[x] # <<>> /\ Head(net[x]).cmd = cmd
Rest(x) == [net EXCEPT ![x] = Tail(@)]

\* Mutant: the streams of the session before are left open.
HandleCnxn_KeepStreams(x) ==
  /\ Receive(x, "CNXN")
  /\ net' = Send(Rest(x), x, IF x = "device" THEN <<Cnxn>> ELSE <<>>)
  /\ online' = [online EXCEPT ![x] = TRUE]
  /\ UNCHANGED <<next_id, sock, app, link, gen, breaks, opens>>

\* handle_new_connection without authentication: a CNXN on a transport that
\* is already connected first takes it offline, closing every stream.  The
\* device answers with its own CNXN.
HandleCnxn(x) ==
  /\ Receive(x, "CNXN")
  /\ sock' = IF online[x] THEN [sock EXCEPT ![x] = CloseAll(x)] ELSE sock
  /\ net' = Send(Rest(x), x, (IF online[x] THEN CloseAllOut(x) ELSE <<>>)
                               \o (IF x = "device" THEN <<Cnxn>> ELSE <<>>))
  /\ online' = [online EXCEPT ![x] = TRUE]
  /\ UNCHANGED <<next_id, app, link, gen, breaks, opens>>

\* SYNC(0,0) after the wire failed: handle_offline.
HandleOffline(x) ==
  /\ Receive(x, "SYNC")
  /\ sock' = [sock EXCEPT ![x] = CloseAll(x)]
  /\ net' = Send(Rest(x), x, CloseAllOut(x))
  /\ online' = [online EXCEPT ![x] = FALSE]
  /\ UNCHANGED <<next_id, app, link, gen, breaks, opens>>

\* Mutant: a failed OPEN is not answered.
OpenFailed_Silent(p) == <<>>

\* OPEN: the service is started and its socket, connected to the sender's, is
\* reported with OKAY and may be read; or the service fails.
OpenFailed(p) == <<Clse(0, p.arg0)>>

HandleOpen(x) ==
  LET p == Head(net[x])  i == next_id[x] IN
  /\ Receive(x, "OPEN")
  /\ \/ /\ online[x]
        /\ next_id' = [next_id EXCEPT ![x] = i + 1]
        /\ sock' = [sock EXCEPT ![x][i] = [list |-> "open", peer |-> p.arg0,
                                           fde |-> {"READ"}, pkts |-> <<>>]]
        /\ app' = [app EXCEPT ![x][i] = NewApp(p.gen, p.arg0)]
        /\ net' = Send(Rest(x), x, <<Okay(i, p.arg0)>>)
     \/ /\ online[x]
        /\ net' = Send(Rest(x), x, OpenFailed(p))
        /\ UNCHANGED <<next_id, sock, app>>
     \/ /\ ~online[x]
        /\ net' = Rest(x)
        /\ UNCHANGED <<next_id, sock, app>>
  /\ UNCHANGED <<online, link, gen, breaks, opens>>

\* Mutant: an OKAY for a socket that is gone is ignored.
OkayToNobody_Ignored(p) == <<>>

\* OKAY: the first one connects the socket; every one whose sender is the
\* peer turns FDE_READ on.  If the socket is gone, its end is closed.
Answers(x, p) ==
  online[x] /\ Found(x, p.arg1, 0) /\ sock[x][p.arg1].peer \in {0, p.arg0}
Ready(s, from) == [s EXCEPT !.peer = from, !.fde = @ \cup {"READ"}]
OkayToNobody(p) == <<Clse(p.arg1, p.arg0)>>

HandleOkay(x) ==
  LET p == Head(net[x])  s == sock[x][p.arg1] IN
  /\ Receive(x, "OKAY")
  /\ \/ /\ Answers(x, p)
        /\ sock' = [sock EXCEPT ![x][p.arg1] = Ready(s, p.arg0)]
        /\ app' = [app EXCEPT ![x][p.arg1].mate = p.arg0]
        /\ net' = Rest(x)
     \/ /\ online[x] /\ ~Found(x, p.arg1, 0)
        /\ net' = Send(Rest(x), x, OkayToNobody(p))
        /\ UNCHANGED <<sock, app>>
     \/ /\ ~online[x] \/ (Found(x, p.arg1, 0) /\ s.peer \notin {0, p.arg0})
        /\ net' = Rest(x)
        /\ UNCHANGED <<sock, app>>
  /\ UNCHANGED <<next_id, online, link, gen, breaks, opens>>

\* CLSE: close the socket if its peer is the sender, or if the sender names
\* no socket of its own.
HandleClse(x) ==
  LET p == Head(net[x])  s == sock[x][p.arg1] IN
  /\ Receive(x, "CLSE")
  /\ IF online[x] /\ Found(x, p.arg1, p.arg0)
       THEN /\ sock' = [sock EXCEPT ![x][p.arg1] = CloseSocket(s, FALSE)]
            /\ net' = Send(Rest(x), x, CloseOut(p.arg1, s))
       ELSE /\ net' = Rest(x)
            /\ UNCHANGED sock
  /\ UNCHANGED <<next_id, app, online, link, gen, breaks, opens>>

\* local_socket_enqueue: behind a backlog the units are queued.  Otherwise
\* they are written at once: all of them (the answer is OKAY), some of them
\* (the rest is queued), or none because the write fails.
Enqueue(x, i, data) ==
  LET s == sock[x][i] IN
  \/ /\ Backlogged(s)
     /\ sock' = [sock EXCEPT ![x][i].pkts = @ \o data]
     /\ net' = Rest(x)
     /\ UNCHANGED app
  \/ /\ ~Backlogged(s)
     /\ \E k \in 0..(Len(data) - 1) :
          /\ sock' = [sock EXCEPT ![x][i] =
                       [s EXCEPT !.pkts = SubSeq(data, k + 1, Len(data)),
                                 !.fde = @ \cup {"WRITE"}]]
          /\ app' = [app EXCEPT ![x][i].got = @ \o SubSeq(data, 1, k)]
          /\ net' = Rest(x)
  \/ /\ ~Backlogged(s)
     /\ app' = [app EXCEPT ![x][i].got = @ \o data]
     /\ net' = Send(Rest(x), x, <<Okay(i, s.peer)>>)
     /\ UNCHANGED sock
  \/ /\ ~Backlogged(s)
     /\ app[x][i].end = "closed"
     /\ sock' = [sock EXCEPT ![x][i] = CloseSocket(s, TRUE)]
     /\ net' = Send(Rest(x), x, CloseOut(i, s))
     /\ UNCHANGED app

\* WRTE: the payload is for the socket arg1, whose peer is the sender.
HandleWrte(x) ==
  LET p == Head(net[x]) IN
  /\ Receive(x, "WRTE")
  /\ \/ /\ online[x] /\ Found(x, p.arg1, p.arg0)
        /\ Enqueue(x, p.arg1, p.data)
     \/ /\ ~(online[x] /\ Found(x, p.arg1, p.arg0))
        /\ net' = Rest(x)
        /\ UNCHANGED <<sock, app>>
  /\ UNCHANGED <<next_id, online, link, gen, breaks, opens>>

HandlePacket(x) ==
  \/ HandleCnxn(x)
  \/ HandleOffline(x)
  \/ HandleOpen(x)
  \/ HandleOkay(x)
  \/ HandleClse(x)
  \/ HandleWrte(x)

-----------------------------------------------------------------------------
(* Clients, services, the wire *)

\* listener_event_func: a client of a forwarded port is accepted and the
\* service on the other side asked for (connect_to_remote).  Listeners exist
\* only while the transport is online.  The socket is not read before OKAY.
Connect(x) ==
  LET i == next_id[x] IN
  /\ x \in Openers
  /\ online[x]
  /\ opens < MaxId
  /\ opens' = opens + 1
  /\ next_id' = [next_id EXCEPT ![x] = i + 1]
  /\ sock' = [sock EXCEPT ![x][i] = [NoSocket EXCEPT !.list = "open"]]
  /\ app' = [app EXCEPT ![x][i] = NewApp(gen, 0)]
  /\ net' = Send(net, x, <<Open(i)>>)
  /\ UNCHANGED <<online, link, gen, breaks>>

\* The program at the other end of a fd stops sending, or closes it.
HangUp(x, i) ==
  /\ sock[x][i].list # "none"
  /\ \E e \in HangUps[x] :
       /\ app[x][i].end = "open" \/ (app[x][i].end = "shut" /\ e = "closed")
       /\ app' = [app EXCEPT ![x][i].end = e]
  /\ UNCHANGED <<next_id, sock, online, net, link, gen, breaks, opens>>

\* The wire fails: each side still handles what its read thread had already
\* received, then the SYNC(0,0) that thread posts.
Break ==
  /\ link = "up"
  /\ breaks < MaxBreaks
  /\ breaks' = breaks + 1
  /\ link' = "broken"
  /\ \E h \in 0..Len(net["host"]), d \in 0..Len(net["device"]) :
       net' = [x \in Side |->
                 Append(SubSeq(net[x], 1, IF x = "host" THEN h ELSE d), Offline)]
  /\ UNCHANGED <<next_id, sock, app, online, gen, opens>>

\* A new transport replaces the failed one on both sides: the server sends
\* CNXN when the read thread's SYNC(1,token) comes back (SendConnectOnHost).
Reconnect ==
  /\ link = "broken"
  /\ \A x \in Side : net[x] = <<>>
  /\ link' = "up"
  /\ net' = [net EXCEPT !["device"] = <<Cnxn>>]
  /\ UNCHANGED <<next_id, sock, app, online, gen, breaks, opens>>

\* The adb server is killed and started again while the device stays plugged
\* in.  Its sockets, and the packets still inside the process, are gone; what
\* the wire and the device hold of the old session is not.  (That the new
\* server sends CNXN once more when the first packet it reads is of the old
\* session is in Auth, HostData.)
HostRestart ==
  /\ link = "up"
  /\ gen < MaxRestarts
  /\ gen' = gen + 1
  /\ next_id' = [next_id EXCEPT !["host"] = 1]
  /\ sock' = [sock EXCEPT !["host"] = [i \in Ids |-> NoSocket]]
  /\ app' = [app EXCEPT !["host"] = [i \in Ids |-> NewApp(0, 0)]]
  /\ online' = [online EXCEPT !["host"] = FALSE]
  /\ \E h \in 0..Len(net["host"]), d \in 0..Len(net["device"]) :
       net' = [x \in Side |->
                 IF x = "host" THEN SubSeq(net[x], h + 1, Len(net[x]))
                               ELSE Append(SubSeq(net[x], 1, d), Cnxn)]
  /\ UNCHANGED <<link, breaks, opens>>

-----------------------------------------------------------------------------

Event(x, i) ==
  \/ EventRead(x, i)
  \/ EventWriteSome(x, i)
  \/ EventWriteError(x, i)
  \/ EventWriteAll(x, i)

Next ==
  \/ \E x \in Side : HandlePacket(x) \/ Connect(x)
  \/ \E x \in Side, i \in Ids : Event(x, i) \/ HangUp(x, i)
  \/ Break
  \/ Reconnect
  \/ HostRestart

Spec == Init /\ [][Next]_vars

\* The main threads keep handling packets; a program that does not hang up
\* keeps reading its fd; poll keeps reporting a hang-up until it is handled.
Fairness ==
  \A x \in Side :
    /\ WF_vars(HandlePacket(x))
    /\ \A i \in Ids : /\ WF_vars(EventWriteAll(x, i))
                      /\ WF_vars(app[x][i].end # "open" /\ EventRead(x, i))

FairSpec == Spec /\ Fairness

-----------------------------------------------------------------------------
(* Properties *)

InNet(x, p) == \E n \in 1..Len(net[x]) : net[x][n] = p
CountNet(x, P(_)) == Cardinality({n \in 1..Len(net[x]) : P(net[x][n])})
One(b) == IF b THEN 1 ELSE 0

\* A reset of the whole session is on its way to x.
ResetComing(x) == InNet(x, Cnxn) \/ InNet(x, Offline)

\* A socket asks for FDE_WRITE exactly while it has units to write, as the
\* CHECK_EQ at the end of local_socket_close demands; and an open one with
\* units to write has a peer, which local_socket_event_func dereferences once
\* they are written.
BacklogHasPeer ==
  \A x \in Side, i \in Ids :
    LET s == sock[x][i] IN
    /\ "WRITE" \in s.fde <=> s.pkts # <<>>
    /\ s.pkts # <<>> => s.list # "none"
    /\ s.list = "open" /\ s.pkts # <<>> => s.peer # 0
    /\ s.list = "closing" => s.peer = 0 /\ "READ" \notin s.fde

\* What adb writes to a client or a service is, unit by unit and from the
\* first, what the socket it is connected to sent: nothing is mixed in from
\* another stream, repeated, skipped or reordered by the queueing in
\* local_socket_enqueue and local_socket_event_func.
InOrderDelivery ==
  \A x \in Side, i \in Ids :
    LET a == app[x][i] IN
    \A n \in 1..Len(a.got) : /\ a.got[n].n = n
                             /\ a.got[n].id = a.mate
                             /\ a.got[n].gen = a.got[1].gen

\* When adb itself closes a fd whose program has not hung up, everything the
\* other end sent on that stream has been written to it: a CLSE that follows
\* data never overtakes it, and the closing list keeps the backlog alive.
\* (Streams of a failed wire or a restarted server are excepted.)
NoLossOnClose ==
  \A x \in Side, i \in Ids :
    LET a == app[x][i] IN
    ( /\ gen = 0 /\ breaks = 0
      /\ i < next_id[x] /\ sock[x][i].list = "none"
      /\ a.end = "open" /\ a.mate # 0 )
      => Len(a.got) = app[Other(x)][a.mate].sent

\* Flow control: between two connected sockets the permission to send one
\* WRTE exists exactly once in each direction as long as the sending program
\* does not hang up.  It is the sender's FDE_READ, a WRTE under way, the
\* receiver's backlog or an OKAY under way, and is never lost or duplicated.
CreditConservation ==
  \A x \in Side, i, j \in Ids :
    LET y == Other(x)
        wrtes == CountNet(y, LAMBDA p : p.cmd = "WRTE" /\ p.arg0 = i /\ p.arg1 = j)
        okays == CountNet(x, LAMBDA p : p.cmd = "OKAY" /\ p.arg0 = j /\ p.arg1 = i)
    IN  ( /\ link = "up" /\ ~ResetComing(x) /\ ~ResetComing(y)
          /\ sock[x][i].list = "open" /\ sock[y][j].list = "open"
          /\ sock[y][j].peer = i /\ sock[x][i].peer \in {0, j}
          /\ app[x][i].end = "open" )
        => One("READ" \in sock[x][i].fde) + wrtes + One(sock[y][j].pkts # <<>>) + okays = 1

\* Nothing is stuck between two connected sockets: neither a backlog nor the
\* permission to send.
FlowControl == BacklogHasPeer /\ CreditConservation

\* No stream is left open at one end only: if the other end of an open socket
\* is not open, or belongs to someone else, then a CLSE for it, a packet that
\* will be answered with one, or a reset of the session is on its way.  A
\* socket not yet connected has its OPEN or the answer to it under way.
NoOrphan ==
  \A x \in Side, i \in Ids :
    LET s == sock[x][i]
        y == Other(x)
        Coming(p) == p.cmd = "CLSE" /\ p.arg1 = i /\ p.arg0 \in {0, s.peer}
        OpenComing(p) == p.cmd = "OPEN" /\ p.arg0 = i
        AnswerComing(p) == p.cmd \in {"OKAY", "CLSE"} /\ p.arg1 = i
    IN  s.list = "open" =>
          \/ ResetComing(x)
          \/ s.peer # 0 /\ sock[y][s.peer].list = "open" /\ sock[y][s.peer].peer \in {0, i}
          \/ s.peer # 0 /\ CountNet(x, Coming) > 0
          \/ s.peer # 0 /\ InNet(y, Okay(i, s.peer))
          \/ s.peer = 0 /\ CountNet(y, OpenComing) > 0
          \/ s.peer = 0 /\ CountNet(x, AnswerComing) > 0

\* A client of a restarted server is never connected to a stream, nor given a
\* unit, of the session before: stale packets reach the new server while its
\* transport is offline, because the device's CNXN follows them.  A stale OPEN
\* of the device may find a server that an old CNXN has made online; then the
\* reset that ends the stream is under way before any data.
SessionIsolation ==
  \A i \in Ids :
    LET a == app["host"][i]  j == sock["host"][i].peer IN
    /\ j # 0 => /\ app["device"][j].gen = a.gen
                /\ a.gen = gen \/ ResetComing("device") \/ ResetComing("host")
    /\ \A n \in 1..Len(a.got) : a.got[n].gen = gen

\* Closing propagates: once one end of a stream is no longer open, or the
\* server it belongs to is gone, the other end does not stay open.
ClosePropagates ==
  \A x \in Side, i, j \in Ids :
    (sock[x][i].list = "open" /\ sock[x][i].peer = j /\ sock[Other(x)][j].list # "open")
      ~> sock[x][i].list # "open"

\* Every OPEN is answered: a client of a forwarded port does not wait for
\* ever with neither a connection nor an end of file.
OpenAnswered ==
  \A x \in Side, i \in Ids :
    (sock[x][i].list = "open" /\ sock[x][i].peer = 0)
      ~> (sock[x][i].list # "open" \/ sock[x][i].peer # 0)

\* A sender that has to wait for an OKAY does not wait for ever: it may read
\* its fd again, or its stream is closed.
CreditReturns ==
  \A x \in Side, i \in Ids :
    (sock[x][i].list = "open" /\ "READ" \notin sock[x][i].fde)
      ~> (sock[x][i].list # "open" \/ "READ" \in sock[x][i].fde)

\* A socket whose program has hung up is freed, with the backlog it may have:
\* no fd is left behind in CLOSE_WAIT (the reason fdevent polls POLLRDHUP).
HangUpFrees ==
  \A x \in Side, i \in Ids :
    (sock[x][i].list # "none" /\ app[x][i].end # "open") ~> sock[x][i].list = "none"

\* Neither end of a stream outlives the other, nor its own program.
EndsPropagate == ClosePropagates /\ HangUpFrees

\* Nobody waits for ever for the answer to an OPEN or to a WRTE.
NoEndlessWait == OpenAnswered /\ CreditReturns

\* protocol.txt on READY: "The READY message informs the recipient that the
\* sender's stream identified by local-id ... is connected to the recipient's
\* stream identified by remote-id": what a client is connected to was opened
\* for it, by the server it talks to.
ReadyConnectsPartner ==
  \A i \in Ids :
    LET j == sock["host"][i].peer IN j # 0 => app["device"][j].gen = gen
=============================================================================
