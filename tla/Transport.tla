------------------------------ MODULE Transport ------------------------------
(***************************************************************************)
(* The life of a transport (transport.cpp): how it is registered with the  *)
(* main thread, pumped by its read and write threads, kicked, taken        *)
(* offline, closed and freed.                                              *)
(*                                                                         *)
(* The threads share transport_lock, the reference count and two socket    *)
(* pairs.  transport_registration_send/recv carries "add" and "remove"     *)
(* messages to the main thread.  t->fd / t->transport_socket carries       *)
(* packets between the main thread and the two threads of t.  Between two  *)
(* of these objects there is no order: the main thread handles whichever   *)
(* file descriptor poll reports first.                                     *)
(*                                                                         *)
(* A transport object is used once; an element of Transports is one        *)
(* allocation.                                                             *)
(***************************************************************************)
EXTENDS Integers, Sequences, FiniteSets

CONSTANTS
  Transports,  \* the transport objects ever allocated
  NoTransport, \* no transport object
  ADB_HOST,    \* TRUE for the adb server, FALSE for adbd
  MaxCnxn,     \* bound on the CNXN packets a remote sends
  MaxSends     \* bound on the other packets sent to a remote

ASSUME TransportAssumption ==
  /\ NoTransport \notin Transports
  /\ ADB_HOST \in BOOLEAN
  /\ MaxCnxn \in Nat
  /\ MaxSends \in Nat

VARIABLES
  phase,    \* where the object is: see Phase
  noperm,   \* registered as kCsNoPerm: no threads
  reg,      \* the registration socket pair
  ref,      \* t->ref_count
  rpc,      \* the read thread of t
  wpc,      \* the write thread of t
  up,       \* packets in t's socket pair, read thread to main thread
  down,     \* packets in t's socket pair, main thread to write thread
  active,   \* the write thread's variable of that name
  kicked,   \* t->kicked_
  broken,   \* the connection below t is dead: unplugged, or kick_func ran
  closed,   \* t->close(t) ran
  online,   \* t->online
  used,     \* sockets or listeners of the main thread point to t
  lock,     \* holder of transport_lock
  main,     \* what the main thread is doing, and to which transport
  other,    \* a thread that kicks a transport: USB hot-plug, a service
  cnxns,    \* CNXN packets received on t
  sends     \* packets sent on t

tvars == <<phase, noperm, ref, active, kicked, broken, closed, online, used>>
vars == <<tvars, reg, rpc, wpc, up, down, lock, main, other, cnxns, sends>>

-----------------------------------------------------------------------------
(* State *)

\* "new": not allocated; "pending": on pending_list; "listed": on
\* transport_list; "leaked": taken off the list and never freed
\* (unregister_usb_transport); "freed": deleted.
Phase == {"new", "pending", "listed", "leaked", "freed"}

\* The threads of a transport: "none" before std::thread and after return.
\* The steps after the data pump are the same for both: kick_transport
\* ("kick", and "kick_func" while it holds transport_lock), transport_unref,
\* and for the last one t->close and remove_transport.
Leaving == {"kick", "kick_func", "unref", "close", "remove"}
Read  == {"none", "start", "read", "offline", "done"} \cup Leaving
Write == {"none", "recv", "write", "done"} \cup Leaving

Up   == {"SYNC1", "CNXN", "SYNC0"}
Down == {"SYNC1", "CNXN", "DATA", "SYNC0"}

\* A thread that is doing something to a transport, or nothing.
Idle == <<"idle", NoTransport>>
Job(pcs) == {Idle} \cup (pcs \X Transports)

\* transport_lock is held across steps only inside kick_transport(t).
Free == <<"free", NoTransport>>
Holder == {Free} \cup ({"read", "write", "main", "other"} \X Transports)

TypeOK ==
  /\ phase \in [Transports -> Phase]
  /\ reg \in Seq({"add", "remove"} \X Transports)
  /\ ref \in [Transports -> 0..2]
  /\ rpc \in [Transports -> Read]
  /\ wpc \in [Transports -> Write]
  /\ up \in [Transports -> Seq(Up)]
  /\ down \in [Transports -> Seq(Down)]
  /\ noperm \in [Transports -> BOOLEAN]
  /\ active \in [Transports -> BOOLEAN]
  /\ kicked \in [Transports -> BOOLEAN]
  /\ broken \in [Transports -> BOOLEAN]
  /\ closed \in [Transports -> BOOLEAN]
  /\ online \in [Transports -> BOOLEAN]
  /\ used \in [Transports -> BOOLEAN]
  /\ lock \in Holder
  /\ main \in Job({"list", "free", "kick", "kick_func"})
  /\ other \in Job({"kick", "kick_func"})
  /\ cnxns \in [Transports -> Nat]
  /\ sends \in [Transports -> Nat]

Init ==
  /\ phase = [t \in Transports |-> "new"]
  /\ reg = <<>>
  /\ ref = [t \in Transports |-> 0]
  /\ rpc = [t \in Transports |-> "none"]
  /\ wpc = [t \in Transports |-> "none"]
  /\ up = [t \in Transports |-> <<>>]
  /\ down = [t \in Transports |-> <<>>]
  /\ noperm = [t \in Transports |-> FALSE]
  /\ active = [t \in Transports |-> FALSE]
  /\ kicked = [t \in Transports |-> FALSE]
  /\ broken = [t \in Transports |-> FALSE]
  /\ closed = [t \in Transports |-> FALSE]
  /\ online = [t \in Transports |-> FALSE]
  /\ used = [t \in Transports |-> FALSE]
  /\ lock = Free
  /\ main = Idle
  /\ other = Idle
  /\ cnxns = [t \in Transports |-> 0]
  /\ sends = [t \in Transports |-> 0]

-----------------------------------------------------------------------------
(* Registration *)

\* register_usb_transport, register_socket_transport: put t on pending_list
\* and tell the main thread.  n: the device may not be opened for writing.
Register(t) ==
  /\ phase[t] = "new"
  /\ lock = Free
  /\ \E n \in BOOLEAN : noperm' = [noperm EXCEPT ![t] = n]
  /\ phase' = [phase EXCEPT ![t] = "pending"]
  /\ reg' = Append(reg, <<"add", t>>)
  /\ UNCHANGED <<ref, active, kicked, broken, closed, online, used,
                 rpc, wpc, up, down, lock, main, other, cnxns, sends>>

\* unregister_usb_transport: an inaccessible device was unplugged.
Unregister(t) ==
  /\ noperm[t]
  /\ phase[t] = "listed"
  /\ lock = Free
  /\ phase' = [phase EXCEPT ![t] = "leaked"]
  /\ UNCHANGED <<noperm, ref, active, kicked, broken, closed, online, used,
                 reg, rpc, wpc, up, down, lock, main, other, cnxns, sends>>

\* transport_read_action: the main thread takes one message off the pair.
MainGets(message, t) ==
  /\ main = Idle
  /\ reg # <<>> /\ Head(reg) = <<message, t>>
  /\ reg' = Tail(reg)

\* Mutant: one reference for two threads.
MainAdd_OneRef(t) ==
  /\ MainGets("add", t)
  /\ main' = <<"list", t>>
  /\ IF noperm[t]
       THEN UNCHANGED <<ref, rpc, wpc>>
       ELSE /\ ref' = [ref EXCEPT ![t] = 1]
            /\ wpc' = [wpc EXCEPT ![t] = "recv"]
            /\ rpc' = [rpc EXCEPT ![t] = "start"]
  /\ UNCHANGED <<phase, noperm, active, kicked, broken, closed, online, used,
                 up, down, lock, other, cnxns, sends>>

\* transport_registration_func, an "add": make the socket pair, start both
\* threads ...
MainAdd(t) ==
  /\ MainGets("add", t)
  /\ main' = <<"list", t>>
  /\ IF noperm[t]
       THEN UNCHANGED <<ref, rpc, wpc>>
       ELSE /\ ref' = [ref EXCEPT ![t] = 2]
            /\ wpc' = [wpc EXCEPT ![t] = "recv"]
            /\ rpc' = [rpc EXCEPT ![t] = "start"]
  /\ UNCHANGED <<phase, noperm, active, kicked, broken, closed, online, used,
                 up, down, lock, other, cnxns, sends>>

\* ... and only then move t from pending_list to transport_list.
MainList(t) ==
  /\ main = <<"list", t>>
  /\ lock = Free
  /\ phase' = [phase EXCEPT ![t] = "listed"]
  /\ main' = Idle
  /\ UNCHANGED <<noperm, ref, active, kicked, broken, closed, online, used,
                 reg, rpc, wpc, up, down, lock, other, cnxns, sends>>

\* A "remove": drop the main thread's fdevent on the socket pair and close
\* the other half: what is still in the pair is gone ...
MainRemove(t) ==
  /\ MainGets("remove", t)
  /\ main' = <<"free", t>>
  /\ up' = [up EXCEPT ![t] = <<>>]
  /\ down' = [down EXCEPT ![t] = <<>>]
  /\ UNCHANGED <<tvars, rpc, wpc, lock, other, cnxns, sends>>

\* ... then take t off the list and delete it.
MainFree(t) ==
  /\ main = <<"free", t>>
  /\ lock = Free
  /\ phase' = [phase EXCEPT ![t] = "freed"]
  /\ main' = Idle
  /\ UNCHANGED <<noperm, ref, active, kicked, broken, closed, online, used,
                 reg, rpc, wpc, up, down, lock, other, cnxns, sends>>

-----------------------------------------------------------------------------
(* transport_socket_events and handle_packet, on the main thread *)

MainReceives(t, p) ==
  /\ main = Idle
  /\ phase[t] = "listed"
  /\ up[t] # <<>> /\ Head(up[t]) = p
  /\ up' = [up EXCEPT ![t] = Tail(@)]

\* SYNC(1,token): return it to the write thread; the server then introduces
\* itself (SendConnectOnHost).
HandleSyncOnline(t) ==
  /\ MainReceives(t, "SYNC1")
  /\ down' = [down EXCEPT ![t] = @ \o (IF ADB_HOST THEN <<"SYNC1", "CNXN">>
                                                   ELSE <<"SYNC1">>)]
  /\ UNCHANGED <<tvars, reg, rpc, wpc, lock, main, other, cnxns, sends>>

\* CNXN: handle_new_connection.  A second one takes t offline first, which
\* closes its sockets and removes its listeners.  adbd answers.
HandleCnxn(t) ==
  /\ MainReceives(t, "CNXN")
  /\ used' = [used EXCEPT ![t] = IF online[t] THEN FALSE ELSE @]
  /\ online' = [online EXCEPT ![t] = TRUE]
  /\ down' = [down EXCEPT ![t] = IF ADB_HOST THEN @ ELSE Append(@, "CNXN")]
  /\ UNCHANGED <<phase, noperm, ref, active, kicked, broken, closed,
                 reg, rpc, wpc, lock, main, other, cnxns, sends>>

\* Mutant: the write thread is not told.
HandleSyncOffline_Silent(t) ==
  /\ MainReceives(t, "SYNC0")
  /\ online' = [online EXCEPT ![t] = FALSE]
  /\ used' = [used EXCEPT ![t] = FALSE]
  /\ UNCHANGED <<phase, noperm, ref, active, kicked, broken, closed,
                 reg, rpc, wpc, down, lock, main, other, cnxns, sends>>

\* SYNC(0,0): handle_offline closes the sockets and runs the disconnect
\* callbacks; then the write thread is told.
HandleSyncOffline(t) ==
  /\ MainReceives(t, "SYNC0")
  /\ online' = [online EXCEPT ![t] = FALSE]
  /\ used' = [used EXCEPT ![t] = FALSE]
  /\ down' = [down EXCEPT ![t] = Append(@, "SYNC0")]
  /\ UNCHANGED <<phase, noperm, ref, active, kicked, broken, closed,
                 reg, rpc, wpc, lock, main, other, cnxns, sends>>

\* A socket or listener of the main thread starts to use t, and sends.
UseTransport(t) ==
  /\ main = Idle
  /\ phase[t] = "listed"
  /\ online[t]
  /\ sends[t] < MaxSends
  /\ sends' = [sends EXCEPT ![t] = @ + 1]
  /\ used' = [used EXCEPT ![t] = TRUE]
  /\ down' = [down EXCEPT ![t] = Append(@, "DATA")]
  /\ UNCHANGED <<phase, noperm, ref, active, kicked, broken, closed, online,
                 reg, rpc, wpc, up, lock, main, other, cnxns>>

-----------------------------------------------------------------------------
(* kick_transport *)

\* Take transport_lock.  If t is still on transport_list and was not kicked,
\* Kick goes on to kick_func with the lock held; otherwise kick_transport
\* returns.  Only a thread with business left in kick_func keeps the lock.
Kicks(t) == phase[t] = "listed" /\ ~kicked[t]

\* Mutant: the lock is dropped before kick_func.
KickLock_Early(who, t) ==
  /\ lock = Free
  /\ UNCHANGED lock
  /\ kicked' = IF Kicks(t) THEN [kicked EXCEPT ![t] = TRUE] ELSE kicked

KickLock(who, t) ==
  /\ lock = Free
  /\ lock' = IF Kicks(t) THEN <<who, t>> ELSE Free
  /\ kicked' = IF Kicks(t) THEN [kicked EXCEPT ![t] = TRUE] ELSE kicked

\* On the server kick_func waits for write_msg_lock_, which the write thread
\* holds throughout Write.  It breaks the connection.
KickFunc(t) ==
  /\ ADB_HOST => wpc[t] # "write"
  /\ broken' = [broken EXCEPT ![t] = TRUE]
  /\ lock' = Free

\* The main thread (adb disconnect, adb reconnect) ...
MainKick(t) ==
  /\ main = Idle
  /\ phase[t] = "listed" /\ ~noperm[t]
  /\ main' = <<"kick", t>>
  /\ UNCHANGED <<tvars, reg, rpc, wpc, up, down, lock, other, cnxns, sends>>

MainKickLock(t) ==
  /\ main = <<"kick", t>>
  /\ KickLock("main", t)
  /\ main' = IF Kicks(t) THEN <<"kick_func", t>> ELSE Idle
  /\ UNCHANGED <<phase, noperm, ref, active, broken, closed, online, used,
                 reg, rpc, wpc, up, down, other, cnxns, sends>>

MainKickFunc(t) ==
  /\ main = <<"kick_func", t>>
  /\ KickFunc(t)
  /\ main' = Idle
  /\ UNCHANGED <<phase, noperm, ref, active, kicked, closed, online, used,
                 reg, rpc, wpc, up, down, other, cnxns, sends>>

\* ... or another thread, "without guarantee that t is valid".
OtherKick(t) ==
  /\ other = Idle
  /\ phase[t] # "new" /\ ~noperm[t]
  /\ other' = <<"kick", t>>
  /\ UNCHANGED <<tvars, reg, rpc, wpc, up, down, lock, main, cnxns, sends>>

OtherKickLock(t) ==
  /\ other = <<"kick", t>>
  /\ KickLock("other", t)
  /\ other' = IF Kicks(t) THEN <<"kick_func", t>> ELSE Idle
  /\ UNCHANGED <<phase, noperm, ref, active, broken, closed, online, used,
                 reg, rpc, wpc, up, down, main, cnxns, sends>>

OtherKickFunc(t) ==
  /\ other = <<"kick_func", t>>
  /\ KickFunc(t)
  /\ other' = Idle
  /\ UNCHANGED <<phase, noperm, ref, active, kicked, closed, online, used,
                 reg, rpc, wpc, up, down, main, cnxns, sends>>

-----------------------------------------------------------------------------
(* read_transport_thread *)

ReadStart(t) ==
  /\ rpc[t] = "start"
  /\ rpc' = [rpc EXCEPT ![t] = "read"]
  /\ up' = [up EXCEPT ![t] = Append(@, "SYNC1")]
  /\ UNCHANGED <<tvars, reg, wpc, down, lock, main, other, cnxns, sends>>

\* read_from_remote returns a packet (a CNXN; others do not matter here).
ReadPacket(t) ==
  /\ rpc[t] = "read"
  /\ cnxns[t] < MaxCnxn
  /\ cnxns' = [cnxns EXCEPT ![t] = @ + 1]
  /\ up' = [up EXCEPT ![t] = Append(@, "CNXN")]
  /\ UNCHANGED <<tvars, reg, rpc, wpc, down, lock, main, other, sends>>

\* read_from_remote fails.
ReadFails(t) ==
  /\ rpc[t] = "read"
  /\ broken[t]
  /\ rpc' = [rpc EXCEPT ![t] = "offline"]
  /\ UNCHANGED <<tvars, reg, wpc, up, down, lock, main, other, cnxns, sends>>

\* SYNC(0,0), on its way through the main thread to the write thread.
ReadOffline(t) ==
  /\ rpc[t] = "offline"
  /\ rpc' = [rpc EXCEPT ![t] = "kick"]
  /\ up' = [up EXCEPT ![t] = Append(@, "SYNC0")]
  /\ UNCHANGED <<tvars, reg, wpc, down, lock, main, other, cnxns, sends>>

-----------------------------------------------------------------------------
(* write_transport_thread *)

\* read_packet on t->fd: SYNC(1,token) starts the pump, SYNC(0,0) ends it,
\* any other packet is written, or dropped before the pump has started.
WriteRecv(t) ==
  /\ wpc[t] = "recv"
  /\ down[t] # <<>>
  /\ LET p == Head(down[t]) IN
       /\ wpc' = [wpc EXCEPT ![t] = CASE p = "SYNC0" -> "kick"
                                      [] p = "SYNC1" -> "recv"
                                      [] OTHER -> IF active[t] THEN "write" ELSE "recv"]
       /\ active' = [active EXCEPT ![t] = @ \/ p = "SYNC1"]
  /\ down' = [down EXCEPT ![t] = Tail(@)]
  /\ UNCHANGED <<phase, noperm, ref, kicked, broken, closed, online, used,
                 reg, rpc, up, lock, main, other, cnxns, sends>>

\* t->Write returns; on a dead connection it may or may not notice.
WriteDone(t) ==
  /\ wpc[t] = "write"
  /\ \/ wpc' = [wpc EXCEPT ![t] = "recv"]
     \/ broken[t] /\ wpc' = [wpc EXCEPT ![t] = "kick"]
  /\ UNCHANGED <<tvars, reg, rpc, up, down, lock, main, other, cnxns, sends>>

-----------------------------------------------------------------------------
(* The end of both threads, here for the thread with pc and name who *)

LeaveKick(pc, who, t) ==
  /\ pc[t] = "kick"
  /\ KickLock(who, t)
  /\ pc' = [pc EXCEPT ![t] = IF Kicks(t) THEN "kick_func" ELSE "unref"]
  /\ UNCHANGED <<phase, noperm, ref, active, broken, closed, online, used, reg>>

LeaveKickFunc(pc, t) ==
  /\ pc[t] = "kick_func"
  /\ KickFunc(t)
  /\ pc' = [pc EXCEPT ![t] = "unref"]
  /\ UNCHANGED <<phase, noperm, ref, active, kicked, closed, online, used, reg>>

\* Mutants: the first thread out closes t; both do.
LeaveUnref_First(pc, t) ==
  /\ pc[t] = "unref"
  /\ ref' = [ref EXCEPT ![t] = @ - 1]
  /\ pc' = [pc EXCEPT ![t] = IF ref[t] = 2 THEN "close" ELSE "done"]
  /\ UNCHANGED <<phase, noperm, active, kicked, broken, closed, online, used, lock, reg>>

LeaveUnref_Both(pc, t) ==
  /\ pc[t] = "unref"
  /\ ref' = [ref EXCEPT ![t] = @ - 1]
  /\ pc' = [pc EXCEPT ![t] = "close"]
  /\ UNCHANGED <<phase, noperm, active, kicked, broken, closed, online, used, lock, reg>>

\* transport_unref: the thread that drops the last reference closes t ...
LeaveUnref(pc, t) ==
  /\ pc[t] = "unref"
  /\ ref' = [ref EXCEPT ![t] = @ - 1]
  /\ pc' = [pc EXCEPT ![t] = IF ref[t] = 1 THEN "close" ELSE "done"]
  /\ UNCHANGED <<phase, noperm, active, kicked, broken, closed, online, used, lock, reg>>

LeaveClose(pc, t) ==
  /\ pc[t] = "close"
  /\ closed' = [closed EXCEPT ![t] = TRUE]
  /\ pc' = [pc EXCEPT ![t] = "remove"]
  /\ UNCHANGED <<phase, noperm, ref, active, kicked, broken, online, used, lock, reg>>

\* ... and asks the main thread to free it (remove_transport).
LeaveRemove(pc, t) ==
  /\ pc[t] = "remove"
  /\ reg' = Append(reg, <<"remove", t>>)
  /\ pc' = [pc EXCEPT ![t] = "done"]
  /\ UNCHANGED <<tvars, lock>>

Leave(pc, who, t) ==
  \/ LeaveKick(pc, who, t)
  \/ LeaveKickFunc(pc, t)
  \/ LeaveUnref(pc, t)
  \/ LeaveClose(pc, t)
  \/ LeaveRemove(pc, t)

ReadLeave(t) ==
  Leave(rpc, "read", t) /\ UNCHANGED <<wpc, up, down, main, other, cnxns, sends>>

WriteLeave(t) ==
  Leave(wpc, "write", t) /\ UNCHANGED <<rpc, up, down, main, other, cnxns, sends>>

-----------------------------------------------------------------------------

\* The device is unplugged, or the connection is lost.
Unplug(t) ==
  /\ phase[t] \in {"pending", "listed"}
  /\ ~noperm[t]
  /\ ~broken[t]
  /\ broken' = [broken EXCEPT ![t] = TRUE]
  /\ UNCHANGED <<phase, noperm, ref, active, kicked, closed, online, used,
                 reg, rpc, wpc, up, down, lock, main, other, cnxns, sends>>

Main(t) ==
  \/ HandleSyncOnline(t)
  \/ HandleCnxn(t)
  \/ HandleSyncOffline(t)

Registration ==
  \E t \in Transports : MainAdd(t) \/ MainList(t) \/ MainRemove(t) \/ MainFree(t)

Reader(t) == ReadStart(t) \/ ReadFails(t) \/ ReadOffline(t) \/ ReadLeave(t)
Writer(t) == WriteRecv(t) \/ WriteDone(t) \/ WriteLeave(t)
MainKicking == \E t \in Transports : MainKickLock(t) \/ MainKickFunc(t)
OtherKicking == \E t \in Transports : OtherKickLock(t) \/ OtherKickFunc(t)

Next ==
  \/ Registration
  \/ MainKicking
  \/ OtherKicking
  \/ \E t \in Transports :
       \/ Register(t)
       \/ Unregister(t)
       \/ Main(t)
       \/ UseTransport(t)
       \/ MainKick(t)
       \/ OtherKick(t)
       \/ Reader(t)
       \/ ReadPacket(t)
       \/ Writer(t)
       \/ Unplug(t)

Spec == Init /\ [][Next]_vars

\* poll reports every ready descriptor and the main thread handles them all
\* before it polls again, so no source of work starves.  A blocked read
\* returns once the connection is dead, and a Write always returns.
Fairness ==
  /\ SF_vars(Registration)
  /\ WF_vars(MainKicking) /\ WF_vars(OtherKicking)
  /\ \A t \in Transports : SF_vars(Main(t)) /\ WF_vars(Reader(t)) /\ WF_vars(Writer(t))

FairSpec == Spec /\ Fairness

-----------------------------------------------------------------------------
(* Properties *)

One(b) == IF b THEN 1 ELSE 0

\* A thread that has dropped its reference, or was never started, has no
\* business with t; the one that dropped the last still closes and removes it.
Holds(pc) == pc \notin {"none", "close", "remove", "done"}
Releases(pc) == pc \in {"close", "remove"}

InKickFunc(t) ==
  \/ "kick_func" \in {rpc[t], wpc[t]}
  \/ <<"kick_func", t>> \in {main, other}

\* t->ref_count is the number of transport threads that still use t, so the
\* CHECK_GT in transport_unref cannot fail.
RefCounts ==
  \A t \in Transports : ref[t] = One(Holds(rpc[t])) + One(Holds(wpc[t]))

\* Once t is deleted nothing uses it: neither of its threads, nor a thread
\* inside Kick, which got its pointer "without guarantee that t is valid".
NoUseAfterFree ==
  \A t \in Transports :
    phase[t] = "freed" =>
      /\ rpc[t] = "done" /\ wpc[t] = "done"
      /\ ~InKickFunc(t)

\* t->close comes after the kick and never under it: when t->close runs, or
\* has run, t was kicked and no thread is inside t's kick_func, which would
\* use the closed connection.  It holds only because threads that leave go
\* through kick_transport, and so wait for whoever is inside it.
CloseAfterKick ==
  \A t \in Transports :
    (Releases(rpc[t]) \/ Releases(wpc[t]) \/ closed[t])
      => kicked[t] /\ ~InKickFunc(t)

\* A transport whose threads have both gone is released exactly once: one of
\* them is on its way to ask for the removal, or the request is queued, or
\* the main thread is serving it, or t is deleted.
ReleasedOnce ==
  \A t \in Transports :
    LET requests == {n \in 1..Len(reg) : reg[n] = <<"remove", t>>}
    IN  One(Releases(rpc[t])) + One(Releases(wpc[t])) + Cardinality(requests)
          + One(main = <<"free", t>>) + One(phase[t] = "freed")
        = One(ref[t] = 0 /\ wpc[t] # "none")

\* The packet that starts a session is never dropped as "offline": the write
\* thread has seen SYNC(1,token) before any CNXN reaches it.
ConnectNotDropped ==
  \A t \in Transports :
    wpc[t] = "recv" /\ down[t] # <<>> /\ Head(down[t]) = "CNXN" => active[t]

\* A transport's life has one orderly beginning and one end.
OrderlyLife == ReleasedOnce /\ ConnectNotDropped

\* A transport whose connection died is closed and freed in the end, whoever
\* noticed first and whoever was kicking it.
DeadIsFreed ==
  \A t \in Transports : (broken[t] /\ rpc[t] # "none") ~> phase[t] = "freed"

\* The comments in transport.cpp on shutdown: "the read_transport thread will
\* post a SYNC(0,0) message to ensure shutdown", which makes the transport
\* offline; "Finally, this transport will be closed and freed".  So no socket
\* or listener points to t when it is freed.
OfflineBeforeFree ==
  \A t \in Transports : phase[t] = "freed" => ~used[t]
=============================================================================
