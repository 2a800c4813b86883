----------------------------- MODULE HostServer -----------------------------
(***************************************************************************)
(* The adb server towards its clients: smart sockets (sockets.cpp), the    *)
(* host requests (adb.cpp, services.cpp), the forwarding listeners         *)
(* (adb_listeners.cpp), the device trackers and the choice of a transport  *)
(* (transport.cpp).  The main thread serves one event at a time, so a      *)
(* request or a transport event is one step; the threads of wait_for_state *)
(* and connect_service step in between.                                    *)
(*                                                                         *)
(* Of a transport's life only what clients can see is kept (Transport has  *)
(* the rest): usually it is taken offline before it is removed, but its    *)
(* removal may overtake SYNC(0,0).                                         *)
(***************************************************************************)
EXTENDS Integers, FiniteSets

CONSTANTS
  HsUsb, HsTcp,   \* the transports, named by their serial number
  HsTargets,      \* what requests name: serials, "any", "usb", "local"
  HsClients,      \* client connections, used again after they are closed
  HsNames,        \* local names that clients forward
  HsSmart,        \* local name of the smart socket's listener
  HsMaxRequests,  \* bound on the requests sent
  HsMaxPlugs      \* bound on the transports registered

ASSUME HostServerAssumption ==
  /\ HsUsb \cap HsTcp = {} /\ {"none", "stale"} \cap (HsUsb \cup HsTcp) = {}
  /\ HsTargets \subseteq HsUsb \cup HsTcp \cup {"any", "usb", "local"}
  /\ HsMaxRequests \in Nat /\ HsMaxPlugs \in Nat

HsTs == HsUsb \cup HsTcp
HsNone == "none"
\* A pointer to a transport that was deleted before it was taken offline.
HsStale == "stale"
HsRefs == HsTs \cup {HsNone, HsStale}

VARIABLES
  hsT,        \* the transports
  hsL,        \* listener_list: what each listener connects to, its transport
  hsD,        \* disconnects_ of each transport: names of their listeners
  hsC,        \* the clients' sockets and what they have been sent
  hsW,        \* the service thread behind a client
  hsTrackers, \* device_tracker_list: for each client that is on it the number
              \* of its request, or 0; the newest tracker comes first
  hsSent,     \* requests sent so far
  hsPlugs     \* transports registered so far

hsVars == <<hsT, hsL, hsD, hsC, hsW, hsTrackers, hsSent, hsPlugs>>

HsStates == {"offline", "unauthorized", "device", "recovery", "noperm"}
HsLists == SUBSET (HsTs \X HsStates)

HostServerTypeOK ==
  /\ hsT \in [HsTs -> [st : {"none", "pending", "listed"},
                       cs : HsStates, kicked : BOOLEAN,
                       down : BOOLEAN]]
  /\ hsL \in [HsNames -> [to : {HsNone, "smart", "remote"}, t : HsRefs]]
  /\ hsD \in [HsTs -> SUBSET HsNames]
  /\ hsC \in [HsClients -> [st : {"none", "smart", "remote", "open", "service", "track"},
                            via : HsRefs,
                            got : {HsNone, "OKAY", "FAIL", "due"}, seen : HsLists,
                            hung : BOOLEAN]]
  /\ hsW \in [HsClients -> [pc : {"none", "poll", "read", "connect"},
                            t : HsTs \cup {HsNone}, tgt : HsTargets \cup {"any"},
                            want : {"device", "any"}]]
  /\ hsTrackers \in [HsClients -> 0..HsMaxRequests]
  /\ hsSent \in 0..HsMaxRequests /\ hsPlugs \in 0..HsMaxPlugs

\* got: the last status sent; "due" while a request is taken up and not yet
\* answered.  seen: the last list sent to a tracker.
HsFresh == [st |-> "none", via |-> HsNone, got |-> HsNone, seen |-> {}, hung |-> FALSE]
HsIdleThread == [pc |-> "none", t |-> HsNone, tgt |-> "any", want |-> "any"]

HostServerInit ==
  /\ hsT = [t \in HsTs |-> [st |-> "none", cs |-> "offline", kicked |-> FALSE,
                            down |-> FALSE]]
  /\ hsL = [n \in HsNames |-> [to |-> IF n = HsSmart THEN "smart" ELSE HsNone, t |-> HsNone]]
  /\ hsD = [t \in HsTs |-> {}]
  /\ hsC = [c \in HsClients |-> HsFresh]
  /\ hsW = [c \in HsClients |-> HsIdleThread]
  /\ hsTrackers = [c \in HsClients |-> 0]
  /\ hsSent = 0 /\ hsPlugs = 0

-----------------------------------------------------------------------------
(* The transports as clients see them *)

\* list_transports
HsList(T) == {<<t, T[t].cs>> : t \in {u \in HsTs : T[u].st = "listed"}}

\* The transports a request may mean; those without permissions are skipped.
HsMatches(tgt) ==
  {t \in HsTs : /\ hsT[t].st = "listed" /\ hsT[t].cs # "noperm"
                /\ \/ tgt = "any" \/ tgt = t
                   \/ tgt = "usb" /\ t \in HsUsb
                   \/ tgt = "local" /\ t \in HsTcp}

HsOnline == {"device", "recovery"}

\* Mutant: a request that matches nothing is taken at its word.
HsAcquired_Unchecked(tgt, anyState) ==
  LET m == HsMatches(tgt)
  IN IF Cardinality(m) = 1 THEN CHOOSE t \in m : TRUE ELSE tgt

\* acquire_one_transport: the one that matches, if its state is good enough.
HsAcquired(tgt, anyState) ==
  LET m == HsMatches(tgt)
  IN IF Cardinality(m) = 1 /\ (anyState \/ \A t \in m : hsT[t].cs \in HsOnline)
     THEN CHOOSE t \in m : TRUE ELSE HsNone

HsAcquire(tgt) == HsAcquired(tgt, FALSE)

\* kick_transport, close_usb_devices, kick_all_tcp_devices
HsKicked(ts) == [t \in HsTs |->
  IF t \in ts /\ hsT[t].st = "listed" THEN [hsT[t] EXCEPT !.kicked = TRUE] ELSE hsT[t]]

\* Mutant: the walk over the trackers ends at the first one that is closed.
HsWalk_Stops ==
  {c \in HsClients : /\ hsTrackers[c] # 0
                     /\ \A d \in HsClients : hsC[d].hung => hsTrackers[d] <= hsTrackers[c]}

\* update_transports reads the next tracker before it sends to one.
HsWalk == {c \in HsClients : hsTrackers[c] # 0}

\* A client's socket when it has been closed.
HsOver(status) == [HsFresh EXCEPT !.got = status]

\* update_transports with the transports T and the clients C: a tracker
\* whose client has hung up is closed by the send.
HsUpdate(T, C) ==
  /\ hsT' = T
  /\ hsC' = [c \in HsClients |->
       IF c \notin HsWalk THEN C[c]
       ELSE IF C[c].hung THEN HsOver(C[c].got)
       ELSE [C[c] EXCEPT !.seen = HsList(T)]]
  /\ hsTrackers' = [c \in HsClients |-> IF c \in HsWalk /\ hsC[c].hung THEN 0 ELSE hsTrackers[c]]

-----------------------------------------------------------------------------
(* Transport events *)

\* register_usb_transport, register_socket_transport
HsRegister(t) ==
  /\ hsT[t].st = "none" /\ hsPlugs < HsMaxPlugs
  /\ hsPlugs' = hsPlugs + 1
  /\ \E cs \in {"offline"} \cup (IF t \in HsUsb THEN {"noperm"} ELSE {}) :
       hsT' = [hsT EXCEPT ![t] = [st |-> "pending", cs |-> cs, kicked |-> FALSE,
                                  down |-> FALSE]]
  /\ UNCHANGED <<hsL, hsD, hsC, hsW, hsTrackers, hsSent>>

\* transport_registration_func
HsAdd(t) ==
  /\ hsT[t].st = "pending"
  /\ HsUpdate([hsT EXCEPT ![t].st = "listed"], hsC)
  /\ UNCHANGED <<hsL, hsD, hsW, hsSent, hsPlugs>>

\* handle_packet, A_AUTH: no key is accepted; the trackers are not told.
HsUnauthorized(t) ==
  /\ hsT[t].st = "listed" /\ hsT[t].cs = "offline" /\ ~hsT[t].down
  /\ hsT' = [hsT EXCEPT ![t].cs = "unauthorized"]
  /\ UNCHANGED <<hsL, hsD, hsC, hsW, hsTrackers, hsSent, hsPlugs>>

\* Mutant: the sockets are closed without their own close function.
HsClosed_Silent(c, t) == IF hsC[c].via # t THEN hsC[c] ELSE HsOver(hsC[c].got)

\* close_all_sockets: a client's socket goes with its transport or with the
\* one of its smart socket; local_socket_close_notify sends FAIL.
HsClosed(c, t) ==
  IF hsC[c].via # t THEN hsC[c]
  ELSE HsOver(IF hsC[c].st = "remote" THEN "FAIL" ELSE hsC[c].got)

\* listener_disconnect, which deletes the listener.
HsDropped(t) == [n \in HsNames |->
  IF n \in hsD[t] /\ hsL[n].to # HsNone THEN [to |-> HsNone, t |-> HsNone] ELSE hsL[n]]

\* A_CNXN: handle_new_connection; a transport in use goes offline before.
HsConnect(t) ==
  /\ hsT[t].st = "listed" /\ hsT[t].cs # "noperm" /\ ~hsT[t].down
  /\ LET again == hsT[t].cs # "offline"
     IN /\ \E cs \in HsOnline :
             HsUpdate([hsT EXCEPT ![t].cs = cs],
                      [c \in HsClients |-> IF again THEN HsClosed(c, t) ELSE hsC[c]])
        /\ hsL' = IF again THEN HsDropped(t) ELSE hsL
        /\ hsD' = IF again THEN [hsD EXCEPT ![t] = {}] ELSE hsD
  /\ UNCHANGED <<hsW, hsSent, hsPlugs>>

\* SYNC(0,0): the connection broke or was kicked.
HsOffline(t) ==
  /\ hsT[t].st = "listed" /\ hsT[t].cs # "noperm" /\ ~hsT[t].down
  /\ hsT' = [hsT EXCEPT ![t].cs = "offline", ![t].down = TRUE]
  /\ hsC' = [c \in HsClients |-> HsClosed(c, t)]
  /\ hsL' = HsDropped(t)
  /\ hsD' = [hsD EXCEPT ![t] = {}]
  /\ UNCHANGED <<hsW, hsTrackers, hsSent, hsPlugs>>

\* What refers to t when t is deleted: nothing, once it is down; else the
\* references outlive it, and its disconnects_ are freed unrun.
HsLeft(t, ref) == IF ref = t /\ ~hsT[t].down THEN HsStale ELSE ref

\* transport_registration_func: the threads are gone, t is deleted, whether
\* or not the main thread has read SYNC(0,0) before.
HsRemove(t) ==
  /\ hsT[t].st = "listed" /\ hsT[t].cs # "noperm"
  /\ HsUpdate([hsT EXCEPT ![t].st = "none", ![t].kicked = FALSE, ![t].down = FALSE],
              [c \in HsClients |-> [hsC[c] EXCEPT !.via = HsLeft(t, @)]])
  /\ hsL' = [n \in HsNames |-> [hsL[n] EXCEPT !.t = HsLeft(t, @)]]
  /\ hsD' = [hsD EXCEPT ![t] = IF hsT[t].down THEN @ ELSE {}]
  /\ UNCHANGED <<hsW, hsSent, hsPlugs>>

\* unregister_usb_transport, from the thread that watches the bus
HsUnregister(t) ==
  /\ hsT[t].st = "listed" /\ hsT[t].cs = "noperm"
  /\ hsT' = [hsT EXCEPT ![t].st = "none", ![t].cs = "offline"]
  /\ UNCHANGED <<hsL, hsD, hsC, hsW, hsTrackers, hsSent, hsPlugs>>

-----------------------------------------------------------------------------
(* A client *)

\* ss_listener_event_func, connect_to_smartsocket
HsAccept(c) ==
  /\ hsC[c].st = "none" /\ hsW[c].pc = "none"
  /\ \E n \in HsNames : hsL[n].to = "smart"
  /\ hsSent < HsMaxRequests
  /\ hsC' = [hsC EXCEPT ![c] = [HsFresh EXCEPT !.st = "smart"]]
  /\ UNCHANGED <<hsT, hsL, hsD, hsW, hsTrackers, hsSent, hsPlugs>>

\* listener_event_func: a connection to a forwarded name has no status.
HsAcceptForward(c, n) ==
  /\ hsC[c].st = "none" /\ hsW[c].pc = "none"
  /\ hsL[n].to = "remote"
  /\ hsSent < HsMaxRequests
  /\ hsSent' = hsSent + 1
  /\ hsC' = [hsC EXCEPT ![c] = [HsFresh EXCEPT !.st = "open", !.via = hsL[n].t]]
  /\ UNCHANGED <<hsT, hsL, hsD, hsW, hsTrackers, hsPlugs>>

\* The client's end is closed; the main thread notices in HsGone.
HsHangUp(c) ==
  /\ hsC[c].st # "none" /\ ~hsC[c].hung
  /\ hsC' = [hsC EXCEPT ![c].hung = TRUE]
  /\ UNCHANGED <<hsT, hsL, hsD, hsW, hsTrackers, hsSent, hsPlugs>>

\* local_socket_close and what is on its other side: the smart socket, the
\* tracker or the end of a service thread's socket pair.
HsGone(c) ==
  /\ hsC[c].hung
  /\ hsC' = [hsC EXCEPT ![c] = HsOver(HsNone)]
  /\ hsTrackers' = [hsTrackers EXCEPT ![c] = 0]
  /\ UNCHANGED <<hsT, hsL, hsD, hsW, hsSent, hsPlugs>>

-----------------------------------------------------------------------------
(* smart_socket_enqueue, handle_host_request: a complete request arrives.  *)

HsAsks(c) ==
  /\ hsC[c].st = "smart" /\ ~hsC[c].hung
  /\ hsSent < HsMaxRequests
  /\ hsSent' = hsSent + 1

\* The status is sent and the client's socket closed.
HsReply(c, status) == hsC' = [hsC EXCEPT ![c] = HsOver(status)]

\* A size that makes no sense has no answer, nor has host:emulator
\* (local_connect); an unknown or malformed request fails; version,
\* devices, host-features and list-forward are answered at once.
HsSimple(c) ==
  /\ HsAsks(c)
  /\ \E status \in {HsNone, "OKAY", "FAIL"} : HsReply(c, status)
  /\ UNCHANGED <<hsT, hsL, hsD, hsW, hsTrackers, hsPlugs>>

\* get-serialno, get-devpath, get-state, features.  All but the last return
\* what SendFail returns, so their FAIL is followed by that of an unknown
\* service.
HsAskState(c, tgt) ==
  /\ HsAsks(c)
  /\ HsReply(c, IF HsAcquire(tgt) # HsNone THEN "OKAY" ELSE "FAIL")
  /\ UNCHANGED <<hsT, hsL, hsD, hsW, hsTrackers, hsPlugs>>

\* transport: the smart socket keeps the transport and stays, even after FAIL.
HsTransport(c, tgt) ==
  /\ HsAsks(c)
  /\ LET t == HsAcquire(tgt)
     IN hsC' = [hsC EXCEPT ![c].got = IF t = HsNone THEN "FAIL" ELSE "OKAY",
                           ![c].via = IF t = HsNone THEN @ ELSE t]
  /\ UNCHANGED <<hsT, hsL, hsD, hsW, hsTrackers, hsPlugs>>

\* disconnect: of one TCP device
HsDisconnect(c, tgt) ==
  /\ HsAsks(c)
  /\ LET ts == {t \in HsTcp : t = tgt /\ hsT[t].st = "listed"}
     IN hsT' = HsKicked(ts) /\ HsReply(c, IF ts = {} THEN "FAIL" ELSE "OKAY")
  /\ UNCHANGED <<hsL, hsD, hsW, hsTrackers, hsPlugs>>

\* disconnect: of all TCP devices; reconnect, in any state; reconnect-offline
HsReconnect(c, tgt) ==
  /\ HsAsks(c)
  /\ \E ts \in {HsTcp, {HsAcquired(tgt, TRUE)},
                {t \in HsTs : hsT[t].cs \in {"offline", "unauthorized"}}} :
       hsT' = HsKicked(ts)
  /\ HsReply(c, "OKAY")
  /\ UNCHANGED <<hsL, hsD, hsW, hsTrackers, hsPlugs>>

\* Mutant: a listener that is bound again keeps its old callback.
HsBound_Twice(n, t) == [hsD EXCEPT ![t] = @ \cup {n}]

\* install_listener: the callback moves with the listener.
HsBound(n, t) == [u \in HsTs |-> IF u = t THEN hsD[u] \cup {n} ELSE hsD[u] \ {n}]

\* forward: a name that is new may fail to bind; "norebind" refuses another.
HsForward(c, tgt, n) ==
  /\ HsAsks(c)
  /\ LET t == HsAcquire(tgt)
     IN \/ /\ t # HsNone /\ hsL[n].to # "smart"
           /\ hsL' = [hsL EXCEPT ![n] = [to |-> "remote", t |-> t]]
           /\ hsD' = HsBound(n, t)
           /\ HsReply(c, "OKAY")
        \/ HsReply(c, "FAIL") /\ UNCHANGED <<hsL, hsD>>
  /\ UNCHANGED <<hsT, hsW, hsTrackers, hsPlugs>>

\* ~alistener takes the callback away.
HsErase(ns) ==
  /\ hsL' = [n \in HsNames |-> IF n \in ns THEN [to |-> HsNone, t |-> HsNone] ELSE hsL[n]]
  /\ hsD' = [t \in HsTs |-> hsD[t] \ ns]

\* killforward: needs a transport, but any, and takes whatever has the name.
HsKillForward(c, tgt, n) ==
  /\ HsAsks(c)
  /\ LET found == HsAcquire(tgt) # HsNone /\ hsL[n].to # HsNone
     IN /\ HsErase(IF found THEN {n} ELSE {})
        /\ HsReply(c, IF found THEN "OKAY" ELSE "FAIL")
  /\ UNCHANGED <<hsT, hsW, hsTrackers, hsPlugs>>

\* killforward-all never removes the smart socket.
HsKillForwardAll(c) ==
  /\ HsAsks(c)
  /\ HsErase({n \in HsNames : hsL[n].to = "remote"})
  /\ HsReply(c, "OKAY")
  /\ UNCHANGED <<hsT, hsW, hsTrackers, hsPlugs>>

\* The states a smart socket may read of the transport it keeps: any, if
\* that has been deleted; to have none is as bad as one that is offline.
HsStateOf(ref) == IF ref \in HsTs THEN {hsT[ref].cs}
                  ELSE IF ref = HsStale THEN HsStates ELSE {"offline"}

\* A service of the device: connect_to_remote, and the client's socket waits
\* with local_socket_ready_notify and local_socket_close_notify.
HsService(c) ==
  /\ HsAsks(c)
  /\ \E cs \in HsStateOf(hsC[c].via) :
       IF cs = "offline" THEN HsReply(c, "FAIL")
       ELSE hsC' = [hsC EXCEPT ![c].st = "remote", ![c].got = "due"]
  /\ UNCHANGED <<hsT, hsL, hsD, hsW, hsTrackers, hsPlugs>>

\* The device opens the stream, refuses it or closes it later; nothing more
\* comes from one whose transport is deleted.
HsRemote(c) ==
  /\ hsC[c].st \in {"remote", "open"} /\ hsC[c].via # HsStale
  /\ \/ /\ hsC[c].st = "remote"
        /\ hsC' = [hsC EXCEPT ![c].st = "open", ![c].got = "OKAY"]
     \/ HsReply(c, IF hsC[c].st = "remote" THEN "FAIL" ELSE hsC[c].got)
  /\ UNCHANGED <<hsT, hsL, hsD, hsW, hsTrackers, hsSent, hsPlugs>>

\* create_device_tracker; its ready function sends the first list.
HsTrack(c) ==
  /\ HsAsks(c)
  /\ hsC' = [hsC EXCEPT ![c] = [HsFresh EXCEPT !.st = "track", !.got = "OKAY",
                                               !.seen = HsList(hsT)]]
  /\ hsTrackers' = [hsTrackers EXCEPT ![c] = hsSent']
  /\ UNCHANGED <<hsT, hsL, hsD, hsW, hsPlugs>>

-----------------------------------------------------------------------------
(* wait-for- and connect: create_service_thread *)

HsStartThread(c, pc, tgt, want) ==
  /\ HsAsks(c)
  /\ hsC' = [hsC EXCEPT ![c] = [HsFresh EXCEPT !.st = "service", !.got = "OKAY"]]
  /\ hsW' = [hsW EXCEPT ![c] = [pc |-> pc, t |-> HsNone, tgt |-> tgt, want |-> want]]
  /\ UNCHANGED <<hsT, hsL, hsD, hsTrackers, hsPlugs>>

\* The thread sends a status, if the client still listens, and ends.
HsEnd(c, status) ==
  /\ hsW' = [hsW EXCEPT ![c] = HsIdleThread]
  /\ hsC' = IF hsC[c].st # "service" THEN hsC ELSE [hsC EXCEPT ![c] = HsOver(status)]

\* Mutant: a client that hung up is noticed only together with a status.
HsHangUpSeen_Not(c) == FALSE

\* POLLHUP on the thread's end of the socket pair.
HsHangUpSeen(c) == hsC[c].st # "service"

\* wait_for_state: the transport is looked up under transport_lock.
HsPoll(c) ==
  /\ hsW[c].pc = "poll"
  /\ LET m == HsMatches(hsW[c].tgt)
     IN CASE Cardinality(m) > 1 -> HsEnd(c, "FAIL")
          [] Cardinality(m) = 1 ->
               /\ hsW' = [hsW EXCEPT ![c].pc = "read", ![c].t = CHOOSE t \in m : TRUE]
               /\ UNCHANGED hsC
          [] OTHER -> HsHangUpSeen(c) /\ HsEnd(c, HsNone)
  /\ UNCHANGED <<hsT, hsL, hsD, hsTrackers, hsSent, hsPlugs>>

\* Its state is read without the lock; what is read of a transport that has
\* been deleted in between may be anything.
HsRead(c) ==
  /\ hsW[c].pc = "read"
  /\ LET t == hsW[c].t
     IN \E cs \in IF hsT[t].st = "listed" THEN {hsT[t].cs} ELSE HsStates :
          IF cs \in HsOnline /\ (hsW[c].want = "any" \/ hsW[c].want = cs)
          THEN HsEnd(c, "OKAY")
          ELSE IF HsHangUpSeen(c) THEN HsEnd(c, HsNone)
          ELSE hsW' = [hsW EXCEPT ![c].pc = "poll", ![c].t = HsNone] /\ UNCHANGED hsC
  /\ UNCHANGED <<hsT, hsL, hsD, hsTrackers, hsSent, hsPlugs>>

\* connect_service: a TCP transport is registered, or not.
HsConnectEnd(c) ==
  /\ hsW[c].pc = "connect"
  /\ \/ UNCHANGED <<hsT, hsPlugs>>
     \/ \E t \in HsTcp :
          /\ hsT[t].st = "none" /\ hsPlugs < HsMaxPlugs
          /\ hsT' = [hsT EXCEPT ![t].st = "pending", ![t].cs = "offline"]
          /\ hsPlugs' = hsPlugs + 1
  /\ HsEnd(c, "OKAY")
  /\ UNCHANGED <<hsL, hsD, hsTrackers, hsSent>>
-----------------------------------------------------------------------------
HsHandle(c) ==
  \/ HsSimple(c) \/ HsKillForwardAll(c) \/ HsService(c) \/ HsTrack(c)
  \/ HsStartThread(c, "connect", "any", "any")
  \/ \E tgt \in HsTargets :
       \/ HsAskState(c, tgt) \/ HsTransport(c, tgt)
       \/ HsDisconnect(c, tgt) \/ HsReconnect(c, tgt)
       \/ \E n \in HsNames : HsForward(c, tgt, n) \/ HsKillForward(c, tgt, n)
       \/ \E want \in {"device", "any"} : HsStartThread(c, "poll", tgt, want)
HsThread(c) == HsPoll(c) \/ HsRead(c) \/ HsConnectEnd(c)
HsEvent(t) == HsAdd(t) \/ HsUnauthorized(t) \/ HsConnect(t) \/ HsOffline(t) \/ HsRemove(t)

HostServerNext ==
  \/ \E t \in HsTs : HsRegister(t) \/ HsEvent(t) \/ HsUnregister(t)
  \/ \E c \in HsClients :
       \/ HsAccept(c) \/ HsHangUp(c) \/ HsGone(c) \/ HsHandle(c) \/ HsRemote(c)
       \/ HsThread(c)
       \/ \E n \in HsNames : HsAcceptForward(c, n)

HostServerSpec == HostServerInit /\ [][HostServerNext]_hsVars

\* The main thread serves every descriptor that has something and every
\* registration message; a service thread runs; a kicked connection breaks,
\* and either message of its end comes first.
HostServerFairness ==
  /\ \A c \in HsClients :
       WF_hsVars(HsGone(c)) /\ WF_hsVars(HsThread(c))
  /\ \A t \in HsTs : /\ WF_hsVars(HsAdd(t)) /\ WF_hsVars(hsT[t].down /\ HsRemove(t))
                     /\ WF_hsVars(hsT[t].kicked /\ (HsOffline(t) \/ HsRemove(t)))

HostServerFairSpec == HostServerSpec /\ HostServerFairness

-----------------------------------------------------------------------------
(* Properties *)

\* Nothing keeps a transport that has gone offline for good or has been
\* deleted: neither a listener nor a client's socket or smart socket; and a
\* listener's callback is with the transport it forwards to, and only there,
\* however often the name was bound again.  The one exception is a transport
\* whose removal overtook SYNC(0,0) (transport_registration_func does not
\* look): what referred to it then stays, and no callback of its listeners
\* is anywhere that would ever take them back.
NoDanglingTransport ==
  /\ \A n \in HsNames : hsL[n].t \in HsTs =>
       hsT[hsL[n].t].st = "listed" /\ ~hsT[hsL[n].t].down
  /\ \A n \in HsNames, t \in HsTs : n \in hsD[t] <=> t = hsL[n].t
  /\ \A c \in HsClients : hsC[c].via \in HsTs =>
       hsT[hsC[c].via].st = "listed" /\ ~hsT[hsC[c].via].down

\* A client whose request was taken up has a status before its socket is
\* closed, also if the device refuses the stream or is lost before it
\* answers; but for a malformed size and host:emulator.
NoSilentClose ==
  \A c \in HsClients : hsC[c].st = "none" => hsC[c].got # "due"

\* Every tracker knows which accessible devices are on the list, also one
\* behind a tracker that the same update closed.
TrackersKnowDevices ==
  \A c \in HsClients : hsC[c].st = "track" =>
    \A t \in HsTs : (\E cs \in HsStates \ {"noperm"} : <<t, cs>> \in hsC[c].seen)
                     <=> hsT[t].st = "listed" /\ hsT[t].cs # "noperm"

\* A wait-for thread ends when its client is gone, and when the only device
\* it can mean stays in the state asked for.
WaitersServed ==
  \A c \in HsClients :
    hsW[c].pc \in {"poll", "read"} ~>
      \/ hsW[c].pc = "none"
      \/ /\ hsC[c].st = "service"
         /\ ~\E t \in HsMatches(hsW[c].tgt) :
               hsT[t].cs \in HsOnline /\ hsW[c].want \in {"any", hsT[t].cs}

\* SERVICES.TXT on host:track-devices: "a new device list description is sent
\* each time a device is added/removed or the state of a given device
\* changes".
TrackersInformed ==
  \A c \in HsClients :
    (hsC[c].st = "track" /\ hsC[c].seen # HsList(hsT)) ~>
      (hsC[c].st # "track" \/ hsC[c].seen = HsList(hsT))
=============================================================================
