--------------------------- MODULE LocalTransport ---------------------------
(***************************************************************************)
(* Emulators of the adb server (transport_local.cpp, with                  *)
(* register_socket_transport of transport.cpp and connect_emulator of      *)
(* services.cpp): the slots of local_transports, the thread that scans the *)
(* ports once and then retries those whose connection was closed, and a    *)
(* client's "adb connect emu:" on a thread of its own.  The three places   *)
(* that guard against a second connection to the same port take different  *)
(* locks, and other threads step in between.                               *)
(*                                                                         *)
(* A port stands for an emulator's adb port, its console port and the      *)
(* serial number made from it.                                             *)
(***************************************************************************)
EXTENDS Integers, Sequences, SequencesExt, FiniteSets

CONSTANTS
  LtPorts,     \* emulator ports
  LtObjects,   \* addresses of atransport objects, numbers from 1
  LtSlots,     \* ADB_LOCAL_TRANSPORT_MAX
  LtRetries,   \* LOCAL_PORT_RETRY_COUNT
  LtMaxKicks,  \* bound on connections that are lost or kicked
  LtMaxAsks    \* bound on the clients that ask for a connection

ASSUME LocalTransportAssumption ==
  /\ LtPorts # {} /\ IsFiniteSet(LtPorts)
  /\ LtObjects \subseteq Nat \ {0}
  /\ LtSlots \in Nat \ {0} /\ LtRetries \in Nat \ {0}
  /\ LtMaxKicks \in Nat /\ LtMaxAsks \in Nat

VARIABLES
  ltUp,     \* ports an emulator listens on
  ltT,      \* the atransport objects
  ltSlot,   \* local_transports; 0 is NULL
  ltRetry,  \* retry_ports
  ltThr,    \* client_socket_thread: step, its vectors ports and next_ports
  ltConn,   \* each thread inside local_connect: step, port, its object
  ltGaveUp, \* ports that client_socket_thread stopped retrying
  ltKicks,  \* connections lost or kicked so far
  ltAsks    \* clients that asked so far

ltVars == <<ltUp, ltT, ltSlot, ltRetry, ltThr, ltConn, ltGaveUp, ltKicks, ltAsks>>

\* The thread of the port scan and retries, and a connect_service thread.
LtThreads == {"client", "service"}

LtRetryPort == [port : LtPorts, count : 1..LtRetries]

LocalTransportTypeOK ==
  /\ ltUp \subseteq LtPorts
  /\ ltT \in [LtObjects -> [st : {"none", "init", "pending", "listed", "closed"},
                            port : LtPorts, kicked : BOOLEAN]]
  /\ ltSlot \in [1..LtSlots -> LtObjects \cup {0}]
  /\ ltRetry \in Seq(LtRetryPort)
  /\ ltThr \in [pc : {"collect", "retry"}, ports : Seq(LtRetryPort), next : Seq(LtRetryPort)]
  /\ ltConn \in [LtThreads -> [pc : {"idle", "dial", "slot", "list", "ok", "fail"},
                               port : LtPorts, t : LtObjects \cup {0}]]
  /\ ltGaveUp \subseteq LtPorts
  /\ ltKicks \in 0..LtMaxKicks /\ ltAsks \in 0..LtMaxAsks

\* PollAllLocalPortsForEmulator tries every port once.
LocalTransportInit ==
  /\ ltUp \in SUBSET LtPorts
  /\ LET p == CHOOSE q \in LtPorts : TRUE
     IN /\ ltT = [t \in LtObjects |-> [st |-> "none", port |-> p, kicked |-> FALSE]]
        /\ ltConn = [c \in LtThreads |-> [pc |-> "idle", port |-> p, t |-> 0]]
  /\ ltSlot = [i \in 1..LtSlots |-> 0]
  /\ ltRetry = <<>>
  /\ ltThr = [pc |-> "retry", next |-> <<>>,
              ports |-> SetToSeq({[port |-> p, count |-> 1] : p \in LtPorts})]
  /\ ltGaveUp = {}
  /\ ltKicks = 0 /\ ltAsks = 0

-----------------------------------------------------------------------------
(* The checks *)

\* On transport_list: until the main thread removes it.
LtListed(t) == ltT[t].st \in {"listed", "closed"}

\* find_emulator_transport_by_adb_port: reads the objects the slots point
\* to.  What it reads of one that was deleted may be anything.
LtFound(p) ==
  LET hits == {i \in 1..LtSlots : ltSlot[i] # 0 /\ ltT[ltSlot[i]].port = p}
      live == {i \in hits : ltT[ltSlot[i]].st # "none"}
  IN IF live # {} THEN {TRUE} ELSE IF hits # {} THEN BOOLEAN ELSE {FALSE}

LtGoto(c, pc) == ltConn' = [ltConn EXCEPT ![c].pc = pc]

\* local_connect_arbitrary_ports: neither a slot nor a listed transport.
LtCheck(c, p) ==
  \E found \in LtFound(p) :
    ltConn' = [ltConn EXCEPT ![c] =
      [pc |-> IF found \/ \E t \in LtObjects : LtListed(t) /\ ltT[t].port = p
              THEN "fail" ELSE "dial",
       port |-> p, t |-> 0]]

\* network_loopback_client
LtDial(c) ==
  /\ ltConn[c].pc = "dial"
  /\ LtGoto(c, IF ltConn[c].port \in ltUp THEN "slot" ELSE "fail")
  /\ UNCHANGED <<ltUp, ltT, ltSlot, ltRetry, ltThr, ltGaveUp, ltKicks, ltAsks>>

\* init_socket_transport, under local_transports_lock.  The memory of an
\* object still in a slot is taken not to be allocated again.
LtTakeSlot(c) ==
  /\ ltConn[c].pc = "slot"
  /\ LET p == ltConn[c].port
         free == {i \in 1..LtSlots : ltSlot[i] = 0}
     IN \E found \in LtFound(p) :
          IF found \/ free = {}
          THEN LtGoto(c, "fail") /\ UNCHANGED <<ltT, ltSlot>>
          ELSE \E t \in LtObjects :
                 /\ ltT[t].st = "none" /\ \A i \in 1..LtSlots : ltSlot[i] # t
                 /\ \A u \in LtObjects : u < t => ltT[u].st # "none"
                                                  \/ \E i \in 1..LtSlots : ltSlot[i] = u
                 /\ ltT' = [ltT EXCEPT ![t] = [st |-> "init", port |-> p, kicked |-> FALSE]]
                 /\ ltSlot' = [ltSlot EXCEPT ![CHOOSE i \in free : \A j \in free : i <= j] = t]
                 /\ ltConn' = [ltConn EXCEPT ![c].pc = "list", ![c].t = t]
  /\ UNCHANGED <<ltUp, ltRetry, ltThr, ltGaveUp, ltKicks, ltAsks>>

\* Mutant: only pending_list is searched.
LtTaken_Pending(p) == \E t \in LtObjects : ltT[t].port = p /\ ltT[t].st = "pending"

\* register_socket_transport: pending_list and transport_list.
LtTaken(p) ==
  \E t \in LtObjects : ltT[t].port = p /\ (ltT[t].st = "pending" \/ LtListed(t))

\* register_socket_transport, under transport_lock: a serial that is taken
\* makes it delete the object, whose slot is not cleared.
LtRegister(c) ==
  /\ ltConn[c].pc = "list"
  /\ LET t == ltConn[c].t
         taken == LtTaken(ltConn[c].port)
     IN /\ ltT' = [ltT EXCEPT ![t].st = IF taken THEN "none" ELSE "pending"]
        /\ ltConn' = [ltConn EXCEPT ![c].pc = IF taken THEN "fail" ELSE "ok", ![c].t = 0]
  /\ UNCHANGED <<ltUp, ltSlot, ltRetry, ltThr, ltGaveUp, ltKicks, ltAsks>>

-----------------------------------------------------------------------------
(* client_socket_thread *)

LtCollect ==
  /\ ltThr.pc = "collect" /\ ltRetry # <<>>
  /\ ltThr' = [pc |-> "retry", ports |-> ltRetry, next |-> <<>>]
  /\ ltRetry' = <<>>
  /\ UNCHANGED <<ltUp, ltT, ltSlot, ltConn, ltGaveUp, ltKicks, ltAsks>>

LtTry ==
  /\ ltThr.pc = "retry" /\ ltThr.ports # <<>>
  /\ ltConn["client"].pc = "idle"
  /\ LtCheck("client", Head(ltThr.ports).port)
  /\ UNCHANGED <<ltUp, ltT, ltSlot, ltRetry, ltThr, ltGaveUp, ltKicks, ltAsks>>

\* After local_connect: done, once more, or stop.
LtTried ==
  /\ ltConn["client"].pc \in {"ok", "fail"}
  /\ LET r == Head(ltThr.ports)
         again == ltConn["client"].pc = "fail" /\ r.count > 1
     IN /\ ltThr' = [ltThr EXCEPT !.ports = Tail(@),
             !.next = IF again THEN Append(@, [r EXCEPT !.count = r.count - 1]) ELSE @]
        /\ ltGaveUp' = IF ltConn["client"].pc = "fail" /\ ~again
                       THEN ltGaveUp \cup {r.port} ELSE ltGaveUp
  /\ LtGoto("client", "idle")
  /\ UNCHANGED <<ltUp, ltT, ltSlot, ltRetry, ltKicks, ltAsks>>

\* Mutant: the ports left over replace those that came in meanwhile.
LtCopiedBack_Replace == ltThr.next

LtCopiedBack == ltRetry \o ltThr.next

LtCopyBack ==
  /\ ltThr.pc = "retry" /\ ltThr.ports = <<>>
  /\ ltConn["client"].pc = "idle"
  /\ ltRetry' = LtCopiedBack
  /\ ltThr' = [ltThr EXCEPT !.pc = "collect", !.next = <<>>]
  /\ UNCHANGED <<ltUp, ltT, ltSlot, ltConn, ltGaveUp, ltKicks, ltAsks>>

-----------------------------------------------------------------------------
(* adb connect emu: and "host:emulator:" *)

\* connect_emulator first asks for the port and for a slot; local_connect of
\* an emulator that reports itself does not.
LtAsk(p) ==
  /\ ltAsks < LtMaxAsks /\ ltConn["service"].pc = "idle"
  /\ ltAsks' = ltAsks + 1
  /\ \/ LtCheck("service", p)
     \/ /\ TRUE \in LtFound(p) \/ \A i \in 1..LtSlots : ltSlot[i] # 0
        /\ UNCHANGED ltConn
  /\ UNCHANGED <<ltUp, ltT, ltSlot, ltRetry, ltThr, ltGaveUp, ltKicks>>

LtAnswer ==
  /\ ltConn["service"].pc \in {"ok", "fail"}
  /\ LtGoto("service", "idle")
  /\ UNCHANGED <<ltUp, ltT, ltSlot, ltRetry, ltThr, ltGaveUp, ltKicks, ltAsks>>

-----------------------------------------------------------------------------
(* The rest of a transport's life *)

\* transport_registration_func
LtList(t) ==
  /\ ltT[t].st = "pending"
  /\ ltT' = [ltT EXCEPT ![t].st = "listed"]
  /\ UNCHANGED <<ltUp, ltSlot, ltRetry, ltThr, ltConn, ltGaveUp, ltKicks, ltAsks>>

\* remote_kick empties the slot.
LtKicked(t) == [i \in 1..LtSlots |-> IF ltSlot[i] = t THEN 0 ELSE ltSlot[i]]

\* The connection breaks or someone disconnects it.
LtKick(t) ==
  /\ ltT[t].st = "listed" /\ ~ltT[t].kicked
  /\ ltKicks < LtMaxKicks
  /\ ltKicks' = ltKicks + 1
  /\ ltT' = [ltT EXCEPT ![t].kicked = TRUE]
  /\ ltSlot' = LtKicked(t)
  /\ UNCHANGED <<ltUp, ltRetry, ltThr, ltConn, ltGaveUp, ltAsks>>

\* Its threads end and the second calls remote_close.
LtClose(t) ==
  /\ ltT[t].st = "listed" /\ ltT[t].kicked
  /\ ltT' = [ltT EXCEPT ![t].st = "closed"]
  /\ ltRetry' = Append(ltRetry, [port |-> ltT[t].port, count |-> LtRetries])
  /\ ltGaveUp' = ltGaveUp \ {ltT[t].port}
  /\ UNCHANGED <<ltUp, ltSlot, ltThr, ltConn, ltKicks, ltAsks>>

\* The main thread takes it off transport_list and deletes it.
LtDelete(t) ==
  /\ ltT[t].st = "closed"
  /\ ltT' = [ltT EXCEPT ![t].st = "none", ![t].kicked = FALSE]
  /\ UNCHANGED <<ltUp, ltSlot, ltRetry, ltThr, ltConn, ltGaveUp, ltKicks, ltAsks>>

\* An emulator starts or ends.
LtSwitch(p) ==
  /\ ltUp' = IF p \in ltUp THEN ltUp \ {p} ELSE ltUp \cup {p}
  /\ UNCHANGED <<ltT, ltSlot, ltRetry, ltThr, ltConn, ltGaveUp, ltKicks, ltAsks>>

-----------------------------------------------------------------------------
LtConnecting(c) == LtDial(c) \/ LtTakeSlot(c) \/ LtRegister(c)
LtClient == LtCollect \/ LtTry \/ LtTried \/ LtCopyBack \/ LtConnecting("client")
LtService == LtAnswer \/ LtConnecting("service")
LtLife == \E t \in LtObjects : LtList(t) \/ LtClose(t) \/ LtDelete(t)

LocalTransportNext ==
  \/ LtClient \/ LtService \/ LtLife
  \/ \E t \in LtObjects : LtKick(t)
  \/ \E p \in LtPorts : LtSwitch(p) \/ LtAsk(p)

LocalTransportSpec == LocalTransportInit /\ [][LocalTransportNext]_ltVars

\* The threads run, and so does the main thread.
LocalTransportFairness == WF_ltVars(LtClient) /\ WF_ltVars(LtService) /\ WF_ltVars(LtLife)

LocalTransportFairSpec == LocalTransportSpec /\ LocalTransportFairness

-----------------------------------------------------------------------------
(* Properties *)

\* No two transports with the serial of one emulator are registered at a
\* time, whichever threads connect to it while an earlier one is torn down;
\* and a kicked transport has no slot.
OneTransportPerEmulator ==
  \A t, u \in LtObjects :
    /\ (ltT[t].st \in {"pending", "listed", "closed"} /\ t # u
        /\ ltT[u].st \in {"pending", "listed", "closed"})
         => ltT[t].port # ltT[u].port
    /\ ltT[t].kicked => \A i \in 1..LtSlots : ltSlot[i] # t

\* An emulator whose connection was closed is connected again, by whichever
\* thread, or client_socket_thread has retried it to the end: no retry is
\* lost while the thread works on its own copy of the ports.
LostEmulatorRetried ==
  \A p \in LtPorts :
    (\E t \in LtObjects : ltT[t].st = "closed" /\ ltT[t].port = p) ~>
      \/ p \in ltGaveUp
      \/ \E t \in LtObjects : ltT[t].st = "listed" /\ ltT[t].port = p
=============================================================================
