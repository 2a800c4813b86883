----------------------------- MODULE AdbClient -----------------------------
(***************************************************************************)
(* Clients and server processes on one host (adb_client.cpp, launch_server *)
(* of adb.cpp, client/main.cpp): the version query, the killing of a       *)
(* server of another version, the start of a new one and its               *)
(* acknowledgement over a pipe, while other clients do the same.           *)
(***************************************************************************)
EXTENDS Integers, FiniteSets

CONSTANTS
  AcVersions, \* versions of adb that are installed beside each other
  AcClients,  \* clients, each of one of these versions
  AcServers   \* server processes; 1 may be running at the start

ASSUME AdbClientAssumption ==
  /\ AcServers \subseteq Nat \ {0} /\ 1 \in AcServers
  /\ 0 \notin AcClients /\ AcVersions # {}

VARIABLES
  acS,  \* the server processes
  acC   \* the clients

acVars == <<acS, acC>>

\* st: "exiting" runs adb_server_cleanup, "stuck" never comes out of it; the
\* socket of either still accepts.
\* by: the client that reads the acknowledgement.
AcServer == [st : {"none", "starting", "bound", "exiting", "stuck", "dead"},
             ver : AcVersions, by : AcClients \cup {0}, acked : BOOLEAN]

\* srv: the server whose socket or pipe the client reads; cmd: what it is for;
\* knew: the server it has found to be of its version or has started; served:
\* the one that took its request.
AcClient == [pc : {"query", "version", "kill", "killing", "launch", "ack", "connect",
                   "status", "done", "failed"},
             cmd : {"start-server", "service", "kill-server"}, ver : AcVersions,
             srv : AcServers \cup {0}, knew : AcServers \cup {0},
             served : AcServers \cup {0}]

AdbClientTypeOK == acS \in [AcServers -> AcServer] /\ acC \in [AcClients -> AcClient]

AdbClientInit ==
  /\ \E st \in {"none", "bound"}, ver \in AcVersions :
       acS = [s \in AcServers |->
         [st |-> IF s = 1 THEN st ELSE "none", ver |-> ver, by |-> 0, acked |-> s = 1]]
  /\ acC \in [AcClients -> {[pc |-> IF cmd = "kill-server" THEN "kill" ELSE "query",
                             cmd |-> cmd, ver |-> ver, srv |-> 0, knew |-> 0, served |-> 0] :
                            cmd \in {"start-server", "service", "kill-server"},
                            ver \in AcVersions}]

-----------------------------------------------------------------------------
\* The server that holds the port; a connection to it is accepted by the
\* kernel even if it is about to end.
AcOwners == {s \in AcServers : acS[s].st \in {"bound", "exiting", "stuck"}}

AcGoto(c, pc, s) == acC' = [acC EXCEPT ![c].pc = pc, ![c].srv = s]

\* socket_spec_connect: to the server, or what the client does if there is none
AcDial(c, then, else) ==
  /\ IF AcOwners = {} THEN AcGoto(c, else, 0) ELSE \E s \in AcOwners : AcGoto(c, then, s)
  /\ UNCHANGED acS

\* adb_connect: _adb_connect("host:version")
AcQuery(c) == acC[c].pc = "query" /\ AcDial(c, "version", "launch")

\* Mutant: a server of any version is good enough.
AcMatches_Older(server, client) == TRUE

\* version != ADB_SERVER_VERSION, or a server that does not know the query
AcMatches(server, client) == server = client

\* The client goes on with server s, which it now knows.
AcStarted(c, s) ==
  acC' = [acC EXCEPT ![c].pc = IF acC[c].cmd = "start-server" THEN "done" ELSE "connect",
                     ![c].srv = 0, ![c].knew = s]

\* The answer, or the end of a server that did not answer.
AcVersion(c) ==
  /\ acC[c].pc = "version"
  /\ LET s == acS[acC[c].srv]
     IN \/ /\ s.st = "bound"
           /\ IF AcMatches(s.ver, acC[c].ver) THEN AcStarted(c, acC[c].srv)
              ELSE AcGoto(c, "kill", 0)
        \/ /\ s.st = "dead"
           /\ AcGoto(c, "failed", 0)
  /\ UNCHANGED acS

\* adb_kill_server, which may meet another server than the one it asked
AcKill(c) ==
  /\ acC[c].pc = "kill"
  /\ AcDial(c, "killing", IF acC[c].cmd = "kill-server" THEN "done" ELSE "launch")

\* handle_host_request, "kill"
AcHandleKill(s) ==
  /\ acS[s].st = "bound"
  /\ \E c \in AcClients : acC[c].pc = "killing" /\ acC[c].srv = s
  /\ acS' = [acS EXCEPT ![s].st = "exiting"]
  /\ UNCHANGED acC

\* ReadOrderlyShutdown
AcKilled(c) ==
  /\ acC[c].pc = "killing" /\ acS[acC[c].srv].st = "dead"
  /\ AcGoto(c, IF acC[c].cmd = "kill-server" THEN "done" ELSE "launch", 0)
  /\ UNCHANGED acS

\* launch_server: fork and exec, or fail
AcLaunch(c) ==
  /\ acC[c].pc = "launch"
  /\ \/ \E s \in AcServers :
          /\ acS[s].st = "none" /\ \A r \in AcServers : r < s => acS[r].st # "none" \/ r = 1
          /\ s # 1
          /\ acS' = [acS EXCEPT ![s] = [st |-> "starting", ver |-> acC[c].ver, by |-> c,
                                        acked |-> FALSE]]
          /\ AcGoto(c, "ack", s)
     \/ AcGoto(c, "failed", 0) /\ UNCHANGED acS

\* "OK\n", or the end of the pipe when the server has died
AcAck(c) ==
  /\ acC[c].pc = "ack"
  /\ LET s == acS[acC[c].srv]
     IN \/ s.acked /\ AcStarted(c, acC[c].srv)
        \/ ~s.acked /\ s.st = "dead" /\ AcGoto(c, "failed", 0)
  /\ UNCHANGED acS

\* _adb_connect(service), without another look at the version
AcConnect(c) == acC[c].pc = "connect" /\ AcDial(c, "status", "failed")

AcStatus(c) ==
  /\ acC[c].pc = "status"
  /\ LET s == acS[acC[c].srv]
     IN \/ /\ s.st = "bound"
           /\ acC' = [acC EXCEPT ![c].pc = "done", ![c].srv = 0, ![c].served = acC[c].srv]
        \/ /\ s.st = "dead"
           /\ AcGoto(c, "failed", 0)
  /\ UNCHANGED acS

\* Ctrl-C
AcInterrupt(c) ==
  /\ acC[c].pc \notin {"done", "failed"}
  /\ AcGoto(c, "failed", 0)
  /\ UNCHANGED acS

-----------------------------------------------------------------------------
(* adb_server_main *)

AcBind(s) ==
  /\ acS[s].st = "starting" /\ AcOwners = {}
  /\ acS' = [acS EXCEPT ![s].st = "bound"]
  /\ UNCHANGED acC

\* Mutant: install_listener is retried for ever.
AcGiveUp_Never(s) == FALSE /\ UNCHANGED acVars

\* The port is still taken after 0.5 s.
AcGiveUp(s) ==
  /\ acS[s].st = "starting" /\ AcOwners # {}
  /\ acS' = [acS EXCEPT ![s].st = "dead"]
  /\ UNCHANGED acC

\* notify_thread, when all devices are there or after 3 s, also while the main
\* thread exits: the write kills the server if its client has been interrupted.
AcNotify(s) ==
  /\ s \in AcOwners /\ ~acS[s].acked
  /\ acS' = IF acC[acS[s].by].srv = s /\ acC[acS[s].by].pc = "ack"
            THEN [acS EXCEPT ![s].acked = TRUE] ELSE [acS EXCEPT ![s].st = "dead"]
  /\ UNCHANGED acC

\* adb_server_cleanup: close_smartsockets has found no listener of the name
\* it looks for, so the port is free only when the process ends.  It does not
\* if a USB device is on the list that cannot be opened: kick_all_transports
\* then waits, in usb_kick, for the transport_lock it holds.
AcExit(s) ==
  /\ acS[s].st = "exiting"
  /\ \E st \in {"dead", "stuck"} : acS' = [acS EXCEPT ![s].st = st]
  /\ UNCHANGED acC

-----------------------------------------------------------------------------
AcClientStep(c) ==
  AcQuery(c) \/ AcVersion(c) \/ AcKill(c) \/ AcKilled(c) \/ AcLaunch(c) \/ AcAck(c)
  \/ AcConnect(c) \/ AcStatus(c)
AcServerStep(s) == AcHandleKill(s) \/ AcBind(s) \/ AcGiveUp(s) \/ AcNotify(s) \/ AcExit(s)

AdbClientNext ==
  \/ \E c \in AcClients : AcClientStep(c) \/ AcInterrupt(c)
  \/ \E s \in AcServers : AcServerStep(s)

AdbClientSpec == AdbClientInit /\ [][AdbClientNext]_acVars

\* Processes run; an exit ends or is stuck for good.
AdbClientFairness ==
  /\ \A c \in AcClients : WF_acVars(AcClientStep(c))
  /\ \A s \in AcServers : WF_acVars(AcServerStep(s))

AdbClientFairSpec == AdbClientSpec /\ AdbClientFairness

-----------------------------------------------------------------------------
(* Properties *)

\* Whichever clients of whichever versions kill and start servers between a
\* client's query and its request, the request goes to the server whose
\* version the client has checked, or that it has started itself, unless that
\* one has ended.  Only then may it meet another version, for nothing looks at
\* the version again: a server that a client of that version has started since,
\* never one that was there before.
ServedByOwnVersion ==
  \A c \in AcClients : acC[c].served # 0 =>
    LET own == acS[acC[c].knew]  by == acS[acC[c].served]
    IN /\ own.ver = acC[c].ver
       /\ acC[c].served = acC[c].knew \/ own.st = "dead"
       /\ by.ver # acC[c].ver => \E d \in AcClients : by.by = d /\ by.ver = acC[d].ver

\* The client waits for a server that is stuck in its exit.
AcHeldUp(c) ==
  acC[c].pc \in {"version", "killing", "status"} /\ acS[acC[c].srv].st = "stuck"

\* Every client ends: neither the pipe nor a socket of a server that another
\* client has killed, or that finds the port taken, holds it up, but for a
\* server that never ends its exit: ReadOrderlyShutdown and adb_status wait for
\* that one for ever.
ClientsEnd ==
  <>(\A c \in AcClients : acC[c].pc \in {"done", "failed"} \/ AcHeldUp(c))
=============================================================================
