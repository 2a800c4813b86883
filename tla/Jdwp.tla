-------------------------------- MODULE Jdwp --------------------------------
(***************************************************************************)
(* The JDWP service of adbd (jdwp_service.cpp): Java processes announce    *)
(* themselves on the control socket, trackers follow the list of them, and *)
(* a debugger's stream is handed to a process as one end of a socket pair. *)
(* All of it runs on the main thread; other threads of adbd open and close *)
(* descriptors at any time, and the kernel gives the lowest free number to *)
(* whoever asks next.                                                      *)
(***************************************************************************)
EXTENDS Integers, Sequences, FiniteSets, SequencesExt

CONSTANTS
  JdVms,       \* Java processes, each of which runs once
  JdTrackers,  \* track-jdwp and jdwp streams
  JdDebuggers, \* jdwp:<pid> streams
  JdNumbers,   \* descriptor numbers
  JdFits,      \* pids that fit in the buffer of jdwp_process_list_updated
  JdPacketFits \* pids that fit in a packet (get_max_payload)

ASSUME JdwpAssumption ==
  /\ JdFits \in Nat /\ JdPacketFits \in Nat /\ JdFits <= JdPacketFits
  /\ JdNumbers \subseteq Nat \ {0}
  /\ "other" \notin JdDebuggers /\ "free" \notin JdDebuggers /\ "none" \notin JdVms

VARIABLES
  jdVm,      \* the Java processes
  jdBacklog, \* connections to the control socket that are not accepted yet
  jdList,    \* _jdwp_list
  jdTrk,     \* the trackers, each with the list it was told last
  jdDbg,     \* the debuggers' streams, with the number of fds[1]
  jdTable,   \* whose descriptor a number is
  jdOther,   \* numbers that other threads take for theirs
  jdPopping  \* the process whose out_fds.pop_back() comes next, or "none"

jdVars == <<jdVm, jdBacklog, jdList, jdTrk, jdDbg, jdTable, jdOther, jdPopping>>

\* said: what is in the control connection: nothing, a pid or something else.
\* fds: out_fds; write: FDE_WRITE is asked for.
JdwpTypeOK ==
  /\ jdVm \in [JdVms -> [st : {"off", "up", "ended"}, said : {"nothing", "pid", "junk"}]]
  /\ jdBacklog \in Seq(JdVms)
  /\ jdList \in Seq([vm : JdVms, pid : BOOLEAN, fds : Seq(JdDebuggers), write : BOOLEAN])
  /\ jdTrk \in [JdTrackers -> [st : {"none", "open", "once", "gone"}, told : Seq(JdVms)]]
  /\ jdDbg \in [JdDebuggers -> [st : {"none", "queued", "attached", "closed"},
                                num : JdNumbers \cup {0}, own : BOOLEAN]]
  /\ jdTable \in [JdNumbers -> {"free", "other"} \cup JdDebuggers]
  /\ jdOther \subseteq JdNumbers
  /\ jdPopping \in JdVms \cup {"none"}

JdwpInit ==
  /\ jdVm = [v \in JdVms |-> [st |-> "off", said |-> "nothing"]]
  /\ jdBacklog = <<>> /\ jdList = <<>>
  /\ jdTrk = [t \in JdTrackers |-> [st |-> "none", told |-> <<>>]]
  /\ jdDbg = [d \in JdDebuggers |-> [st |-> "none", num |-> 0, own |-> TRUE]]
  /\ jdTable = [n \in JdNumbers |-> "free"]
  /\ jdOther = {}
  /\ jdPopping = "none"

-----------------------------------------------------------------------------
(* The Java processes and the other threads *)

JdDials(v) ==
  /\ jdVm[v].st = "off"
  /\ jdVm' = [jdVm EXCEPT ![v].st = "up"]
  /\ jdBacklog' = Append(jdBacklog, v)
  /\ UNCHANGED <<jdList, jdTrk, jdDbg, jdTable, jdOther, jdPopping>>

JdSays(v, what) ==
  /\ jdVm[v] = [st |-> "up", said |-> "nothing"]
  /\ \/ \E i \in DOMAIN jdBacklog : jdBacklog[i] = v
     \/ \E i \in DOMAIN jdList : jdList[i].vm = v /\ ~jdList[i].pid
  /\ jdVm' = [jdVm EXCEPT ![v].said = what]
  /\ UNCHANGED <<jdBacklog, jdList, jdTrk, jdDbg, jdTable, jdOther, jdPopping>>

JdEnds(v) ==
  /\ jdVm[v].st = "up"
  /\ jdVm' = [jdVm EXCEPT ![v].st = "ended"]
  /\ UNCHANGED <<jdBacklog, jdList, jdTrk, jdDbg, jdTable, jdOther, jdPopping>>

JdLowest(n) == jdTable[n] = "free" /\ \A m \in JdNumbers : m < n => jdTable[m] # "free"

JdOtherOpens(n) ==
  /\ JdLowest(n) /\ jdOther = {}
  /\ jdTable' = [jdTable EXCEPT ![n] = "other"]
  /\ jdOther' = {n}
  /\ UNCHANGED <<jdVm, jdBacklog, jdList, jdTrk, jdDbg, jdPopping>>

\* By number: whatever has it now.
JdOtherCloses(n) ==
  /\ n \in jdOther
  /\ jdTable' = [jdTable EXCEPT ![n] = "free"]
  /\ jdOther' = {}
  /\ UNCHANGED <<jdVm, jdBacklog, jdList, jdTrk, jdDbg, jdPopping>>

-----------------------------------------------------------------------------
(* The list and the trackers *)

\* Positions of the processes whose pid is known
JdKnown(list) == {i \in DOMAIN list : list[i].pid}

\* The k-th smallest position of S
JdNth(S, k) == CHOOSE i \in S : Cardinality({j \in S : j <= i}) = k

\* jdwp_process_list: the processes with a pid, as many as fit
JdPids(list, max) ==
  LET known == JdKnown(list)
      n == Cardinality(known)
  IN  [k \in 1..(IF n < max THEN n ELSE max) |-> list[JdNth(known, k)].vm]

\* Mutant: only a new pid is worth a message.
JdUpdated_Added(list) ==
  jdTrk' = [t \in JdTrackers |-> IF jdTrk[t].st = "open" /\ Len(list) >= Len(jdList)
                                 THEN [jdTrk[t] EXCEPT !.told = JdPids(list, JdFits)]
                                 ELSE jdTrk[t]]

\* jdwp_process_list_updated
JdUpdated(list) ==
  jdTrk' = [t \in JdTrackers |-> IF jdTrk[t].st = "open"
                                 THEN [jdTrk[t] EXCEPT !.told = JdPids(list, JdFits)]
                                 ELSE jdTrk[t]]

\* create_jdwp_tracker_service_socket, connected at once, and its first
\* jdwp_tracker_ready
JdTrack(t) ==
  /\ jdPopping = "none"
  /\ jdTrk[t].st = "none"
  /\ jdTrk' = [jdTrk EXCEPT ![t] = [st |-> "open", told |-> JdPids(jdList, JdPacketFits)]]
  /\ UNCHANGED <<jdVm, jdBacklog, jdList, jdDbg, jdTable, jdOther, jdPopping>>

\* jdwp_tracker_close: the other side closed, or wrote (jdwp_tracker_enqueue).
JdTrackerClosed(t) ==
  /\ jdPopping = "none"
  /\ jdTrk[t].st = "open"
  /\ jdTrk' = [jdTrk EXCEPT ![t] = [st |-> "gone", told |-> <<>>]]
  /\ UNCHANGED <<jdVm, jdBacklog, jdList, jdDbg, jdTable, jdOther, jdPopping>>

\* The jdwp service: create_jdwp_service_socket and its first jdwp_socket_ready
\* send the list once.
JdListOnce(t) ==
  /\ jdPopping = "none"
  /\ jdTrk[t].st = "none"
  /\ jdTrk' = [jdTrk EXCEPT ![t] = [st |-> "once", told |-> JdPids(jdList, JdPacketFits)]]
  /\ UNCHANGED <<jdVm, jdBacklog, jdList, jdDbg, jdTable, jdOther, jdPopping>>

\* The second jdwp_socket_ready, or the other side, closes it.
JdListEnds(t) ==
  /\ jdPopping = "none"
  /\ jdTrk[t].st = "once"
  /\ jdTrk' = [jdTrk EXCEPT ![t] = [st |-> "gone", told |-> <<>>]]
  /\ UNCHANGED <<jdVm, jdBacklog, jdList, jdDbg, jdTable, jdOther, jdPopping>>

-----------------------------------------------------------------------------
(* The control socket and its connections *)

\* jdwp_control_event: a connection is accepted, or was aborted.
JdControlEvent ==
  /\ jdPopping = "none" /\ jdBacklog # <<>>
  /\ LET v == Head(jdBacklog)
     IN  \/ jdList' = Append(jdList, [vm |-> v, pid |-> FALSE, fds |-> <<>>, write |-> FALSE])
         \/ jdVm[v].st = "ended" /\ UNCHANGED jdList
  /\ jdBacklog' = Tail(jdBacklog)
  /\ UNCHANGED <<jdVm, jdTrk, jdDbg, jdTable, jdOther, jdPopping>>

\* CloseProcess: process i leaves the list; ~JdwpProcess closes what is in
\* out_fds, by number.
JdRemove(list, i, dbg, table) ==
  LET mine == {list[i].fds[k] : k \in DOMAIN list[i].fds}
  IN  /\ jdList' = RemoveAt(list, i)
      /\ JdUpdated(RemoveAt(list, i))
      /\ jdDbg' = [d \in JdDebuggers |-> IF d \in mine THEN [dbg[d] EXCEPT !.st = "closed", !.num = 0]
                                         ELSE dbg[d]]
      /\ jdTable' = [n \in JdNumbers |-> IF \E d \in mine : dbg[d].num = n THEN "free"
                                         ELSE table[n]]

JdCloseProcess(i) == JdRemove(jdList, i, jdDbg, jdTable)

\* FDE_READ before the pid is known
JdReadPid(i) ==
  /\ jdPopping = "none" /\ ~jdList[i].pid
  /\ LET v == jdList[i].vm
     IN  \/ /\ jdVm[v].said = "pid"
            /\ jdVm' = [jdVm EXCEPT ![v].said = "nothing"]
            /\ jdList' = [jdList EXCEPT ![i].pid = TRUE]
            /\ JdUpdated([jdList EXCEPT ![i].pid = TRUE])
            /\ UNCHANGED <<jdDbg, jdTable>>
         \/ /\ jdVm[v].said = "junk" \/ (jdVm[v].said = "nothing" /\ jdVm[v].st = "ended")
            /\ jdVm' = [jdVm EXCEPT ![v].said = "nothing"]
            /\ JdCloseProcess(i)
  /\ UNCHANGED <<jdBacklog, jdOther, jdPopping>>

\* FDE_READ after that: the end of the connection
JdReadEnd(i) ==
  /\ jdPopping = "none" /\ jdList[i].pid
  /\ jdVm[jdList[i].vm].st = "ended"
  /\ JdCloseProcess(i)
  /\ UNCHANGED <<jdVm, jdBacklog, jdOther, jdPopping>>

\* FDE_WRITE: the descriptor added last is sent, as whatever its number stands
\* for now, and closed; or the process is given up.
JdSendFd(i) ==
  /\ jdPopping = "none" /\ jdList[i].write /\ jdList[i].fds # <<>>
  /\ LET d == Last(jdList[i].fds)
         n == jdDbg[d].num
     IN  \/ /\ jdVm[jdList[i].vm].st = "up" /\ jdTable[n] # "free"
            /\ jdDbg' = [jdDbg EXCEPT ![d].st = "attached", ![d].own = jdTable[n] = d]
            /\ jdTable' = [jdTable EXCEPT ![n] = "free"]
            /\ jdPopping' = jdList[i].vm
            /\ UNCHANGED <<jdList, jdTrk>>
         \/ JdCloseProcess(i) /\ UNCHANGED jdPopping
  /\ UNCHANGED <<jdVm, jdBacklog, jdOther>>

\* Mutant: FDE_WRITE is taken back after every descriptor.
JdStillWrites_Never(fds) == FALSE

\* FDE_WRITE stays until out_fds is empty.
JdStillWrites(fds) == fds # <<>>

\* pop_back closes the number a second time.  The process is given up if its
\* socket cannot be made non-blocking again.
JdPop(i) ==
  /\ jdPopping = jdList[i].vm
  /\ LET d == Last(jdList[i].fds)
         rest == Front(jdList[i].fds)
         list == [jdList EXCEPT ![i].fds = rest, ![i].write = JdStillWrites(rest)]
         dbg == [jdDbg EXCEPT ![d].num = 0]
         table == [jdTable EXCEPT ![jdDbg[d].num] = "free"]
     IN  \/ jdList' = list /\ jdDbg' = dbg /\ jdTable' = table /\ UNCHANGED jdTrk
         \/ JdRemove(list, i, dbg, table)
  /\ jdPopping' = "none"
  /\ UNCHANGED <<jdVm, jdBacklog, jdOther>>

\* create_jdwp_connection_fd for the pid of v
JdOpen(d, v) ==
  /\ jdPopping = "none"
  /\ jdDbg[d].st = "none"
  /\ LET found == {i \in DOMAIN jdList : jdList[i].pid /\ jdList[i].vm = v}
     IN  \/ /\ found = {}
            /\ jdDbg' = [jdDbg EXCEPT ![d].st = "closed"]
            /\ UNCHANGED <<jdList, jdTable>>
         \/ \E i \in found, n \in JdNumbers :
              /\ JdLowest(n)
              /\ jdDbg' = [jdDbg EXCEPT ![d].st = "queued", ![d].num = n]
              /\ jdTable' = [jdTable EXCEPT ![n] = d]
              /\ jdList' = [jdList EXCEPT ![i].fds = Append(@, d),
                                          ![i].write = @ \/ Len(jdList[i].fds) = 0]
  /\ UNCHANGED <<jdVm, jdBacklog, jdTrk, jdOther, jdPopping>>

-----------------------------------------------------------------------------
JdMain ==
  \/ JdControlEvent
  \/ \E i \in DOMAIN jdList : JdReadPid(i) \/ JdReadEnd(i) \/ JdSendFd(i) \/ JdPop(i)

JdwpNext ==
  \/ JdMain
  \/ \E v \in JdVms : JdDials(v) \/ JdEnds(v) \/ \E w \in {"pid", "junk"} : JdSays(v, w)
  \/ \E t \in JdTrackers : JdTrack(t) \/ JdTrackerClosed(t) \/ JdListOnce(t) \/ JdListEnds(t)
  \/ \E d \in JdDebuggers, v \in JdVms : JdOpen(d, v)
  \/ \E n \in JdNumbers : JdOtherOpens(n) \/ JdOtherCloses(n)

JdwpSpec == JdwpInit /\ [][JdwpNext]_jdVars

\* The event loop of adbd runs.
JdwpFairness == WF_jdVars(JdMain)

JdwpFairSpec == JdwpSpec /\ JdwpFairness

-----------------------------------------------------------------------------
(* Properties *)

\* A tracker knows the processes: what it was told last is the list as it is,
\* whoever came or went since it connected, as far as it fits: in a packet when
\* it connects, later only in the 1024 bytes of jdwp_process_list_updated, after
\* which it may know fewer than before.
TrackersKnowProcesses ==
  \A t \in JdTrackers : jdTrk[t].st = "open" =>
    jdTrk[t].told \in {JdPids(jdList, JdFits), JdPids(jdList, JdPacketFits)}

\* A debugger's stream is handed to the process or closed, even if several are
\* waiting for one process or it ends meanwhile.
DebuggersSettle ==
  \A d \in JdDebuggers : (jdDbg[d].st = "queued") ~> (jdDbg[d].st \in {"attached", "closed"})

\* "it sends the file descriptor of the second socket directly to the JDWP
\* process with the help of sendmsg()" (jdwp_service.cpp, the description at
\* the top): what a process is sent for a debugger is that debugger's socket.
DebuggerSocketSent == \A d \in JdDebuggers : jdDbg[d].own
=============================================================================
