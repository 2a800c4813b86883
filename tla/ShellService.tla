---------------------------- MODULE ShellService ----------------------------
(***************************************************************************)
(* adb shell with the shell protocol: the client's stdin thread and        *)
(* read_and_dump (commandline.cpp), the packets of ShellProtocol, and on   *)
(* the device the thread that passes data between the protocol socket and  *)
(* the subprocess (shell_service.cpp), the subprocess, and the stream in   *)
(* between, which may break.                                               *)
(*                                                                         *)
(* "raw" subprocesses have one socket pair for stdin and stdout and one    *)
(* for stderr; "pty" ones have the PTY for all three.                      *)
(***************************************************************************)
EXTENDS Integers, Sequences, FiniteSets

CONSTANTS
  ShMaxOut,    \* units the subprocess writes to each output, at most
  ShMaxIn,     \* stdin packets of the client, at most
  ShPacket,    \* units in one stdin packet
  ShRoom,      \* units the subprocess's stdin holds
  ShWindow     \* packets on the way to the client, at most

ASSUME ShellServiceAssumption ==
  /\ {ShMaxOut, ShMaxIn} \subseteq Nat
  /\ {ShPacket, ShRoom, ShWindow} \subseteq Nat \ {0}

VARIABLES
  shMode,   \* SubprocessType
  shChild,  \* the subprocess
  shPipe,   \* units in its stdout, stderr and stdin
  shHeld,   \* outputs whose ends it, or a process it has started, holds open
  shSvc,    \* the subprocess thread
  shFds,    \* descriptors the thread has open
  shToDev,  \* packets on the way to the thread
  shToHost, \* packets on the way to the client
  shUp,     \* the stream between the two
  shCli     \* the client

shVars == <<shMode, shChild, shPipe, shHeld, shSvc, shFds, shToDev, shToHost, shUp, shCli>>

ShOutputs == {"out", "err"}
ShEnds == IF shMode = "raw" THEN ShOutputs ELSE {"out"}
ShPackets == {"stdin", "close", "out", "err", "exit", "exit126"}

\* left: input_bytes_left_; reads: the protocol socket is in the read set (if
\* not, stdin is in the write set); lost: outputs closed because something else
\* failed; ready: what select reported and is not handled yet.  took: units the
\* subprocess has read; typed: stdin packets of the client.
ShellServiceTypeOK ==
  /\ shMode \in {"raw", "pty"}
  /\ shChild \in [st : {"none", "runs", "zombie", "reaped"},
                  hup : BOOLEAN, wrote : [ShOutputs -> 0..ShMaxOut],
                  took : 0..(ShMaxIn * ShPacket)]
  /\ shPipe \in [{"out", "err", "in"} -> 0..(ShMaxOut + ShRoom)]
  /\ shHeld \subseteq ShOutputs
  /\ shSvc \in [pc : {"start", "select", "pass", "wait", "over"}, left : 0..ShPacket,
                reads : BOOLEAN, lost : SUBSET ShOutputs, ready : SUBSET {"out", "err", "proto", "in"}]
  /\ shFds \subseteq {"out", "err", "proto"}
  /\ shToDev \in Seq(ShPackets) /\ shToHost \in Seq(ShPackets)
  /\ shUp \in BOOLEAN
  /\ shCli \in [pc : {"runs", "done", "killed"}, sent : 0..ShMaxIn, typed : 0..ShMaxIn, open : BOOLEAN,
                got : [ShOutputs -> 0..(ShMaxOut + 1)], code : {"none", "exit", "exit126"}]

ShellServiceInit ==
  /\ shMode \in {"raw", "pty"}
  /\ shChild = [st |-> "none", hup |-> FALSE,
                 wrote |-> [o \in ShOutputs |-> 0], took |-> 0]
  /\ shPipe = [p \in {"out", "err", "in"} |-> 0]
  /\ shHeld = ShEnds
  /\ shSvc = [pc |-> "start", left |-> 0, reads |-> TRUE, lost |-> {}, ready |-> {}]
  /\ shFds = {}
  /\ shToDev = <<>> /\ shToHost = <<>>
  /\ shUp = TRUE
  /\ shCli = [pc |-> "runs", sent |-> 0, typed |-> 0, open |-> TRUE, got |-> [o \in ShOutputs |-> 0],
              code |-> "none"]

-----------------------------------------------------------------------------
(* StartSubprocess *)

\* ForkAndExec and StartThread
ShStart ==
  /\ shSvc.pc = "start"
  /\ shChild' = [shChild EXCEPT !.st = "runs"]
  /\ shSvc' = [shSvc EXCEPT !.pc = "select"]
  /\ shFds' = {"proto"} \cup ShEnds
  /\ UNCHANGED <<shMode, shPipe, shHeld, shToDev, shToHost, shUp, shCli>>

\* exec fails: ReportError puts a message and an exit packet in a pipe.
ShStartFails ==
  /\ shSvc.pc = "start"
  /\ shToHost' = <<"err", "exit126">>
  /\ shSvc' = [shSvc EXCEPT !.pc = "over"]
  /\ UNCHANGED <<shMode, shChild, shPipe, shHeld, shFds, shToDev, shUp, shCli>>

-----------------------------------------------------------------------------
(* The subprocess *)

\* Its end of the pipes, and the thread's, are open.
ShWrites(o) ==
  /\ shChild.st = "runs" /\ shChild.wrote[o] < ShMaxOut
  /\ o \in shFds \cap shHeld
  /\ shChild' = [shChild EXCEPT !.wrote[o] = @ + 1]
  /\ shPipe' = [shPipe EXCEPT ![o] = @ + 1]
  /\ UNCHANGED <<shMode, shHeld, shSvc, shFds, shToDev, shToHost, shUp, shCli>>

\* It may read its stdin or not.
ShReads ==
  /\ shChild.st = "runs" /\ shPipe["in"] > 0
  /\ shPipe' = [shPipe EXCEPT !["in"] = @ - 1]
  /\ shChild' = [shChild EXCEPT !.took = @ + 1]
  /\ UNCHANGED <<shMode, shHeld, shSvc, shFds, shToDev, shToHost, shUp, shCli>>

\* It ends by itself or because of SIGHUP.
ShExits ==
  /\ shChild.st = "runs"
  /\ shChild' = [shChild EXCEPT !.st = "zombie"]
  /\ UNCHANGED <<shMode, shPipe, shHeld, shSvc, shFds, shToDev, shToHost, shUp, shCli>>

\* The last end of an output is closed: the subprocess has exited, or has
\* closed it itself; processes it started may hold it longer than it does.
\* Stdin goes with stdout.  It makes no difference once the thread's own end
\* is closed.
ShReleases(o) ==
  /\ shChild.st # "none" /\ o \in shHeld \cap shFds
  /\ shHeld' = shHeld \ {o}
  /\ UNCHANGED <<shMode, shChild, shPipe, shSvc, shFds, shToDev, shToHost, shUp, shCli>>

-----------------------------------------------------------------------------
(* PassDataStreams, SelectLoop *)

\* What select finds: data or the end of a stream.
ShReady ==
  {o \in ShOutputs \cap shFds : shPipe[o] > 0 \/ o \notin shHeld}
    \cup (IF "proto" \in shFds /\ shSvc.reads /\ (shToDev # <<>> \/ ~shUp)
          THEN {"proto"} ELSE {})
    \cup (IF "out" \in shFds /\ ~shSvc.reads /\ (shPipe["in"] < ShRoom \/ "out" \notin shHeld)
          THEN {"in"} ELSE {})

\* The loop ends with the protocol socket or with both outputs.
ShGoesOn(fds) == "proto" \in fds /\ fds \cap ShOutputs # {}

ShSelect ==
  /\ shSvc.pc = "select" /\ ShGoesOn(shFds)
  /\ ShReady # {}
  /\ shSvc' = [shSvc EXCEPT !.pc = "pass", !.ready = ShReady]
  /\ UNCHANGED <<shMode, shChild, shPipe, shHeld, shFds, shToDev, shToHost, shUp, shCli>>

\* "select failed, closing subprocess pipes"
ShSelectFails ==
  /\ shSvc.pc = "select" /\ ShGoesOn(shFds)
  /\ shSvc' = [shSvc EXCEPT !.lost = ShOutputs]
  /\ shFds' = shFds \ ShOutputs
  /\ UNCHANGED <<shMode, shChild, shPipe, shHeld, shToDev, shToHost, shUp, shCli>>

\* A descriptor that failed or ended leaves SelectLoop at once.
ShDead(fd) ==
  /\ shSvc' = [shSvc EXCEPT !.pc = "select", !.ready = {}]
  /\ shFds' = IF fd = "proto" THEN {} ELSE shFds \ {fd}
  /\ shChild' = IF fd = "proto" THEN [shChild EXCEPT !.hup = TRUE] ELSE shChild

\* On to the next one that was reported.
ShHandled(fd, svc) ==
  /\ shSvc' = [svc EXCEPT !.ready = @ \ {fd},
                          !.pc = IF svc.ready = {fd} THEN "select" ELSE "pass"]
  /\ UNCHANGED <<shFds, shChild>>

\* Mutant: the end of one output is taken for the end of the subprocess.
ShOutputEnds_All(o) ==
  /\ shSvc' = [shSvc EXCEPT !.pc = "select", !.ready = {}]
  /\ shFds' = shFds \ ShOutputs
  /\ UNCHANGED <<shChild, shPipe, shToHost>>

ShOutputEnds(o) == ShDead(o) /\ UNCHANGED <<shPipe, shToHost>>

\* PassOutput; the write waits for room and fails if the stream is gone.
ShPassOutput(o) ==
  /\ shSvc.pc = "pass" /\ o \in shSvc.ready
  /\ o = "err" => "out" \notin shSvc.ready
  /\ \/ /\ shPipe[o] > 0 /\ shUp /\ Len(shToHost) < ShWindow
        /\ shPipe' = [shPipe EXCEPT ![o] = @ - 1]
        /\ shToHost' = Append(shToHost, o)
        /\ ShHandled(o, shSvc)
     \/ /\ shPipe[o] > 0 /\ ~shUp
        /\ shPipe' = [shPipe EXCEPT ![o] = @ - 1]
        /\ ShDead("proto") /\ UNCHANGED shToHost
     \/ /\ shPipe[o] = 0
        /\ ShOutputEnds(o)
  /\ UNCHANGED <<shMode, shHeld, shToDev, shUp, shCli>>

\* input_bytes_left_ after a write of n units
ShLeft(n) == n - (IF n < ShRoom - shPipe["in"] THEN n ELSE ShRoom - shPipe["in"])

\* An operation on stdin failed: the descriptor is closed, and stdout with it.
ShStdinDead ==
  /\ shSvc' = [shSvc EXCEPT !.pc = "select", !.ready = {}, !.left = 0, !.reads = TRUE,
                             !.lost = @ \cup {"out"}]
  /\ shFds' = shFds \ {"out"}
  /\ UNCHANGED <<shChild, shPipe>>

\* adb_write to the subprocess's stdin, of n units, for what select reported
\* on fd; it fails if the other end is closed.
ShWriteStdin(fd, n) ==
  IF "out" \notin shHeld
  THEN ShStdinDead
  ELSE /\ shPipe' = [shPipe EXCEPT !["in"] = IF @ + n < ShRoom THEN @ + n ELSE ShRoom]
       /\ ShHandled(fd, [shSvc EXCEPT !.left = ShLeft(n), !.reads = ShLeft(n) = 0])

\* PassInput for a new packet.  The end of stdin can fail to be passed on, by
\* adb_shutdown, which a PTY is not asked for.
ShPassInput ==
  /\ shSvc.pc = "pass" /\ "proto" \in shSvc.ready
  /\ shSvc.ready \cap ShOutputs = {}
  /\ IF shToDev = <<>>
     THEN ShDead("proto") /\ UNCHANGED <<shPipe, shToDev>>
     ELSE /\ shToDev' = Tail(shToDev)
          /\ IF Head(shToDev) = "stdin" /\ "out" \in shFds
             THEN ShWriteStdin("proto", ShPacket)
             ELSE \/ ShHandled("proto", shSvc) /\ UNCHANGED shPipe
                  \/ Head(shToDev) = "close" /\ shMode = "raw" /\ "out" \in shFds /\ ShStdinDead
  /\ UNCHANGED <<shMode, shHeld, shToHost, shUp, shCli>>

\* Mutant: the protocol socket stays out of the read set.
ShPassRest_Stuck ==
  /\ shSvc.pc = "pass" /\ shSvc.ready = {"in"}
  /\ shPipe' = [shPipe EXCEPT !["in"] = IF @ + shSvc.left < ShRoom THEN @ + shSvc.left ELSE ShRoom]
  /\ ShHandled("in", [shSvc EXCEPT !.left = ShLeft(shSvc.left)])
  /\ UNCHANGED <<shMode, shHeld, shToDev, shToHost, shUp, shCli>>

\* PassInput for the rest of a packet
ShPassRest ==
  /\ shSvc.pc = "pass" /\ shSvc.ready = {"in"}
  /\ ShWriteStdin("in", shSvc.left)
  /\ UNCHANGED <<shMode, shHeld, shToDev, shToHost, shUp, shCli>>

-----------------------------------------------------------------------------
(* WaitForExit *)

\* The loop is over; PassDataStreams has closed what it could.
ShLoopEnds ==
  /\ shSvc.pc = "select" /\ ~ShGoesOn(shFds)
  /\ shSvc' = [shSvc EXCEPT !.pc = "wait"]
  /\ UNCHANGED <<shMode, shChild, shPipe, shHeld, shFds, shToDev, shToHost, shUp, shCli>>

\* waitpid; the exit packet, if the protocol socket is open; all closed.
ShWaitForExit ==
  /\ shSvc.pc = "wait" /\ shChild.st = "zombie"
  /\ "proto" \in shFds /\ shUp => Len(shToHost) < ShWindow
  /\ shChild' = [shChild EXCEPT !.st = "reaped"]
  /\ shToHost' = IF "proto" \in shFds /\ shUp THEN Append(shToHost, "exit") ELSE shToHost
  /\ shSvc' = [shSvc EXCEPT !.pc = "over"]
  /\ shFds' = {}
  /\ UNCHANGED <<shMode, shPipe, shHeld, shToDev, shUp, shCli>>

-----------------------------------------------------------------------------
(* The client *)

\* stdin_read_thread_loop: data or the end of stdin.  (A new window size takes
\* the way of the latter, to an ioctl.)
ShSends(p) ==
  /\ shCli.pc = "runs" /\ shUp /\ shCli.open
  /\ shCli.sent < ShMaxIn
  /\ shToDev' = Append(shToDev, p)
  /\ shCli' = [shCli EXCEPT !.sent = @ + 1, !.open = p # "close",
                            !.typed = @ + (IF p = "stdin" THEN 1 ELSE 0)]
  /\ UNCHANGED <<shMode, shChild, shPipe, shHeld, shSvc, shFds, shToHost, shUp>>

\* read_and_dump
ShDumps ==
  /\ shCli.pc = "runs" /\ shToHost # <<>>
  /\ LET p == Head(shToHost)
     IN shCli' = IF p \in ShOutputs THEN [shCli EXCEPT !.got[p] = @ + 1]
                 ELSE [shCli EXCEPT !.code = p]
  /\ shToHost' = Tail(shToHost)
  /\ UNCHANGED <<shMode, shChild, shPipe, shHeld, shSvc, shFds, shToDev, shUp>>

\* The end of the stream: exit_code is 0 unless an exit packet has come.
ShReturns ==
  /\ shCli.pc = "runs" /\ shToHost = <<>>
  /\ shSvc.pc = "over" \/ ~shUp
  /\ shCli' = [shCli EXCEPT !.pc = "done"]
  /\ UNCHANGED <<shMode, shChild, shPipe, shHeld, shSvc, shFds, shToDev, shToHost, shUp>>

\* The client is killed, or leaves by an escape sequence.
ShKilled ==
  /\ shCli.pc = "runs"
  /\ shCli' = [shCli EXCEPT !.pc = "killed"]
  /\ shUp' = FALSE /\ shToHost' = <<>>
  /\ UNCHANGED <<shMode, shChild, shPipe, shHeld, shSvc, shFds, shToDev>>

\* The connection is lost with some of what is under way.
ShBreaks ==
  /\ shUp
  /\ shUp' = FALSE
  /\ \E n \in 0..Len(shToHost) : shToHost' = SubSeq(shToHost, 1, n)
  /\ \E n \in 0..Len(shToDev) : shToDev' = SubSeq(shToDev, 1, n)
  /\ UNCHANGED <<shMode, shChild, shPipe, shHeld, shSvc, shFds, shCli>>

-----------------------------------------------------------------------------
ShThread ==
  \/ ShStart \/ ShStartFails
  \/ ShSelect \/ ShPassInput \/ ShPassRest \/ ShLoopEnds \/ ShWaitForExit
  \/ \E o \in ShOutputs : ShPassOutput(o)

ShSubprocess == ShExits \/ ShReads \/ \E o \in ShOutputs : ShWrites(o) \/ ShReleases(o)

ShellServiceNext ==
  \/ ShThread \/ ShSelectFails \/ ShSubprocess
  \/ \E p \in {"stdin", "close"} : ShSends(p)
  \/ ShDumps \/ ShReturns \/ ShKilled \/ ShBreaks

ShellServiceSpec == ShellServiceInit /\ [][ShellServiceNext]_shVars

\* The thread and the client run.  The subprocess need not read, write or exit,
\* and select need not fail.
ShellServiceFairness ==
  WF_shVars(ShThread) /\ WF_shVars(ShDumps \/ ShReturns)

ShellServiceFairSpec == ShellServiceSpec /\ ShellServiceFairness

-----------------------------------------------------------------------------
(* Properties *)

\* The exit code comes last: a client that has it has everything that the
\* subprocess wrote to each output, but for an output that was closed because
\* something else failed: stdout with stdin, both with select.
OutputComplete ==
  shCli.code = "exit" =>
    /\ shChild.st = "reaped"
    /\ \A o \in ShOutputs \ shSvc.lost : shCli.got[o] = shChild.wrote[o]

\* No unit of stdin is lost or written twice while the stream is up and the
\* subprocess's stdin open, however little of a packet fits at a time.
StdinComplete ==
  shUp /\ "out" \in shFds =>
    shCli.typed * ShPacket =
      ShPacket * Cardinality({i \in DOMAIN shToDev : shToDev[i] = "stdin"})
        + shSvc.left + shPipe["in"] + shChild.took

\* What the two sides send each other arrives, and arrives once.
ShellComplete == OutputComplete /\ StdinComplete

\* A packet has not been written to stdin to its end: the protocol socket is out
\* of the read set until the subprocess reads.
ShWaitsForChild == ~shSvc.reads /\ shPipe["in"] = ShRoom

\* When the client is gone the subprocess gets SIGHUP, unless it has ended or
\* has closed an output itself, select failed, or it never again reads the
\* stdin that the rest of a packet waits for.  The constructor's comment,
\* "it's always monitoring the local socket FD with select()", leaves that out.
HangUpReachesChild ==
  ~shUp ~> \/ shChild.hup \/ shChild.st # "runs" \/ shHeld # ShEnds
           \/ shSvc.lost = ShOutputs
           \/ []ShWaitsForChild

=============================================================================
