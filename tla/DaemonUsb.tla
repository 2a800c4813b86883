------------------------------ MODULE DaemonUsb ------------------------------
(***************************************************************************)
(* USB on the device (daemon/usb.cpp): one usb_handle over the FunctionFS  *)
(* endpoints serves one transport after another.  The open thread waits    *)
(* for open_new_connection, opens the endpoints and registers a transport; *)
(* the transport's threads read and write them until usb_ffs_kick puts     *)
(* /dev/null in their place; the last of the two threads calls             *)
(* usb_ffs_close, which asks for the next connection.                      *)
(***************************************************************************)
EXTENDS Integers, FiniteSets

CONSTANTS
  DuMaxT,     \* transports registered one after another, at most
  DuMaxKicks  \* bound on the kicks by other threads (the reconnect service)

ASSUME DaemonUsbAssumption == DuMaxT \in Nat \ {0} /\ DuMaxKicks \in Nat

VARIABLES
  duCable,   \* a host has the device configured
  duWanted,  \* open_new_connection
  duOpener,  \* the open thread: "wait", "init" (flag cleared), "register"
  duControl, \* ep0 is open
  duEp,      \* bulk_out and bulk_in: "none", "open", "null", or "stale", a
             \* number that usb_ffs_close has closed
  duT,       \* the transports
  duOther,   \* another thread inside kick_transport: step and transport
  duKicks    \* kicks by other threads so far

duVars == <<duCable, duWanted, duOpener, duControl, duEp, duT, duOther, duKicks>>

DuTs == 1..DuMaxT
DuEps == {"out", "in"}

\* st: on no list, pending_list, transport_list, removed.
\* rd, wr: its threads; refs: t->ref_count.
DuTransport ==
  [st : {"none", "pending", "listed", "gone"}, kicked : BOOLEAN, closed : BOOLEAN,
   rd : {"none", "read", "blocked", "kick", "unref", "over"},
   wr : {"none", "write", "kick", "unref", "over"}, refs : 0..2]

DaemonUsbTypeOK ==
  /\ duCable \in BOOLEAN /\ duWanted \in BOOLEAN /\ duControl \in BOOLEAN
  /\ duOpener \in {"wait", "init", "register"}
  /\ duEp \in [DuEps -> {"none", "open", "null", "stale"}]
  /\ duT \in [DuTs -> DuTransport]
  /\ duOther \in [pc : {"idle", "out", "in"}, t : 0..DuMaxT]
  /\ duKicks \in 0..DuMaxKicks

DaemonUsbInit ==
  /\ duCable \in BOOLEAN
  /\ duWanted = TRUE
  /\ duOpener = "wait"
  /\ duControl = FALSE
  /\ duEp = [e \in DuEps |-> "none"]
  /\ duT = [t \in DuTs |-> [st |-> "none", kicked |-> FALSE, closed |-> FALSE,
                            rd |-> "none", wr |-> "none", refs |-> 0]]
  /\ duOther = [pc |-> "idle", t |-> 0]
  /\ duKicks = 0

DuOpened == Cardinality({t \in DuTs : duT[t].st # "none"})

-----------------------------------------------------------------------------
(* usb_ffs_open_thread *)

DuWait ==
  /\ duOpener = "wait" /\ duWanted
  /\ DuOpened < DuMaxT
  /\ duOpener' = "init"
  /\ duWanted' = FALSE
  /\ UNCHANGED <<duCable, duControl, duEp, duT, duOther, duKicks>>

\* init_functionfs: descriptors are written only to a freshly opened ep0; an
\* endpoint that cannot be opened closes everything, a stale number included.
DuInit ==
  /\ duOpener = "init"
  /\ \/ /\ duOpener' = "register"
        /\ duControl' = TRUE
        /\ duEp' = [e \in DuEps |-> "open"]
     \/ /\ duOpener' = "init"
        /\ duControl' = FALSE
        /\ duEp' = [e \in DuEps |-> "none"]
  /\ UNCHANGED <<duCable, duWanted, duT, duOther, duKicks>>

\* register_usb_transport
DuRegister ==
  /\ duOpener = "register"
  /\ duT' = [duT EXCEPT ![DuOpened + 1].st = "pending"]
  /\ duOpener' = "wait"
  /\ UNCHANGED <<duCable, duWanted, duControl, duEp, duOther, duKicks>>

-----------------------------------------------------------------------------
(* The transport's threads *)

\* transport_registration_func
DuStart(t) ==
  /\ duT[t].st = "pending"
  /\ duT' = [duT EXCEPT ![t].st = "listed", ![t].rd = "read", ![t].wr = "write",
                        ![t].refs = 2]
  /\ UNCHANGED <<duCable, duWanted, duOpener, duControl, duEp, duOther, duKicks>>

\* usb_ffs_read: the call blocks on the endpoint it finds; /dev/null, opened
\* for writing only, gives an error.
DuRead(t) ==
  /\ duT[t].rd = "read"
  /\ duT' = [duT EXCEPT ![t].rd =
       IF duEp["out"] = "open" /\ duCable THEN "blocked" ELSE "kick"]
  /\ UNCHANGED <<duCable, duWanted, duOpener, duControl, duEp, duOther, duKicks>>

\* A packet arrives, which a dup2 over the number does not prevent.
DuArrive(t) ==
  /\ duT[t].rd = "blocked" /\ duCable
  /\ duT' = [duT EXCEPT ![t].rd = "read"]
  /\ UNCHANGED <<duCable, duWanted, duOpener, duControl, duEp, duOther, duKicks>>

\* The host is gone.
DuReadError(t) ==
  /\ duT[t].rd = "blocked" /\ ~duCable
  /\ duT' = [duT EXCEPT ![t].rd = "kick"]
  /\ UNCHANGED <<duCable, duWanted, duOpener, duControl, duEp, duOther, duKicks>>

\* usb_ffs_write fails; or the main thread, told by the read thread, ends
\* the write thread.  A write to /dev/null succeeds.
DuWriterEnds(t) ==
  /\ duT[t].wr = "write"
  /\ \/ duEp["in"] = "open" /\ ~duCable
     \/ duT[t].rd \in {"unref", "over"}
  /\ duT' = [duT EXCEPT ![t].wr = "kick"]
  /\ UNCHANGED <<duCable, duWanted, duOpener, duControl, duEp, duOther, duKicks>>

\* kick_transport at the end of a thread; transport_lock is free when no
\* other thread is inside.
DuKicks(t) == duT[t].st = "listed" /\ ~duT[t].kicked

DuNull(eps) == [e \in DuEps |-> IF e \in eps THEN "null" ELSE duEp[e]]

\* Mutant: the threads leave without kicking.
DuThreadKick_Never(t, who) ==
  /\ duT[t][who] = "kick"
  /\ duT' = [duT EXCEPT ![t] = [@ EXCEPT ![who] = "unref"]]
  /\ UNCHANGED <<duEp, duCable, duWanted, duOpener, duControl, duOther, duKicks>>

DuThreadKick(t, who) ==
  /\ duT[t][who] = "kick" /\ duOther.pc = "idle"
  /\ duT' = [duT EXCEPT ![t] = [@ EXCEPT ![who] = "unref",
                                         !.kicked = duT[t].kicked \/ DuKicks(t)]]
  /\ duEp' = IF DuKicks(t) THEN DuNull(DuEps) ELSE duEp
  /\ UNCHANGED <<duCable, duWanted, duOpener, duControl, duOther, duKicks>>

\* open_new_connection after usb_ffs_close.
DuAsks(last) == duWanted \/ last

\* transport_unref; the second thread calls usb_ffs_close, which leaves the
\* numbers of the closed endpoints in the handle.
DuUnref(t, who) ==
  /\ duT[t][who] = "unref"
  /\ LET last == duT[t].refs = 1
     IN /\ duT' = [duT EXCEPT ![t] = [@ EXCEPT ![who] = "over", !.refs = duT[t].refs - 1,
                                               !.closed = last]]
        /\ duEp' = IF last THEN [e \in DuEps |-> "stale"] ELSE duEp
        /\ duWanted' = DuAsks(last)
  /\ UNCHANGED <<duCable, duOpener, duControl, duOther, duKicks>>

\* The main thread removes and deletes the transport.
DuRemove(t) ==
  /\ duT[t].closed /\ duT[t].st = "listed"
  /\ duOther.pc = "idle"
  /\ duT' = [duT EXCEPT ![t].st = "gone"]
  /\ UNCHANGED <<duCable, duWanted, duOpener, duControl, duEp, duOther, duKicks>>

-----------------------------------------------------------------------------
(* Another thread kicks a transport, with transport_lock; usb_ffs_kick puts *)
(* /dev/null over one endpoint and then over the other.                    *)

DuOtherKick(t) ==
  /\ duOther.pc = "idle" /\ DuKicks(t)
  /\ duKicks < DuMaxKicks
  /\ duKicks' = duKicks + 1
  /\ duT' = [duT EXCEPT ![t].kicked = TRUE]
  /\ duOther' = [pc |-> "out", t |-> t]
  /\ UNCHANGED <<duCable, duWanted, duOpener, duControl, duEp>>

DuOtherDup ==
  /\ duOther.pc \in {"out", "in"}
  /\ duEp' = DuNull({duOther.pc})
  /\ duOther' = IF duOther.pc = "out" THEN [duOther EXCEPT !.pc = "in"]
                ELSE [pc |-> "idle", t |-> 0]
  /\ UNCHANGED <<duCable, duWanted, duOpener, duControl, duT, duKicks>>

DuPlug ==
  /\ duCable' = ~duCable
  /\ UNCHANGED <<duWanted, duOpener, duControl, duEp, duT, duOther, duKicks>>

-----------------------------------------------------------------------------
DuOpenerStep == DuWait \/ DuInit \/ DuRegister
DuThreads ==
  \E t \in DuTs : \/ DuStart(t) \/ DuRead(t) \/ DuReadError(t) \/ DuWriterEnds(t)
                  \/ DuRemove(t)
                  \/ \E who \in {"rd", "wr"} : DuThreadKick(t, who) \/ DuUnref(t, who)

DaemonUsbNext ==
  \/ DuOpenerStep \/ DuThreads \/ DuOtherDup \/ DuPlug
  \/ \E t \in DuTs : DuArrive(t) \/ DuOtherKick(t)

DaemonUsbSpec == DaemonUsbInit /\ [][DaemonUsbNext]_duVars

\* The threads run; the endpoints can be opened at last.
DaemonUsbFairness ==
  /\ WF_duVars(DuOpenerStep) /\ WF_duVars(DuThreads) /\ WF_duVars(DuOtherDup)
  /\ SF_duVars(DuInit /\ duOpener' = "register")

DaemonUsbFairSpec == DaemonUsbSpec /\ DaemonUsbFairness

-----------------------------------------------------------------------------
(* Properties *)

\* A kick works on the endpoints of its own transport: while a thread is
\* inside usb_ffs_kick they have been neither closed nor opened again for
\* the next transport, and the threads of two transports never use the
\* handle at the same time.
KickHitsOwnEndpoints ==
  /\ duOther.pc # "idle" =>
       ~duT[duOther.t].closed /\ \A t \in DuTs : t > duOther.t => duT[t].st = "none"
  /\ \A t, u \in DuTs :
       t < u /\ duT[u].st # "none" => duT[t].closed

\* After usb_ffs_close the open thread registers another transport.
ClosedIsReopened ==
  \A t \in DuTs : t < DuMaxT => (duT[t].closed ~> duT[t + 1].st # "none")
=============================================================================
