------------------------------ MODULE UsbLinux ------------------------------
(***************************************************************************)
(* USB devices of the adb server on Linux (client/usb_linux.cpp, the host  *)
(* part of transport_usb.cpp): the thread that polls the bus, a usb_handle *)
(* with its two urbs, the read thread that reaps both, the write thread    *)
(* that waits on the handle's condition variable, and the three mutexes    *)
(* (g_usb_handles_mutex, h->mutex, transport_lock) they take.              *)
(*                                                                         *)
(* One port of the bus; each plugging gives the device a new name.  A      *)
(* handle stands for the usb_handle and for the atransport registered with *)
(* it.  A section under h->mutex that never waits inside is one step.      *)
(***************************************************************************)
EXTENDS Integers, FiniteSets

CONSTANTS
  UbHandles,   \* usb_handle objects ever allocated, numbered in that order
  UbNoHandle,  \* no handle
  UbMaxPlugs,  \* bound on how often the device is plugged in
  UbMaxKicks   \* bound on the kicks asked for by a client (adb reconnect)

ASSUME UsbLinuxAssumption ==
  /\ UbHandles \subseteq Nat /\ UbNoHandle \in Nat \ UbHandles
  /\ UbMaxPlugs \in Nat /\ UbMaxKicks \in Nat

VARIABLES
  ubPort,  \* the device at the port: its number and the access to it
  ubH,     \* the handles
  ubRd,    \* the read thread of each handle's transport
  ubWr,    \* its write thread
  ubPoll,  \* device_poll_thread: step, handles still to look at, current one
  ubMain,  \* the main thread: step, handles still to kick, current one
  ubG,     \* g_usb_handles_mutex is held
  ubTL,    \* transport_lock is held
  ubKicks  \* kicks asked for by a client so far

ubVars == <<ubPort, ubH, ubRd, ubWr, ubPoll, ubMain, ubG, ubTL, ubKicks>>

\* place: nowhere yet, on g_usb_handles, or deleted.
\* tr: where the transport is: on no list yet, pending_list, transport_list.
\* in, out: the urbs in the kernel; inOk, outOk: their status.
UbHandle ==
  [place : {"none", "listed", "deleted"}, dev : 0..UbMaxPlugs,
   writeable : BOOLEAN, mark : BOOLEAN, dead : BOOLEAN, locked : BOOLEAN,
   tr : {"none", "pending", "listed", "gone"}, kicked : BOOLEAN, refs : 0..2,
   in : {"idle", "submitted", "done"}, inOk : BOOLEAN,
   out : {"idle", "submitted", "done"}, outOk : BOOLEAN, outBusy : BOOLEAN,
   reaper : BOOLEAN, signal : BOOLEAN]

UbNew ==
  [place |-> "none", dev |-> 0, writeable |-> FALSE, mark |-> FALSE,
   dead |-> FALSE, locked |-> FALSE, tr |-> "none", kicked |-> FALSE,
   refs |-> 0, in |-> "idle", inOk |-> FALSE, out |-> "idle", outOk |-> FALSE,
   outBusy |-> FALSE, reaper |-> FALSE, signal |-> FALSE]

UbReaderPc == {"none", "read", "reap", "in", "out", "intr", "error",
               "kick", "kicking", "unref", "over"}
UbWriterPc == {"none", "idle", "wait", "kick", "kicking", "unref", "over"}
UbJob(pcs) == [pc : pcs, todo : SUBSET UbHandles, h : UbHandles \cup {UbNoHandle}]

UsbLinuxTypeOK ==
  /\ ubPort \in [dev : 0..UbMaxPlugs, access : {"none", "rw", "ro"}]
  /\ ubH \in [UbHandles -> UbHandle]
  /\ ubRd \in [UbHandles -> UbReaderPc]
  /\ ubWr \in [UbHandles -> UbWriterPc]
  /\ ubPoll \in UbJob({"scan", "pending", "gc", "each", "unregister"})
  /\ ubMain \in UbJob({"loop", "kicking", "each", "unregister", "exited"})
  /\ ubG \in BOOLEAN /\ ubTL \in BOOLEAN
  /\ ubKicks \in 0..UbMaxKicks

UsbLinuxInit ==
  /\ ubPort = [dev |-> 0, access |-> "none"]
  /\ ubH = [h \in UbHandles |-> UbNew]
  /\ ubRd = [h \in UbHandles |-> "none"]
  /\ ubWr = [h \in UbHandles |-> "none"]
  /\ ubPoll = [pc |-> "scan", todo |-> {}, h |-> UbNoHandle]
  /\ ubMain = [pc |-> "loop", todo |-> {}, h |-> UbNoHandle]
  /\ ubG = FALSE /\ ubTL = FALSE
  /\ ubKicks = 0

\* The device of h is still at the port.
UbPresent(h) == ubPort.access # "none" /\ ubPort.dev = ubH[h].dev

UbGoto(job, pc) == [job EXCEPT !.pc = pc]

-----------------------------------------------------------------------------
(* The bus and the kernel *)

UbPlug(access) ==
  /\ ubPort.access = "none" /\ ubPort.dev < UbMaxPlugs
  /\ ubPort' = [dev |-> ubPort.dev + 1, access |-> access]
  /\ UNCHANGED <<ubH, ubRd, ubWr, ubPoll, ubMain, ubG, ubTL, ubKicks>>

\* Transfers under way end with an error.
UbUnplug ==
  /\ ubPort.access # "none"
  /\ ubPort' = [ubPort EXCEPT !.access = "none"]
  /\ ubH' = [h \in UbHandles |->
       IF ~UbPresent(h) THEN ubH[h]
       ELSE [ubH[h] EXCEPT !.in = IF @ = "submitted" THEN "done" ELSE @,
                           !.out = IF @ = "submitted" THEN "done" ELSE @]]
  /\ UNCHANGED <<ubRd, ubWr, ubPoll, ubMain, ubG, ubTL, ubKicks>>

\* The device sends, or takes, the data of a transfer.
UbTransfer(h) ==
  /\ UbPresent(h)
  /\ \/ /\ ubH[h].in = "submitted"
        /\ ubH' = [ubH EXCEPT ![h].in = "done", ![h].inOk = TRUE]
     \/ /\ ubH[h].out = "submitted"
        /\ ubH' = [ubH EXCEPT ![h].out = "done", ![h].outOk = TRUE]
  /\ UNCHANGED <<ubPort, ubRd, ubWr, ubPoll, ubMain, ubG, ubTL, ubKicks>>

-----------------------------------------------------------------------------
(* usb_kick and kick_transport *)

\* Mutant: the transfers are not discarded; the signal is relied upon.
UbKicked_Keep(r, lost) ==
  [r EXCEPT !.dead = TRUE, !.signal = r.reaper /\ ~lost, !.outBusy = FALSE]

\* usb_kick of a writeable handle.  The signal is lost when it comes between
\* the reader's unlock and its ioctl.
UbKicked(r, lost) ==
  [r EXCEPT !.dead = TRUE,
            !.signal = r.reaper /\ ~lost,
            !.in = IF @ = "submitted" THEN "done" ELSE @, !.inOk = FALSE,
            !.out = IF @ = "submitted" THEN "done" ELSE @, !.outOk = FALSE,
            !.outBusy = FALSE]

\* The part of usb_kick that does not wait.
UsbKick(h) ==
  \E lost \in BOOLEAN :
    ubH' = [ubH EXCEPT ![h] = IF @.dead THEN @ ELSE UbKicked(ubH[h], lost)]

\* usb_kick of h would call unregister_usb_transport.
UbUnregisters(h) == ~ubH[h].writeable /\ ~ubH[h].dead

\* kick_transport takes transport_lock and goes on to Kick.
UbKicks(h) == ubH[h].tr = "listed" /\ ~ubH[h].kicked

\* Write holds write_msg_lock_, which Kick takes with transport_lock in hand.
UbWriting(h) == ubWr[h] = "wait"

-----------------------------------------------------------------------------
(* The read thread: usb_read, usb_bulk_read *)

\* Submit the IN urb and go to reap, or fail.
UbRead(h) ==
  /\ ubRd[h] = "read"
  /\ \/ /\ ubH[h].dead \/ ~UbPresent(h)
        /\ ubRd' = [ubRd EXCEPT ![h] = "kick"]
        /\ UNCHANGED ubH
     \/ /\ ~ubH[h].dead /\ UbPresent(h)
        /\ ubRd' = [ubRd EXCEPT ![h] = "reap"]
        /\ ubH' = [ubH EXCEPT ![h].in = "submitted", ![h].inOk = FALSE,
                              ![h].reaper = TRUE]
  /\ UNCHANGED <<ubPort, ubWr, ubPoll, ubMain, ubG, ubTL, ubKicks>>

\* ioctl(USBDEVFS_REAPURB), without the lock.  Of a device that is gone the
\* kernel hands over what had completed, or refuses the call.
UbReap(h) ==
  /\ ubRd[h] = "reap"
  /\ \/ /\ ubH[h].in = "done"
        /\ ubRd' = [ubRd EXCEPT ![h] = "in"]
        /\ ubH' = [ubH EXCEPT ![h].in = "idle"]
     \/ /\ ubH[h].out = "done"
        /\ ubRd' = [ubRd EXCEPT ![h] = "out"]
        /\ ubH' = [ubH EXCEPT ![h].out = "idle"]
     \/ /\ ubH[h].signal
        /\ ubRd' = [ubRd EXCEPT ![h] = "intr"]
        /\ ubH' = [ubH EXCEPT ![h].signal = FALSE]
     \/ /\ ~UbPresent(h)
        /\ ubRd' = [ubRd EXCEPT ![h] = "error"]
        /\ UNCHANGED ubH
  /\ UNCHANGED <<ubPort, ubWr, ubPoll, ubMain, ubG, ubTL, ubKicks>>

\* The lock again: give up when dead; a read packet goes to the main thread
\* and the next is read; an OUT completion is passed to the writer.
UbReaped(h) ==
  /\ ubRd[h] \in {"in", "out", "intr", "error"}
  /\ LET next == IF ubH[h].dead \/ ubRd[h] = "error" THEN "kick"
                 ELSE IF ubRd[h] = "in" THEN IF ubH[h].inOk THEN "read" ELSE "kick"
                 ELSE "reap"
     IN /\ ubRd' = [ubRd EXCEPT ![h] = next]
        /\ ubH' = [ubH EXCEPT ![h].reaper = (next = "reap"),
                              ![h].signal = FALSE, ![h].inOk = FALSE,
                              ![h].outBusy = @ /\ ~(ubRd[h] = "out" /\ next = "reap")]
  /\ UNCHANGED <<ubPort, ubWr, ubPoll, ubMain, ubG, ubTL, ubKicks>>

-----------------------------------------------------------------------------
(* The write thread: usb_write, usb_bulk_write *)

UbWrite(h) ==
  /\ ubWr[h] = "idle"
  /\ \/ /\ ubH[h].dead \/ ~UbPresent(h)
        /\ ubWr' = [ubWr EXCEPT ![h] = "kick"]
        /\ UNCHANGED ubH
     \/ /\ ~ubH[h].dead /\ UbPresent(h)
        /\ ubWr' = [ubWr EXCEPT ![h] = "wait"]
        /\ ubH' = [ubH EXCEPT ![h].out = "submitted", ![h].outOk = FALSE,
                              ![h].outBusy = TRUE]
  /\ UNCHANGED <<ubPort, ubRd, ubPoll, ubMain, ubG, ubTL, ubKicks>>

\* Woken by the reader or by usb_kick.
UbWoken(h) ==
  /\ ubWr[h] = "wait"
  /\ ubH[h].dead \/ ~ubH[h].outBusy
  /\ ubWr' = [ubWr EXCEPT ![h] =
                IF ~ubH[h].dead /\ ubH[h].outOk THEN "idle" ELSE "kick"]
  /\ ubH' = [ubH EXCEPT ![h].outOk = FALSE]
  /\ UNCHANGED <<ubPort, ubRd, ubPoll, ubMain, ubG, ubTL, ubKicks>>

\* Five seconds without an answer.
UbTimeout(h) ==
  /\ ubWr[h] = "wait"
  /\ ubWr' = [ubWr EXCEPT ![h] = "kick"]
  /\ UNCHANGED <<ubPort, ubH, ubRd, ubPoll, ubMain, ubG, ubTL, ubKicks>>

\* The main thread, told by the read thread that t is offline, has passed
\* SYNC(0,0) on; the read thread may still be about to kick t.
UbWriterEof(h) ==
  /\ ubWr[h] = "idle"
  /\ ubRd[h] \in {"kick", "kicking", "unref", "over"}
  /\ ubWr' = [ubWr EXCEPT ![h] = "kick"]
  /\ UNCHANGED <<ubPort, ubH, ubRd, ubPoll, ubMain, ubG, ubTL, ubKicks>>

-----------------------------------------------------------------------------
(* The end of both threads: kick_transport, transport_unref *)

UbThread(h, pc, from, to) ==
  \/ ubRd[h] = pc /\ ubRd' = [ubRd EXCEPT ![h] = to] /\ UNCHANGED ubWr /\ from = "r"
  \/ ubWr[h] = pc /\ ubWr' = [ubWr EXCEPT ![h] = to] /\ UNCHANGED ubRd /\ from = "w"

\* Mutant: the thread does not kick.
UbThreadKick_Never(h, who) ==
  /\ UbThread(h, "kick", who, "unref")
  /\ UNCHANGED <<ubH, ubTL, ubPort, ubPoll, ubMain, ubG, ubKicks>>

UbThreadKick(h, who) ==
  /\ ~ubTL
  /\ UbThread(h, "kick", who, IF UbKicks(h) THEN "kicking" ELSE "unref")
  /\ ubTL' = UbKicks(h)
  /\ ubH' = [ubH EXCEPT ![h].kicked = @ \/ UbKicks(h)]
  /\ UNCHANGED <<ubPort, ubPoll, ubMain, ubG, ubKicks>>

UbThreadKicking(h, who) ==
  /\ ~UbWriting(h) /\ ~ubH[h].locked
  /\ UbThread(h, "kicking", who, "unref")
  /\ UsbKick(h)
  /\ ubTL' = FALSE
  /\ UNCHANGED <<ubPort, ubPoll, ubMain, ubG, ubKicks>>

\* usb_close takes the handle off g_usb_handles and deletes it; this ends its
\* transfers.
UbClosed(r) ==
  [UbNew EXCEPT !.place = "deleted", !.tr = r.tr, !.kicked = r.kicked]

\* transport_unref: the second of the two closes.
UbUnref(h, who) ==
  /\ UbThread(h, "unref", who, "over")
  /\ ubH[h].refs = 1 => ~ubG
  /\ ubH' = [ubH EXCEPT ![h] = IF ubH[h].refs = 1 THEN UbClosed(ubH[h])
                               ELSE [ubH[h] EXCEPT !.refs = ubH[h].refs - 1]]
  /\ UNCHANGED <<ubPort, ubPoll, ubMain, ubG, ubTL, ubKicks>>

-----------------------------------------------------------------------------
(* device_poll_thread *)

\* find_usb_device: a known device is marked, one that cannot be opened or
\* claimed is passed over ...
UbScan ==
  /\ ubPoll.pc = "scan" /\ ~ubG
  /\ ubH' = [h \in UbHandles |->
       IF ubH[h].place = "listed" /\ UbPresent(h) THEN [ubH[h] EXCEPT !.mark = TRUE]
       ELSE ubH[h]]
  /\ ubPoll' = UbGoto(ubPoll, "gc")
  /\ UNCHANGED <<ubPort, ubRd, ubWr, ubMain, ubG, ubTL, ubKicks>>

\* ... and a new one gets a handle (register_device).
UbScanNew(h) ==
  /\ ubPoll.pc = "scan" /\ ~ubG
  /\ ubPort.access # "none"
  /\ \A g \in UbHandles : ubH[g].place = "listed" => ~UbPresent(g)
  /\ ubH[h].place = "none" /\ \A g \in UbHandles : g < h => ubH[g].place # "none"
  /\ ubH' = [ubH EXCEPT ![h] = [UbNew EXCEPT
       !.place = "listed", !.dev = ubPort.dev, !.mark = TRUE,
       !.writeable = (ubPort.access = "rw")]]
  /\ ubPoll' = [pc |-> "pending", todo |-> {}, h |-> h]
  /\ UNCHANGED <<ubPort, ubRd, ubWr, ubMain, ubG, ubTL, ubKicks>>

\* register_usb_transport
UbPending ==
  /\ ubPoll.pc = "pending"
  /\ ~ubTL
  /\ ubH' = [ubH EXCEPT ![ubPoll.h].tr = "pending"]
  /\ ubPoll' = UbGoto(ubPoll, "gc")
  /\ UNCHANGED <<ubPort, ubRd, ubWr, ubMain, ubG, ubTL, ubKicks>>

\* The handles of hs up to the first that usb_kick would unregister.
UbBefore(hs) ==
  {h \in hs : \A g \in hs : ~ubH[g].mark /\ UbUnregisters(g) => h < g}

\* kick_disconnected_devices, g_usb_handles_mutex in hand, over the handles
\* hs in the order of the list: what is not marked is kicked.
UbGcRun(hs) ==
  LET run == UbBefore(hs)
      left == hs \ run
  IN \E lost \in [run -> BOOLEAN] :
       LET swept == [h \in UbHandles |->
             IF h \notin run \/ ubH[h].dead THEN [ubH[h] EXCEPT !.mark = @ /\ h \notin run]
             ELSE IF ubH[h].mark THEN [ubH[h] EXCEPT !.mark = FALSE]
             ELSE UbKicked(ubH[h], lost[h])]
       IN IF left = {}
          THEN /\ ubH' = swept
               /\ ubG' = FALSE
               /\ ubPoll' = [pc |-> "scan", todo |-> {}, h |-> UbNoHandle]
          ELSE \E stop \in left :
                 /\ \A g \in left : stop <= g
                 /\ ~ubH[stop].locked
                 /\ ubH' = [swept EXCEPT ![stop].dead = TRUE, ![stop].locked = TRUE]
                 /\ ubG' = TRUE
                 /\ ubPoll' = [pc |-> "unregister", todo |-> left \ {stop}, h |-> stop]

UbGc ==
  /\ \/ ubPoll.pc = "gc" /\ ~ubG /\ UbGcRun({h \in UbHandles : ubH[h].place = "listed"})
     \/ ubPoll.pc = "each" /\ UbGcRun(ubPoll.todo)
  /\ UNCHANGED <<ubPort, ubRd, ubWr, ubMain, ubTL, ubKicks>>

\* unregister_usb_transport, h->mutex and g_usb_handles_mutex in hand: only
\* transport_list is searched.
UbGcUnregister ==
  /\ ubPoll.pc = "unregister"
  /\ ~ubTL
  /\ ubH' = [ubH EXCEPT ![ubPoll.h].locked = FALSE,
                        ![ubPoll.h].tr = IF @ = "listed" THEN "gone" ELSE @]
  /\ ubPoll' = [ubPoll EXCEPT !.pc = "each", !.h = UbNoHandle]
  /\ UNCHANGED <<ubPort, ubRd, ubWr, ubMain, ubG, ubTL, ubKicks>>

-----------------------------------------------------------------------------
(* The main thread *)

\* transport_registration_func: the transport is listed; an accessible
\* device gets its threads.
UbRegister(h) ==
  /\ ubMain.pc = "loop" /\ ~ubTL
  /\ ubH[h].tr = "pending"
  /\ ubH' = [ubH EXCEPT ![h].tr = "listed",
                        ![h].refs = IF ubH[h].writeable THEN 2 ELSE 0]
  /\ ubRd' = [ubRd EXCEPT ![h] = IF ubH[h].writeable THEN "read" ELSE @]
  /\ ubWr' = [ubWr EXCEPT ![h] = IF ubH[h].writeable THEN "idle" ELSE @]
  /\ UNCHANGED <<ubPort, ubPoll, ubMain, ubG, ubTL, ubKicks>>

\* The same for the "remove" message.
UbRemove(h) ==
  /\ ubMain.pc = "loop" /\ ~ubTL
  /\ ubH[h].tr = "listed" /\ ubH[h].place = "deleted"
  /\ ubRd[h] = "over" /\ ubWr[h] = "over"
  /\ ubH' = [ubH EXCEPT ![h].tr = "gone"]
  /\ UNCHANGED <<ubPort, ubRd, ubWr, ubPoll, ubMain, ubG, ubTL, ubKicks>>

\* adb reconnect: acquire_one_transport never returns an inaccessible device.
UbReconnect(h) ==
  /\ ubMain.pc = "loop" /\ ~ubTL
  /\ ubKicks < UbMaxKicks
  /\ ubH[h].writeable /\ UbKicks(h)
  /\ ubKicks' = ubKicks + 1
  /\ ubH' = [ubH EXCEPT ![h].kicked = TRUE]
  /\ ubTL' = TRUE
  /\ ubMain' = [ubMain EXCEPT !.pc = "kicking", !.h = h]
  /\ UNCHANGED <<ubPort, ubRd, ubWr, ubPoll, ubG>>

\* adb_server_cleanup calls kick_all_transports.
UbExit ==
  /\ ubMain.pc = "loop" /\ ~ubTL
  /\ ubTL' = TRUE
  /\ ubMain' = [pc |-> "each", h |-> UbNoHandle,
                todo |-> {h \in UbHandles : ubH[h].tr = "listed"}]
  /\ UNCHANGED <<ubPort, ubH, ubRd, ubWr, ubPoll, ubG, ubKicks>>

\* Kick of one transport; usb_kick of an inaccessible one wants
\* transport_lock, which this thread holds.
UbExitEach(h) ==
  /\ ubMain.pc = "each" /\ h \in ubMain.todo
  /\ \/ /\ ubH[h].kicked
        /\ UNCHANGED ubH
        /\ ubMain' = [ubMain EXCEPT !.todo = @ \ {h}]
     \/ /\ ~ubH[h].kicked /\ ~UbWriting(h) /\ ~ubH[h].locked
        /\ IF UbUnregisters(h)
           THEN /\ ubH' = [ubH EXCEPT ![h].kicked = TRUE, ![h].dead = TRUE,
                                      ![h].locked = TRUE]
                /\ ubMain' = [pc |-> "unregister", todo |-> ubMain.todo \ {h}, h |-> h]
           ELSE /\ \E lost \in BOOLEAN :
                     ubH' = [ubH EXCEPT ![h] =
                       [(IF @.dead THEN @ ELSE UbKicked(ubH[h], lost)) EXCEPT !.kicked = TRUE]]
                /\ ubMain' = [ubMain EXCEPT !.todo = @ \ {h}]
  /\ UNCHANGED <<ubPort, ubRd, ubWr, ubPoll, ubG, ubTL, ubKicks>>

UbExitEnd ==
  /\ ubMain.pc = "each" /\ ubMain.todo = {}
  /\ ubTL' = FALSE
  /\ ubMain' = UbGoto(ubMain, "exited")
  /\ UNCHANGED <<ubPort, ubH, ubRd, ubWr, ubPoll, ubG, ubKicks>>

\* usb_kick for the transport of adb reconnect.
UbKicking ==
  /\ ubMain.pc = "kicking"
  /\ ~UbWriting(ubMain.h) /\ ~ubH[ubMain.h].locked
  /\ UsbKick(ubMain.h)
  /\ ubTL' = FALSE
  /\ ubMain' = [ubMain EXCEPT !.pc = "loop", !.h = UbNoHandle]
  /\ UNCHANGED <<ubPort, ubRd, ubWr, ubPoll, ubG, ubKicks>>

-----------------------------------------------------------------------------
UbEnvironment ==
  \/ \E a \in {"rw", "ro"} : UbPlug(a)
  \/ UbUnplug
  \/ \E h \in UbHandles : UbTransfer(h) \/ UbReconnect(h)
  \/ UbExit

UbReader(h) ==
  UbRead(h) \/ UbReap(h) \/ UbReaped(h) \/ UbThreadKick(h, "r")
  \/ UbThreadKicking(h, "r") \/ UbUnref(h, "r")

\* The write thread's own steps; a packet to write comes from elsewhere.
UbWriter(h) ==
  UbWoken(h) \/ UbTimeout(h) \/ UbWriterEof(h) \/ UbThreadKick(h, "w")
  \/ UbThreadKicking(h, "w") \/ UbUnref(h, "w")

UbPoller ==
  \/ UbScan \/ (\E h \in UbHandles : UbScanNew(h))
  \/ UbPending \/ UbGc \/ UbGcUnregister

UbMainThread ==
  \/ \E h \in UbHandles : UbRegister(h) \/ UbRemove(h) \/ UbExitEach(h)
  \/ UbExitEnd \/ UbKicking

\* A step of a thread that holds transport_lock and wants write_msg_lock_.
UbHeldKick ==
  \/ UbKicking
  \/ \E h \in UbHandles : UbExitEach(h) \/ \E who \in {"r", "w"} : UbThreadKicking(h, who)

UsbLinuxNext ==
  \/ UbEnvironment
  \/ \E h \in UbHandles : UbReader(h) \/ UbWrite(h) \/ UbWriter(h)
  \/ UbPoller
  \/ UbMainThread

UsbLinuxSpec == UsbLinuxInit /\ [][UsbLinuxNext]_ubVars

\* The threads run, a mutex is not withheld from one of them for ever, and
\* opening a device that is there does not fail for ever.
UsbLinuxFairness ==
  /\ \A h \in UbHandles : WF_ubVars(UbReader(h)) /\ WF_ubVars(UbWriter(h))
  /\ WF_ubVars(UbPoller) /\ WF_ubVars(UbMainThread)
  /\ SF_ubVars(UbHeldKick)
  /\ SF_ubVars(\E h \in UbHandles : UbScanNew(h))

UsbLinuxFairSpec == UsbLinuxSpec /\ UsbLinuxFairness

-----------------------------------------------------------------------------
(* Properties *)

UbExiting == ubMain.pc \in {"each", "unregister", "exited"}

\* No thread is left with a deleted usb_handle: not the transport's own
\* threads, not the poll thread inside kick_disconnected_devices, not the
\* main thread inside kick_transport or kick_all_transports.
UsbHandleAlive ==
  /\ \A h \in UbHandles :
       ubRd[h] \notin {"none", "over"} \/ ubWr[h] \notin {"none", "over"}
         => ubH[h].place = "listed"
  /\ \A h \in ubPoll.todo : ubH[h].place = "listed"
  /\ ubMain.pc = "kicking" => ubH[ubMain.h].place = "listed"
  /\ \A h \in ubMain.todo : ubH[h].kicked \/ ubH[h].place = "listed"

\* A handle that was kicked, by the client, by the poll thread or after an
\* error, is closed although its reader may have missed the signal; a device
\* that can be opened has a working handle again in the end; and an exiting
\* server gets through kick_all_transports, which holds transport_lock, unless
\* it meets an inaccessible device there, whose usb_kick, its own or that of the
\* poll thread, has the mutex of the handle and wants transport_lock.
UsbRecovers ==
  /\ \A h \in UbHandles :
       (ubH[h].dead /\ ubH[h].writeable) ~> (ubH[h].place = "deleted" \/ UbExiting)
  /\ (ubPort.access = "rw") ~>
       \/ ubPort.access # "rw" \/ UbExiting
       \/ \A h \in UbHandles : ubH[h].place # "none"
       \/ \E h \in UbHandles : ubH[h].place = "listed" /\ ~ubH[h].dead
                               /\ ubH[h].tr = "listed" /\ UbPresent(h)
  /\ (ubMain.pc = "each") ~>
       (ubMain.pc = "exited" \/ \E h \in UbHandles : ubH[h].locked /\ ~ubH[h].writeable)
=============================================================================
